----------------------------- MODULE AppProofs ------------------------------
(***************************************************************************)
(* Theorems about AppCalls, for every set of accounts, programs, groups    *)
(* and direct calls, every fee and every depth of inner transactions.      *)
(*                                                                         *)
(* The invariant CallInv says what the two ledgers and the stack of calls  *)
(* are: which frames may be at which depth, and what each has to do with   *)
(* the frame below it.  It has to follow the applications that are still   *)
(* to come, whose addresses nobody may act for: the account of an address  *)
(* is made anew when its application is created.                           *)
(*                                                                         *)
(* Exceptions end a call anywhere on the stack.  What a step can do to the *)
(* stack is stated once (ProgramShape, NextTxIs, Moves), and each property *)
(* is proved from that.  Those about budgets and fees follow what is still *)
(* to come on the whole stack: the transactions ahead in all groups.       *)
(*                                                                         *)
(* Minimum balances and schemas hold of a store that only groups change: a *)
(* direct call that fails leaves what it wrote.  Their theorems have that  *)
(* as a hypothesis, and what is left without it is proved beside them.     *)
(***************************************************************************)
EXTENDS AppCalls, LedgerProofs, SequenceTheorems

-----------------------------------------------------------------------------
(* Sound ledgers                                                           *)

\* The types of a ledger with applications.
AppState ==
  [acct   : SUBSET Addr,
   amt    : [Addr -> Int],
   min    : [Addr -> Int],
   auth   : [Addr -> Addr],
   opted  : [Addr -> SUBSET Asset],
   units  : [Addr -> [Asset -> Nat]],
   frozen : [Addr -> SUBSET Asset],
   live   : SUBSET Asset,
   def    : [Asset -> Definition],
   ctr    : 0..MaxAsset,
   owner  : [App -> Addr \cup {NoAddr}],
   made   : [Addr -> SUBSET App],
   app    : [App -> Code],
   keys   : [App -> SUBSET Key],
   joined : [Addr -> SUBSET App],
   local  : [Addr -> [App -> SUBSET Key]],
   apps   : 0..MaxApp,
   names  : SUBSET Name]

\* The addresses of applications that do not exist yet.
Unborn(s) == {AppAddress[n] : n \in (s.apps + 1)..MaxApp}

\* Programs that can be run.
Runnable(d) ==
  /\ {d.approval, d.clear} \subseteq DOMAIN Body
  /\ ClearsTidy => NoPuts(Body[d.clear])

\* Nobody acts for an address before its application exists.
UnbornUntouched(s) ==
  \A a \in Unborn(s) :
    s.auth[a] = a /\ s.made[a] = {} /\ s.joined[a] = {}

\* A ledger between two handlers.
AppSound(s) ==
  /\ s \in AppState
  /\ AppsRegistered(s)
  /\ \A a \in Addr : s.joined[a] \subseteq 1..s.apps
  /\ \A n \in App : s.owner[n] # NoAddr => Runnable(s.app[n])
  /\ UnbornUntouched(s)

\* t differs from s in what concerns applications only.
Same(s, t) == t.amt = s.amt /\ t.auth = s.auth /\ t.apps = s.apps

\* The numbers given out are numbers of applications.
LEMMA AppNumbers ==
  ASSUME NEW s, AppSound(s)
  PROVE  s.apps \in Nat /\ s.apps <= MaxApp /\ (1..s.apps) \subseteq App
BY AppLedgerAssumption DEF AppSound, AppState, App


\* Addresses without an application are addresses of applications.
LEMMA UnbornAre ==
  ASSUME NEW s, AppSound(s)
  PROVE  Unborn(s) \subseteq Addr /\ Unborn(s) \subseteq Range(AppAddress)
BY AppNumbers, AppLedgerAssumption DEF AppLedgerAssumption, Unborn, Range

\* The register, the numbers that accounts opted in to, the programs of
\* applications and the addresses without one: what soundness says of a ledger
\* that has its types.
LEMMA SoundBy ==
  ASSUME NEW s, AppSound(s), NEW t \in AppState, Same(s, t),
         \A a \in Addr : t.made[a] = s.made[a], t.owner = s.owner,
         \A a \in Addr : t.joined[a] \subseteq 1..s.apps,
         \A a \in Unborn(s) : t.joined[a] = {},
         \A n \in App : s.owner[n] # NoAddr => Runnable(t.app[n])
  PROVE  AppSound(t)
<1>1. AppsRegistered(t)
  BY DEF AppSound, AppsRegistered, Same
<1>2. Unborn(t) = Unborn(s)
  BY DEF Unborn, Same
<1>3. Unborn(s) \subseteq Addr
  BY UnbornAre
<1>4. UnbornUntouched(t)
  BY <1>2, <1>3 DEF AppSound, UnbornUntouched, Same
<1>. QED  BY <1>1, <1>4 DEF AppSound, Same

\* A sum of naturals is a natural.
LEMMA SumOverNat ==
  ASSUME NEW D, IsFiniteSet(D), NEW f, \A x \in D : f[x] \in Nat
  PROVE  SumOver(f, D) \in Nat
<1>. DEFINE F == {T \in SUBSET D : SumOver(f, T) \notin Nat}
<1>. SUFFICES ASSUME F # {} PROVE FALSE
  OBVIOUS
<1>1. PICK T \in F : \A U \in F : U \subseteq T => U = T
  <2>1. F \in SUBSET SUBSET D
    OBVIOUS
  <2>. HIDE DEF F
  <2>. QED  BY <2>1, MinimalSubset
<1>2. T # {} /\ IsFiniteSet(T)
  <2>1. SumOver(f, {}) \in Nat
    BY SumOverNothing
  <2>. QED  BY <1>1, <2>1, FS_Subset
<1>3. Any(T) \in T /\ SumOver(f, T) = f[Any(T)] + SumOver(f, T \ {Any(T)})
  BY <1>2, SumOverStep
<1>4. SumOver(f, T \ {Any(T)}) \in Nat
  BY <1>1, <1>3
<1>. QED  BY <1>1, <1>3, <1>4

\* What each application costs its creator, and those who opted in to it.
CreatorCosts(s) == [n \in App |-> CreatorCost(s.app[n])]
HolderCosts(s) == [n \in App |-> HolderCost(s.app[n])]

\* What the minimum balance of an account has over the cost of its applications.
Excess(s, a) == s.min[a] - AccountMin - AppCosts(s, a)

\* t asks as much more of every account than its applications cost as s does.
SameExcess(s, t) == \A a \in Addr : Excess(t, a) = Excess(s, a)

\* Two ledgers in which applications ns have the same sizes.
SameSizes(s, t, ns) ==
  \A n \in ns : t.app[n].globals = s.app[n].globals /\ t.app[n].locals = s.app[n].locals

\* Costs are naturals.
LEMMA CostNat ==
  ASSUME NEW d \in Code
  PROVE  CreatorCost(d) \in Nat /\ HolderCost(d) \in Nat
<1>1. d.globals \in Nat /\ d.locals \in Nat /\ AppFee \in Nat /\ KeyFee \in Nat
  BY AppLedgerAssumption DEF Code
<1>2. KeyFee * d.globals \in Nat /\ KeyFee * d.locals \in Nat
  BY <1>1
<1>. QED  BY <1>1, <1>2 DEF CreatorCost, HolderCost

\* An account's costs are two sums.
LEMMA CostsAre ==
  ASSUME NEW s \in AppState, NEW a \in Addr
  PROVE  /\ AppCosts(s, a) = SumOver(CreatorCosts(s), s.made[a] \ {0})
                               + SumOver(HolderCosts(s), s.joined[a])
         /\ SumOver(CreatorCosts(s), s.made[a] \ {0}) \in Nat
         /\ SumOver(HolderCosts(s), s.joined[a]) \in Nat
         /\ IsFiniteSet(s.made[a] \ {0}) /\ IsFiniteSet(s.joined[a])
         /\ s.made[a] \subseteq App /\ s.joined[a] \subseteq App
         /\ \A n \in App : CreatorCosts(s)[n] \in Nat /\ HolderCosts(s)[n] \in Nat
<1>. DEFINE M == s.made[a] \ {0}
            J == s.joined[a]
            f == [n \in M |-> CreatorCost(s.app[n])]
            g == [n \in J |-> HolderCost(s.app[n])]
<1>1. s.made[a] \subseteq App /\ J \subseteq App /\ s.app \in [App -> Code]
  BY DEF AppState
<1>2. IsFiniteSet(App)
  BY AppLedgerAssumption, FS_Interval DEF App
<1>3. IsFiniteSet(M) /\ IsFiniteSet(J)
  BY <1>1, <1>2, FS_Subset
<1>4. \A n \in App : CreatorCosts(s)[n] \in Nat /\ HolderCosts(s)[n] \in Nat
  BY <1>1, CostNat DEF CreatorCosts, HolderCosts
<1>5. SumOver(CreatorCosts(s), M) \in Nat /\ SumOver(HolderCosts(s), J) \in Nat
  BY <1>1, <1>3, <1>4, SumOverNat
<1>6. Sum(f) = SumOver(CreatorCosts(s), M)
  <2>1. DOMAIN f = M /\ \A n \in M : f[n] = CreatorCosts(s)[n]
    BY <1>1 DEF CreatorCosts
  <2>. HIDE DEF f, M
  <2>. QED  BY <1>3, <2>1, SumIsFold, SumOverSame
<1>7. Sum(g) = SumOver(HolderCosts(s), J)
  <2>1. DOMAIN g = J /\ \A n \in J : g[n] = HolderCosts(s)[n]
    BY <1>1 DEF HolderCosts
  <2>. HIDE DEF g, J
  <2>. QED  BY <1>3, <2>1, SumIsFold, SumOverSame
<1>8. AppCosts(s, a) = Sum(f) + Sum(g)
  BY DEF AppCosts
<1>. HIDE DEF f, g
<1>. QED  BY <1>1, <1>3, <1>4, <1>5, <1>6, <1>7, <1>8

\* Sums over applications of the same sizes.
LEMMA SizesMatter ==
  ASSUME NEW s \in AppState, NEW t \in AppState, NEW M \in SUBSET App, NEW J \in SUBSET App,
         SameSizes(s, t, M), SameSizes(s, t, J)
  PROVE  /\ SumOver(CreatorCosts(t), M) = SumOver(CreatorCosts(s), M)
         /\ SumOver(HolderCosts(t), J) = SumOver(HolderCosts(s), J)
<1>0. IsFiniteSet(App)
  BY AppLedgerAssumption, FS_Interval DEF App
<1>1. IsFiniteSet(M) /\ IsFiniteSet(J)
  BY <1>0, FS_Subset
<1>2. \A n \in M : CreatorCosts(t)[n] = CreatorCosts(s)[n]
  BY DEF CreatorCosts, SameSizes, CreatorCost
<1>3. \A n \in J : HolderCosts(t)[n] = HolderCosts(s)[n]
  BY DEF HolderCosts, SameSizes, HolderCost
<1>. QED  BY <1>1, <1>2, <1>3, SumOverSame

\* Where nothing comes or goes, costs stay.
LEMMA CostsStay ==
  ASSUME NEW s \in AppState, NEW t \in AppState, NEW a \in Addr,
         t.made[a] \ {0} = s.made[a] \ {0}, t.joined[a] = s.joined[a],
         SameSizes(s, t, s.made[a] \ {0}), SameSizes(s, t, s.joined[a])
  PROVE  AppCosts(t, a) = AppCosts(s, a)
<1>1. s.made[a] \ {0} \in SUBSET App /\ s.joined[a] \in SUBSET App
  BY CostsAre
<1>2. /\ SumOver(CreatorCosts(t), s.made[a] \ {0}) = SumOver(CreatorCosts(s), s.made[a] \ {0})
      /\ SumOver(HolderCosts(t), s.joined[a]) = SumOver(HolderCosts(s), s.joined[a])
  BY <1>1, SizesMatter
<1>. QED  BY <1>2, CostsAre

\* One more application that was made.
LEMMA CostsOfMade ==
  ASSUME NEW s \in AppState, NEW t \in AppState, NEW a \in Addr, NEW n \in App \ {0},
         n \notin s.made[a],
         t.made[a] \ {0} = (s.made[a] \ {0}) \cup {n}, t.joined[a] = s.joined[a],
         SameSizes(s, t, s.made[a] \ {0}), SameSizes(s, t, s.joined[a])
  PROVE  AppCosts(t, a) = AppCosts(s, a) + CreatorCost(t.app[n])
<1>. DEFINE M == s.made[a] \ {0}
<1>1. M \in SUBSET App /\ s.joined[a] \in SUBSET App
  BY CostsAre
<1>2. /\ SumOver(CreatorCosts(t), M) = SumOver(CreatorCosts(s), M)
      /\ SumOver(HolderCosts(t), s.joined[a]) = SumOver(HolderCosts(s), s.joined[a])
  BY <1>1, SizesMatter
<1>3. SumOver(CreatorCosts(t), t.made[a] \ {0})
        = CreatorCosts(t)[n] + SumOver(CreatorCosts(t), (t.made[a] \ {0}) \ {n})
  <2>1. /\ IsFiniteSet(t.made[a] \ {0}) /\ n \in t.made[a] \ {0}
        /\ \A m \in t.made[a] \ {0} : CreatorCosts(t)[m] \in Int
    BY CostsAre
  <2>. QED  BY <2>1, SumOverRemove
<1>4. (t.made[a] \ {0}) \ {n} = M
  OBVIOUS
<1>5. CreatorCosts(t)[n] = CreatorCost(t.app[n]) /\ CreatorCosts(t)[n] \in Nat
  BY CostsAre DEF CreatorCosts
<1>6. /\ AppCosts(t, a) = SumOver(CreatorCosts(t), t.made[a] \ {0})
                            + SumOver(HolderCosts(t), s.joined[a])
      /\ AppCosts(s, a) = SumOver(CreatorCosts(s), M) + SumOver(HolderCosts(s), s.joined[a])
      /\ SumOver(CreatorCosts(s), M) \in Nat /\ SumOver(HolderCosts(s), s.joined[a]) \in Nat
  BY CostsAre
<1>. DEFINE p == SumOver(CreatorCosts(s), M)
            q == SumOver(HolderCosts(s), s.joined[a])
            c == CreatorCost(t.app[n])
<1>7. SumOver(CreatorCosts(t), t.made[a] \ {0}) = c + p
  BY <1>2, <1>3, <1>4, <1>5
<1>8. AppCosts(t, a) = (c + p) + q
  BY <1>2, <1>6, <1>7
<1>9. AppCosts(s, a) = p + q /\ p \in Nat /\ q \in Nat /\ c \in Nat
  BY <1>5, <1>6
<1>. HIDE DEF p, q, c
<1>10. AppCosts(t, a) = AppCosts(s, a) + c
  BY <1>8, <1>9
<1>. QED  BY <1>10 DEF c

\* One more application that was joined.
LEMMA CostsOfJoined ==
  ASSUME NEW s \in AppState, NEW t \in AppState, NEW a \in Addr, NEW n \in App,
         n \notin s.joined[a],
         t.joined[a] = s.joined[a] \cup {n}, t.made[a] = s.made[a], t.app = s.app
  PROVE  AppCosts(t, a) = AppCosts(s, a) + HolderCost(s.app[n])
<1>. DEFINE M == s.made[a] \ {0}
            J == s.joined[a]
<1>1. M \in SUBSET App /\ J \in SUBSET App
  BY CostsAre
<1>2. CreatorCosts(t) = CreatorCosts(s) /\ HolderCosts(t) = HolderCosts(s)
  BY DEF CreatorCosts, HolderCosts
<1>3. SumOver(HolderCosts(t), t.joined[a])
        = HolderCosts(t)[n] + SumOver(HolderCosts(t), t.joined[a] \ {n})
  <2>1. /\ IsFiniteSet(t.joined[a]) /\ n \in t.joined[a]
        /\ \A m \in t.joined[a] : HolderCosts(t)[m] \in Int
    <3>1. /\ IsFiniteSet(t.joined[a]) /\ t.joined[a] \subseteq App
          /\ \A m \in App : HolderCosts(t)[m] \in Nat
      BY CostsAre
    <3>. QED  BY <3>1
  <2>. QED  BY <2>1, SumOverRemove
<1>4. t.joined[a] \ {n} = J
  OBVIOUS
<1>5. HolderCosts(t)[n] = HolderCost(s.app[n]) /\ HolderCosts(t)[n] \in Nat
  BY <1>2, CostsAre DEF HolderCosts
<1>6. /\ AppCosts(t, a) = SumOver(CreatorCosts(t), M) + SumOver(HolderCosts(t), t.joined[a])
      /\ AppCosts(s, a) = SumOver(CreatorCosts(s), M) + SumOver(HolderCosts(s), J)
      /\ SumOver(CreatorCosts(s), M) \in Nat /\ SumOver(HolderCosts(s), J) \in Nat
  BY CostsAre
<1>. DEFINE p == SumOver(CreatorCosts(s), M)
            q == SumOver(HolderCosts(s), J)
            c == HolderCost(s.app[n])
<1>7. SumOver(HolderCosts(t), t.joined[a]) = c + q
  BY <1>2, <1>3, <1>4, <1>5
<1>8. AppCosts(t, a) = p + (c + q)
  BY <1>2, <1>6, <1>7
<1>9. AppCosts(s, a) = p + q /\ p \in Nat /\ q \in Nat /\ c \in Nat
  BY <1>5, <1>6
<1>. HIDE DEF p, q, c
<1>10. AppCosts(t, a) = AppCosts(s, a) + c
  BY <1>8, <1>9
<1>. QED  BY <1>10 DEF c

\* Costs are naturals, and so is what a minimum balance has over them an integer.
LEMMA ExcessInt ==
  ASSUME NEW s \in AppState, NEW a \in Addr
  PROVE  AppCosts(s, a) \in Nat /\ Excess(s, a) \in Int /\ s.min[a] \in Int
<1>1. AppCosts(s, a) \in Nat
  <2>. DEFINE p == SumOver(CreatorCosts(s), s.made[a] \ {0})
              q == SumOver(HolderCosts(s), s.joined[a])
  <2>1. AppCosts(s, a) = p + q /\ p \in Nat /\ q \in Nat
    BY CostsAre
  <2>. HIDE DEF p, q
  <2>. QED  BY <2>1
<1>2. s.min[a] \in Int /\ AccountMin \in Nat
  BY LedgerAssumption DEF AppState, LedgerAssumption
<1>. QED  BY <1>1, <1>2 DEF Excess

\* An account of which nothing changes.
LEMMA ExcessStays ==
  ASSUME NEW s \in AppState, NEW t \in AppState, NEW a \in Addr,
         t.min[a] = s.min[a],
         t.made[a] \ {0} = s.made[a] \ {0}, t.joined[a] = s.joined[a],
         SameSizes(s, t, s.made[a] \ {0}), SameSizes(s, t, s.joined[a])
  PROVE  Excess(t, a) = Excess(s, a)
BY CostsStay DEF Excess

\* No state has more keys than its schema, whether or not somebody can get at it.
KeysFit(s) ==
  /\ \A n \in App : Cardinality(s.keys[n]) <= s.app[n].globals
  /\ \A a \in Addr : \A n \in s.joined[a] : Cardinality(s.local[a][n]) <= s.app[n].locals

\* What a handler leaves as it should: minimum balances follow applications, and
\* states their schemas.
Orderly(s, t) == SameExcess(s, t) /\ (KeysFit(s) => KeysFit(t))

\* Where the same are in, what their states hold fits if it did or is nothing.
LEMMA FitBy ==
  ASSUME NEW s \in AppState, KeysFit(s), NEW t \in AppState, SameSizes(s, t, App),
         \A n \in App : t.keys[n] = s.keys[n] \/ t.keys[n] = {},
         \A a \in Addr : \A n \in t.joined[a] :
           \/ n \in s.joined[a] /\ t.local[a][n] = s.local[a][n]
           \/ t.local[a][n] = {}
  PROVE  KeysFit(t)
<1>1. Cardinality({}) = 0
  BY FS_EmptySet
<1>2. \A n \in App : t.app[n].globals \in Nat /\ t.app[n].locals \in Nat
  BY DEF AppState, Code
<1>3. \A a \in Addr : t.joined[a] \subseteq App
  BY DEF AppState
<1>4. ASSUME NEW n \in App PROVE Cardinality(t.keys[n]) <= t.app[n].globals
  <2>1. Cardinality(s.keys[n]) <= s.app[n].globals /\ t.app[n].globals = s.app[n].globals
    BY DEF KeysFit, SameSizes
  <2>2. CASE t.keys[n] = s.keys[n]
    BY <2>1, <2>2
  <2>3. CASE t.keys[n] = {}
    BY <1>1, <1>2, <2>3
  <2>. QED  BY <2>2, <2>3
<1>5. ASSUME NEW a \in Addr, NEW n \in t.joined[a]
      PROVE  Cardinality(t.local[a][n]) <= t.app[n].locals
  <2>1. n \in App
    BY <1>3
  <2>2. t.app[n].locals = s.app[n].locals /\ t.app[n].locals \in Nat
    BY <1>2, <2>1 DEF SameSizes
  <2>3. CASE n \in s.joined[a] /\ t.local[a][n] = s.local[a][n]
    <3>1. Cardinality(s.local[a][n]) <= s.app[n].locals
      BY <2>3 DEF KeysFit
    <3>. QED  BY <2>2, <2>3, <3>1
  <2>4. CASE t.local[a][n] = {}
    BY <1>1, <2>2, <2>4
  <2>. QED  BY <2>3, <2>4
<1>. QED  BY <1>4, <1>5 DEF KeysFit

\* Nor does anything change where minimum balances and applications are the same.
LEMMA ExcessSame ==
  ASSUME NEW s \in AppState, NEW t \in AppState, t.min = s.min, t.made = s.made,
         t.joined = s.joined, t.app = s.app
  PROVE  SameExcess(s, t)
BY ExcessStays DEF SameExcess, SameSizes

\* An opt-in keeps a ledger sound, and the programs in it.
LEMMA JoinAppKeeps ==
  ASSUME NEW s, AppSound(s), NEW a \in Addr, a \notin Unborn(s), NEW n \in App \ {0}, NEW kind
  PROVE  LET t == JoinApp(s, a, n, kind).s
         IN  /\ AppSound(t) /\ Same(s, t) /\ t.app = s.app /\ t.owner = s.owner
             /\ Orderly(s, t)
<1>. DEFINE m == [s.min EXCEPT ![a] = s.min[a] + HolderCost(s.app[n])]
            j == [s.joined EXCEPT ![a] = s.joined[a] \cup {n}]
            l == [s.local EXCEPT ![a][n] = {}]
            t == [s EXCEPT !.min = m, !.joined = j, !.local = l]
<1>1. s \in AppState /\ n \in App
  BY DEF AppSound
<1>2. HolderCost(s.app[n]) \in Int
  BY <1>1, AppLedgerAssumption DEF HolderCost, AppState, Code
<1>3. m \in [Addr -> Int] /\ j \in [Addr -> SUBSET App] /\ l \in [Addr -> [App -> SUBSET Key]]
  BY <1>1, <1>2 DEF AppState
<1>4. \/ JoinApp(s, a, n, kind).s = s
      \/ JoinApp(s, a, n, kind).s = t /\ AppExists(s, n) /\ n \notin s.joined[a]
  BY <1>1 DEF JoinApp, Throw, AppState
<1>5. /\ \A b \in Addr : j[b] = IF b = a THEN s.joined[b] \cup {n} ELSE s.joined[b]
      /\ \A b \in Addr : m[b] = IF b = a THEN s.min[b] + HolderCost(s.app[n]) ELSE s.min[b]
      /\ \A b \in Addr, k \in App : l[b][k] = IF b = a /\ k = n THEN {} ELSE s.local[b][k]
  BY <1>1 DEF AppState
<1>. HIDE DEF m, j, l
<1>6. /\ t \in AppState /\ t.joined = j /\ Same(s, t)
      /\ t.made = s.made /\ t.owner = s.owner /\ t.app = s.app
      /\ t.min = m /\ t.local = l /\ t.keys = s.keys
  BY <1>1, <1>3 DEF AppState, Same
<1>. HIDE DEF t
<1>7. CASE JoinApp(s, a, n, kind).s = t /\ AppExists(s, n) /\ n \notin s.joined[a]
  <2>1. n \in 1..s.apps
    BY <1>1, <1>7, AppNumbers DEF AppExists, AppSound, AppsRegistered, App
  <2>2. ASSUME NEW b \in Addr PROVE t.joined[b] \subseteq 1..s.apps
    <3>1. s.joined[b] \subseteq 1..s.apps
      BY DEF AppSound
    <3>2. t.joined[b] = IF b = a THEN s.joined[b] \cup {n} ELSE s.joined[b]
      BY <1>5, <1>6
    <3>. QED  BY <2>1, <3>1, <3>2
  <2>3. \A b \in Unborn(s) : t.joined[b] = {}
    BY <1>5, <1>6, UnbornAre DEF AppSound, UnbornUntouched
  <2>4. AppSound(t)
    BY <1>6, <2>2, <2>3, SoundBy DEF AppSound
  <2>5. SameExcess(s, t)
    <3>. SUFFICES ASSUME NEW b \in Addr PROVE Excess(t, b) = Excess(s, b)
      BY DEF SameExcess
    <3>1. CASE b = a
      <4>1. AppCosts(t, a) = AppCosts(s, a) + HolderCost(s.app[n])
        BY <1>1, <1>5, <1>6, <1>7, CostsOfJoined
      <4>2. t.min[a] = s.min[a] + HolderCost(s.app[n])
        BY <1>5, <1>6
      <4>3. AppCosts(s, a) \in Nat /\ s.min[a] \in Int /\ AccountMin \in Nat
        BY <1>1, ExcessInt, LedgerAssumption DEF LedgerAssumption
      <4>. QED  BY <1>2, <3>1, <4>1, <4>2, <4>3 DEF Excess
    <3>2. CASE b # a
      BY <1>1, <1>5, <1>6, <3>2, ExcessStays DEF SameSizes
    <3>. QED  BY <3>1, <3>2
  <2>6. KeysFit(s) => KeysFit(t)
    <3>. SUFFICES ASSUME KeysFit(s) PROVE KeysFit(t)
      OBVIOUS
    <3>1. ASSUME NEW b \in Addr, NEW q \in t.joined[b]
          PROVE  \/ q \in s.joined[b] /\ t.local[b][q] = s.local[b][q]
                 \/ t.local[b][q] = {}
      <4>1. q \in App
        BY <1>6 DEF AppState
      <4>2. t.local[b][q] = IF b = a /\ q = n THEN {} ELSE s.local[b][q]
        BY <1>5, <1>6, <4>1
      <4>3. t.joined[b] = IF b = a THEN s.joined[b] \cup {n} ELSE s.joined[b]
        BY <1>5, <1>6
      <4>. HIDE DEF t
      <4>4. q \in s.joined[b] \/ (b = a /\ q = n)
        BY <4>3
      <4>. QED  BY <4>2, <4>4
    <3>2. SameSizes(s, t, App)
      BY <1>6 DEF SameSizes
    <3>. QED  BY <1>1, <1>6, <3>1, <3>2, FitBy
  <2>. QED  BY <1>6, <1>7, <2>4, <2>5, <2>6 DEF Same, Orderly
<1>8. CASE JoinApp(s, a, n, kind).s = s
  BY <1>8 DEF Same, Orderly, SameExcess
<1>. QED  BY <1>4, <1>7, <1>8

\* So does taking it back: the account is out of the application.
LEMMA LeaveAppKeeps ==
  ASSUME NEW s, AppSound(s), NEW a \in Addr, NEW n \in App
  PROVE  LET t == LeaveApp(s, a, n).s
         IN  /\ AppSound(t) /\ Same(s, t) /\ t.app = s.app /\ t.owner = s.owner
             /\ n \notin t.joined[a] /\ Orderly(s, t)
<1>. DEFINE m == [s.min EXCEPT ![a] = s.min[a] - HolderCost(s.app[n])]
            j == [s.joined EXCEPT ![a] = s.joined[a] \ {n}]
            l == [s.local EXCEPT ![a][n] = {}]
            t == [s EXCEPT !.min = m, !.joined = j, !.local = l]
<1>1. s \in AppState
  BY DEF AppSound
<1>2. HolderCost(s.app[n]) \in Int
  BY <1>1, AppLedgerAssumption DEF HolderCost, AppState, Code
<1>3. m \in [Addr -> Int] /\ j \in [Addr -> SUBSET App] /\ l \in [Addr -> [App -> SUBSET Key]]
  BY <1>1, <1>2 DEF AppState
<1>4. LeaveApp(s, a, n).s = IF n \notin s.joined[a] THEN s ELSE t
  BY <1>1 DEF LeaveApp, Throw, Ok, AppState
<1>5. /\ \A b \in Addr : j[b] = IF b = a THEN s.joined[b] \ {n} ELSE s.joined[b]
      /\ \A b \in Addr : m[b] = IF b = a THEN s.min[b] - HolderCost(s.app[n]) ELSE s.min[b]
      /\ \A b \in Addr, k \in App : l[b][k] = IF b = a /\ k = n THEN {} ELSE s.local[b][k]
  BY <1>1 DEF AppState
<1>. HIDE DEF m, j, l
<1>6. /\ t \in AppState /\ t.joined = j /\ Same(s, t)
      /\ t.made = s.made /\ t.owner = s.owner /\ t.app = s.app
      /\ t.min = m /\ t.local = l /\ t.keys = s.keys
  BY <1>1, <1>3 DEF AppState, Same
<1>. HIDE DEF t
<1>7. \A b \in Addr : t.joined[b] \subseteq s.joined[b]
  BY <1>5, <1>6
<1>8. AppSound(t)
  <2>1. \A b \in Unborn(s) : t.joined[b] = {}
    BY <1>7, UnbornAre DEF AppSound, UnbornUntouched
  <2>. QED  BY <1>6, <1>7, <2>1, SoundBy DEF AppSound
<1>9. n \in s.joined[a] => SameExcess(s, t)
  <2>. SUFFICES ASSUME n \in s.joined[a], NEW b \in Addr PROVE Excess(t, b) = Excess(s, b)
    BY DEF SameExcess
  <2>1. CASE b = a
    <3>1. AppCosts(s, a) = AppCosts(t, a) + HolderCost(s.app[n])
      <4>1. n \notin t.joined[a] /\ s.joined[a] = t.joined[a] \cup {n}
        BY <1>5, <1>6
      <4>. QED  BY <1>1, <1>6, <4>1, CostsOfJoined
    <3>2. t.min[a] = s.min[a] - HolderCost(s.app[n])
      BY <1>5, <1>6
    <3>3. AppCosts(t, a) \in Nat /\ s.min[a] \in Int /\ AccountMin \in Nat
      BY <1>1, <1>6, ExcessInt, LedgerAssumption DEF LedgerAssumption
    <3>. QED  BY <1>2, <2>1, <3>1, <3>2, <3>3 DEF Excess
  <2>2. CASE b # a
    BY <1>1, <1>5, <1>6, <2>2, ExcessStays DEF SameSizes
  <2>. QED  BY <2>1, <2>2
<1>10. KeysFit(s) => KeysFit(t)
  <2>. SUFFICES ASSUME KeysFit(s) PROVE KeysFit(t)
    OBVIOUS
  <2>1. ASSUME NEW b \in Addr, NEW q \in t.joined[b]
        PROVE  \/ q \in s.joined[b] /\ t.local[b][q] = s.local[b][q]
               \/ t.local[b][q] = {}
    <3>1. q \in App
      BY <1>6 DEF AppState
    <3>2. t.local[b][q] = IF b = a /\ q = n THEN {} ELSE s.local[b][q]
      BY <1>5, <1>6, <3>1
    <3>3. q \in s.joined[b] \/ (b = a /\ q = n)
      BY <1>5, <1>6
    <3>. QED  BY <3>2, <3>3
  <2>2. SameSizes(s, t, App)
    BY <1>6 DEF SameSizes
  <2>. QED  BY <1>1, <1>6, <2>1, <2>2, FitBy
<1>. QED  BY <1>4, <1>5, <1>6, <1>8, <1>9, <1>10 DEF Same, Orderly, SameExcess

\* Opting out succeeds exactly for an account that is in an application that
\* exists.
LEMMA CloseAppKeeps ==
  ASSUME NEW s, AppSound(s), NEW a \in Addr, NEW n \in App
  PROVE  LET o == CloseApp(s, a, n)
         IN  /\ AppSound(o.s) /\ Same(s, o.s) /\ o.s.app = s.app /\ o.s.owner = s.owner
             /\ o.ok <=> AppExists(s, n) /\ n \in s.joined[a]
             /\ o.ok => n \notin o.s.joined[a]
             /\ Orderly(s, o.s)
<1>. DEFINE l == LeaveApp(s, a, n)
<1>1. /\ AppSound(l.s) /\ Same(s, l.s) /\ l.s.app = s.app /\ l.s.owner = s.owner
      /\ n \notin l.s.joined[a] /\ Orderly(s, l.s)
  BY LeaveAppKeeps
<1>2. l.ok <=> n \in s.joined[a]
  BY DEF LeaveApp, Throw, Ok
<1>3. CASE AppExists(s, n)
  <2>1. CloseApp(s, a, n) = l
    BY <1>3 DEF CloseApp
  <2>. HIDE DEF l
  <2>. QED  BY <1>1, <1>2, <1>3, <2>1
<1>4. CASE ~AppExists(s, n)
  BY <1>4 DEF CloseApp, Throw, Same, Orderly, SameExcess
<1>. QED  BY <1>3, <1>4

\* A deletion keeps a ledger sound, and application 0 in it.
LEMMA DeleteAppKeeps ==
  ASSUME NEW s, AppSound(s), NEW n \in App \ {0}
  PROVE  LET t == DeleteApp(s, n).s
         IN  /\ AppSound(t) /\ Same(s, t) /\ t.app = s.app /\ t.owner[0] = s.owner[0]
             /\ Orderly(s, t)
<1>. DEFINE a == s.owner[n]
            m == [s.min EXCEPT ![a] = s.min[a] - CreatorCost(s.app[n])]
            d == [s.made EXCEPT ![a] = s.made[a] \ {n}]
            w == [s.owner EXCEPT ![n] = NoAddr]
            t == [s EXCEPT !.min = m, !.made = d, !.owner = w]
<1>1. s \in AppState /\ n \in App /\ 0 \in App
  BY AppLedgerAssumption DEF AppSound, App
<1>2. DeleteApp(s, n).s = IF AppExists(s, n) THEN t ELSE s
  BY <1>1 DEF DeleteApp, Throw, Ok, AppState
<1>3. SUFFICES ASSUME AppExists(s, n)
               PROVE  /\ AppSound(t) /\ Same(s, t) /\ t.app = s.app /\ t.owner[0] = s.owner[0]
                      /\ Orderly(s, t)
  BY <1>2 DEF Same, Orderly, SameExcess
<1>4. a \in Addr
  BY <1>1, <1>3 DEF AppExists, AppState
<1>5. CreatorCost(s.app[n]) \in Int
  BY <1>1, AppLedgerAssumption DEF CreatorCost, AppState, Code
<1>6. m \in [Addr -> Int] /\ d \in [Addr -> SUBSET App] /\ w \in [App -> Addr \cup {NoAddr}]
  BY <1>1, <1>4, <1>5 DEF AppState
<1>7. /\ \A b \in Addr : d[b] = IF b = a THEN s.made[b] \ {n} ELSE s.made[b]
      /\ \A k \in App : w[k] = IF k = n THEN NoAddr ELSE s.owner[k]
      /\ \A b \in Addr : m[b] = IF b = a THEN s.min[b] - CreatorCost(s.app[n]) ELSE s.min[b]
  BY <1>1, <1>4 DEF AppState
<1>. HIDE DEF m, d, w
<1>8. /\ t \in AppState /\ t.made = d /\ t.owner = w /\ Same(s, t)
      /\ t.joined = s.joined /\ t.app = s.app /\ t.min = m
      /\ t.keys = s.keys /\ t.local = s.local
  BY <1>1, <1>6 DEF AppState, Same
<1>. HIDE DEF t
<1>9. AppsRegistered(t)
  <2>1. NoAddr \notin Addr /\ AppsRegistered(s) /\ t.apps = s.apps
    BY <1>8, LedgerAssumption DEF LedgerAssumption, AppSound, Same
  <2>2. ASSUME NEW k \in App \ {0}, NEW b \in Addr
        PROVE  k \in t.made[b] <=> t.owner[k] = b
    <3>1. k \in s.made[b] <=> s.owner[k] = b
      BY <2>1 DEF AppsRegistered
    <3>2. /\ t.made[b] = IF b = a THEN s.made[b] \ {n} ELSE s.made[b]
          /\ t.owner[k] = IF k = n THEN NoAddr ELSE s.owner[k]
      BY <1>7, <1>8
    <3>. QED  BY <2>1, <3>1, <3>2
  <2>3. ASSUME NEW k \in App, t.owner[k] # NoAddr PROVE k <= t.apps
    BY <1>7, <1>8, <2>1, <2>3 DEF AppsRegistered
  <2>. QED  BY <2>2, <2>3 DEF AppsRegistered
<1>10. \A k \in App : t.owner[k] # NoAddr => Runnable(t.app[k])
  BY <1>7, <1>8 DEF AppSound
<1>11. UnbornUntouched(t)
  <2>1. Unborn(t) = Unborn(s) /\ Unborn(s) \subseteq Addr
    BY <1>8, UnbornAre DEF Unborn, Same
  <2>. QED  BY <1>7, <1>8, <2>1 DEF AppSound, UnbornUntouched, Same
<1>12. SameExcess(s, t)
  <2>. SUFFICES ASSUME NEW b \in Addr PROVE Excess(t, b) = Excess(s, b)
    BY DEF SameExcess
  <2>1. CASE b = a
    <3>1. AppCosts(s, a) = AppCosts(t, a) + CreatorCost(s.app[n])
      <4>1. n \in s.made[a]
        BY <1>3 DEF AppExists
      <4>2. n \notin t.made[a] /\ s.made[a] \ {0} = (t.made[a] \ {0}) \cup {n}
        BY <1>4, <1>7, <1>8, <4>1
      <4>3. /\ SameSizes(t, s, t.made[a] \ {0}) /\ SameSizes(t, s, t.joined[a])
            /\ s.joined[a] = t.joined[a]
        BY <1>8 DEF SameSizes
      <4>. HIDE DEF a
      <4>. QED  BY <1>1, <1>4, <1>8, <4>2, <4>3, CostsOfMade
    <3>2. t.min[a] = s.min[a] - CreatorCost(s.app[n])
      BY <1>4, <1>7, <1>8
    <3>3. AppCosts(t, a) \in Nat /\ s.min[a] \in Int /\ AccountMin \in Nat
      <4>. HIDE DEF a
      <4>. QED  BY <1>1, <1>4, <1>8, ExcessInt, LedgerAssumption DEF LedgerAssumption
    <3>. QED  BY <1>5, <2>1, <3>1, <3>2, <3>3 DEF Excess
  <2>2. CASE b # a
    BY <1>1, <1>7, <1>8, <2>2, ExcessStays DEF SameSizes
  <2>. QED  BY <2>1, <2>2
<1>13. KeysFit(s) => KeysFit(t)
  BY <1>8 DEF KeysFit
<1>. QED  BY <1>1, <1>7, <1>8, <1>9, <1>10, <1>11, <1>12, <1>13 DEF AppSound, Same, Orderly

\* An update with programs that can be run keeps a ledger sound.
LEMMA ReplaceProgramsKeeps ==
  ASSUME NEW s, AppSound(s), NEW n \in App \ {0}, NEW d \in Code, Runnable(d)
  PROVE  LET t == ReplacePrograms(s, n, d).s
         IN  /\ AppSound(t) /\ Same(s, t) /\ t.app[0] = s.app[0] /\ t.owner = s.owner
             /\ Orderly(s, t)
<1>. DEFINE c == [s.app[n] EXCEPT !.approval = d.approval, !.clear = d.clear]
            p == [s.app EXCEPT ![n] = c]
            t == [s EXCEPT !.app = p]
<1>1. s \in AppState /\ n \in App /\ 0 \in App
  BY AppLedgerAssumption DEF AppSound, App
<1>2. s.app[n] \in Code
  BY <1>1 DEF AppState
<1>3. /\ c \in Code /\ c.approval = d.approval /\ c.clear = d.clear
      /\ c.globals = s.app[n].globals /\ c.locals = s.app[n].locals
  BY <1>2 DEF Code
<1>4. ReplacePrograms(s, n, d).s = IF AppExists(s, n) THEN t ELSE s
  BY <1>1, <1>2 DEF ReplacePrograms, Throw, Ok, AppState, Code
<1>. HIDE DEF c
<1>5. p \in [App -> Code] /\ p[0] = s.app[0] /\ p[n] = c /\ \A k \in App \ {n} : p[k] = s.app[k]
  BY <1>1, <1>3 DEF AppState
<1>. HIDE DEF p
<1>6. /\ t \in AppState /\ t.app = p /\ Same(s, t)
      /\ t.made = s.made /\ t.owner = s.owner /\ t.joined = s.joined
      /\ t.min = s.min /\ t.keys = s.keys /\ t.local = s.local
  BY <1>1, <1>5 DEF AppState, Same
<1>. HIDE DEF t
<1>7. \A k \in App : s.owner[k] # NoAddr => Runnable(t.app[k])
  BY <1>3, <1>5, <1>6 DEF AppSound, Runnable
<1>8. AppSound(t)
  BY <1>6, <1>7, SoundBy DEF AppSound, UnbornUntouched
<1>9. SameSizes(s, t, App)
  BY <1>3, <1>5, <1>6 DEF SameSizes
<1>10. SameExcess(s, t)
  <2>. SUFFICES ASSUME NEW b \in Addr PROVE Excess(t, b) = Excess(s, b)
    BY DEF SameExcess
  <2>1. SameSizes(s, t, s.made[b] \ {0}) /\ SameSizes(s, t, s.joined[b])
    BY <1>1, <1>9 DEF SameSizes, AppState
  <2>. QED  BY <1>1, <1>6, <2>1, ExcessStays
<1>11. KeysFit(s) => KeysFit(t)
  BY <1>1, <1>6, <1>9, FitBy
<1>. QED  BY <1>4, <1>5, <1>6, <1>8, <1>10, <1>11 DEF Same, Orderly, SameExcess

\* The operations on states change the keys only.
LEMMA KeysKeep ==
  ASSUME NEW s, AppSound(s), NEW a \in Addr, NEW n \in App, NEW k \in Key
  PROVE  \A t \in {SetGlobal(s, n, k).s, DelGlobal(s, n, k).s,
                   SetLocal(s, a, n, k).s, DelLocal(s, a, n, k).s} :
           AppSound(t) /\ Same(s, t) /\ t.app = s.app /\ t.owner = s.owner
                /\ t.joined = s.joined /\ t.made = s.made /\ SameExcess(s, t)
<1>1. s \in AppState
  BY DEF AppSound
<1>2. ASSUME NEW p \in [App -> SUBSET Key]
      PROVE  LET t == [s EXCEPT !.keys = p]
             IN  AppSound(t) /\ Same(s, t) /\ t.app = s.app /\ t.owner = s.owner
                 /\ t.joined = s.joined /\ t.made = s.made /\ SameExcess(s, t)
  <2>. DEFINE t == [s EXCEPT !.keys = p]
  <2>1. /\ t \in AppState /\ Same(s, t) /\ t.made = s.made /\ t.owner = s.owner
        /\ t.joined = s.joined /\ t.app = s.app /\ t.min = s.min
    BY <1>1, <1>2 DEF AppState, Same
  <2>. HIDE DEF t
  <2>2. AppSound(t)
    BY <2>1, SoundBy DEF AppSound, UnbornUntouched
  <2>3. SameExcess(s, t)
    BY <1>1, <2>1, ExcessSame
  <2>. QED  BY <2>1, <2>2, <2>3 DEF t
<1>3. ASSUME NEW l \in [Addr -> [App -> SUBSET Key]]
      PROVE  LET t == [s EXCEPT !.local = l]
             IN  AppSound(t) /\ Same(s, t) /\ t.app = s.app /\ t.owner = s.owner
                 /\ t.joined = s.joined /\ t.made = s.made /\ SameExcess(s, t)
  <2>. DEFINE t == [s EXCEPT !.local = l]
  <2>1. /\ t \in AppState /\ Same(s, t) /\ t.made = s.made /\ t.owner = s.owner
        /\ t.joined = s.joined /\ t.app = s.app /\ t.min = s.min
    BY <1>1, <1>3 DEF AppState, Same
  <2>. HIDE DEF t
  <2>2. AppSound(t)
    BY <2>1, SoundBy DEF AppSound, UnbornUntouched
  <2>3. SameExcess(s, t)
    BY <1>1, <2>1, ExcessSame
  <2>. QED  BY <2>1, <2>2, <2>3 DEF t
<1>. DEFINE put == [s.keys EXCEPT ![n] = s.keys[n] \cup {k}]
            del == [s.keys EXCEPT ![n] = s.keys[n] \ {k}]
            lput == [s.local EXCEPT ![a] = [s.local[a] EXCEPT ![n] = s.local[a][n] \cup {k}]]
            ldel == [s.local EXCEPT ![a] = [s.local[a] EXCEPT ![n] = s.local[a][n] \ {k}]]
<1>4. put \in [App -> SUBSET Key] /\ del \in [App -> SUBSET Key]
  BY <1>1 DEF AppState
<1>5. lput \in [Addr -> [App -> SUBSET Key]] /\ ldel \in [Addr -> [App -> SUBSET Key]]
  BY <1>1 DEF AppState
<1>6. /\ SetGlobal(s, n, k).s \in {s, [s EXCEPT !.keys = put]}
      /\ DelGlobal(s, n, k).s \in {s, [s EXCEPT !.keys = del]}
      /\ SetLocal(s, a, n, k).s \in {s, [s EXCEPT !.local = lput]}
      /\ DelLocal(s, a, n, k).s = [s EXCEPT !.local = ldel]
  BY <1>1 DEF AppState, SetGlobal, DelGlobal, SetLocal, DelLocal, Throw, Ok
<1>. HIDE DEF put, del, lput, ldel
<1>. DEFINE Fine(t) == /\ AppSound(t) /\ Same(s, t) /\ t.app = s.app /\ t.owner = s.owner
                       /\ t.joined = s.joined /\ t.made = s.made /\ SameExcess(s, t)
<1>7. /\ Fine(s) /\ Fine([s EXCEPT !.keys = put]) /\ Fine([s EXCEPT !.keys = del])
      /\ Fine([s EXCEPT !.local = lput]) /\ Fine([s EXCEPT !.local = ldel])
  BY <1>2, <1>3, <1>4, <1>5 DEF Same, SameExcess
<1>8. SUFFICES \A t \in {SetGlobal(s, n, k).s, DelGlobal(s, n, k).s,
                         SetLocal(s, a, n, k).s, DelLocal(s, a, n, k).s} : Fine(t)
  OBVIOUS
<1>. HIDE DEF Fine
<1>. QED  BY <1>6, <1>7

\* Keys are added within the schema, or the operation throws.
LEMMA KeysStayWithin ==
  ASSUME NEW s, AppSound(s), KeysFit(s), NEW a \in Addr, NEW n \in App, NEW k \in Key
  PROVE  /\ SetGlobal(s, n, k).ok => KeysFit(SetGlobal(s, n, k).s)
         /\ SetLocal(s, a, n, k).ok => KeysFit(SetLocal(s, a, n, k).s)
         /\ KeysFit(DelGlobal(s, n, k).s)
         /\ KeysFit(DelLocal(s, a, n, k).s)
<1>. DEFINE put == [s.keys EXCEPT ![n] = s.keys[n] \cup {k}]
            del == [s.keys EXCEPT ![n] = s.keys[n] \ {k}]
            lput == [s.local EXCEPT ![a] = [s.local[a] EXCEPT ![n] = s.local[a][n] \cup {k}]]
            ldel == [s.local EXCEPT ![a] = [s.local[a] EXCEPT ![n] = s.local[a][n] \ {k}]]
            u == [s EXCEPT !.keys = put]
            v == [s EXCEPT !.local = lput]
<1>1. s \in AppState
  BY DEF AppSound
<1>2. /\ SetGlobal(s, n, k).ok =>
           /\ SetGlobal(s, n, k).s = u
           /\ Cardinality(u.keys[n]) <= s.app[n].globals
      /\ SetLocal(s, a, n, k).ok =>
           /\ SetLocal(s, a, n, k).s = v
           /\ Cardinality(v.local[a][n]) <= s.app[n].locals
      /\ DelGlobal(s, n, k).s \in {s, [s EXCEPT !.keys = del]}
      /\ DelLocal(s, a, n, k).s = [s EXCEPT !.local = ldel]
  BY <1>1 DEF AppState, SetGlobal, DelGlobal, SetLocal, DelLocal, Throw, Ok
<1>3. /\ \A m \in App : put[m] = (IF m = n THEN s.keys[m] \cup {k} ELSE s.keys[m])
                        /\ del[m] = (IF m = n THEN s.keys[m] \ {k} ELSE s.keys[m])
      /\ \A b \in Addr, m \in App :
           /\ lput[b][m] = IF b = a /\ m = n THEN s.local[b][m] \cup {k} ELSE s.local[b][m]
           /\ ldel[b][m] = IF b = a /\ m = n THEN s.local[b][m] \ {k} ELSE s.local[b][m]
  BY <1>1 DEF AppState
<1>. HIDE DEF put, del, lput, ldel
<1>4. /\ u.keys = put /\ u.app = s.app /\ u.joined = s.joined /\ u.local = s.local
      /\ v.local = lput /\ v.app = s.app /\ v.joined = s.joined /\ v.keys = s.keys
  BY <1>1 DEF AppState
<1>. HIDE DEF u, v
<1>5. \A b \in Addr : s.joined[b] \subseteq App
  BY <1>1 DEF AppState
<1>6. ASSUME NEW T \in SUBSET Key
      PROVE  /\ Cardinality(T) \in Nat /\ Cardinality(T \ {k}) \in Nat
             /\ Cardinality(T \ {k}) <= Cardinality(T)
  BY AppCallsAssumption, FS_Subset, FS_CardinalityType
<1>7. ASSUME SetGlobal(s, n, k).ok PROVE KeysFit(SetGlobal(s, n, k).s)
  <2>1. ASSUME NEW m \in App PROVE Cardinality(u.keys[m]) <= s.app[m].globals
    <3>1. CASE m = n
      BY <1>2, <1>7, <3>1
    <3>2. CASE m # n
      <4>1. u.keys[m] = s.keys[m]
        BY <1>3, <1>4, <3>2
      <4>. QED  BY <4>1 DEF KeysFit
    <3>. QED  BY <3>1, <3>2
  <2>. QED  BY <1>2, <1>4, <1>7, <2>1 DEF KeysFit
<1>8. ASSUME SetLocal(s, a, n, k).ok PROVE KeysFit(SetLocal(s, a, n, k).s)
  <2>1. ASSUME NEW b \in Addr, NEW m \in s.joined[b]
        PROVE  Cardinality(v.local[b][m]) <= s.app[m].locals
    <3>1. CASE b = a /\ m = n
      BY <1>2, <1>8, <3>1
    <3>2. CASE ~(b = a /\ m = n)
      <4>1. v.local[b][m] = s.local[b][m]
        BY <1>3, <1>4, <1>5, <3>2
      <4>. QED  BY <4>1 DEF KeysFit
    <3>. QED  BY <3>1, <3>2
  <2>. QED  BY <1>2, <1>4, <1>8, <2>1 DEF KeysFit
<1>9. KeysFit([s EXCEPT !.keys = del])
  <2>. DEFINE t == [s EXCEPT !.keys = del]
  <2>1. t.keys = del /\ t.app = s.app /\ t.joined = s.joined /\ t.local = s.local
    BY <1>1 DEF AppState
  <2>2. ASSUME NEW m \in App PROVE Cardinality(del[m]) <= s.app[m].globals
    <3>1. s.keys[m] \in SUBSET Key /\ s.app[m].globals \in Nat
      BY <1>1 DEF AppState, Code
    <3>2. Cardinality(s.keys[m]) <= s.app[m].globals
      BY DEF KeysFit
    <3>3. /\ Cardinality(s.keys[m] \ {k}) \in Nat /\ Cardinality(s.keys[m]) \in Nat
          /\ Cardinality(s.keys[m] \ {k}) <= Cardinality(s.keys[m])
      BY <1>6, <3>1
    <3>4. CASE m = n
      <4>1. del[m] = s.keys[m] \ {k}
        BY <1>3, <3>4
      <4>. QED  BY <3>1, <3>2, <3>3, <4>1
    <3>5. CASE m # n
      <4>1. del[m] = s.keys[m]
        BY <1>3, <3>5
      <4>. QED  BY <3>2, <4>1
    <3>. QED  BY <3>4, <3>5
  <2>. HIDE DEF t
  <2>. QED  BY <2>1, <2>2 DEF KeysFit, t
<1>10. KeysFit([s EXCEPT !.local = ldel])
  <2>. DEFINE t == [s EXCEPT !.local = ldel]
  <2>1. t.keys = s.keys /\ t.app = s.app /\ t.joined = s.joined /\ t.local = ldel
    BY <1>1 DEF AppState
  <2>2. ASSUME NEW b \in Addr, NEW m \in s.joined[b]
        PROVE  Cardinality(ldel[b][m]) <= s.app[m].locals
    <3>1. m \in App /\ s.local[b][m] \in SUBSET Key /\ s.app[m].locals \in Nat
      BY <1>1, <1>5 DEF AppState, Code
    <3>2. Cardinality(s.local[b][m]) <= s.app[m].locals
      BY DEF KeysFit
    <3>3. /\ Cardinality(s.local[b][m] \ {k}) \in Nat /\ Cardinality(s.local[b][m]) \in Nat
          /\ Cardinality(s.local[b][m] \ {k}) <= Cardinality(s.local[b][m])
      BY <1>6, <3>1
    <3>4. ldel[b][m] = IF b = a /\ m = n THEN s.local[b][m] \ {k} ELSE s.local[b][m]
      BY <1>3, <3>1
    <3>5. CASE b = a /\ m = n
      BY <3>1, <3>2, <3>3, <3>4, <3>5
    <3>6. CASE ~(b = a /\ m = n)
      BY <3>2, <3>4, <3>6
    <3>. QED  BY <3>5, <3>6
  <2>. HIDE DEF t
  <2>. QED  BY <2>1, <2>2 DEF KeysFit, t
<1>. QED  BY <1>2, <1>7, <1>8, <1>9, <1>10


-----------------------------------------------------------------------------
(* Creation                                                                *)

\* A deployment up to the run of the program keeps a ledger sound.
LEMMA BeginDeployKeeps ==
  ASSUME NEW s, AppSound(s), NEW a \in Addr, a \notin Unborn(s),
         NEW d \in Code, d.valid => Runnable(d), NEW kind
  PROVE  LET o == BeginDeploy(s, a, d, kind)
         IN  /\ AppSound(o.s) /\ Same(s, o.s) /\ o.s.joined = s.joined
             /\ o.ok => /\ Runnable(o.s.app[0]) /\ o.s.app[0] = d
                        /\ Excess(o.s, a) = Excess(s, a) + CreatorCost(d)
             /\ Excess(o.s, a) >= Excess(s, a)
             /\ \A b \in Addr \ {a} : Excess(o.s, b) = Excess(s, b)
             /\ KeysFit(s) => KeysFit(o.s)
<1>. DEFINE m == [s.min EXCEPT ![a] = s.min[a] + CreatorCost(d)]
            c == [s.made EXCEPT ![a] = s.made[a] \cup {0}]
            p == [s.app EXCEPT ![0] = d]
            k == [s.keys EXCEPT ![0] = {}]
            w == [s.owner EXCEPT ![0] = a]
            t == [s EXCEPT !.min = m, !.made = c, !.app = p, !.keys = k]
            u == [t EXCEPT !.owner = w]
            o == BeginDeploy(s, a, d, kind)
<1>1. s \in AppState /\ 0 \in App
  BY AppLedgerAssumption DEF AppSound, App
<1>2. CreatorCost(d) \in Nat
  BY CostNat
<1>3. /\ m \in [Addr -> Int] /\ c \in [Addr -> SUBSET App] /\ p \in [App -> Code]
      /\ k \in [App -> SUBSET Key] /\ w \in [App -> Addr \cup {NoAddr}]
  BY <1>1, <1>2 DEF AppState
<1>4. o = Throw(s) \/ (d.valid /\ (o = Throw(t) \/ o = Ok(u)))
  BY <1>1 DEF BeginDeploy, AppState
<1>5. /\ \A b \in Addr : c[b] = IF b = a THEN s.made[b] \cup {0} ELSE s.made[b]
      /\ \A n \in App : p[n] = IF n = 0 THEN d ELSE s.app[n]
      /\ \A n \in App : w[n] = IF n = 0 THEN a ELSE s.owner[n]
      /\ \A b \in Addr : m[b] = IF b = a THEN s.min[b] + CreatorCost(d) ELSE s.min[b]
      /\ \A n \in App : k[n] = IF n = 0 THEN {} ELSE s.keys[n]
  BY <1>1 DEF AppState
<1>. HIDE DEF m, c, p, k, w, o
<1>6. /\ t \in AppState /\ t.made = c /\ t.app = p /\ t.owner = s.owner
      /\ t.joined = s.joined /\ Same(s, t) /\ t.min = m /\ t.keys = k /\ t.local = s.local
  BY <1>1, <1>3 DEF AppState, Same
<1>. HIDE DEF t
<1>7. /\ u \in AppState /\ u.made = c /\ u.app = p /\ u.owner = w
      /\ u.joined = s.joined /\ Same(s, u) /\ u.min = m /\ u.keys = k /\ u.local = s.local
  BY <1>1, <1>3, <1>6 DEF AppState, Same
<1>. HIDE DEF u
<1>8. ASSUME NEW v \in AppState, v.made = c, v.app = p, v.joined = s.joined, Same(s, v),
             v.owner = s.owner \/ v.owner = w, d.valid
      PROVE  AppSound(v) /\ Runnable(v.app[0])
  <2>1. AppsRegistered(v)
    <3>1. AppsRegistered(s) /\ v.apps = s.apps /\ s.apps >= 0
      BY <1>8, AppNumbers DEF AppSound, Same
    <3>2. ASSUME NEW n \in App \ {0}, NEW b \in Addr
          PROVE  n \in v.made[b] <=> v.owner[n] = b
      <4>1. n \in s.made[b] <=> s.owner[n] = b
        BY <3>1 DEF AppsRegistered
      <4>2. (n \in v.made[b] <=> n \in s.made[b]) /\ v.owner[n] = s.owner[n]
        BY <1>5, <1>8
      <4>. QED  BY <4>1, <4>2
    <3>3. \A n \in App : v.owner[n] # NoAddr => n <= v.apps
      BY <1>5, <1>8, <3>1 DEF AppsRegistered
    <3>. QED  BY <3>2, <3>3 DEF AppsRegistered
  <2>2. Runnable(v.app[0]) /\ \A n \in App : v.owner[n] # NoAddr => Runnable(v.app[n])
    BY <1>1, <1>5, <1>8 DEF AppSound
  <2>3. Unborn(v) = Unborn(s) /\ Unborn(s) \subseteq Addr
    BY <1>8, UnbornAre DEF Unborn, Same
  <2>4. UnbornUntouched(v)
    <3>. SUFFICES ASSUME NEW b \in Unborn(s)
                  PROVE  v.auth[b] = b /\ v.made[b] = {} /\ v.joined[b] = {}
      BY <2>3 DEF UnbornUntouched
    <3>1. s.auth[b] = b /\ s.made[b] = {} /\ s.joined[b] = {} /\ b \in Addr /\ b # a
      BY <2>3 DEF AppSound, UnbornUntouched
    <3>2. v.made[b] = s.made[b]
      BY <1>5, <1>8, <3>1
    <3>. QED  BY <1>8, <3>1, <3>2 DEF Same
  <2>. QED  BY <1>8, <2>1, <2>2, <2>4 DEF AppSound, Same
<1>9. o.ok => o = Ok(u) /\ d.valid
  BY <1>4 DEF Throw
<1>10. /\ o.s \in {s, t, u} /\ (o.s # s => d.valid)
       /\ o.ok => o.s = u /\ d.valid
  BY <1>4, <1>9 DEF Throw, Ok
<1>11. AppSound(o.s) /\ Same(s, o.s) /\ o.s.joined = s.joined
  BY <1>6, <1>7, <1>8, <1>10 DEF Same
<1>12. o.ok => Runnable(o.s.app[0])
  BY <1>7, <1>8, <1>10
<1>13. ASSUME NEW v \in AppState, v.made = c, v.app = p, v.joined = s.joined, v.min = m,
              v.keys = k, v.local = s.local
       PROVE  /\ Excess(v, a) = Excess(s, a) + CreatorCost(d) /\ Excess(v, a) >= Excess(s, a)
              /\ \A b \in Addr \ {a} : Excess(v, b) = Excess(s, b)
              /\ KeysFit(s) => KeysFit(v)
  <2>1. ASSUME NEW b \in Addr
        PROVE  /\ v.made[b] \ {0} = s.made[b] \ {0}
               /\ SameSizes(s, v, s.made[b] \ {0}) /\ SameSizes(s, v, s.joined[b])
    <3>1. s.joined[b] \subseteq 1..s.apps /\ s.joined[b] \subseteq App /\ s.made[b] \subseteq App
      BY <1>1 DEF AppSound, AppState
    <3>2. v.made[b] \ {0} = s.made[b] \ {0}
      BY <1>5, <1>13
    <3>3. 0 \notin s.joined[b]
      BY <3>1
    <3>4. \A n \in App \ {0} : v.app[n] = s.app[n]
      BY <1>5, <1>13
    <3>. QED  BY <3>1, <3>2, <3>3, <3>4 DEF SameSizes
  <2>2. AppCosts(v, a) = AppCosts(s, a) /\ AppCosts(s, a) \in Nat /\ s.min[a] \in Int
    BY <1>1, <1>13, <2>1, CostsStay, ExcessInt
  <2>3. v.min[a] = s.min[a] + CreatorCost(d) /\ AccountMin \in Nat
    BY <1>5, <1>13, LedgerAssumption DEF LedgerAssumption
  <2>4. Excess(v, a) = Excess(s, a) + CreatorCost(d) /\ Excess(v, a) >= Excess(s, a)
    BY <1>2, <2>2, <2>3 DEF Excess
  <2>5. \A b \in Addr \ {a} : Excess(v, b) = Excess(s, b)
    BY <1>1, <1>5, <1>13, <2>1, ExcessStays
  <2>6. KeysFit(s) => KeysFit(v)
    <3>. SUFFICES ASSUME KeysFit(s) PROVE KeysFit(v)
      OBVIOUS
    <3>1. \A n \in App : Cardinality(v.keys[n]) <= v.app[n].globals
      <4>1. Cardinality({}) = 0 /\ d.globals \in Nat
        BY FS_EmptySet DEF Code
      <4>. QED  BY <1>5, <1>13, <4>1 DEF KeysFit
    <3>2. \A b \in Addr : \A n \in v.joined[b] : Cardinality(v.local[b][n]) <= v.app[n].locals
      BY <1>13, <2>1 DEF KeysFit, SameSizes
    <3>. QED  BY <3>1, <3>2 DEF KeysFit
  <2>. QED  BY <2>4, <2>5, <2>6
<1>14. /\ o.ok => Excess(o.s, a) = Excess(s, a) + CreatorCost(d) /\ o.s.app[0] = d
       /\ Excess(o.s, a) >= Excess(s, a)
       /\ \A b \in Addr \ {a} : Excess(o.s, b) = Excess(s, b)
       /\ KeysFit(s) => KeysFit(o.s)
  <2>1. CASE o.s = s
    <3>1. Excess(s, a) \in Int
      BY <1>1, ExcessInt
    <3>2. o.ok => o.s = u
      BY <1>10
    <3>. QED  BY <1>1, <1>5, <1>7, <1>13, <2>1, <3>1, <3>2
  <2>2. CASE o.s = t
    BY <1>1, <1>5, <1>6, <1>13, <2>2
  <2>3. CASE o.s = u
    BY <1>1, <1>5, <1>7, <1>13, <2>3
  <2>. QED  BY <1>10, <2>1, <2>2, <2>3
<1>. QED  BY <1>11, <1>12, <1>14 DEF o

\* What a new account replaces: all that the address had.
LEMMA NewAppAccountIs ==
  ASSUME NEW s \in AppState, NEW x \in Addr
  PROVE  LET t == NewAppAccount(s, x)
         IN  /\ t \in AppState /\ t.apps = s.apps /\ t.owner = s.owner /\ t.app = s.app
             /\ t.made = [s.made EXCEPT ![x] = {}] /\ t.joined = [s.joined EXCEPT ![x] = {}]
             /\ t.amt = [s.amt EXCEPT ![x] = 0] /\ t.auth = [s.auth EXCEPT ![x] = x]
             /\ t.min = [s.min EXCEPT ![x] = AccountMin] /\ t.keys = s.keys
             /\ t.local = [s.local EXCEPT ![x] = [n \in App |-> {}]]
<1>. DEFINE Renew(f, v) == [b \in Addr |-> IF b \in {x} THEN v ELSE f[b]]
            acct == s.acct \cup {x}
            amt == Renew(s.amt, 0)
            min == Renew(s.min, AccountMin)
            auth == [b \in Addr |-> IF b \in {x} THEN b ELSE s.auth[b]]
            opted == Renew(s.opted, {})
            units == Renew(s.units, [c \in Asset |-> 0])
            frozen == Renew(s.frozen, {})
            live == {c \in s.live : s.def[c].creator \notin {x}}
            made == [s.made EXCEPT ![x] = {}]
            joined == [s.joined EXCEPT ![x] = {}]
            local == [s.local EXCEPT ![x] = [n \in App |-> {}]]
            r == [s EXCEPT !.acct = acct, !.amt = amt, !.min = min, !.auth = auth,
                           !.opted = opted, !.units = units, !.frozen = frozen, !.live = live]
            t == [r EXCEPT !.made = made, !.joined = joined, !.local = local]
<1>1. NewAccounts(s, {x}, 0) = r
  BY DEF NewAccounts, AppState
<1>2. /\ amt \in [Addr -> Int] /\ min \in [Addr -> Int] /\ auth \in [Addr -> Addr]
      /\ acct \in SUBSET Addr
  BY LedgerAssumption DEF LedgerAssumption, AppState
<1>3. /\ opted \in [Addr -> SUBSET Asset] /\ frozen \in [Addr -> SUBSET Asset]
      /\ units \in [Addr -> [Asset -> Nat]] /\ live \in SUBSET Asset
  BY DEF AppState
<1>4. /\ made \in [Addr -> SUBSET App] /\ joined \in [Addr -> SUBSET App]
      /\ local \in [Addr -> [App -> SUBSET Key]]
  BY DEF AppState
<1>5. /\ amt = [s.amt EXCEPT ![x] = 0] /\ auth = [s.auth EXCEPT ![x] = x]
      /\ min = [s.min EXCEPT ![x] = AccountMin]
  BY DEF AppState
<1>. HIDE DEF acct, amt, min, auth, opted, units, frozen, live
<1>6. /\ r \in AppState /\ r.amt = amt /\ r.auth = auth /\ r.apps = s.apps /\ r.app = s.app
      /\ r.owner = s.owner /\ r.made = s.made /\ r.joined = s.joined /\ r.local = s.local
      /\ r.min = min /\ r.keys = s.keys
  BY <1>2, <1>3 DEF AppState
<1>. HIDE DEF r
<1>7. NewAppAccount(s, x) = t
  BY <1>1, <1>6 DEF NewAppAccount
<1>. HIDE DEF made, joined, local
<1>8. /\ t \in AppState /\ t.amt = amt /\ t.auth = auth /\ t.apps = s.apps /\ t.app = s.app
      /\ t.owner = s.owner /\ t.made = made /\ t.joined = joined
      /\ t.min = min /\ t.keys = s.keys /\ t.local = local
  BY <1>4, <1>6 DEF AppState
<1>. HIDE DEF t
<1>. QED  BY <1>5, <1>7, <1>8 DEF made, joined, local

\* The end of a deployment gives out one number, and takes the Algos that the
\* address of the application had unless the name is refused.
LEMMA EndDeployKeeps ==
  ASSUME NEW s, AppSound(s), s.apps < MaxApp, NEW a \in Addr, a \notin Unborn(s),
         Runnable(s.app[0])
  PROVE  LET o == EndDeploy(s, a)
         IN  /\ AppSound(o.s) /\ o.s.apps = s.apps + 1
             /\ o.s.amt = IF o.ok THEN [s.amt EXCEPT ![AppAddress[s.apps + 1]] = 0] ELSE s.amt
             /\ Excess(o.s, a) = Excess(s, a) - CreatorCost(s.app[0])
             /\ \A b \in Addr \ {a} :
                  Excess(o.s, b) = IF o.ok /\ b = AppAddress[s.apps + 1] THEN 0 ELSE Excess(s, b)
             /\ KeysFit(s) => KeysFit(o.s)
<1>. DEFINE n == s.apps + 1
            x == AppAddress[n]
            w == [s.owner EXCEPT ![n] = a, ![0] = NoAddr]
            c == [s.made EXCEPT ![a] = (s.made[a] \ {0}) \cup {n}]
            p == [s.app EXCEPT ![n] = s.app[0]]
            k == [s.keys EXCEPT ![n] = s.keys[0], ![0] = {}]
            f == s.names \cup {s.app[0].files}
            g == f \cup {s.app[0].name}
            t == [s EXCEPT !.apps = n, !.owner = w, !.made = c, !.app = p, !.keys = k,
                           !.names = f]
            tt == [s EXCEPT !.apps = n, !.owner = w, !.made = c, !.app = p, !.keys = k,
                           !.names = g]
            u == NewAppAccount(tt, x)
            o == EndDeploy(s, a)
<1>1. s \in AppState /\ 0 \in App
  BY AppLedgerAssumption DEF AppSound, App
<1>2. /\ n \in 1..MaxApp /\ n \in 0..MaxApp /\ n \in App
      /\ x \in Addr /\ x \in Unborn(s) /\ x # a
  BY AppNumbers, AppLedgerAssumption DEF AppLedgerAssumption, App, Unborn
<1>3. s.app[0] \in Code /\ f \in SUBSET Name /\ g \in SUBSET Name
  BY <1>1 DEF AppState, Code
<1>4. IF o.ok THEN o.s = u ELSE o.s = t
  <2>. DEFINE moved == [s EXCEPT !.apps    = n,
                                 !.owner   = [s.owner EXCEPT ![n] = a, ![0] = NoAddr],
                                 !.made[a] = (@ \ {0}) \cup {n},
                                 !.app[n]  = s.app[0],
                                 !.keys    = [s.keys EXCEPT ![n] = s.keys[0], ![0] = {}],
                                 !.names   = @ \cup {s.app[0].files}]
              named == [moved EXCEPT !.names = @ \cup {s.app[0].name}]
  <2>1. moved = t
    BY <1>1 DEF AppState
  <2>2. named = tt
    <3>. HIDE DEF moved, w, c, p, k, f
    <3>1. t.names = f
      BY <1>1 DEF AppState
    <3>2. [t EXCEPT !.names = f \cup {s.app[0].name}] = tt
      BY <1>1 DEF AppState
    <3>. QED  BY <2>1, <3>1, <3>2
  <2>3. \/ o = Throw(moved)
        \/ o = Ok(NewAppAccount(named, x))
    BY DEF EndDeploy
  <2>. HIDE DEF moved, named, o, t, tt, x, n
  <2>. QED  BY <2>1, <2>2, <2>3 DEF Throw, Ok
<1>. HIDE DEF f, g, n
<1>5. /\ w \in [App -> Addr \cup {NoAddr}] /\ c \in [Addr -> SUBSET App]
      /\ p \in [App -> Code] /\ k \in [App -> SUBSET Key]
  BY <1>1, <1>2, <1>3 DEF AppState
<1>6. /\ \A m \in App : w[m] = IF m = 0 THEN NoAddr ELSE IF m = n THEN a ELSE s.owner[m]
      /\ \A b \in Addr : c[b] = IF b = a THEN (s.made[b] \ {0}) \cup {n} ELSE s.made[b]
      /\ \A m \in App : p[m] = IF m = n THEN s.app[0] ELSE s.app[m]
      /\ \A m \in App : k[m] = IF m = 0 THEN {} ELSE IF m = n THEN s.keys[0] ELSE s.keys[m]
  BY <1>1, <1>2 DEF AppState
<1>. HIDE DEF w, c, p, k
<1>7. /\ t \in AppState /\ t.apps = n /\ t.owner = w /\ t.made = c /\ t.app = p
      /\ t.amt = s.amt /\ t.auth = s.auth /\ t.joined = s.joined
      /\ t.min = s.min /\ t.keys = k /\ t.local = s.local
  BY <1>1, <1>2, <1>3, <1>5 DEF AppState
<1>8. /\ tt \in AppState /\ tt.apps = n /\ tt.owner = w /\ tt.made = c /\ tt.app = p
      /\ tt.amt = s.amt /\ tt.auth = s.auth /\ tt.joined = s.joined
      /\ tt.min = s.min /\ tt.keys = k /\ tt.local = s.local
  BY <1>1, <1>2, <1>3, <1>5 DEF AppState
<1>. HIDE DEF t, tt, x
<1>9. /\ u \in AppState /\ u.apps = n /\ u.owner = w /\ u.app = p
      /\ u.made = [tt.made EXCEPT ![x] = {}] /\ u.joined = [tt.joined EXCEPT ![x] = {}]
      /\ u.amt = [tt.amt EXCEPT ![x] = 0] /\ u.auth = [tt.auth EXCEPT ![x] = x]
      /\ u.min = [s.min EXCEPT ![x] = AccountMin] /\ u.keys = k
      /\ u.local = [s.local EXCEPT ![x] = [m \in App |-> {}]]
  <2>1. tt \in AppState /\ x \in Addr
    BY <1>2, <1>8
  <2>2. /\ u \in AppState /\ u.apps = tt.apps /\ u.owner = tt.owner /\ u.app = tt.app
        /\ u.made = [tt.made EXCEPT ![x] = {}] /\ u.joined = [tt.joined EXCEPT ![x] = {}]
        /\ u.amt = [tt.amt EXCEPT ![x] = 0] /\ u.auth = [tt.auth EXCEPT ![x] = x]
        /\ u.min = [tt.min EXCEPT ![x] = AccountMin] /\ u.keys = tt.keys
        /\ u.local = [tt.local EXCEPT ![x] = [m \in App |-> {}]]
    BY <2>1, NewAppAccountIs
  <2>. HIDE DEF u
  <2>. QED  BY <1>8, <2>2
<1>. HIDE DEF u
<1>10. /\ UnbornUntouched(s) /\ AppsRegistered(s) /\ NoAddr \notin Addr
       /\ s.apps \in Nat /\ n = s.apps + 1
  BY LedgerAssumption, AppNumbers DEF LedgerAssumption, AppSound, n
<1>11. s.made[x] = {} /\ s.joined[x] = {} /\ s.auth[x] = x
  BY <1>2, <1>10 DEF UnbornUntouched
<1>12. ASSUME NEW v \in AppState, v.apps = n, v.owner = w, v.app = p,
              \A b \in Addr : v.made[b] = c[b], \A b \in Addr : v.joined[b] = s.joined[b],
              \A b \in Addr : v.auth[b] = s.auth[b]
       PROVE  AppSound(v)
  <2>1. ASSUME NEW m \in App \ {0}, NEW b \in Addr PROVE m \in v.made[b] <=> v.owner[m] = b
    <3>1. m \in s.made[b] <=> s.owner[m] = b
      BY <1>10 DEF AppsRegistered
    <3>2. /\ v.made[b] = IF b = a THEN (s.made[b] \ {0}) \cup {n} ELSE s.made[b]
          /\ v.owner[m] = IF m = n THEN a ELSE s.owner[m]
      BY <1>6, <1>12
    <3>3. m = n => m \notin s.made[b]
      BY <1>10, <3>1 DEF AppsRegistered
    <3>. QED  BY <3>1, <3>2, <3>3
  <2>2. \A m \in App : v.owner[m] # NoAddr => m <= v.apps
    BY <1>6, <1>10, <1>12 DEF AppsRegistered, App
  <2>3. \A m \in App : v.owner[m] # NoAddr => Runnable(v.app[m])
    BY <1>6, <1>12 DEF AppSound
  <2>4. \A b \in Addr : v.joined[b] \subseteq 1..v.apps
    BY <1>10, <1>12 DEF AppSound
  <2>5. UnbornUntouched(v)
    <3>1. ASSUME NEW b \in Unborn(v) PROVE b \in Unborn(s)
      BY <1>10, <1>12 DEF Unborn
    <3>2. ASSUME NEW b \in Unborn(v) PROVE b \in Addr /\ v.made[b] = {}
      <4>1. b \in Unborn(s) /\ b \in Addr /\ b # a
        BY <3>1, UnbornAre
      <4>2. v.made[b] = s.made[b] /\ s.made[b] = {}
        BY <1>6, <1>10, <1>12, <4>1 DEF UnbornUntouched
      <4>. QED  BY <4>1, <4>2
    <3>. QED  BY <1>10, <1>12, <3>1, <3>2 DEF UnbornUntouched
  <2>. QED  BY <1>12, <2>1, <2>2, <2>3, <2>4, <2>5 DEF AppSound, AppsRegistered
<1>13. AppSound(t)
  BY <1>7, <1>12
<1>14. AppSound(u)
  <2>1. /\ \A b \in Addr : u.made[b] = c[b] /\ u.joined[b] = s.joined[b]
        /\ \A b \in Addr : u.auth[b] = s.auth[b]
    <3>1. /\ tt.made \in [Addr -> SUBSET App] /\ tt.joined \in [Addr -> SUBSET App]
          /\ tt.auth \in [Addr -> Addr]
      BY <1>8 DEF AppState
    <3>2. c[x] = {}
      BY <1>2, <1>6, <1>11
    <3>3. ASSUME NEW b \in Addr
          PROVE  /\ u.made[b] = IF b = x THEN {} ELSE tt.made[b]
                 /\ u.joined[b] = IF b = x THEN {} ELSE tt.joined[b]
                 /\ u.auth[b] = IF b = x THEN x ELSE tt.auth[b]
      <4>. HIDE DEF c, w, p
      <4>. QED  BY <1>2, <1>9, <3>1
    <3>. QED  BY <1>8, <1>11, <3>2, <3>3
  <2>. QED  BY <1>9, <1>12, <2>1
<1>15. s.made[x] = {} /\ s.joined[x] = {} /\ c[x] = {} /\ 0 \in App
  BY <1>1, <1>2, <1>6, <1>11
<1>16. ASSUME NEW v \in AppState, v.app = p, v.keys = k,
              \A b \in Addr : v.made[b] = c[b], \A b \in Addr : v.joined[b] = s.joined[b],
              \A b \in Addr \ {x} : v.min[b] = s.min[b] /\ v.local[b] = s.local[b]
       PROVE  /\ Excess(v, a) = Excess(s, a) - CreatorCost(s.app[0])
              /\ \A b \in Addr \ {a, x} : Excess(v, b) = Excess(s, b)
              /\ v.min[x] = s.min[x] => Excess(v, x) = Excess(s, x)
              /\ AppCosts(v, x) = 0
              /\ KeysFit(s) => KeysFit(v)
  <2>1. ASSUME NEW b \in Addr
        PROVE  /\ n \notin s.made[b] /\ n \notin s.joined[b]
               /\ SameSizes(s, v, s.made[b] \ {0}) /\ SameSizes(s, v, s.joined[b])
    <3>1. /\ s.joined[b] \subseteq 1..s.apps /\ s.joined[b] \subseteq App
          /\ s.made[b] \subseteq App
      BY <1>1 DEF AppSound, AppState
    <3>2. n \notin s.made[b]
      BY <1>2, <1>10 DEF AppsRegistered
    <3>3. n \notin s.joined[b]
      BY <1>10, <3>1
    <3>. QED  BY <1>6, <1>16, <3>1, <3>2, <3>3 DEF SameSizes
  <2>2. AppCosts(v, a) = AppCosts(s, a) + CreatorCost(s.app[0])
    <3>1. n \in App \ {0}
      BY <1>2, <1>10
    <3>2. v.made[a] = (s.made[a] \ {0}) \cup {n} /\ v.app[n] = s.app[0] /\ v.joined[a] = s.joined[a]
      BY <1>6, <1>16, <3>1
    <3>3. v.made[a] \ {0} = (s.made[a] \ {0}) \cup {n}
      BY <3>1, <3>2
    <3>4. n \notin s.made[a] /\ SameSizes(s, v, s.made[a] \ {0}) /\ SameSizes(s, v, s.joined[a])
      BY <2>1
    <3>. QED  BY <1>1, <1>16, <3>1, <3>2, <3>3, <3>4, CostsOfMade
  <2>3. /\ AppCosts(s, a) \in Nat /\ s.min[a] \in Int /\ AccountMin \in Nat
        /\ CreatorCost(s.app[0]) \in Nat /\ v.min[a] = s.min[a]
    BY <1>1, <1>2, <1>3, <1>16, ExcessInt, CostNat, LedgerAssumption DEF LedgerAssumption
  <2>4. Excess(v, a) = Excess(s, a) - CreatorCost(s.app[0])
    BY <2>2, <2>3 DEF Excess
  <2>5. \A b \in Addr \ {a, x} : Excess(v, b) = Excess(s, b)
    <3>. SUFFICES ASSUME NEW b \in Addr \ {a, x} PROVE Excess(v, b) = Excess(s, b)
      OBVIOUS
    <3>1. v.made[b] = s.made[b] /\ v.min[b] = s.min[b]
      BY <1>6, <1>16
    <3>. QED  BY <1>1, <1>16, <2>1, <3>1, ExcessStays
  <2>6. v.min[x] = s.min[x] => Excess(v, x) = Excess(s, x)
    BY <1>1, <1>2, <1>15, <1>16, <2>1, ExcessStays
  <2>7. AppCosts(v, x) = 0
    <3>1. v.made[x] \ {0} = {} /\ v.joined[x] = {}
      BY <1>2, <1>15, <1>16
    <3>2. AppCosts(v, x) = SumOver(CreatorCosts(v), {}) + SumOver(HolderCosts(v), {})
      BY <1>2, <3>1, CostsAre
    <3>3. SumOver(CreatorCosts(v), {}) = 0 /\ SumOver(HolderCosts(v), {}) = 0
      BY SumOverNothing
    <3>. QED  BY <3>2, <3>3
  <2>8. KeysFit(s) => KeysFit(v)
    <3>. SUFFICES ASSUME KeysFit(s) PROVE KeysFit(v)
      OBVIOUS
    <3>1. \A m \in App : Cardinality(v.keys[m]) <= v.app[m].globals
      <4>1. Cardinality({}) = 0 /\ s.app[0].globals \in Nat
        BY <1>3, FS_EmptySet DEF Code
      <4>2. n # 0
        BY <1>10
      <4>. QED  BY <1>6, <1>15, <1>16, <4>1, <4>2 DEF KeysFit
    <3>2. ASSUME NEW b \in Addr, NEW m \in v.joined[b]
          PROVE  Cardinality(v.local[b][m]) <= v.app[m].locals
      <4>1. b # x /\ m \in s.joined[b]
        BY <1>15, <1>16, <3>2
      <4>. QED  BY <1>16, <2>1, <4>1 DEF KeysFit, SameSizes
    <3>. QED  BY <3>1, <3>2 DEF KeysFit
  <2>. QED  BY <2>4, <2>5, <2>6, <2>7, <2>8
<1>17. /\ Excess(o.s, a) = Excess(s, a) - CreatorCost(s.app[0])
       /\ \A b \in Addr \ {a} : Excess(o.s, b) = IF o.ok /\ b = x THEN 0 ELSE Excess(s, b)
       /\ KeysFit(s) => KeysFit(o.s)
  <2>1. CASE ~o.ok
    BY <1>2, <1>4, <1>7, <1>16, <2>1
  <2>2. CASE o.ok
    <3>1. /\ \A b \in Addr : u.made[b] = c[b] /\ u.joined[b] = s.joined[b]
          /\ \A b \in Addr \ {x} : u.min[b] = s.min[b] /\ u.local[b] = s.local[b]
          /\ u.min[x] = AccountMin
      <4>1. /\ tt.made \in [Addr -> SUBSET App] /\ tt.joined \in [Addr -> SUBSET App]
            /\ s.min \in [Addr -> Int] /\ s.local \in [Addr -> [App -> SUBSET Key]]
        BY <1>1, <1>8 DEF AppState
      <4>2. ASSUME NEW b \in Addr
            PROVE  /\ u.made[b] = IF b = x THEN {} ELSE tt.made[b]
                   /\ u.joined[b] = IF b = x THEN {} ELSE tt.joined[b]
        BY <1>9, <4>1
      <4>3. \A b \in Addr : u.made[b] = c[b] /\ u.joined[b] = s.joined[b]
        BY <1>8, <1>15, <4>2
      <4>4. ASSUME NEW b \in Addr
            PROVE  u.min[b] = IF b = x THEN AccountMin ELSE s.min[b]
        BY <1>9, <4>1
      <4>5. ASSUME NEW b \in Addr \ {x} PROVE u.local[b] = s.local[b]
        BY <1>9, <4>1
      <4>. QED  BY <1>2, <4>3, <4>4, <4>5
    <3>2. AccountMin \in Nat
      BY LedgerAssumption DEF LedgerAssumption
    <3>3. u \in AppState /\ u.app = p /\ u.keys = k
      BY <1>9
    <3>4. /\ Excess(u, a) = Excess(s, a) - CreatorCost(s.app[0])
          /\ \A b \in Addr \ {a, x} : Excess(u, b) = Excess(s, b)
          /\ AppCosts(u, x) = 0
          /\ KeysFit(s) => KeysFit(u)
      BY <1>16, <3>1, <3>3
    <3>5. Excess(u, x) = 0
      BY <3>1, <3>2, <3>4 DEF Excess
    <3>. QED  BY <1>2, <1>4, <2>2, <3>4, <3>5
  <2>. QED  BY <2>1, <2>2
<1>18. /\ AppSound(o.s) /\ o.s.apps = n
       /\ o.s.amt = IF o.ok THEN [s.amt EXCEPT ![x] = 0] ELSE s.amt
  BY <1>4, <1>7, <1>8, <1>9, <1>13, <1>14
<1>. HIDE DEF o
<1>. QED  BY <1>17, <1>18 DEF n, x, o

-----------------------------------------------------------------------------
(* Algos                                                                   *)

\* A ledger that differs from a sound one in Algos, known accounts and signing
\* authority only.
LEMMA OnlyAlgos ==
  ASSUME NEW s, AppSound(s), NEW t \in AppState, t.apps = s.apps, t.joined = s.joined,
         t.made = s.made, t.owner = s.owner, t.app = s.app,
         \A a \in Unborn(s) : t.auth[a] = s.auth[a]
  PROVE  AppSound(t)
<1>1. AppsRegistered(t)
  BY DEF AppSound, AppsRegistered
<1>2. Unborn(t) = Unborn(s)
  BY DEF Unborn
<1>3. UnbornUntouched(t)
  BY <1>2 DEF AppSound, UnbornUntouched
<1>. QED  BY <1>1, <1>3 DEF AppSound

\* Ledgers that differ in Algos and keys to sign with.
Alike(s, t) ==
  /\ t.apps = s.apps /\ t.app = s.app /\ t.owner = s.owner /\ t.joined = s.joined
  /\ t.min = s.min /\ t.made = s.made /\ t.keys = s.keys /\ t.local = s.local

\* A fee keeps a ledger sound; it is taken from the sender or not at all.
LEMMA DeductFeeKeeps ==
  ASSUME NEW s, AppSound(s), NEW tx \in AppTx
  PROVE  LET o == DeductFee(s, tx)
         IN  /\ AppSound(o.s) /\ Alike(s, o.s)
             /\ o.s.amt = [s.amt EXCEPT ![tx.from] = @ - ChargedFee(tx)] \/ (~o.ok /\ o.s = s)
<1>. DEFINE f == [s.amt EXCEPT ![tx.from] = s.amt[tx.from] - ChargedFee(tx)]
            t == [s EXCEPT !.amt = f]
            o == DeductFee(s, tx)
<1>1. s \in AppState /\ tx.from \in Addr /\ ChargedFee(tx) \in Nat
  BY LedgerAssumption DEF AppSound, AppTx, ChargedFee, LedgerAssumption
<1>2. f \in [Addr -> Int]
  BY <1>1 DEF AppState
<1>3. o = Throw(s) \/ o.s = t
  BY <1>1 DEF DeductFee, Debit, AppState
<1>4. t \in AppState /\ Alike(s, t) /\ t.amt = f /\ t.auth = s.auth /\ t.made = s.made
  <2>. HIDE DEF f
  <2>. QED  BY <1>1, <1>2 DEF AppState, Alike
<1>5. f = [s.amt EXCEPT ![tx.from] = @ - ChargedFee(tx)]
  BY <1>1 DEF AppState
<1>. HIDE DEF f, t, o
<1>6. AppSound(t)
  BY <1>4, OnlyAlgos DEF Alike
<1>7. /\ AppSound(o.s) /\ Alike(s, o.s)
      /\ o.s.amt = f \/ (~o.ok /\ o.s = s)
  BY <1>3, <1>4, <1>6 DEF Throw, Alike
<1>. QED  BY <1>5, <1>7 DEF o

\* A payment keeps a ledger sound and the sum of its Algos, also one that throws.
LEMMA TransferAlgoKeeps ==
  ASSUME NEW s, AppSound(s), NEW tx \in AppTx
  PROVE  LET o == TransferAlgo(s, tx)
         IN  AppSound(o.s) /\ Alike(s, o.s) /\ Sum(o.s.amt) = Sum(s.amt)
<1>. DEFINE x == tx.from
            known == s.acct \cup {tx.to}
            f == [s.amt EXCEPT ![x] = s.amt[x] - tx.amt]
            g == [f EXCEPT ![tx.to] = f[tx.to] + tx.amt]
            h == [g EXCEPT ![x] = g[x] - g[x]]
            i == [h EXCEPT ![tx.close] = h[tx.close] + g[x]]
            t == [s EXCEPT !.acct = known, !.amt = g]
            u == [s EXCEPT !.acct = known, !.amt = i]
            o == TransferAlgo(s, tx)
<1>1. s \in AppState /\ x \in Addr /\ tx.to \in Addr /\ tx.amt \in Nat /\ IsFiniteSet(Addr)
  BY LedgerAssumption DEF AppSound, AppTx, LedgerAssumption
<1>2. f \in [Addr -> Int] /\ s.amt \in [Addr -> Int]
  BY <1>1 DEF AppState
<1>3. g \in [Addr -> Int]
  BY <1>1, <1>2
<1>4. h \in [Addr -> Int]
  BY <1>1, <1>3
<1>5. tx.close \in Addr => i \in [Addr -> Int]
  <2>. SUFFICES ASSUME tx.close \in Addr PROVE i \in [Addr -> Int]
    OBVIOUS
  <2>1. h[tx.close] + g[x] \in Int
    BY <1>1, <1>3, <1>4
  <2>. HIDE DEF g, h
  <2>. QED  BY <1>4, <2>1
<1>6. o.s = t \/ (o.s = u /\ tx.close \in Addr /\ tx.close # x)
  <2>. DEFINE k == [s EXCEPT !.acct = known]
              moved == Credit(Debit(k, x, tx.amt), tx.to, tx.amt)
              closed == Credit(Debit(moved, x, moved.amt[x]), tx.close, moved.amt[x])
  <2>1. o.s = moved \/ (o.s = closed /\ tx.close \in moved.acct \ {x})
    BY DEF TransferAlgo, Ok, Throw
  <2>2. moved = t
    BY <1>1, <1>2 DEF Debit, Credit, AppState
  <2>3. t \in AppState /\ t.amt = g /\ t.acct = known /\ known \in SUBSET Addr
    <3>1. known \in SUBSET Addr
      BY <1>1 DEF AppState
    <3>. HIDE DEF known, g
    <3>. QED  BY <1>1, <1>3, <3>1 DEF AppState
  <2>4. closed = [[t EXCEPT !.amt = h] EXCEPT !.amt = i]
    <3>. HIDE DEF moved, t
    <3>. QED  BY <1>1, <1>3, <2>2, <2>3 DEF Debit, Credit, AppState
  <2>5. [[t EXCEPT !.amt = h] EXCEPT !.amt = i] = u
    <3>. HIDE DEF g, h, i, known
    <3>. QED  BY <1>1 DEF AppState
  <2>. HIDE DEF k, moved, closed, t, u, o
  <2>. QED  BY <2>1, <2>2, <2>3, <2>4, <2>5
<1>7. Sum(g) = Sum(s.amt)
  <2>1. \A b \in Addr \ {x, tx.to} : g[b] = s.amt[b]
    BY <1>1, <1>2, <1>3
  <2>2. IF x = tx.to THEN g[x] = s.amt[x] ELSE g[x] + g[tx.to] = s.amt[x] + s.amt[tx.to]
    BY <1>1, <1>2, <1>3
  <2>. HIDE DEF g
  <2>. QED  BY <1>1, <1>2, <1>3, <2>1, <2>2, SumOfMove
<1>8. tx.close \in Addr /\ tx.close # x => Sum(i) = Sum(g)
  <2>. SUFFICES ASSUME tx.close \in Addr, tx.close # x PROVE Sum(i) = Sum(g)
    OBVIOUS
  <2>. DEFINE y == tx.close
  <2>1. \A b \in Addr \ {x, y} : i[b] = g[b]
    BY <1>1, <1>3, <1>4
  <2>2. i[x] + i[y] = g[x] + g[y]
    BY <1>1, <1>3, <1>4
  <2>3. y \in Addr /\ y # x /\ i \in [Addr -> Int]
    BY <1>5
  <2>. HIDE DEF g, i, y
  <2>. QED  BY <1>1, <1>3, <2>1, <2>2, <2>3, SumOfMove
<1>. HIDE DEF f, g, h, i
<1>9. ASSUME NEW k \in [Addr -> Int]
      PROVE  LET v == [s EXCEPT !.acct = known, !.amt = k]
             IN  AppSound(v) /\ Alike(s, v) /\ v.amt = k
  <2>. DEFINE v == [s EXCEPT !.acct = known, !.amt = k]
  <2>1. known \in SUBSET Addr
    BY <1>1 DEF AppState
  <2>. HIDE DEF known
  <2>2. v \in AppState /\ Alike(s, v) /\ v.amt = k /\ v.auth = s.auth /\ v.made = s.made
    BY <1>1, <1>9, <2>1 DEF AppState, Alike
  <2>. HIDE DEF v
  <2>3. AppSound(v)
    BY <2>2, OnlyAlgos DEF Alike
  <2>. QED  BY <2>2, <2>3 DEF v
<1>. HIDE DEF known
<1>10. AppSound(t) /\ Alike(s, t) /\ t.amt = g
  BY <1>3, <1>9
<1>11. tx.close \in Addr => AppSound(u) /\ Alike(s, u) /\ u.amt = i
  BY <1>5, <1>9
<1>. HIDE DEF t, u, o
<1>12. AppSound(o.s) /\ Alike(s, o.s) /\ Sum(o.s.amt) = Sum(s.amt)
  BY <1>6, <1>7, <1>8, <1>10, <1>11
<1>. QED  BY <1>12 DEF o

\* Rekeying an account that is not the address of an application to come keeps
\* a ledger sound.
LEMMA RekeyKeeps ==
  ASSUME NEW s, AppSound(s), NEW tx \in AppTx, tx.from \notin Unborn(s)
  PROVE  LET t == Rekey(s, tx)
         IN  AppSound(t) /\ Alike(s, t) /\ t.amt = s.amt
<1>1. s \in AppState /\ tx.from \in Addr
  BY DEF AppSound, AppTx
<1>2. ASSUME NEW b \in Addr
      PROVE  LET t == [s EXCEPT !.auth = [s.auth EXCEPT ![tx.from] = b]]
             IN  AppSound(t) /\ Alike(s, t) /\ t.amt = s.amt
  <2>. DEFINE f == [s.auth EXCEPT ![tx.from] = b]
              t == [s EXCEPT !.auth = f]
  <2>1. f \in [Addr -> Addr] /\ \A a \in Unborn(s) : f[a] = s.auth[a]
    BY <1>1, UnbornAre DEF AppState
  <2>. HIDE DEF f
  <2>2. t \in AppState /\ Alike(s, t) /\ t.amt = s.amt /\ t.auth = f /\ t.made = s.made
    BY <1>1, <2>1 DEF AppState, Alike
  <2>. HIDE DEF t
  <2>3. AppSound(t)
    BY <2>1, <2>2, OnlyAlgos DEF Alike
  <2>. QED  BY <2>2, <2>3 DEF t, f
<1>3. \/ Rekey(s, tx) = s
      \/ \E b \in Addr : Rekey(s, tx) = [s EXCEPT !.auth = [s.auth EXCEPT ![tx.from] = b]]
  BY <1>1 DEF Rekey, AppTx, AppState
<1>4. CASE Rekey(s, tx) = s
  BY <1>4 DEF Alike
<1>5. CASE \E b \in Addr : Rekey(s, tx) = [s EXCEPT !.auth = [s.auth EXCEPT ![tx.from] = b]]
  BY <1>2, <1>5
<1>. QED  BY <1>3, <1>4, <1>5

-----------------------------------------------------------------------------
(* The stack of calls                                                      *)

\* Calls of processTransactions.
GroupFrames == [form : {"group"}, txs : Seq(AppTx), at : Nat \ {0}]
\* Calls of runtime.run.
ProgramFrames ==
  [form : {"program"}, steps : {Body[name] : name \in DOMAIN Body}, pc : Nat \ {0},
   app : App, who : Addr, after : Then, code : Code, inner : Seq(AppTx), submitted : Nat]

\* What a transaction has to be when it is a call.
Callable(tx) ==
  /\ tx.then = "create" <=> tx.app = 0
  /\ tx.code.valid => Runnable(tx.code)

\* What a group at depth k satisfies: no transaction is signed by the address of
\* an application to come, or is unsigned and of such an address; and inner
\* transactions are plain calls or payments.
GroupFits(f, k, s) ==
  /\ f \in GroupFrames
  /\ f.at \in 1..(Len(f.txs) + 1)
  /\ \A i \in DOMAIN f.txs :
       /\ f.txs[i].signer \notin Unborn(s)
       /\ Unsigned(f.txs[i]) => f.txs[i].from \notin Unborn(s)
       /\ k > 1 => f.txs[i].then = "call"
       /\ IsCall(f.txs[i]) => Callable(f.txs[i])

\* An inner transaction is a payment or a plain call.
ProgramFits(f, k, s) ==
  /\ f \in ProgramFrames
  /\ f.who \notin Unborn(s)
  /\ k = 1 => f.after \in {"create", "join", "update"}
  /\ k > 2 => f.after = "call"
  /\ f.after = "create" <=> f.app = 0
  /\ f.after = "create" => Runnable(s.app[0])
  /\ f.after = "update" => Runnable(f.code)
  /\ ClearsTidy => (f.after = "clear" => NoPuts(f.steps))
  /\ f.inner # <<>> => f.app # 0 /\ f.after # "clear"
  /\ \A i \in DOMAIN f.inner :
       /\ f.inner[i].signer \in Addr \ Unborn(s)
       /\ f.inner[i].then = "call" /\ ~f.inner[i].code.valid

\* What a frame at depth k satisfies.
FrameFits(f, k, s) ==
  IF f.form = "group" THEN GroupFits(f, k, s) ELSE ProgramFits(f, k, s)

\* The frame g on the frame f: the program of the call that a group is at, or
\* the inner group of a program.
Linked(f, g, s) ==
  IF f.form = "group"
  THEN LET tx == f.txs[f.at]
       IN  /\ f.at <= Len(f.txs) /\ IsCall(tx) /\ tx.from \notin Unborn(s)
           /\ g.form = "program"
           /\ g.app = tx.app /\ g.who = tx.from /\ g.after = tx.then /\ g.code = tx.code
  ELSE f.inner # <<>> /\ g.form = "group"

\* Frames of both forms.
Frames == GroupFrames \cup ProgramFrames
\* The stack: every frame fits, and every frame is what the one below waits for.
StackOK(fs, s) ==
  /\ fs \in Seq(Frames)
  /\ \A k \in 1..Len(fs) : FrameFits(fs[k], k, s)
  /\ \A k \in 1..(Len(fs) - 1) : Linked(fs[k], fs[k + 1], s)

\* A frame fits a later ledger, with fewer applications to come.
LEMMA FitsLater ==
  ASSUME NEW s, NEW t, Unborn(t) \subseteq Unborn(s), NEW f, NEW k \in Nat \ {0},
         FrameFits(f, k, s), f.form = "program" /\ f.after = "create" => Runnable(t.app[0])
  PROVE  FrameFits(f, k, t)
<1>1. CASE f.form = "group"
  BY <1>1 DEF FrameFits, GroupFits
<1>2. CASE f.form # "group"
  <2>1. ProgramFits(f, k, s) /\ f.form = "program"
    BY <1>2 DEF FrameFits, ProgramFits, ProgramFrames
  <2>2. \A i \in DOMAIN f.inner : f.inner[i].signer \in Addr \ Unborn(t)
    BY <2>1 DEF ProgramFits
  <2>3. f.who \notin Unborn(t)
    BY <2>1 DEF ProgramFits
  <2>4. ProgramFits(f, k, t)
    BY <2>1, <2>2, <2>3 DEF ProgramFits
  <2>. QED  BY <1>2, <2>4 DEF FrameFits
<1>. QED  BY <1>1, <1>2

\* So does a stack.
LEMMA StackLater ==
  ASSUME NEW fs, NEW s, StackOK(fs, s), NEW t, Unborn(t) \subseteq Unborn(s),
         \A k \in 1..Len(fs) :
           fs[k].form = "program" /\ fs[k].after = "create" => Runnable(t.app[0])
  PROVE  StackOK(fs, t)
<1>1. \A k \in 1..Len(fs) : FrameFits(fs[k], k, t)
  <2>. SUFFICES ASSUME NEW k \in 1..Len(fs) PROVE FrameFits(fs[k], k, t)
    OBVIOUS
  <2>1. k \in Nat \ {0} /\ FrameFits(fs[k], k, s)
    BY DEF StackOK
  <2>. QED  BY <2>1, FitsLater
<1>2. \A k \in 1..(Len(fs) - 1) : Linked(fs[k], fs[k + 1], t)
  BY DEF StackOK, Linked
<1>. QED  BY <1>1, <1>2 DEF StackOK

\* What remains of a stack when frames are dropped is a stack.
LEMMA StackPrefix ==
  ASSUME NEW fs, NEW s, StackOK(fs, s), NEW m \in 0..Len(fs)
  PROVE  StackOK(SubSeq(fs, 1, m), s)
<1>. DEFINE gs == SubSeq(fs, 1, m)
<1>1. fs \in Seq(Frames)
  BY DEF StackOK
<1>2. gs \in Seq(Frames) /\ Len(gs) = m /\ \A k \in 1..m : gs[k] = fs[k]
  BY <1>1
<1>. HIDE DEF gs
<1>3. Len(fs) \in Nat
  BY <1>1
<1>4. \A k \in 1..Len(gs) : FrameFits(gs[k], k, s)
  BY <1>2, <1>3 DEF StackOK
<1>5. ASSUME NEW k \in 1..(Len(gs) - 1) PROVE Linked(gs[k], gs[k + 1], s)
  <2>1. k \in 1..m /\ k + 1 \in 1..m /\ k \in 1..(Len(fs) - 1)
    BY <1>2, <1>3
  <2>. QED  BY <1>2, <2>1 DEF StackOK
<1>6. StackOK(gs, s)
  BY <1>2, <1>4, <1>5 DEF StackOK
<1>. QED  BY <1>6 DEF gs

\* A frame that fits and is linked to the one on top may be put on it.
LEMMA StackPush ==
  ASSUME NEW fs, NEW s, StackOK(fs, s), NEW g \in Frames, FrameFits(g, Len(fs) + 1, s),
         fs # <<>> => Linked(fs[Len(fs)], g, s)
  PROVE  StackOK(Append(fs, g), s)
<1>. DEFINE gs == Append(fs, g)
<1>1. fs \in Seq(Frames) /\ Len(fs) \in Nat
  BY DEF StackOK
<1>2. /\ gs \in Seq(Frames) /\ Len(gs) = Len(fs) + 1 /\ gs[Len(fs) + 1] = g
      /\ \A k \in 1..Len(fs) : gs[k] = fs[k]
  BY <1>1
<1>. HIDE DEF gs
<1>3. \A k \in 1..Len(gs) : FrameFits(gs[k], k, s)
  <2>. SUFFICES ASSUME NEW k \in 1..Len(gs) PROVE FrameFits(gs[k], k, s)
    OBVIOUS
  <2>1. k \in 1..Len(fs) \/ k = Len(fs) + 1
    BY <1>1, <1>2
  <2>. QED  BY <1>2, <2>1 DEF StackOK
<1>4. ASSUME NEW k \in 1..(Len(gs) - 1) PROVE Linked(gs[k], gs[k + 1], s)
  <2>1. CASE k = Len(fs)
    <3>1. fs # <<>> /\ k \in 1..Len(fs)
      BY <1>1, <2>1
    <3>. QED  BY <1>2, <2>1, <3>1
  <2>2. CASE k # Len(fs)
    <3>1. k \in 1..(Len(fs) - 1) /\ k \in 1..Len(fs) /\ k + 1 \in 1..Len(fs)
      BY <1>1, <1>2, <2>2
    <3>. QED  BY <1>2, <3>1 DEF StackOK
  <2>. QED  BY <2>1, <2>2
<1>5. StackOK(gs, s)
  BY <1>2, <1>3, <1>4 DEF StackOK
<1>. QED  BY <1>5 DEF gs

\* The types of the other fields of the context.
Nets ==
  [inner : BOOLEAN, callers : Seq(App), left : Nat, credit : Int, cost : Nat,
   budget : Nat, kind : {"none", "unknown", "pay", "appl"}]

\* The creations that a group still has before it.
CreatesLeft(f) == {i \in f.at..Len(f.txs) : f.txs[i].then = "create"}

\* There are numbers for all the applications that the outermost group creates.
RoomFor(fs, n) ==
  fs # <<>> =>
    IF fs[1].form = "group" THEN n + Cardinality(CreatesLeft(fs[1])) <= MaxApp
    ELSE fs[1].after = "create" => n < MaxApp

\* The inductive invariant: two sound ledgers, of which the store is the older
\* one, and the stack of calls over the context's.
CallInv ==
  /\ AppSound(store) /\ AppSound(ctx)
  /\ store.apps <= ctx.apps
  /\ shared \in BOOLEAN /\ (shared => store = ctx)
  /\ net \in Nets
  /\ StackOK(frames, ctx)
  /\ RoomFor(frames, ctx.apps)

\* With more applications there are fewer to come.
LEMMA UnbornShrink ==
  ASSUME NEW s, NEW t, AppSound(s), AppSound(t), s.apps <= t.apps
  PROVE  Unborn(t) \subseteq Unborn(s)
BY AppNumbers DEF Unborn

\* The frame on top.
LEMMA OnTop ==
  ASSUME CallInv, frames # <<>>
  PROVE  /\ Depth \in Nat \ {0} /\ Depth \in 1..Len(frames) /\ Depth = Len(frames)
         /\ frames \in Seq(Frames) /\ Current \in Frames
         /\ FrameFits(Current, Depth, ctx)
         /\ Below \in Seq(Frames) /\ Len(Below) = Depth - 1
         /\ \A k \in 1..(Depth - 1) : Below[k] = frames[k]
         /\ StackOK(Below, ctx)
         /\ Below # <<>> => Linked(Below[Len(Below)], Current, ctx) /\ Below[1] = frames[1]
<1>1. frames \in Seq(Frames)
  BY DEF CallInv, StackOK
<1>2. /\ Depth \in Nat \ {0} /\ Depth \in 1..Len(frames) /\ Depth = Len(frames)
      /\ Current \in Frames /\ Depth - 1 \in 0..Len(frames)
  BY <1>1 DEF Depth, Current
<1>3. FrameFits(Current, Depth, ctx)
  BY <1>2 DEF CallInv, StackOK, Current
<1>4. /\ Below \in Seq(Frames) /\ Len(Below) = Depth - 1
      /\ \A k \in 1..(Depth - 1) : Below[k] = frames[k]
  BY <1>1, <1>2 DEF Below
<1>5. StackOK(Below, ctx)
  BY <1>2, StackPrefix DEF CallInv, Below
<1>6. ASSUME Below # <<>>
      PROVE  Linked(Below[Len(Below)], Current, ctx) /\ Below[1] = frames[1]
  <2>1. Depth - 1 \in 1..(Len(frames) - 1) /\ 1 \in 1..(Depth - 1) /\ (Depth - 1) + 1 = Depth
    BY <1>2, <1>4, <1>6
  <2>2. Linked(frames[Depth - 1], frames[(Depth - 1) + 1], ctx)
    BY <2>1 DEF CallInv, StackOK
  <2>. QED  BY <1>2, <1>4, <2>1, <2>2 DEF Current
<1>. QED  BY <1>1, <1>2, <1>3, <1>4, <1>5, <1>6

-----------------------------------------------------------------------------
(* The end of a transaction, and exceptions                                *)

\* The creations before a group can be counted.
LEMMA CreatesFinite ==
  ASSUME NEW f \in GroupFrames
  PROVE  IsFiniteSet(CreatesLeft(f)) /\ Cardinality(CreatesLeft(f)) \in Nat
<1>1. f.at \in Int /\ Len(f.txs) \in Int
  BY DEF GroupFrames
<1>2. IsFiniteSet(f.at..Len(f.txs))
  BY <1>1, FS_Interval
<1>3. CreatesLeft(f) \subseteq f.at..Len(f.txs)
  BY DEF CreatesLeft
<1>. QED  BY <1>2, <1>3, FS_Subset, FS_CardinalityType

\* The front of a sequence.
LEMMA PrefixOf ==
  ASSUME NEW S, NEW fs \in Seq(S), NEW m \in 0..Len(fs)
  PROVE  /\ SubSeq(fs, 1, m) \in Seq(S) /\ Len(SubSeq(fs, 1, m)) = m
         /\ \A k \in 1..m : SubSeq(fs, 1, m)[k] = fs[k]
OBVIOUS

\* A sequence is its front and its last element.
LEMMA FrontOf ==
  ASSUME NEW S, NEW fs \in Seq(S), fs # <<>>
  PROVE  /\ Len(fs) \in Nat \ {0} /\ Len(fs) \in 1..Len(fs) /\ Len(fs) - 1 \in 0..Len(fs)
         /\ SubSeq(fs, 1, Len(fs) - 1) \in Seq(S)
         /\ Len(SubSeq(fs, 1, Len(fs) - 1)) = Len(fs) - 1
         /\ \A k \in 1..(Len(fs) - 1) : SubSeq(fs, 1, Len(fs) - 1)[k] = fs[k]
         /\ \A h \in S : [fs EXCEPT ![Len(fs)] = h] = Append(SubSeq(fs, 1, Len(fs) - 1), h)
<1>. DEFINE m == Len(fs) - 1
            front == SubSeq(fs, 1, m)
<1>1. Len(fs) \in Nat \ {0} /\ Len(fs) \in 1..Len(fs) /\ m \in 0..Len(fs) /\ Len(fs) = m + 1
  OBVIOUS
<1>. HIDE DEF m
<1>2. front \in Seq(S) /\ Len(front) = m /\ \A k \in 1..m : front[k] = fs[k]
  BY <1>1, PrefixOf
<1>. HIDE DEF front
<1>3. ASSUME NEW h \in S PROVE [fs EXCEPT ![Len(fs)] = h] = Append(front, h)
  <2>. DEFINE a == [fs EXCEPT ![Len(fs)] = h]
              b == Append(front, h)
  <2>1. a \in Seq(S) /\ Len(a) = m + 1
    BY <1>1
  <2>2. b \in Seq(S) /\ Len(b) = m + 1
    BY <1>1, <1>2
  <2>3. \A k \in 1..(m + 1) : a[k] = IF k = m + 1 THEN h ELSE fs[k]
    BY <1>1
  <2>4. \A k \in 1..(m + 1) : b[k] = IF k = m + 1 THEN h ELSE fs[k]
    BY <1>1, <1>2
  <2>5. \A k \in 1..Len(a) : a[k] = b[k]
    BY <2>1, <2>3, <2>4
  <2>. HIDE DEF a, b
  <2>6. a = b
    BY <2>1, <2>2, <2>5, SeqEqual
  <2>. QED  BY <2>6 DEF a, b
<1>. QED  BY <1>1, <1>2, <1>3 DEF m, front

\* There is still room when the group goes on, also after a creation.
LEMMA RoomAfter ==
  ASSUME NEW fs \in Seq(Frames), fs # <<>>, NEW g, g = fs[Len(fs)], g \in GroupFrames,
         g.at <= Len(g.txs), NEW m \in Nat, RoomFor(fs, m), NEW n \in Nat,
         n <= m \/ (Len(fs) = 1 /\ g.txs[g.at].then = "create" /\ n = m + 1)
  PROVE  RoomFor([fs EXCEPT ![Len(fs)].at = @ + 1], n)
<1>. DEFINE h == [g EXCEPT !.at = g.at + 1]
            gs == [fs EXCEPT ![Len(fs)] = h]
<1>1. [fs EXCEPT ![Len(fs)].at = @ + 1] = gs
  OBVIOUS
<1>2. Len(fs) \in Nat \ {0} /\ 1 \in 1..Len(fs) /\ Len(fs) \in 1..Len(fs)
  OBVIOUS
<1>3. /\ h \in GroupFrames /\ h.at = g.at + 1 /\ h.txs = g.txs /\ h.form = "group"
      /\ g.at \in Nat \ {0} /\ Len(g.txs) \in Nat /\ g.form = "group"
  BY DEF GroupFrames
<1>. HIDE DEF h
<1>4. gs[1] = IF Len(fs) = 1 THEN h ELSE fs[1]
  BY <1>2
<1>5. gs # <<>>
  BY <1>2
<1>. HIDE DEF gs
<1>. SUFFICES RoomFor(gs, n)
  BY <1>1
<1>6. CASE Len(fs) = 1
  <2>1. CreatesLeft(h) = CreatesLeft(g) \ {g.at}
    BY <1>3 DEF CreatesLeft
  <2>2. IsFiniteSet(CreatesLeft(g)) /\ Cardinality(CreatesLeft(g)) \in Nat
    BY CreatesFinite
  <2>3. m + Cardinality(CreatesLeft(g)) <= MaxApp
    BY <1>3, <1>6 DEF RoomFor
  <2>4. CASE n <= m
    <3>1. /\ Cardinality(CreatesLeft(h)) <= Cardinality(CreatesLeft(g))
          /\ Cardinality(CreatesLeft(h)) \in Nat
      BY <1>3, <2>1, <2>2, FS_Subset, CreatesFinite
    <3>. QED  BY <1>3, <1>4, <1>6, <2>2, <2>3, <2>4, <3>1, AppLedgerAssumption
          DEF RoomFor, AppLedgerAssumption
  <2>5. CASE g.txs[g.at].then = "create" /\ n = m + 1
    <3>1. g.at \in CreatesLeft(g)
      BY <1>3, <2>5 DEF CreatesLeft
    <3>2. Cardinality(CreatesLeft(h)) = Cardinality(CreatesLeft(g)) - 1
      <4>. DEFINE C == CreatesLeft(g)
      <4>1. IsFiniteSet(C) /\ g.at \in C
        BY <2>2, <3>1
      <4>. HIDE DEF C
      <4>2. Cardinality(C \ {g.at}) = Cardinality(C) - 1
        BY <4>1, FS_RemoveElement
      <4>. QED  BY <2>1, <4>2 DEF C
    <3>3. n + Cardinality(CreatesLeft(h)) <= MaxApp
      BY <2>2, <2>3, <2>5, <3>2, AppLedgerAssumption DEF AppLedgerAssumption
    <3>. QED  BY <1>3, <1>4, <1>6, <3>3 DEF RoomFor
  <2>. QED  BY <2>4, <2>5
<1>7. CASE Len(fs) # 1
  <2>1. gs[1] = fs[1] /\ n <= m
    BY <1>4, <1>7
  <2>2. fs[1] \in Frames
    BY <1>2
  <2>3. CASE fs[1].form = "group"
    <3>1. fs[1] \in GroupFrames
      BY <2>2, <2>3 DEF Frames, ProgramFrames
    <3>2. Cardinality(CreatesLeft(fs[1])) \in Nat
      BY <3>1, CreatesFinite
    <3>. QED  BY <2>1, <2>3, <3>2, AppLedgerAssumption DEF RoomFor, AppLedgerAssumption
  <2>4. CASE fs[1].form # "group"
    BY <2>1, <2>4, AppLedgerAssumption DEF RoomFor, AppLedgerAssumption
  <2>. QED  BY <2>3, <2>4
<1>. QED  BY <1>6, <1>7

\* What is written while a call is in progress.
LEMMA WriteKeeps ==
  ASSUME CallInv, NEW s, AppSound(s), ctx.apps <= s.apps,
         ctx' = s, store' = IF shared THEN s ELSE store
  PROVE  /\ AppSound(store') /\ AppSound(ctx') /\ store'.apps <= ctx'.apps
         /\ shared => store' = ctx'
  BY AppNumbers DEF CallInv

\* The empty stack.
LEMMA NothingRuns ==
  ASSUME NEW s
  PROVE  StackOK(<<>>, s) /\ \A n : RoomFor(<<>>, n)
BY DEF StackOK, RoomFor

\* An exception that reaches the caller keeps the invariant.
LEMMA ThrownKeeps ==
  ASSUME CallInv, NEW s, AppSound(s), ctx.apps <= s.apps, NEW n \in Nets, Thrown(s, n)
  PROVE  CallInv'
<1>1. /\ AppSound(store') /\ AppSound(ctx') /\ store'.apps <= ctx'.apps
      /\ shared => store' = ctx'
  BY WriteKeeps DEF Thrown
<1>2. frames' = <<>> /\ shared' = shared /\ net' \in Nets
  BY DEF Thrown, Nets
<1>3. StackOK(frames, ctx)' /\ RoomFor(frames, ctx.apps)'
  BY <1>2, NothingRuns
<1>. QED  BY <1>1, <1>2, <1>3 DEF CallInv

\* The end of a transaction.
LEMMA FinishTxKeeps ==
  ASSUME CallInv, NEW s, AppSound(s), ctx.apps <= s.apps, NEW n \in Nets,
         NEW fs, fs # <<>>, StackOK(fs, s), NEW g, g = fs[Len(fs)], g.form = "group",
         g.at <= Len(g.txs), g.txs[g.at].from \notin Unborn(s),
         RoomFor(fs, ctx.apps),
         s.apps <= ctx.apps \/
           (Len(fs) = 1 /\ g.txs[g.at].then = "create" /\ s.apps = ctx.apps + 1),
         FinishTx(s, fs, n)
  PROVE  CallInv'
<1>. DEFINE tx == g.txs[g.at]
            t == Rekey(s, tx)
            h == [g EXCEPT !.at = g.at + 1]
            gs == [fs EXCEPT ![Len(fs)].at = @ + 1]
            front == SubSeq(fs, 1, Len(fs) - 1)
<1>1. /\ fs \in Seq(Frames) /\ Len(fs) \in Nat \ {0} /\ Len(fs) \in 1..Len(fs)
      /\ g \in Frames /\ FrameFits(g, Len(fs), s)
  BY DEF StackOK
<1>2. GroupFits(g, Len(fs), s) /\ g \in GroupFrames /\ g.at \in 1..Len(g.txs) /\ Len(g.txs) \in Nat
  BY <1>1 DEF FrameFits, GroupFits, GroupFrames
<1>3. tx \in AppTx
  BY <1>2 DEF GroupFrames
<1>4. AppSound(t) /\ t.apps = s.apps /\ t.app = s.app
  BY <1>3, RekeyKeeps DEF Alike
<1>5. /\ AppSound(store') /\ AppSound(ctx') /\ store'.apps <= ctx'.apps
      /\ (shared => store' = ctx') /\ shared' = shared /\ ctx' = t /\ frames' = gs
  BY <1>4, WriteKeeps DEF FinishTx, Write
<1>6. StackOK(gs, s)
  <2>1. gs = Append(front, h)
    <3>1. gs = [fs EXCEPT ![Len(fs)] = h]
      OBVIOUS
    <3>2. h \in Frames
      BY <1>2 DEF Frames, GroupFrames
    <3>. HIDE DEF h, gs
    <3>. QED  BY <1>1, <3>1, <3>2, FrontOf
  <2>2. StackOK(front, s) /\ Len(front) = Len(fs) - 1
    BY <1>1, FrontOf, StackPrefix
  <2>3. h \in GroupFrames /\ h.form = "group" /\ GroupFits(h, Len(fs), s)
    BY <1>2 DEF GroupFits, GroupFrames
  <2>4. ASSUME front # <<>> PROVE Linked(front[Len(front)], h, s)
    <3>. DEFINE j == Len(fs) - 1
    <3>1. j \in 1..(Len(fs) - 1) /\ j + 1 = Len(fs) /\ front[Len(front)] = fs[j]
      BY <1>1, <2>2, <2>4
    <3>2. Linked(fs[j], fs[j + 1], s)
      BY <3>1 DEF StackOK
    <3>. QED  BY <2>3, <3>1, <3>2 DEF Linked
  <2>5. FrameFits(h, Len(front) + 1, s) /\ h \in Frames
    BY <1>1, <2>2, <2>3 DEF FrameFits, Frames
  <2>. HIDE DEF front, h, gs
  <2>6. StackOK(Append(front, h), s)
    BY <2>2, <2>4, <2>5, StackPush
  <2>. QED  BY <2>1, <2>6
<1>7. StackOK(gs, t)
  <2>1. Unborn(t) \subseteq Unborn(s)
    BY <1>4, UnbornShrink, AppNumbers
  <2>2. \A k \in 1..Len(gs) :
          gs[k].form = "program" /\ gs[k].after = "create" => Runnable(s.app[0])
    BY <1>6 DEF StackOK, FrameFits, ProgramFits
  <2>. HIDE DEF gs, t
  <2>. QED  BY <1>4, <1>6, <2>1, <2>2, StackLater
<1>8. RoomFor(gs, t.apps)
  <2>1. ctx.apps \in Nat /\ s.apps \in Nat
    BY AppNumbers DEF CallInv
  <2>2. RoomFor(gs, s.apps)
    BY <1>1, <1>2, <2>1, RoomAfter
  <2>. QED  BY <1>4, <2>2
<1>9. net' \in Nets
  <2>. DEFINE popped == IF n.callers = <<>> THEN <<>> ELSE SubSeq(n.callers, 1, Len(n.callers) - 1)
              callers == IF Len(popped) = 1 THEN <<>> ELSE popped
  <2>1. n.callers \in Seq(App)
    BY DEF Nets
  <2>2. popped \in Seq(App)
    BY <2>1
  <2>3. callers \in Seq(App)
    BY <2>2
  <2>4. net' = IF n.inner THEN [n EXCEPT !.callers = callers] ELSE n
    BY DEF FinishTx
  <2>. HIDE DEF callers
  <2>. QED  BY <2>3, <2>4 DEF Nets
<1>. HIDE DEF t, gs
<1>10. StackOK(frames, ctx)' /\ RoomFor(frames, ctx.apps)'
  BY <1>5, <1>7, <1>8
<1>. QED  BY <1>5, <1>9, <1>10 DEF CallInv

\* A clear-state call comes in a group, and its program makes no calls.
LEMMA ClearIsSecond ==
  ASSUME CallInv, NEW k \in Clears
  PROVE  /\ k = 2 /\ Depth = 2 /\ Below = SubSeq(frames, 1, k - 1) /\ Current = frames[k]
         /\ Below # <<>> /\ frames[1].form = "group" /\ Below[Len(Below)] = frames[1]
         /\ Len(Below) = 1
         /\ Linked(frames[1], frames[2], ctx) /\ ProgramFits(frames[2], 2, ctx)
<1>1. frames \in Seq(Frames) /\ k \in 1..Len(frames) /\ k \in Nat
  BY DEF CallInv, StackOK, Clears
<1>2. ProgramFits(frames[k], k, ctx) /\ frames[k].form = "program" /\ frames[k].after = "clear"
  BY <1>1 DEF CallInv, StackOK, FrameFits, Clears
<1>3. k = 2
  BY <1>1, <1>2 DEF ProgramFits
<1>4. k = Len(frames)
  <2>. SUFFICES ASSUME k # Len(frames) PROVE FALSE
    OBVIOUS
  <2>1. k \in 1..(Len(frames) - 1)
    BY <1>1
  <2>2. Linked(frames[k], frames[k + 1], ctx)
    BY <2>1 DEF CallInv, StackOK
  <2>. QED  BY <1>2, <2>2 DEF Linked, ProgramFits
<1>5. Linked(frames[1], frames[1 + 1], ctx)
  <2>1. 1 \in 1..(Len(frames) - 1)
    BY <1>1, <1>3
  <2>. QED  BY <2>1 DEF CallInv, StackOK
<1>6. frames[1].form = "group"
  BY <1>2, <1>3, <1>5 DEF Linked
<1>7. /\ Below = SubSeq(frames, 1, k - 1) /\ Current = frames[k] /\ Depth = 2
      /\ Below # <<>> /\ Below[Len(Below)] = frames[1] /\ Len(Below) = 1
  <2>1. Depth = 2 /\ Depth - 1 = 1 /\ k - 1 = 1 /\ Depth = k
    BY <1>3, <1>4 DEF Depth
  <2>2. Below = SubSeq(frames, 1, 1) /\ Current = frames[k]
    BY <2>1 DEF Below, Current
  <2>3. Len(SubSeq(frames, 1, 1)) = 1 /\ SubSeq(frames, 1, 1)[1] = frames[1]
    <3>1. 1 \in 0..Len(frames) /\ 1 \in 1..1
      BY <1>1, <1>3
    <3>. QED  BY <1>1, <3>1, PrefixOf
  <2>4. SubSeq(frames, 1, 1) # <<>>
    <3>. DEFINE p == SubSeq(frames, 1, 1)
    <3>1. Len(p) = 1
      BY <2>3
    <3>. HIDE DEF p
    <3>2. p # <<>>
      BY <3>1
    <3>. QED  BY <3>2 DEF p
  <2>5. SubSeq(frames, 1, k - 1) = SubSeq(frames, 1, 1)
    BY <2>1
  <2>. QED  BY <2>1, <2>2, <2>3, <2>4, <2>5
<1>. QED  BY <1>2, <1>3, <1>5, <1>6, <1>7

\* So does one that a clear-state program may catch.
LEMMA UnwindKeeps ==
  ASSUME CallInv, NEW s, AppSound(s), s.apps = ctx.apps, NEW n \in Nets, Unwind(s, n)
  PROVE  CallInv'
<1>1. CASE Clears # {}
  <2>. DEFINE k == CHOOSE k \in Clears : TRUE
              closed == CloseApp(s, frames[k].who, frames[k].app)
  <2>1. k \in Clears
    BY <1>1
  <2>2. /\ Below = SubSeq(frames, 1, k - 1) /\ Below # <<>> /\ Below[Len(Below)] = frames[1]
        /\ Len(Below) = 1 /\ frames[1].form = "group"
        /\ Linked(frames[1], frames[2], ctx) /\ ProgramFits(frames[2], 2, ctx) /\ k = 2
        /\ frames # <<>>
    BY <2>1, ClearIsSecond DEF Below
  <2>3. AppSound(closed.s) /\ closed.s.apps = ctx.apps
    <3>1. frames[k].who \in Addr /\ frames[k].app \in App
      BY <2>2 DEF ProgramFits, ProgramFrames
    <3>. QED  BY <3>1, CloseAppKeeps DEF Same
  <2>4. CASE closed.ok
    <3>1. FinishTx(closed.s, Below, n)
      BY <1>1, <2>2, <2>4 DEF Unwind
    <3>2. StackOK(Below, ctx) /\ Below \in Seq(Frames) /\ Below[1] = frames[1]
      BY <2>2, OnTop
    <3>3. Unborn(closed.s) = Unborn(ctx)
      BY <2>3 DEF Unborn
    <3>4. StackOK(Below, closed.s)
      <4>1. \A j \in 1..Len(Below) :
              Below[j].form = "program" /\ Below[j].after = "create" => Runnable(closed.s.app[0])
        BY <2>2, <3>2
      <4>. QED  BY <3>2, <3>3, <4>1, StackLater
    <3>5. RoomFor(Below, ctx.apps)
      BY <2>2, <3>2 DEF CallInv, RoomFor
    <3>6. /\ frames[1].at <= Len(frames[1].txs)
          /\ frames[1].txs[frames[1].at].from \notin Unborn(closed.s)
      BY <2>2, <3>3 DEF Linked
    <3>. DEFINE t == closed.s
    <3>7. AppSound(t) /\ t.apps <= ctx.apps /\ ctx.apps <= t.apps
      BY <2>3, AppNumbers
    <3>. HIDE DEF closed
    <3>8. /\ FinishTx(t, Below, n) /\ StackOK(Below, t)
          /\ frames[1].txs[frames[1].at].from \notin Unborn(t)
      BY <3>1, <3>4, <3>6
    <3>. HIDE DEF t
    <3>. QED  BY <2>2, <3>5, <3>6, <3>7, <3>8, FinishTxKeeps
  <2>5. CASE ~closed.ok
    <3>1. Thrown(closed.s, n)
      BY <1>1, <2>5 DEF Unwind
    <3>. QED  BY <2>3, <3>1, AppNumbers, ThrownKeeps DEF CallInv
  <2>. QED  BY <2>4, <2>5
<1>2. CASE Clears = {} /\ Joins # {}
  <2>. DEFINE k == CHOOSE k \in Joins : TRUE
              left == LeaveApp(s, frames[k].who, frames[k].app).s
  <2>1. k \in Joins
    BY <1>2
  <2>2. frames \in Seq(Frames) /\ k \in 1..Len(frames) /\ frames[k].form = "program"
    BY <2>1 DEF CallInv, StackOK, Joins
  <2>3. frames[k] \in ProgramFrames
    BY <2>2 DEF CallInv, StackOK, FrameFits, ProgramFits
  <2>4. AppSound(left) /\ left.apps = ctx.apps
    BY <2>3, LeaveAppKeeps DEF ProgramFrames, Same
  <2>5. Thrown(left, n)
    BY <1>2 DEF Unwind
  <2>. HIDE DEF left
  <2>. QED  BY <2>4, <2>5, AppNumbers, ThrownKeeps DEF CallInv
<1>3. CASE Clears = {} /\ Joins = {}
  <2>1. Thrown(s, n)
    BY <1>3 DEF Unwind
  <2>. QED  BY <2>1, AppNumbers, ThrownKeeps DEF CallInv
<1>. QED  BY <1>1, <1>2, <1>3

\* The counter of opcodes has its type.
LEMMA SpentNets ==
  ASSUME CallInv, NEW n \in Nat
  PROVE  Spent(n) \in Nets
BY DEF CallInv, Spent, Nets

\* A step that leads to a sound ledger and a frame that fits keeps the invariant.
LEMMA ContinueKeeps ==
  ASSUME CallInv, InProgram, NEW s, AppSound(s), s.apps = ctx.apps, s.app[0] = ctx.app[0],
         NEW f, NEW g, g = [f EXCEPT !.pc = @ + 1],
         ProgramFits(g, Depth, ctx), g.app = Current.app, g.who = Current.who,
         g.after = Current.after, g.code = Current.code, NEW n \in Nat, Continue(s, f, n)
  PROVE  CallInv'
<1>1. CASE net.cost + n > net.budget
  BY <1>1, SpentNets, UnwindKeeps DEF Continue
<1>2. CASE ~(net.cost + n > net.budget)
  <2>1. Write(s) /\ frames' = Append(Below, g) /\ net' = Spent(n)
    BY <1>2 DEF Continue
  <2>2. /\ AppSound(store') /\ AppSound(ctx') /\ store'.apps <= ctx'.apps
        /\ (shared => store' = ctx') /\ shared' = shared /\ ctx' = s
    BY <2>1, AppNumbers, WriteKeeps DEF CallInv, Write
  <2>3. g.form = "program" /\ g \in ProgramFrames
    BY DEF ProgramFits, ProgramFrames
  <2>4. frames # <<>> /\ Current.form = "program"
    BY DEF InProgram
  <2>5. /\ StackOK(Below, ctx) /\ Len(Below) + 1 = Depth
        /\ Below # <<>> => Linked(Below[Len(Below)], Current, ctx) /\ Below[1] = frames[1]
    BY <2>4, OnTop
  <2>6. StackOK(Append(Below, g), ctx)
    <3>1. Below # <<>> => Linked(Below[Len(Below)], g, ctx)
      BY <2>3, <2>4, <2>5 DEF Linked
    <3>2. FrameFits(g, Len(Below) + 1, ctx) /\ g \in Frames
      BY <2>3, <2>5 DEF FrameFits, Frames
    <3>. QED  BY <2>5, <3>1, <3>2, StackPush
  <2>7. StackOK(Append(Below, g), s)
    <3>1. Unborn(s) \subseteq Unborn(ctx)
      BY DEF Unborn
    <3>. DEFINE gs == Append(Below, g)
    <3>2. \A k \in 1..Len(gs) :
            gs[k].form = "program" /\ gs[k].after = "create" => Runnable(s.app[0])
      <4>. HIDE DEF gs
      <4>. QED  BY <2>6 DEF gs, StackOK, FrameFits, ProgramFits
    <3>. HIDE DEF gs
    <3>. QED  BY <2>6, <3>1, <3>2, StackLater DEF gs
  <2>8. RoomFor(Append(Below, g), s.apps)
    <3>1. Append(Below, g)[1] = IF Below = <<>> THEN g ELSE frames[1]
      BY <2>4, <2>5, OnTop
    <3>2. Below = <<>> => frames[1] = Current
      BY <2>4, OnTop DEF Current
    <3>. QED  BY <2>3, <2>4, <3>1, <3>2 DEF CallInv, RoomFor
  <2>9. net' \in Nets
    BY <2>1, SpentNets
  <2>10. StackOK(frames, ctx)' /\ RoomFor(frames, ctx.apps)'
    BY <2>1, <2>2, <2>7, <2>8
  <2>. QED  BY <2>2, <2>9, <2>10 DEF CallInv
<1>. QED  BY <1>1, <1>2

-----------------------------------------------------------------------------
(* Steps of programs                                                       *)

\* What the constants say of a program's steps.
LEMMA ProgramTop ==
  ASSUME CallInv, InProgram
  PROVE  /\ ProgramFits(Current, Depth, ctx) /\ Current \in ProgramFrames
         /\ Current.form = "program" /\ frames # <<>>
         /\ Current.app \in App /\ Current.who \in Addr /\ Current.who \notin Unborn(ctx)
         /\ Current.inner \in Seq(AppTx) /\ Len(Current.steps) \in Nat
         /\ IsStep(Step)
<1>1. frames # <<>> /\ Current.form = "program" /\ Current.pc <= Len(Current.steps)
  BY DEF InProgram
<1>2. ProgramFits(Current, Depth, ctx)
  BY <1>1, OnTop DEF FrameFits
<1>3. /\ Current \in ProgramFrames /\ Current.who \notin Unborn(ctx)
      /\ Current.app \in App /\ Current.who \in Addr /\ Current.inner \in Seq(AppTx)
      /\ Current.pc \in Nat \ {0}
  BY <1>2 DEF ProgramFits, ProgramFrames
<1>4. PICK name \in DOMAIN Body : Current.steps = Body[name]
  BY <1>3 DEF ProgramFrames
<1>5. Len(Current.steps) \in Nat /\ \A i \in 1..Len(Current.steps) : IsStep(Current.steps[i])
  BY <1>4, AppCallsAssumption DEF AppCallsAssumption
<1>6. IsStep(Step)
  BY <1>1, <1>3, <1>5 DEF Step
<1>. QED  BY <1>1, <1>2, <1>3, <1>5, <1>6

\* A group on top, and the transaction that it is at.
LEMMA GroupTop ==
  ASSUME CallInv, InGroup
  PROVE  /\ GroupFits(Current, Depth, ctx) /\ Current \in GroupFrames /\ frames # <<>>
         /\ Current.form = "group" /\ Len(Current.txs) \in Nat
         /\ Current.at <= Len(Current.txs) =>
              /\ Current.at \in DOMAIN Current.txs
              /\ Current.txs[Current.at] \in AppTx
<1>1. frames # <<>> /\ Current.form = "group"
  BY DEF InGroup
<1>2. GroupFits(Current, Depth, ctx)
  BY <1>1, OnTop DEF FrameFits
<1>. QED  BY <1>1, <1>2 DEF GroupFits, GroupFrames

\* Only the program on top can be that of a new application.
LEMMA CreateOnTop ==
  ASSUME CallInv, NEW k \in 1..(Len(frames) - 1)
  PROVE  ~(frames[k].form = "program" /\ frames[k].after = "create")
<1>1. Linked(frames[k], frames[k + 1], ctx)
  BY DEF CallInv, StackOK
<1>2. k \in 1..Len(frames)
  BY DEF CallInv, StackOK
<1>3. FrameFits(frames[k], k, ctx)
  BY <1>2 DEF CallInv, StackOK
<1>. QED  BY <1>1, <1>3 DEF Linked, FrameFits, ProgramFits

\* The frame on top after its step.
LEMMA NextPc ==
  ASSUME CallInv, InProgram
  PROVE  LET g == [Current EXCEPT !.pc = @ + 1]
         IN  /\ ProgramFits(g, Depth, ctx) /\ g.app = Current.app /\ g.who = Current.who
             /\ g.after = Current.after /\ g.code = Current.code
BY ProgramTop DEF ProgramFits, ProgramFrames

\* Opcodes of no concern keep the invariant.
LEMMA TakeKeeps ==
  ASSUME CallInv, Take
  PROVE  CallInv'
<1>1. InProgram /\ Step.n \in Nat /\ Continue(ctx, Current, Step.n)
  BY ProgramTop DEF Take, IsStep
<1>. QED  BY <1>1, NextPc, ContinueKeeps DEF CallInv

\* So does a step with an outcome.
LEMMA StepToKeeps ==
  ASSUME CallInv, InProgram, NEW o, AppSound(o.s), o.s.apps = ctx.apps, o.s.app[0] = ctx.app[0],
         NEW n \in Nat, StepTo(o, n)
  PROVE  CallInv'
<1>1. CASE o.ok
  BY <1>1, NextPc, ContinueKeeps DEF StepTo
<1>2. CASE ~o.ok
  BY <1>2, UnwindKeeps DEF StepTo, CallInv
<1>. QED  BY <1>1, <1>2

\* So do the four steps that write and delete keys.
LEMMA StateStepsKeep ==
  ASSUME CallInv, AppGlobalPut \/ AppGlobalDel \/ AppLocalPut \/ AppLocalDel
  PROVE  CallInv'
<1>1. /\ InProgram /\ Step.key \in Key
      /\ \/ StepTo(SetGlobal(ctx, Current.app, Step.key), 1)
         \/ StepTo(DelGlobal(ctx, Current.app, Step.key), 1)
         \/ StepTo(SetLocal(ctx, Current.who, Current.app, Step.key), 1)
         \/ StepTo(DelLocal(ctx, Current.who, Current.app, Step.key), 1)
  BY ProgramTop DEF AppGlobalPut, AppGlobalDel, AppLocalPut, AppLocalDel, IsStep
<1>2. Current.who \in Addr /\ Current.app \in App /\ AppSound(ctx)
  BY <1>1, ProgramTop DEF CallInv
<1>3. \A o \in {SetGlobal(ctx, Current.app, Step.key), DelGlobal(ctx, Current.app, Step.key),
                SetLocal(ctx, Current.who, Current.app, Step.key),
                DelLocal(ctx, Current.who, Current.app, Step.key)} :
        AppSound(o.s) /\ o.s.apps = ctx.apps /\ o.s.app[0] = ctx.app[0]
  BY <1>1, <1>2, KeysKeep DEF Same
<1>. QED  BY <1>1, <1>3, StepToKeeps

\* So does the branch to the end of a program that creates.
LEMMA IfNewKeeps ==
  ASSUME CallInv, IfNew
  PROVE  CallInv'
<1>1. InProgram
  BY DEF IfNew
<1>2. CASE Current.app = 0
  <2>. DEFINE f == [Current EXCEPT !.pc = Len(Current.steps) - 1]
              g == [f EXCEPT !.pc = @ + 1]
  <2>1. Continue(ctx, f, 2)
    BY <1>2 DEF IfNew
  <2>2. Current \in ProgramFrames /\ Len(Current.steps) \in Nat \ {0}
    BY <1>1, ProgramTop DEF ProgramFrames, InProgram
  <2>3. /\ g \in ProgramFrames /\ g.inner = Current.inner /\ g.app = Current.app
        /\ g.who = Current.who /\ g.after = Current.after /\ g.code = Current.code
        /\ g.steps = Current.steps
    <3>. DEFINE m == Len(Current.steps) - 1
                h == [Current EXCEPT !.pc = m + 1]
    <3>1. m \in Nat
      BY <2>2
    <3>. HIDE DEF m
    <3>2. /\ h \in ProgramFrames /\ h.inner = Current.inner /\ h.app = Current.app
          /\ h.who = Current.who /\ h.after = Current.after /\ h.code = Current.code
          /\ h.steps = Current.steps
      BY <2>2, <3>1 DEF ProgramFrames
    <3>3. g = h
      BY <2>2, <3>1 DEF ProgramFrames, m
    <3>. HIDE DEF g, h
    <3>. QED  BY <3>2, <3>3
  <2>4. ProgramFits(g, Depth, ctx)
    <3>. HIDE DEF g
    <3>. QED  BY <1>1, <2>3, ProgramTop DEF ProgramFits
  <2>. HIDE DEF f
  <2>. QED  BY <1>1, <2>1, <2>3, <2>4, ContinueKeeps DEF CallInv
<1>3. CASE Current.app # 0
  <2>1. Continue(ctx, Current, 2)
    BY <1>3 DEF IfNew
  <2>. QED  BY <1>1, <2>1, NextPc, ContinueKeeps DEF CallInv
<1>. QED  BY <1>2, <1>3

\* So does a rejection.
LEMMA ErrKeeps ==
  ASSUME CallInv, Err
  PROVE  CallInv'
BY UnwindKeeps DEF Err, CallInv

-----------------------------------------------------------------------------
(* Inner transactions                                                      *)

\* The fees of a group are a number.
LEMMA FeesInt ==
  ASSUME NEW txs \in Seq(AppTx)
  PROVE  Fees(txs) \in Int /\ Fees(txs) = Sum([i \in 1..Len(txs) |-> txs[i].fee])
<1>1. DOMAIN txs = 1..Len(txs) /\ Len(txs) \in Nat
  OBVIOUS
<1>2. [i \in 1..Len(txs) |-> txs[i].fee] \in [1..Len(txs) -> Int]
  <2>1. \A i \in 1..Len(txs) : txs[i] \in AppTx
    OBVIOUS
  <2>2. \A tx \in AppTx : tx.fee \in Int
    BY DEF AppTx
  <2>. QED  BY <2>1, <2>2
<1>3. IsFiniteSet(1..Len(txs))
  BY <1>1, FS_Interval
<1>. QED  BY <1>1, <1>2, <1>3, SumInt DEF Fees

\* A new inner transaction.
LEMMA NewInnerTxIs ==
  ASSUME CallInv, InProgram, CanAddInner(Current)
  PROVE  LET tx == NewInnerTx(Current)
         IN  /\ tx \in AppTx /\ tx.signer \in Addr \ Unborn(ctx) /\ tx.then = "call"
             /\ ~tx.code.valid /\ Current.app # 0
<1>. DEFINE tx == NewInnerTx(Current)
            fee == IF InnerCredit(Current.inner) >= MinFee THEN 0 ELSE MinFee
            x == AppAddress[Current.app]
<1>1. /\ Current.app \in App \ {0} /\ AppExists(ctx, Current.app)
      /\ AppSound(ctx)
  BY ProgramTop DEF CanAddInner, CallInv
<1>2. Current.app \in 1..MaxApp /\ Current.app <= ctx.apps
  BY <1>1, AppLedgerAssumption DEF AppExists, AppSound, AppsRegistered, App, AppLedgerAssumption
<1>3. x \in Addr /\ x \notin Unborn(ctx)
  BY <1>2, <1>1, AppNumbers, AppLedgerAssumption DEF AppLedgerAssumption, Unborn, IsInjective
<1>4. fee \in Nat /\ NoApp \in Code /\ ~NoApp.valid /\ 0 \in App
  <2>1. fee \in Nat
    BY LedgerAssumption DEF LedgerAssumption
  <2>2. 0 \in App
    BY AppLedgerAssumption DEF AppLedgerAssumption, App
  <2>3. NoApp \in Code
    BY AppLedgerAssumption DEF AppLedgerAssumption, NoApp, Code
  <2>4. ~NoApp.valid
    BY DEF NoApp
  <2>. HIDE DEF fee
  <2>. QED  BY <2>1, <2>2, <2>3, <2>4
<1>. HIDE DEF fee, x
<1>5. tx = [type |-> "unknown", from |-> x, signer |-> x, to |-> x, amt |-> 0,
            close |-> NoAddr, rekey |-> NoAddr, approved |-> TRUE, fee |-> fee, flat |-> TRUE,
            app |-> 0, then |-> "call", code |-> NoApp]
  BY DEF NewInnerTx, fee, x
<1>. HIDE DEF tx
<1>6. tx \in AppTx
  BY <1>3, <1>4, <1>5 DEF AppTx, Then
<1>7. tx.signer = x /\ tx.then = "call" /\ tx.code = NoApp
  BY <1>5
<1>. QED  BY <1>1, <1>3, <1>4, <1>6, <1>7 DEF tx

\* itxn_begin keeps the invariant.
LEMMA ITxnBeginKeeps ==
  ASSUME CallInv, ITxnBegin
  PROVE  CallInv'
<1>. DEFINE ready == Current.inner = <<>> /\ CanAddInner(Current) /\ Current.after # "clear"
            tx == NewInnerTx(Current)
            l == <<tx>>
            f == [Current EXCEPT !.inner = l]
            g == [f EXCEPT !.pc = @ + 1]
<1>1. InProgram
  BY DEF ITxnBegin
<1>2. CASE ready
  <2>1. Continue(ctx, f, 1)
    BY <1>2 DEF ITxnBegin
  <2>2. /\ tx \in AppTx /\ tx.signer \in Addr \ Unborn(ctx) /\ tx.then = "call"
        /\ ~tx.code.valid /\ Current.app # 0
    BY <1>1, <1>2, NewInnerTxIs
  <2>. HIDE DEF tx
  <2>3. <<tx>> \in Seq(AppTx) /\ DOMAIN <<tx>> = {1} /\ <<tx>>[1] = tx
    BY <2>2
  <2>4. /\ g \in ProgramFrames /\ g.inner = l /\ g.app = Current.app /\ g.who = Current.who
        /\ g.after = Current.after /\ g.code = Current.code /\ g.pc = Current.pc + 1
    <3>1. Current \in ProgramFrames
      BY <1>1, ProgramTop
    <3>2. l \in Seq(AppTx)
      BY <2>3
    <3>. HIDE DEF l
    <3>3. /\ f \in ProgramFrames /\ f.inner = l /\ f.app = Current.app /\ f.who = Current.who
          /\ f.after = Current.after /\ f.code = Current.code /\ f.pc = Current.pc
      BY <3>1, <3>2 DEF ProgramFrames
    <3>. HIDE DEF f
    <3>. QED  BY <3>3 DEF ProgramFrames
  <2>. HIDE DEF g
  <2>5. ProgramFits(g, Depth, ctx)
    BY <1>1, <1>2, <2>2, <2>3, <2>4, ProgramTop DEF ProgramFits
  <2>. HIDE DEF f
  <2>. QED  BY <1>1, <2>1, <2>4, <2>5, ContinueKeeps DEF CallInv, g
<1>3. CASE ~ready
  <2>1. Unwind(ctx, net)
    BY <1>3 DEF ITxnBegin
  <2>. QED  BY <2>1, UnwindKeeps DEF CallInv
<1>. QED  BY <1>2, <1>3

\* itxn_next keeps the invariant.
LEMMA ITxnNextKeeps ==
  ASSUME CallInv, ITxnNext
  PROVE  CallInv'
<1>. DEFINE ready == Current.inner # <<>> /\ CanAddInner(Current)
            tx == NewInnerTx(Current)
            l == Append(Current.inner, tx)
            f == [Current EXCEPT !.inner = l]
            g == [f EXCEPT !.pc = @ + 1]
<1>1. InProgram
  BY DEF ITxnNext
<1>2. CASE ready
  <2>1. Continue(ctx, f, 1)
    BY <1>2 DEF ITxnNext
  <2>2. /\ tx \in AppTx /\ tx.signer \in Addr \ Unborn(ctx) /\ tx.then = "call"
        /\ ~tx.code.valid
    BY <1>1, <1>2, NewInnerTxIs
  <2>. HIDE DEF tx
  <2>3. /\ l \in Seq(AppTx)
        /\ \A i \in DOMAIN l : l[i] = tx \/ (i \in DOMAIN Current.inner /\ l[i] = Current.inner[i])
    <3>1. Current.inner \in Seq(AppTx)
      BY <1>1, ProgramTop
    <3>. QED  BY <2>2, <3>1
  <2>4. /\ g \in ProgramFrames /\ g.inner = l /\ g.app = Current.app /\ g.who = Current.who
        /\ g.after = Current.after /\ g.code = Current.code /\ g.pc = Current.pc + 1
    <3>1. Current \in ProgramFrames
      BY <1>1, ProgramTop
    <3>2. l \in Seq(AppTx)
      BY <2>3
    <3>. HIDE DEF l
    <3>3. /\ f \in ProgramFrames /\ f.inner = l /\ f.app = Current.app /\ f.who = Current.who
          /\ f.after = Current.after /\ f.code = Current.code /\ f.pc = Current.pc
      BY <3>1, <3>2 DEF ProgramFrames
    <3>. HIDE DEF f
    <3>. QED  BY <3>3 DEF ProgramFrames
  <2>. HIDE DEF g, l
  <2>5. ProgramFits(g, Depth, ctx)
    BY <1>1, <1>2, <2>2, <2>3, <2>4, ProgramTop DEF ProgramFits
  <2>. HIDE DEF f
  <2>. QED  BY <1>1, <2>1, <2>4, <2>5, ContinueKeeps DEF CallInv, g
<1>3. CASE ~ready
  <2>1. Unwind(ctx, net)
    BY <1>3 DEF ITxnNext
  <2>. QED  BY <2>1, UnwindKeeps DEF CallInv
<1>. QED  BY <1>2, <1>3

\* Fields that a program may set leave a transaction a plain one, with its signer.
LEMMA ExtendedIs ==
  ASSUME NEW tx \in AppTx, NEW set,
         \A x \in DOMAIN set : x \in DOMAIN Settable /\ set[x] \in Settable[x]
  PROVE  LET u == Extended(tx, set)
         IN  u \in AppTx /\ u.signer = tx.signer /\ u.then = tx.then /\ u.code = tx.code
<1>. DEFINE u == Extended(tx, set)
<1>1. DOMAIN Settable = {"type", "from", "to", "amt", "close", "rekey", "fee", "app"}
  BY DEF Settable
<1>2. DOMAIN tx = {"type", "from", "to", "amt", "close", "rekey", "signer", "approved",
                   "fee", "flat", "app", "then", "code"}
  BY DEF AppTx
<1>3. DOMAIN tx \cup DOMAIN set = DOMAIN tx
  BY <1>1, <1>2
<1>4. u = [x \in DOMAIN tx |-> IF x \in DOMAIN set THEN set[x] ELSE tx[x]]
  BY <1>3 DEF Extended
<1>. HIDE DEF u
<1>5. \A x \in DOMAIN tx : u[x] = IF x \in DOMAIN set THEN set[x] ELSE tx[x]
  BY <1>4
<1>6. u.signer = tx.signer /\ u.then = tx.then /\ u.code = tx.code
      /\ u.approved = tx.approved /\ u.flat = tx.flat
  BY <1>1, <1>2, <1>5
<1>7. /\ u.type \in {"unknown", "pay", "appl"} /\ u.from \in Addr /\ u.to \in Addr
      /\ u.amt \in Nat /\ u.close \in Addr \cup {NoAddr} /\ u.rekey \in Addr \cup {NoAddr}
      /\ u.fee \in Nat /\ u.app \in App
  BY <1>2, <1>5 DEF Settable, AppTx
<1>8. u = [type |-> u.type, from |-> u.from, to |-> u.to, amt |-> u.amt, close |-> u.close,
           rekey |-> u.rekey, signer |-> u.signer, approved |-> u.approved, fee |-> u.fee,
           flat |-> u.flat, app |-> u.app, then |-> u.then, code |-> u.code]
  BY <1>2, <1>4
<1>9. u \in AppTx
  BY <1>6, <1>7, <1>8 DEF AppTx
<1>. QED  BY <1>6, <1>9 DEF u

\* itxn_field keeps the invariant.
LEMMA ITxnFieldKeeps ==
  ASSUME CallInv, ITxnField
  PROVE  CallInv'
<1>. DEFINE last == Len(Current.inner)
            tx == Current.inner[last]
            u == Extended(tx, Step.set)
            l == [Current.inner EXCEPT ![last] = u]
            f == [Current EXCEPT !.inner[last] = Extended(@, Step.set)]
            g == [f EXCEPT !.pc = @ + 1]
            n == Cardinality(DOMAIN Step.set)
<1>1. InProgram
  BY DEF ITxnField
<1>2. CASE Current.inner # <<>>
  <2>1. Continue(ctx, f, n)
    BY <1>2 DEF ITxnField
  <2>2. /\ Current.inner \in Seq(AppTx) /\ last \in DOMAIN Current.inner /\ tx \in AppTx
        /\ tx.signer \in Addr \ Unborn(ctx) /\ tx.then = "call" /\ ~tx.code.valid
    BY <1>1, <1>2, ProgramTop DEF ProgramFits
  <2>3. \A x \in DOMAIN Step.set : x \in DOMAIN Settable /\ Step.set[x] \in Settable[x]
    BY <1>1, ProgramTop DEF ITxnField, IsStep
  <2>4. u \in AppTx /\ u.signer = tx.signer /\ u.then = tx.then /\ u.code = tx.code
    BY <2>2, <2>3, ExtendedIs
  <2>5. n \in Nat
    <3>1. DOMAIN Step.set \subseteq {"type", "from", "to", "amt", "close", "rekey", "fee", "app"}
      BY <2>3 DEF Settable
    <3>2. IsFiniteSet({"type", "from", "to", "amt"} \cup {"close", "rekey", "fee", "app"})
      <4>1. \A a, b : IsFiniteSet({a, b})
        <5>1. ASSUME NEW a, NEW b PROVE IsFiniteSet({a, b})
          <6>1. {a, b} = {a} \cup {b}
            OBVIOUS
          <6>2. IsFiniteSet({a}) /\ IsFiniteSet({b})
            BY FS_Singleton
          <6>3. IsFiniteSet({a} \cup {b})
            BY <6>2, FS_Union
          <6>. QED  BY <6>1, <6>3
        <5>. QED  BY <5>1
      <4>2. /\ {"type", "from", "to", "amt"} = {"type", "from"} \cup {"to", "amt"}
            /\ {"close", "rekey", "fee", "app"} = {"close", "rekey"} \cup {"fee", "app"}
        OBVIOUS
      <4>3. /\ IsFiniteSet({"type", "from"}) /\ IsFiniteSet({"to", "amt"})
            /\ IsFiniteSet({"close", "rekey"}) /\ IsFiniteSet({"fee", "app"})
        BY <4>1
      <4>4. /\ IsFiniteSet({"type", "from"} \cup {"to", "amt"})
            /\ IsFiniteSet({"close", "rekey"} \cup {"fee", "app"})
        BY <4>3, FS_Union
      <4>. QED  BY <4>2, <4>4, FS_Union
    <3>. QED  BY <3>1, <3>2, FS_Subset, FS_CardinalityType
  <2>6. f = [Current EXCEPT !.inner = l]
    OBVIOUS
  <2>. HIDE DEF u, f, n
  <2>7. /\ l \in Seq(AppTx) /\ l # <<>>
        /\ \A i \in DOMAIN l : i \in DOMAIN Current.inner /\ (l[i] = u \/ l[i] = Current.inner[i])
    BY <2>2, <2>4
  <2>8. /\ g \in ProgramFrames /\ g.inner = l /\ g.app = Current.app /\ g.who = Current.who
        /\ g.after = Current.after /\ g.code = Current.code /\ g.pc = Current.pc + 1
    <3>1. Current \in ProgramFrames
      BY <1>1, ProgramTop
    <3>. DEFINE h == [Current EXCEPT !.inner = l]
    <3>. HIDE DEF l
    <3>2. /\ h \in ProgramFrames /\ h.inner = l /\ h.app = Current.app /\ h.who = Current.who
          /\ h.after = Current.after /\ h.code = Current.code /\ h.pc = Current.pc
      BY <2>7, <3>1 DEF ProgramFrames
    <3>3. f = h
      BY <2>6
    <3>. HIDE DEF h
    <3>4. /\ f \in ProgramFrames /\ f.inner = l /\ f.app = Current.app /\ f.who = Current.who
          /\ f.after = Current.after /\ f.code = Current.code /\ f.pc = Current.pc
      BY <3>2, <3>3
    <3>. QED  BY <3>4 DEF ProgramFrames
  <2>. HIDE DEF g, l
  <2>9. ProgramFits(g, Depth, ctx)
    BY <1>1, <1>2, <2>2, <2>4, <2>7, <2>8, ProgramTop DEF ProgramFits
  <2>. QED  BY <1>1, <2>1, <2>5, <2>8, <2>9, ContinueKeeps DEF CallInv, g
<1>3. CASE Current.inner = <<>>
  <2>1. Unwind(ctx, net)
    BY <1>3 DEF ITxnField
  <2>. QED  BY <2>1, UnwindKeeps DEF CallInv
<1>. QED  BY <1>2, <1>3

-----------------------------------------------------------------------------
(* The first ledger                                                        *)

\* The first ledger has its types and no applications.
LEMMA WithAppsIs ==
  ASSUME NEW g \in State
  PROVE  LET w == WithApps(g)
         IN  /\ w \in AppState /\ w.acct = g.acct /\ w.amt = g.amt /\ w.auth = g.auth
             /\ w.min = g.min
             /\ w.owner = [n \in App |-> NoAddr] /\ w.app = [n \in App |-> NoApp]
             /\ w.made = [a \in Addr |-> {}] /\ w.joined = [a \in Addr |-> {}]
             /\ w.keys = [n \in App |-> {}] /\ w.local = [a \in Addr |-> [n \in App |-> {}]]
             /\ w.apps = 0
<1>. DEFINE owner == [n \in App |-> NoAddr]
            made == [a \in Addr |-> {}]
            app == [n \in App |-> NoApp]
            keys == [n \in App |-> {}]
            joined == [a \in Addr |-> {}]
            local == [a \in Addr |-> [n \in App |-> {}]]
            f == [owner |-> owner, made |-> made, app |-> app, keys |-> keys,
                  joined |-> joined, local |-> local, apps |-> 0, names |-> {}]
            w == WithApps(g)
<1>1. NoApp \in Code
  BY AppLedgerAssumption DEF AppLedgerAssumption, NoApp, Code
<1>2. /\ owner \in [App -> Addr \cup {NoAddr}] /\ made \in [Addr -> SUBSET App]
      /\ app \in [App -> Code] /\ keys \in [App -> SUBSET Key] /\ joined \in [Addr -> SUBSET App]
      /\ local \in [Addr -> [App -> SUBSET Key]]
  BY <1>1
<1>3. w = Extended(g, f)
  BY DEF WithApps
<1>. HIDE DEF owner, made, app, keys, joined, local
<1>4. w = [x \in DOMAIN g \cup DOMAIN f |-> IF x \in DOMAIN f THEN f[x] ELSE g[x]]
  BY <1>3 DEF Extended
<1>5. /\ DOMAIN g = {"acct", "amt", "min", "auth", "opted", "units", "frozen", "live", "def", "ctr"}
      /\ DOMAIN f = {"owner", "made", "app", "keys", "joined", "local", "apps", "names"}
      /\ f.owner = owner /\ f.made = made /\ f.app = app /\ f.keys = keys /\ f.joined = joined
      /\ f.local = local /\ f.apps = 0 /\ f.names = {}
  BY DEF State
<1>. HIDE DEF w, f
<1>6. /\ DOMAIN w = DOMAIN g \cup DOMAIN f
      /\ \A x \in DOMAIN w : w[x] = IF x \in DOMAIN f THEN f[x] ELSE g[x]
  BY <1>4
<1>7. /\ w.acct = g.acct /\ w.amt = g.amt /\ w.min = g.min /\ w.auth = g.auth
      /\ w.opted = g.opted /\ w.units = g.units /\ w.frozen = g.frozen /\ w.live = g.live
      /\ w.def = g.def /\ w.ctr = g.ctr
  BY <1>5, <1>6
<1>8. /\ w.owner = owner /\ w.made = made /\ w.app = app /\ w.keys = keys
      /\ w.joined = joined /\ w.local = local /\ w.apps = 0 /\ w.names = {}
  BY <1>5, <1>6
<1>9. w = [acct |-> w.acct, amt |-> w.amt, min |-> w.min, auth |-> w.auth, opted |-> w.opted,
           units |-> w.units, frozen |-> w.frozen, live |-> w.live, def |-> w.def,
           ctr |-> w.ctr, owner |-> w.owner, made |-> w.made, app |-> w.app, keys |-> w.keys,
           joined |-> w.joined, local |-> w.local, apps |-> w.apps, names |-> w.names]
  BY <1>4, <1>5, <1>6
<1>10. /\ w.acct \in SUBSET Addr /\ w.amt \in [Addr -> Int] /\ w.min \in [Addr -> Int]
       /\ w.auth \in [Addr -> Addr] /\ w.opted \in [Addr -> SUBSET Asset]
       /\ w.units \in [Addr -> [Asset -> Nat]] /\ w.frozen \in [Addr -> SUBSET Asset]
       /\ w.live \in SUBSET Asset /\ w.def \in [Asset -> Definition] /\ w.ctr \in 0..MaxAsset
  BY <1>7 DEF State
<1>11. /\ w.owner \in [App -> Addr \cup {NoAddr}] /\ w.made \in [Addr -> SUBSET App]
       /\ w.app \in [App -> Code] /\ w.keys \in [App -> SUBSET Key]
       /\ w.joined \in [Addr -> SUBSET App] /\ w.local \in [Addr -> [App -> SUBSET Key]]
       /\ w.apps \in 0..MaxApp /\ w.names \in SUBSET Name
  BY <1>2, <1>8, AppLedgerAssumption DEF AppLedgerAssumption
<1>12. w \in AppState
  BY <1>9, <1>10, <1>11 DEF AppState
<1>. QED  BY <1>7, <1>8, <1>12 DEF w, owner, made, app, keys, joined, local

\* The invariant holds in the initial states.
LEMMA InitKeeps ==
  ASSUME Init
  PROVE  CallInv
<1>. DEFINE g == Genesis(InitialAccounts, Funds)
            w == WithApps(g)
<1>1. g \in State /\ g.auth = [a \in Addr |-> a]
  <2>1. g \in State
    BY AppCallsAssumption, GenesisSound DEF AppCallsAssumption, Sound
  <2>. QED  BY <2>1 DEF Genesis
<1>. HIDE DEF g
<1>2. /\ w \in AppState /\ w.auth = [a \in Addr |-> a]
      /\ w.owner = [n \in App |-> NoAddr] /\ w.made = [a \in Addr |-> {}]
      /\ w.joined = [a \in Addr |-> {}] /\ w.apps = 0
  BY <1>1, WithAppsIs
<1>. HIDE DEF w
<1>3. AppsRegistered(w)
  BY <1>2, LedgerAssumption DEF LedgerAssumption, AppsRegistered
<1>4. Unborn(w) \subseteq Addr
  BY <1>2, AppLedgerAssumption DEF AppLedgerAssumption, Unborn
<1>5. UnbornUntouched(w)
  BY <1>2, <1>4 DEF UnbornUntouched
<1>6. AppSound(w)
  BY <1>2, <1>3, <1>5 DEF AppSound
<1>7. store = w /\ ctx = w /\ shared = FALSE /\ frames = <<>> /\ net = NewNet(0)
  BY DEF Init, w, g
<1>8. net \in Nets
  <2>1. 0 \in App
    BY AppLedgerAssumption DEF AppLedgerAssumption, App
  <2>. QED  BY <1>7, <2>1, AppCallsAssumption DEF AppCallsAssumption, NewNet, Nets
<1>9. AppSound(store) /\ AppSound(ctx) /\ store.apps <= ctx.apps
  BY <1>2, <1>6, <1>7
<1>10. StackOK(frames, ctx) /\ RoomFor(frames, ctx.apps)
  BY <1>7, NothingRuns
<1>. QED  BY <1>7, <1>8, <1>9, <1>10 DEF CallInv

-----------------------------------------------------------------------------
(* Transactions                                                            *)

\* What a call does before its program keeps a ledger sound, and the frame of
\* the program fits.
LEMMA PrepareKeeps ==
  ASSUME NEW s, AppSound(s), NEW tx, tx.from \in Addr, tx.from \notin Unborn(s),
         tx.app \in App, tx.code \in Code, tx.then \in Then, Callable(tx)
  PROVE  LET p == Prepare(s, tx)
         IN  /\ AppSound(p.s) /\ Same(s, p.s)
             /\ p.ok => /\ ProgramFits(ProgramOf(p.s, tx), 2, p.s)
                        /\ tx.then \in {"create", "join", "update"} =>
                             ProgramFits(ProgramOf(p.s, tx), 1, p.s)
                        /\ tx.then = "call" =>
                             \A k \in Nat \ {0, 1} : ProgramFits(ProgramOf(p.s, tx), k, p.s)
<1>. DEFINE p == Prepare(s, tx)
            t == p.s
            d == t.app[tx.app]
            f == ProgramOf(t, tx)
<1>1. /\ AppSound(t) /\ Same(s, t)
      /\ p.ok => Runnable(d) /\ (tx.then = "update" => Runnable(tx.code))
  <2>1. CASE tx.then = "create"
    <3>1. p = BeginDeploy(s, tx.from, tx.code, tx.type) /\ tx.app = 0
      BY <2>1 DEF Prepare, Callable
    <3>. HIDE DEF p
    <3>. QED  BY <2>1, <3>1, BeginDeployKeeps DEF Callable
  <2>2. CASE tx.then = "join"
    <3>1. p = JoinApp(s, tx.from, tx.app, tx.type) /\ tx.app \in App \ {0}
      BY <2>2 DEF Prepare, Callable
    <3>2. p.ok => AppExists(s, tx.app)
      <4>1. JoinApp(s, tx.from, tx.app, tx.type).ok => AppExists(s, tx.app)
        BY DEF JoinApp, Throw
      <4>. QED  BY <3>1, <4>1
    <3>. HIDE DEF p
    <3>3. AppSound(t) /\ Same(s, t) /\ t.app = s.app
      BY <3>1, JoinAppKeeps
    <3>. QED  BY <2>2, <3>1, <3>2, <3>3 DEF AppExists, AppSound
  <2>3. CASE tx.then \notin {"create", "join"}
    <3>1. /\ p.ok <=> AppExists(s, tx.app) /\ (tx.then = "update" => tx.code.valid)
          /\ t = s
      BY <2>3 DEF Prepare
    <3>. HIDE DEF p
    <3>. QED  BY <3>1 DEF AppExists, AppSound, Same, Callable
  <2>. QED  BY <2>1, <2>2, <2>3
<1>2. ASSUME p.ok
      PROVE  /\ f \in ProgramFrames /\ f.who = tx.from /\ f.app = tx.app /\ f.after = tx.then
             /\ f.code = tx.code /\ f.inner = <<>>
             /\ ClearsTidy => (tx.then = "clear" => NoPuts(f.steps))
  <2>. DEFINE name == IF tx.then = "clear" THEN d.clear ELSE d.approval
  <2>1. name \in DOMAIN Body /\ (ClearsTidy => (tx.then = "clear" => NoPuts(Body[name])))
    BY <1>1, <1>2 DEF Runnable
  <2>2. f = ProgramFrame(name, tx.app, tx.from, tx.then, tx.code)
    BY DEF ProgramOf
  <2>. HIDE DEF name, f
  <2>. QED  BY <2>1, <2>2 DEF ProgramFrame, ProgramFrames
<1>3. tx.from \notin Unborn(t)
  BY <1>1 DEF Unborn, Same
<1>. HIDE DEF f, t, p
<1>4. ASSUME p.ok, NEW k, k = 1 => tx.then \in {"create", "join", "update"},
             k > 2 => tx.then = "call"
      PROVE  ProgramFits(f, k, t)
  <2>1. tx.then = "create" => Runnable(t.app[0])
    BY <1>1, <1>4 DEF Callable
  <2>. QED  BY <1>1, <1>2, <1>3, <1>4, <2>1 DEF ProgramFits, Callable
<1>5. p.ok => /\ ProgramFits(f, 2, t)
              /\ tx.then \in {"create", "join", "update"} => ProgramFits(f, 1, t)
              /\ tx.then = "call" => \A k \in Nat \ {0, 1} : ProgramFits(f, k, t)
  BY <1>4
<1>. QED  BY <1>1, <1>5 DEF f, t, p

\* The frame is of the transaction that is called.
LEMMA ProgramOfIs ==
  ASSUME NEW s, NEW tx
  PROVE  LET f == ProgramOf(s, tx)
         IN  /\ f.form = "program" /\ f.app = tx.app /\ f.who = tx.from /\ f.after = tx.then
             /\ f.code = tx.code
BY DEF ProgramOf, ProgramFrame

\* While a group is on top, no program waits to become an application.
LEMMA GroupStays ==
  ASSUME CallInv, InGroup, NEW s, s.apps = ctx.apps
  PROVE  StackOK(frames, s)
<1>1. Unborn(s) = Unborn(ctx)
  BY DEF Unborn
<1>2. frames # <<>> /\ Current.form = "group" /\ Depth = Len(frames) /\ Len(frames) \in Nat
  BY GroupTop, OnTop
<1>3. \A k \in 1..Len(frames) : ~(frames[k].form = "program" /\ frames[k].after = "create")
  <2>. SUFFICES ASSUME NEW k \in 1..Len(frames)
                PROVE  ~(frames[k].form = "program" /\ frames[k].after = "create")
    OBVIOUS
  <2>1. CASE k = Len(frames)
    BY <1>2, <2>1 DEF Current
  <2>2. CASE k # Len(frames)
    <3>1. k \in 1..(Len(frames) - 1)
      BY <1>2, <2>2
    <3>. QED  BY <3>1, CreateOnTop
  <2>. QED  BY <2>1, <2>2
<1>. QED  BY <1>1, <1>3, StackLater DEF CallInv

\* The frames below the one on top fit a later ledger: none of them creates.
LEMMA BelowStays ==
  ASSUME CallInv, frames # <<>>, NEW s, Unborn(s) \subseteq Unborn(ctx)
  PROVE  StackOK(Below, s)
<1>1. /\ StackOK(Below, ctx) /\ Len(Below) = Len(frames) - 1 /\ Len(frames) \in Nat
      /\ \A k \in 1..(Len(frames) - 1) : Below[k] = frames[k]
  BY OnTop
<1>2. \A k \in 1..Len(Below) : ~(Below[k].form = "program" /\ Below[k].after = "create")
  BY <1>1, CreateOnTop
<1>. QED  BY <1>1, <1>2, StackLater

\* What one iteration of processTransactions computes.
TxAt == Current.txs[Current.at]
\* The outcome of its fee, of a payment and of the start of a call, whether the
\* fee, the signature and the counter allow it, and the fields it leaves.
Charged == DeductFee(ctx, TxAt)
Moved == TransferAlgo(Charged.s, TxAt)
Begun == Prepare(Charged.s, TxAt)
Allowed == Charged.ok /\ Authorised(store, TxAt) /\ MayTakeTx(net)
TypedNet == [net EXCEPT !.kind = TxAt.type]
CountedNet == [TypedNet EXCEPT !.left = @ - 1]
RunNet == IF Depth = 1 /\ Len(Current.txs) = 1 THEN [CountedNet EXCEPT !.cost = 0] ELSE CountedNet

\* The ways in which an iteration goes.
LEMMA NextTxIs ==
  ASSUME CallInv, NextTx
  PROVE  /\ InGroup /\ Current.at <= Len(Current.txs)
         /\ \/ ~Allowed /\ Unwind(Charged.s, TypedNet)
            \/ Allowed /\ ~IsCall(TxAt) /\ Moved.ok /\ FinishTx(Moved.s, frames, CountedNet)
            \/ Allowed /\ ~IsCall(TxAt) /\ ~Moved.ok /\ Unwind(Moved.s, CountedNet)
            \/ Allowed /\ IsCall(TxAt) /\ ~Begun.ok /\ Unwind(Begun.s, CountedNet)
            \/ /\ Allowed /\ IsCall(TxAt) /\ Begun.ok /\ Write(Begun.s) /\ net' = RunNet
               /\ frames' = Append(frames, ProgramOf(Begun.s, TxAt))
BY DEF NextTx, TxAt, Charged, Moved, Begun, Allowed, TypedNet, CountedNet, RunNet

\* The nets: types, and the fields that change.
LEMMA NextTxNets ==
  ASSUME CallInv, InGroup, Current.at <= Len(Current.txs)
  PROVE  /\ TypedNet \in Nets /\ TypedNet = [net EXCEPT !.kind = TypedNet.kind]
         /\ Allowed =>
              /\ CountedNet \in Nets /\ RunNet \in Nets /\ net.left \in Nat \ {0}
              /\ CountedNet.left = net.left - 1 /\ RunNet.left = net.left - 1
              /\ CountedNet.credit = net.credit /\ RunNet.credit = net.credit
              /\ CountedNet.budget = net.budget /\ RunNet.budget = net.budget
              /\ CountedNet.cost = net.cost /\ RunNet.cost \in {0, net.cost}
<1>1. TxAt \in AppTx /\ net \in Nets
  BY GroupTop DEF TxAt, CallInv
<1>2. /\ TypedNet \in Nets /\ TypedNet.left = net.left /\ TypedNet.credit = net.credit
      /\ TypedNet.budget = net.budget /\ TypedNet.cost = net.cost /\ TypedNet.kind = TxAt.type
  BY <1>1 DEF TypedNet, Nets, AppTx
<1>3. ASSUME Allowed
      PROVE  /\ CountedNet \in Nets /\ RunNet \in Nets /\ net.left \in Nat \ {0}
             /\ CountedNet.left = net.left - 1 /\ RunNet.left = net.left - 1
             /\ CountedNet.credit = net.credit /\ RunNet.credit = net.credit
             /\ CountedNet.budget = net.budget /\ RunNet.budget = net.budget
             /\ CountedNet.cost = net.cost /\ RunNet.cost \in {0, net.cost}
  <2>1. net.left \in Nat \ {0} /\ net.left - 1 \in Nat
    BY <1>1, <1>3 DEF Allowed, MayTakeTx, Nets
  <2>. DEFINE l == net.left - 1
              m == [TypedNet EXCEPT !.left = l]
  <2>2. CountedNet = m
    BY <1>2 DEF CountedNet
  <2>. HIDE DEF l
  <2>3. /\ m \in Nets /\ m.left = l /\ m.credit = net.credit /\ m.budget = net.budget
        /\ m.cost = net.cost
    BY <1>2, <2>1 DEF Nets, l
  <2>. HIDE DEF m
  <2>4. /\ RunNet \in Nets /\ RunNet.left = l /\ RunNet.credit = net.credit
        /\ RunNet.budget = net.budget /\ RunNet.cost \in {0, net.cost}
    BY <2>2, <2>3 DEF RunNet, Nets
  <2>. QED  BY <2>1, <2>2, <2>3, <2>4 DEF l
<1>4. TypedNet = [net EXCEPT !.kind = TypedNet.kind]
  BY <1>2 DEF TypedNet
<1>. QED  BY <1>2, <1>3, <1>4

\* The ledgers: soundness, and the Algos in them.
LEMMA NextTxLedgers ==
  ASSUME CallInv, InGroup, Current.at <= Len(Current.txs)
  PROVE  /\ TxAt \in AppTx /\ TxAt.signer \notin Unborn(ctx)
         /\ Depth > 1 => TxAt.then = "call"
         /\ AppSound(Charged.s) /\ Alike(ctx, Charged.s)
         /\ \/ Charged.s.amt = [ctx.amt EXCEPT ![TxAt.from] = @ - ChargedFee(TxAt)]
            \/ ~Allowed /\ Charged.s = ctx
         /\ AppSound(Moved.s) /\ Alike(ctx, Moved.s) /\ Sum(Moved.s.amt) = Sum(Charged.s.amt)
         /\ Allowed => TxAt.from \notin Unborn(ctx) /\ TxAt.from \in Addr
         /\ Allowed /\ IsCall(TxAt) =>
              /\ AppSound(Begun.s) /\ Same(Charged.s, Begun.s)
              /\ Begun.ok =>
                   /\ ProgramFits(ProgramOf(Begun.s, TxAt), 2, Begun.s)
                   /\ TxAt.then = "call" =>
                        \A k \in Nat \ {0, 1} : ProgramFits(ProgramOf(Begun.s, TxAt), k, Begun.s)
<1>1. /\ GroupFits(Current, Depth, ctx) /\ Current.at \in DOMAIN Current.txs /\ TxAt \in AppTx
  BY GroupTop DEF TxAt
<1>2. /\ TxAt.signer \notin Unborn(ctx) /\ (Depth > 1 => TxAt.then = "call")
      /\ Unsigned(TxAt) => TxAt.from \notin Unborn(ctx)
      /\ IsCall(TxAt) => Callable(TxAt)
  BY <1>1 DEF GroupFits, TxAt
<1>3. /\ AppSound(Charged.s) /\ Alike(ctx, Charged.s)
      /\ \/ Charged.s.amt = [ctx.amt EXCEPT ![TxAt.from] = @ - ChargedFee(TxAt)]
         \/ ~Charged.ok /\ Charged.s = ctx
  BY <1>1, DeductFeeKeeps DEF CallInv, Charged
<1>4. AppSound(Moved.s) /\ Alike(ctx, Moved.s) /\ Sum(Moved.s.amt) = Sum(Charged.s.amt)
  BY <1>1, <1>3, TransferAlgoKeeps DEF Alike, Moved
<1>5. Allowed => TxAt.from \notin Unborn(ctx) /\ TxAt.from \in Addr
  <2>. SUFFICES ASSUME Allowed, TxAt.from \in Unborn(ctx) PROVE FALSE
    BY <1>1 DEF AppTx
  <2>1. Unborn(ctx) \subseteq Unborn(store)
    BY UnbornShrink DEF CallInv
  <2>2. store.auth[TxAt.from] = TxAt.from
    BY <2>1 DEF CallInv, AppSound, UnbornUntouched
  <2>. QED  BY <1>2, <2>2 DEF Authorised, Allowed
<1>6. ASSUME Allowed, IsCall(TxAt)
      PROVE  /\ AppSound(Begun.s) /\ Same(Charged.s, Begun.s)
             /\ Begun.ok =>
                  /\ ProgramFits(ProgramOf(Begun.s, TxAt), 2, Begun.s)
                  /\ TxAt.then = "call" =>
                       \A k \in Nat \ {0, 1} : ProgramFits(ProgramOf(Begun.s, TxAt), k, Begun.s)
  <2>1. /\ TxAt.from \in Addr /\ TxAt.app \in App /\ TxAt.code \in Code /\ TxAt.then \in Then
        /\ Callable(TxAt)
    BY <1>1, <1>2, <1>6 DEF AppTx
  <2>2. TxAt.from \notin Unborn(Charged.s)
    BY <1>3, <1>5, <1>6 DEF Alike, Unborn
  <2>. QED  BY <1>3, <2>1, <2>2, PrepareKeeps DEF Begun
<1>. QED  BY <1>1, <1>2, <1>3, <1>4, <1>5, <1>6 DEF Allowed

\* One iteration keeps the invariant.
LEMMA NextTxKeeps ==
  ASSUME CallInv, NextTx
  PROVE  CallInv'
<1>. DEFINE f == ProgramOf(Begun.s, TxAt)
<1>1. InGroup /\ Current.at <= Len(Current.txs)
  BY NextTxIs
<1>2. /\ Current \in GroupFrames /\ Current.form = "group" /\ frames # <<>>
      /\ ctx.apps \in Nat /\ Depth = Len(frames) /\ Depth \in Nat \ {0}
  BY <1>1, GroupTop, OnTop, AppNumbers DEF CallInv
<1>3. CASE ~Allowed /\ Unwind(Charged.s, TypedNet)
  BY <1>1, <1>3, NextTxNets, NextTxLedgers, UnwindKeeps DEF Alike
<1>4. CASE Allowed /\ ~IsCall(TxAt) /\ Moved.ok /\ FinishTx(Moved.s, frames, CountedNet)
  <2>. DEFINE s == Moved.s
  <2>1. /\ AppSound(s) /\ s.apps = ctx.apps /\ StackOK(frames, s)
        /\ Current.txs[Current.at].from \notin Unborn(s)
    BY <1>1, <1>4, NextTxLedgers, GroupStays DEF Alike, Unborn, TxAt
  <2>2. Current = frames[Len(frames)] /\ RoomFor(frames, ctx.apps)
    BY <1>2 DEF CallInv, Current
  <2>3. ctx.apps <= s.apps /\ s.apps <= ctx.apps /\ CountedNet \in Nets
    BY <1>1, <1>2, <1>4, <2>1, NextTxNets
  <2>. HIDE DEF s
  <2>4. FinishTx(s, frames, CountedNet)
    BY <1>4 DEF s
  <2>. QED  BY <1>1, <1>2, <2>1, <2>2, <2>3, <2>4, FinishTxKeeps
<1>5. CASE Allowed /\ ~IsCall(TxAt) /\ ~Moved.ok /\ Unwind(Moved.s, CountedNet)
  BY <1>1, <1>5, NextTxNets, NextTxLedgers, UnwindKeeps DEF Alike
<1>6. CASE Allowed /\ IsCall(TxAt) /\ ~Begun.ok /\ Unwind(Begun.s, CountedNet)
  BY <1>1, <1>6, NextTxNets, NextTxLedgers, UnwindKeeps DEF Alike, Same
<1>7. CASE /\ Allowed /\ IsCall(TxAt) /\ Begun.ok /\ Write(Begun.s) /\ net' = RunNet
           /\ frames' = Append(frames, f)
  <2>. DEFINE s == Begun.s
  <2>1. /\ AppSound(s) /\ s.apps = ctx.apps /\ ProgramFits(f, Len(frames) + 1, s)
        /\ TxAt.from \notin Unborn(s)
    <3>1. /\ AppSound(s) /\ s.apps = ctx.apps /\ ProgramFits(f, 2, s)
          /\ TxAt.then = "call" => \A k \in Nat \ {0, 1} : ProgramFits(f, k, s)
          /\ Depth > 1 => TxAt.then = "call"
          /\ TxAt.from \notin Unborn(ctx)
      BY <1>1, <1>7, NextTxLedgers DEF Alike, Same
    <3>2. CASE Depth = 1
      BY <1>2, <3>1, <3>2 DEF Unborn
    <3>3. CASE Depth > 1
      <4>1. Depth + 1 \in Nat \ {0, 1}
        BY <1>2
      <4>. QED  BY <1>2, <3>1, <3>3, <4>1 DEF Unborn
    <3>. QED  BY <1>2, <3>1, <3>2, <3>3
  <2>2. /\ f.form = "program" /\ f.app = TxAt.app /\ f.who = TxAt.from /\ f.after = TxAt.then
        /\ f.code = TxAt.code
    BY ProgramOfIs
  <2>. HIDE DEF s, f
  <2>3. /\ AppSound(store') /\ AppSound(ctx') /\ store'.apps <= ctx'.apps
        /\ (shared => store' = ctx') /\ shared' = shared /\ ctx' = s
    BY <1>2, <1>7, <2>1, WriteKeeps DEF Write, s
  <2>4. StackOK(frames, s) /\ f \in Frames /\ FrameFits(f, Len(frames) + 1, s)
    BY <1>1, <2>1, <2>2, GroupStays DEF ProgramFits, Frames, FrameFits
  <2>5. Linked(frames[Len(frames)], f, s)
    <3>1. Linked(Current, f, s)
      BY <1>1, <1>2, <1>7, <2>1, <2>2 DEF Linked, TxAt
    <3>. QED  BY <1>2, <3>1 DEF Current
  <2>6. StackOK(Append(frames, f), s)
    BY <2>4, <2>5, StackPush
  <2>7. RoomFor(Append(frames, f), s.apps)
    <3>1. Append(frames, f)[1] = frames[1]
      <4>1. frames \in Seq(Frames) /\ 1 \in 1..Len(frames)
        BY <1>2, OnTop
      <4>. QED  BY <4>1
    <3>. QED  BY <1>2, <2>1, <3>1 DEF CallInv, RoomFor
  <2>8. StackOK(frames, ctx)' /\ RoomFor(frames, ctx.apps)'
    BY <1>7, <2>3, <2>6, <2>7
  <2>9. net' \in Nets
    BY <1>1, <1>7, NextTxNets
  <2>. QED  BY <2>3, <2>8, <2>9 DEF CallInv
<1>. QED  BY <1>3, <1>4, <1>5, <1>6, <1>7, NextTxIs

\* The end of the outermost group keeps the invariant.
LEMMA CommitKeeps ==
  ASSUME CallInv, Commit
  PROVE  CallInv'
<1>1. store' = ctx /\ shared' = TRUE /\ frames' = <<>> /\ ctx' = ctx /\ net' = net
  BY DEF Commit
<1>2. StackOK(frames, ctx)' /\ RoomFor(frames, ctx.apps)'
  BY <1>1, NothingRuns
<1>. QED  BY <1>1, <1>2, AppNumbers DEF CallInv

-----------------------------------------------------------------------------
(* Groups and direct calls                                                 *)

\* A sequence of one element.
LEMMA OneFrame ==
  ASSUME NEW f \in Frames, NEW s, FrameFits(f, 1, s)
  PROVE  StackOK(<<f>>, s)
<1>. DEFINE fs == <<f>>
<1>1. fs \in Seq(Frames) /\ Len(fs) = 1 /\ fs[1] = f
  OBVIOUS
<1>. HIDE DEF fs
<1>2. StackOK(fs, s)
  BY <1>1 DEF StackOK
<1>. QED  BY <1>2 DEF fs

\* The calls of a group can be counted.
LEMMA CallsCounted ==
  ASSUME NEW g \in Seq(AppTx)
  PROVE  MaxCost * Cardinality({i \in DOMAIN g : IsCall(g[i])}) \in Nat
<1>1. DOMAIN g = 1..Len(g) /\ Len(g) \in Nat
  OBVIOUS
<1>2. IsFiniteSet(1..Len(g))
  BY <1>1, FS_Interval
<1>3. Cardinality({i \in DOMAIN g : IsCall(g[i])}) \in Nat
  BY <1>1, <1>2, FS_Subset, FS_CardinalityType
<1>. QED  BY <1>3, AppCallsAssumption DEF AppCallsAssumption

\* Submitting a group keeps the invariant.
LEMMA SubmitKeeps ==
  ASSUME CallInv, NEW g \in Groups, Submit(g)
  PROVE  CallInv'
<1>. DEFINE f == GroupFrame(g)
            m == MaxCost * Cardinality({i \in DOMAIN g : IsCall(g[i])})
            c == Fees(g) - MinFee * Len(g)
<1>1. /\ g \in Seq(AppTx) /\ g # <<>> /\ Len(g) \in Nat \ {0}
      /\ \A i \in DOMAIN g : Submittable(g[i]) /\ g[i] \in AppTx
  BY AppCallsAssumption DEF AppCallsAssumption, Submittable
<1>2. /\ ctx' = store /\ store' = store /\ shared' = FALSE
      /\ frames' \in {<<f>>, <<>>}
      /\ net' = [NewNet(g[1].app) EXCEPT !.credit = c, !.budget = m]
  BY DEF Submit
<1>3. f \in GroupFrames /\ f.form = "group" /\ f.txs = g /\ f.at = 1
  BY <1>1 DEF GroupFrame, GroupFrames
<1>4. net' \in Nets
  <2>1. m \in Nat
    BY <1>1, CallsCounted
  <2>2. c \in Int
    <3>1. Fees(g) \in Int
      BY <1>1, FeesInt
    <3>2. MinFee * Len(g) \in Int
      BY <1>1, LedgerAssumption DEF LedgerAssumption
    <3>. QED  BY <3>1, <3>2
  <2>. HIDE DEF m, c
  <2>3. g[1].app \in App
    BY <1>1 DEF AppTx
  <2>4. NewNet(g[1].app) \in Nets
    BY <2>3, AppCallsAssumption DEF AppCallsAssumption, NewNet, Nets
  <2>. QED  BY <1>2, <2>1, <2>2, <2>4 DEF Nets
<1>5. GroupFits(f, 1, store)
  <2>1. ASSUME NEW i \in DOMAIN g
        PROVE  /\ g[i].signer \notin Unborn(store) /\ (IsCall(g[i]) => Callable(g[i]))
               /\ Unsigned(g[i]) => g[i].from \notin Unborn(store)
    <3>1. Unborn(store) \subseteq Range(AppAddress)
      BY UnbornAre DEF CallInv
    <3>2. ClearsTidy => (g[i].code.valid => NoPuts(Body[g[i].code.clear]))
      BY DEF ClearsTidy
    <3>. QED  BY <1>1, <3>1, <3>2 DEF Submittable, Callable, Runnable
  <2>. HIDE DEF f
  <2>. QED  BY <1>1, <1>3, <2>1 DEF GroupFits
<1>6. store.apps + Cardinality(CreatesLeft(f)) <= MaxApp
  <2>1. {i \in DOMAIN g : g[i].then = "create"} = CreatesLeft(f)
    BY <1>1, <1>3 DEF CreatesLeft
  <2>. QED  BY <2>1 DEF Submit
<1>. HIDE DEF f
<1>7. FrameFits(f, 1, store) /\ f \in Frames
  BY <1>3, <1>5 DEF FrameFits, Frames
<1>8. StackOK(<<f>>, store) /\ RoomFor(<<f>>, store.apps)
  <2>1. RoomFor(<<f>>, store.apps)
    BY <1>3, <1>6 DEF RoomFor
  <2>. QED  BY <1>7, <2>1, OneFrame
<1>9. StackOK(frames', store) /\ RoomFor(frames', store.apps)
  BY <1>2, <1>8, NothingRuns
<1>10. StackOK(frames, ctx)' /\ RoomFor(frames, ctx.apps)'
  BY <1>2, <1>9
<1>11. AppSound(store') /\ AppSound(ctx') /\ store'.apps <= ctx'.apps
  BY <1>2, AppNumbers DEF CallInv
<1>. QED  BY <1>2, <1>4, <1>10, <1>11 DEF CallInv

\* What a direct call is: one that callers may make, and its program if it runs.
LEMMA DirectIs ==
  ASSUME CallInv, NEW tx \in DirectCalls, DirectCall(tx)
  PROVE  LET u == [tx EXCEPT !.type = net.kind]
             p == Prepare(ctx, u)
             f == ProgramOf(p.s, tx)
         IN  /\ u.from = tx.from /\ u.app = tx.app /\ u.code = tx.code /\ u.then = tx.then
             /\ u.from \in Addr /\ u.app \in App /\ u.code \in Code /\ u.then \in Then
             /\ u.from \notin Unborn(ctx) /\ Callable(u)
             /\ AppSound(p.s) /\ Same(ctx, p.s) /\ (p.ok => ProgramFits(f, 1, p.s))
             /\ f.form = "program" /\ f.after = tx.then /\ f.who = tx.from
             /\ frames = <<>> /\ (tx.then = "create" => ctx.apps < MaxApp) /\ Write(p.s)
             /\ frames' = IF p.ok THEN <<f>> ELSE <<>>
<1>. DEFINE u == [tx EXCEPT !.type = net.kind]
            p == Prepare(ctx, u)
            s == p.s
            f == ProgramOf(s, tx)
<1>1. /\ tx \in AppTx /\ IsCall(tx) /\ tx.then \in {"create", "join", "update"}
      /\ tx.from \notin Range(AppAddress) /\ Callable(tx)
  <2>1. /\ Submittable(tx) /\ IsCall(tx) /\ tx.then \in {"create", "join", "update"}
        /\ tx.from \notin Range(AppAddress)
    BY AppCallsAssumption
  <2>2. ClearsTidy => (tx.code.valid => NoPuts(Body[tx.code.clear]))
    <3>. SUFFICES ASSUME ClearsTidy PROVE tx.code.valid => NoPuts(Body[tx.code.clear])
      OBVIOUS
    <3>1. \A i \in DOMAIN <<tx>> :
            <<tx>>[i].code.valid => NoPuts(Body[<<tx>>[i].code.clear])
      BY DEF ClearsTidy
    <3>2. 1 \in DOMAIN <<tx>> /\ <<tx>>[1] = tx
      OBVIOUS
    <3>. QED  BY <3>1, <3>2
  <2>. QED  BY <2>1, <2>2 DEF Submittable, Callable, Runnable
<1>2. /\ u.from = tx.from /\ u.app = tx.app /\ u.code = tx.code /\ u.then = tx.then
      /\ u.from \in Addr /\ u.app \in App /\ u.code \in Code /\ u.then \in Then
      /\ u.from \notin Unborn(ctx)
  <2>1. /\ u.from = tx.from /\ u.app = tx.app /\ u.code = tx.code /\ u.then = tx.then
    BY <1>1 DEF AppTx
  <2>. HIDE DEF u
  <2>. QED  BY <1>1, <2>1, UnbornAre DEF CallInv, AppTx
<1>3. ProgramOf(s, u) = f
  BY <1>2 DEF ProgramOf
<1>4. /\ frames = <<>> /\ (tx.then = "create" => ctx.apps < MaxApp) /\ Write(s)
      /\ frames' = IF p.ok THEN <<f>> ELSE <<>>
  BY DEF DirectCall
<1>5. f.form = "program" /\ f.after = tx.then /\ f.who = tx.from
  BY ProgramOfIs
<1>. HIDE DEF u
<1>6. Callable(u)
  BY <1>1, <1>2 DEF Callable
<1>7. AppSound(s) /\ Same(ctx, s) /\ (p.ok => ProgramFits(f, 1, s))
  <2>. HIDE DEF f
  <2>. QED  BY <1>1, <1>2, <1>3, <1>6, PrepareKeeps DEF CallInv
<1>. HIDE DEF p, f
<1>. QED  BY <1>2, <1>4, <1>5, <1>6, <1>7 DEF u, p, f

\* So does a direct call.
LEMMA DirectCallKeeps ==
  ASSUME CallInv, NEW tx \in DirectCalls, DirectCall(tx)
  PROVE  CallInv'
<1>. DEFINE u == [tx EXCEPT !.type = net.kind]
            p == Prepare(ctx, u)
            s == p.s
            f == ProgramOf(s, tx)
<1>1. net' = [net EXCEPT !.cost = IF p.ok THEN 0 ELSE net.cost, !.budget = MaxCost]
  BY DEF DirectCall
<1>2. /\ frames = <<>> /\ (tx.then = "create" => ctx.apps < MaxApp) /\ Write(s)
      /\ frames' = IF p.ok THEN <<f>> ELSE <<>>
  BY DirectIs
<1>3. AppSound(s) /\ Same(ctx, s) /\ (p.ok => ProgramFits(f, 1, s))
  BY DirectIs
<1>4. f.form = "program" /\ f.after = tx.then
  BY DirectIs
<1>. HIDE DEF u, p
<1>7. ctx.apps \in Nat /\ s.apps = ctx.apps
  BY <1>3, AppNumbers DEF CallInv, Same
<1>8. /\ AppSound(store') /\ AppSound(ctx') /\ store'.apps <= ctx'.apps
      /\ (shared => store' = ctx') /\ shared' = shared /\ ctx' = s
  BY <1>2, <1>3, <1>7, WriteKeeps DEF Write
<1>9. net' \in Nets
  <2>1. net \in Nets /\ MaxCost \in Nat
    BY AppCallsAssumption DEF AppCallsAssumption, CallInv
  <2>2. (IF p.ok THEN 0 ELSE net.cost) \in Nat
    BY <2>1 DEF Nets
  <2>. QED  BY <1>1, <2>1, <2>2 DEF Nets
<1>10. StackOK(frames', s) /\ RoomFor(frames', s.apps)
  <2>1. CASE p.ok
    <3>1. f \in Frames /\ FrameFits(f, 1, s)
      BY <1>3, <1>4, <2>1 DEF ProgramFits, Frames, FrameFits
    <3>2. RoomFor(<<f>>, s.apps)
      BY <1>2, <1>4, <1>7 DEF RoomFor
    <3>. QED  BY <1>2, <2>1, <3>1, <3>2, OneFrame
  <2>2. CASE ~p.ok
    BY <1>2, <2>2, NothingRuns
  <2>. QED  BY <2>1, <2>2
<1>11. StackOK(frames, ctx)' /\ RoomFor(frames, ctx.apps)'
  BY <1>8, <1>10
<1>. QED  BY <1>8, <1>9, <1>11 DEF CallInv

\* itxn_submit keeps the invariant.
LEMMA ITxnSubmitKeeps ==
  ASSUME CallInv, ITxnSubmit
  PROVE  CallInv'
<1>. DEFINE txs == Current.inner
            calls == {i \in DOMAIN txs : IsCall(txs[i])}
            f == GroupFrame(txs)
            m == MaxCost * Cardinality(calls)
            stack == IF txs[1].app = 0 THEN net.callers ELSE Append(net.callers, txs[1].app)
            n == [net EXCEPT !.credit = InnerCredit(txs), !.inner = TRUE,
                             !.budget = net.budget + m, !.callers = stack]
<1>1. InProgram
  BY DEF ITxnSubmit
<1>2. /\ ProgramFits(Current, Depth, ctx) /\ Current.form = "program"
      /\ txs \in Seq(AppTx) /\ frames # <<>> /\ Depth = Len(frames) /\ Depth \in Nat \ {0}
  BY <1>1, ProgramTop, OnTop
<1>3. \/ Unwind(ctx, net)
      \/ Continue(ctx, Current, 1)
      \/ /\ txs # <<>> /\ ~\E i \in calls : txs[i].app = 0
         /\ frames' = Append(frames, f) /\ net' = n /\ UNCHANGED <<store, ctx, shared>>
  BY DEF ITxnSubmit
<1>4. CASE Unwind(ctx, net)
  BY <1>4, UnwindKeeps DEF CallInv
<1>5. CASE Continue(ctx, Current, 1)
  BY <1>1, <1>5, NextPc, ContinueKeeps DEF CallInv
<1>6. CASE /\ txs # <<>> /\ ~\E i \in calls : txs[i].app = 0
           /\ frames' = Append(frames, f) /\ net' = n /\ UNCHANGED <<store, ctx, shared>>
  <2>1. /\ f \in GroupFrames /\ f.form = "group" /\ f.txs = txs /\ f.at = 1
        /\ Len(txs) \in Nat \ {0} /\ txs[1] \in AppTx
    BY <1>2, <1>6 DEF GroupFrame, GroupFrames
  <2>2. n \in Nets
    <3>1. m \in Nat /\ net \in Nets
      BY <1>2, CallsCounted DEF CallInv
    <3>2. InnerCredit(txs) \in Int
      <4>1. Fees(txs) \in Int /\ net.credit \in Int /\ MinFee \in Nat /\ Len(txs) \in Nat
        BY <1>2, <2>1, <3>1, FeesInt, LedgerAssumption DEF LedgerAssumption, Nets
      <4>. QED  BY <4>1 DEF InnerCredit
    <3>3. stack \in Seq(App)
      <4>1. net.callers \in Seq(App) /\ txs[1].app \in App
        BY <2>1, <3>1 DEF Nets, AppTx
      <4>. QED  BY <4>1
    <3>. HIDE DEF m, stack, txs
    <3>4. net.budget + m \in Nat
      BY <3>1 DEF Nets
    <3>. QED  BY <3>1, <3>2, <3>3, <3>4 DEF Nets
  <2>3. GroupFits(f, Depth + 1, ctx)
    <3>1. ASSUME NEW i \in DOMAIN txs
          PROVE  /\ txs[i].signer \notin Unborn(ctx) /\ txs[i].then = "call"
                 /\ ~Unsigned(txs[i])
                 /\ IsCall(txs[i]) => Callable(txs[i])
      <4>1. txs[i].signer \in Addr \ Unborn(ctx) /\ txs[i].then = "call" /\ ~txs[i].code.valid
        BY <1>2 DEF ProgramFits
      <4>2. IsCall(txs[i]) => txs[i].app # 0
        BY <1>6
      <4>3. ~Unsigned(txs[i])
        BY <4>1, LedgerAssumption DEF LedgerAssumption, Unsigned
      <4>. QED  BY <4>1, <4>2, <4>3 DEF Callable
    <3>. HIDE DEF f, txs
    <3>. QED  BY <2>1, <3>1 DEF GroupFits
  <2>. HIDE DEF f
  <2>4. Linked(frames[Len(frames)], f, ctx)
    BY <1>2, <1>6, <2>1 DEF Linked, Current
  <2>5. FrameFits(f, Len(frames) + 1, ctx) /\ f \in Frames
    BY <1>2, <2>1, <2>3 DEF FrameFits, Frames
  <2>6. StackOK(Append(frames, f), ctx)
    BY <2>4, <2>5, StackPush DEF CallInv
  <2>7. RoomFor(Append(frames, f), ctx.apps)
    <3>1. frames \in Seq(Frames) /\ 1 \in 1..Len(frames)
      BY <1>2, OnTop
    <3>2. Append(frames, f)[1] = frames[1]
      BY <3>1
    <3>. QED  BY <1>2, <3>2 DEF CallInv, RoomFor
  <2>8. StackOK(frames, ctx)' /\ RoomFor(frames, ctx.apps)'
    BY <1>6, <2>6, <2>7
  <2>. HIDE DEF n
  <2>. QED  BY <1>6, <2>2, <2>8 DEF CallInv
<1>. QED  BY <1>3, <1>4, <1>5, <1>6

\* The program that waits for an inner group.
LEMMA CallerIs ==
  ASSUME CallInv, InGroup, Depth > 1
  PROVE  LET k == Depth - 1
             c == frames[k]
         IN  /\ k \in 1..(Len(frames) - 1) /\ k \in 1..Len(frames) /\ k \in Nat \ {0}
             /\ c.form = "program" /\ ProgramFits(c, k, ctx) /\ c \in ProgramFrames
             /\ c.after # "create" /\ c.inner # <<>>
             /\ StackOK(SubSeq(frames, 1, k - 1), ctx) /\ Len(SubSeq(frames, 1, k - 1)) = k - 1
             /\ \A j \in 1..(k - 1) : SubSeq(frames, 1, k - 1)[j] = frames[j]
<1>. DEFINE k == Depth - 1
            c == frames[k]
<1>1. Depth = Len(frames) /\ Depth \in Nat /\ Current.form = "group" /\ frames \in Seq(Frames)
  BY GroupTop, OnTop
<1>2. /\ k \in 1..(Len(frames) - 1) /\ k \in 1..Len(frames) /\ k \in Nat \ {0} /\ k + 1 = Depth
      /\ k - 1 \in 0..Len(frames)
  BY <1>1
<1>. HIDE DEF k
<1>3. Linked(c, frames[k + 1], ctx) /\ frames[k + 1] = Current /\ FrameFits(c, k, ctx)
  BY <1>2 DEF CallInv, StackOK, Current
<1>4. c.form # "group" /\ c.inner # <<>>
  BY <1>1, <1>3 DEF Linked
<1>5. ProgramFits(c, k, ctx) /\ c \in ProgramFrames /\ c.form = "program"
  BY <1>3, <1>4 DEF FrameFits, ProgramFits, ProgramFrames
<1>6. c.after # "create"
  BY <1>2, <1>5, CreateOnTop
<1>7. /\ StackOK(SubSeq(frames, 1, k - 1), ctx) /\ Len(SubSeq(frames, 1, k - 1)) = k - 1
      /\ \A j \in 1..(k - 1) : SubSeq(frames, 1, k - 1)[j] = frames[j]
  BY <1>1, <1>2, StackPrefix, PrefixOf DEF CallInv
<1>. QED  BY <1>2, <1>4, <1>5, <1>6, <1>7 DEF k

\* So does the end of an inner group.
LEMMA ITxnReturnKeeps ==
  ASSUME CallInv, ITxnReturn
  PROVE  CallInv'
<1>. DEFINE k == Depth - 1
            c == frames[k]
            front == SubSeq(frames, 1, Depth - 2)
            f == [c EXCEPT !.inner = <<>>, !.submitted = @ + 1, !.pc = @ + 1]
            n == [Spent(1) EXCEPT !.inner = FALSE]
<1>1. InGroup /\ Depth > 1
  BY DEF ITxnReturn
<1>2. CASE net.cost + 1 > net.budget
  BY <1>2, SpentNets, UnwindKeeps DEF ITxnReturn, CallInv
<1>3. CASE ~(net.cost + 1 > net.budget)
  <2>1. frames' = Append(front, f) /\ net' = n /\ UNCHANGED <<store, ctx, shared>>
    BY <1>3 DEF ITxnReturn
  <2>2. Depth \in Nat /\ Depth - 2 = k - 1
    BY <1>1, GroupTop, OnTop
  <2>3. /\ k \in 1..(Len(frames) - 1) /\ k \in 1..Len(frames) /\ k \in Nat \ {0}
        /\ c.form = "program" /\ ProgramFits(c, k, ctx) /\ c \in ProgramFrames
        /\ c.after # "create"
        /\ StackOK(front, ctx) /\ Len(front) = k - 1
        /\ \A j \in 1..(k - 1) : front[j] = frames[j]
    BY <1>1, <2>2, CallerIs
  <2>. HIDE DEF front, k
  <2>4. /\ f \in ProgramFrames /\ f.form = "program" /\ f.inner = <<>> /\ f.app = c.app
        /\ f.who = c.who /\ f.after = c.after /\ f.code = c.code /\ f.steps = c.steps
    <3>. DEFINE h == [c EXCEPT !.inner = <<>>, !.submitted = c.submitted + 1, !.pc = c.pc + 1]
    <3>1. f = h
      OBVIOUS
    <3>. HIDE DEF c, f
    <3>2. c.submitted + 1 \in Nat /\ c.pc + 1 \in Nat \ {0} /\ <<>> \in Seq(AppTx)
      BY <2>3 DEF ProgramFrames
    <3>3. /\ h \in ProgramFrames /\ h.form = "program" /\ h.inner = <<>> /\ h.app = c.app
          /\ h.who = c.who /\ h.after = c.after /\ h.code = c.code /\ h.steps = c.steps
      BY <2>3, <3>2 DEF ProgramFrames
    <3>. QED  BY <3>1, <3>3
  <2>. HIDE DEF f
  <2>5. ProgramFits(f, k, ctx)
    BY <2>3, <2>4 DEF ProgramFits
  <2>6. front # <<>> => Linked(front[Len(front)], f, ctx)
    <3>. SUFFICES ASSUME front # <<>> PROVE Linked(front[Len(front)], f, ctx)
      OBVIOUS
    <3>1. Len(front) \in Nat \ {0}
      <4>1. front \in Seq(Frames)
        BY <2>3 DEF StackOK
      <4>. QED  BY <4>1
    <3>2. k - 1 \in 1..(k - 1) /\ k - 1 \in 1..(Len(frames) - 1) /\ (k - 1) + 1 = k
      BY <2>3, <3>1
    <3>3. Linked(frames[k - 1], c, ctx)
      BY <3>2 DEF CallInv, StackOK
    <3>. QED  BY <2>3, <2>4, <3>2, <3>3 DEF Linked
  <2>7. StackOK(Append(front, f), ctx)
    <3>1. FrameFits(f, Len(front) + 1, ctx) /\ f \in Frames
      BY <2>3, <2>4, <2>5 DEF FrameFits, Frames
    <3>. QED  BY <2>3, <2>6, <3>1, StackPush
  <2>8. RoomFor(Append(front, f), ctx.apps)
    <3>1. front \in Seq(Frames)
      BY <2>3 DEF StackOK
    <3>2. CASE k = 1
      <4>1. Append(front, f)[1] = f
        BY <2>3, <3>1, <3>2
      <4>. QED  BY <2>3, <2>4, <4>1 DEF RoomFor
    <3>3. CASE k # 1
      <4>1. Append(front, f)[1] = frames[1] /\ frames # <<>>
        BY <2>3, <3>1, <3>3
      <4>. QED  BY <4>1 DEF CallInv, RoomFor
    <3>. QED  BY <3>2, <3>3
  <2>9. n \in Nets
    <3>. DEFINE m == Spent(1)
    <3>1. m \in Nets
      BY SpentNets
    <3>. HIDE DEF m
    <3>2. [m EXCEPT !.inner = FALSE] \in Nets
      BY <3>1 DEF Nets
    <3>. QED  BY <3>2 DEF m
  <2>10. StackOK(frames, ctx)' /\ RoomFor(frames, ctx.apps)'
    BY <2>1, <2>7, <2>8
  <2>. HIDE DEF n
  <2>. QED  BY <2>1, <2>9, <2>10 DEF CallInv
<1>. QED  BY <1>2, <1>3

\* The deployment of an application leaves room for its number.
LEMMA RoomForNew ==
  ASSUME CallInv, InProgram, Current.after = "create"
  PROVE  ctx.apps < MaxApp /\ ctx.apps \in Nat /\ Depth \in {1, 2} /\ Runnable(ctx.app[0])
<1>1. /\ ProgramFits(Current, Depth, ctx) /\ Current.form = "program"
      /\ Depth = Len(frames) /\ Depth \in Nat \ {0} /\ frames \in Seq(Frames) /\ frames # <<>>
  BY ProgramTop, OnTop
<1>2. Depth \in {1, 2} /\ Runnable(ctx.app[0])
  BY <1>1 DEF ProgramFits
<1>3. ctx.apps \in Nat
  BY AppNumbers DEF CallInv
<1>4. CASE Depth = 1
  BY <1>1, <1>2, <1>3, <1>4 DEF CallInv, RoomFor, Current
<1>5. CASE Depth = 2
  <2>1. 1 \in 1..(Len(frames) - 1) /\ 1 \in 1..Len(frames)
    BY <1>1, <1>5
  <2>2. Linked(frames[1], frames[1 + 1], ctx) /\ FrameFits(frames[1], 1, ctx)
    BY <2>1 DEF CallInv, StackOK
  <2>3. frames[1 + 1] = Current
    BY <1>5 DEF Current
  <2>4. frames[1].form = "group" /\ frames[1].txs[frames[1].at].then = "create"
        /\ frames[1].at <= Len(frames[1].txs)
    BY <1>1, <2>2, <2>3 DEF Linked
  <2>5. frames[1] \in GroupFrames
    BY <2>2, <2>4 DEF FrameFits, GroupFits
  <2>6. frames[1].at \in CreatesLeft(frames[1])
    BY <2>4, <2>5 DEF CreatesLeft, GroupFrames
  <2>7. /\ Cardinality(CreatesLeft(frames[1])) \in Nat
        /\ Cardinality(CreatesLeft(frames[1])) # 0
    BY <2>5, <2>6, CreatesFinite, FS_EmptySet
  <2>8. ctx.apps + Cardinality(CreatesLeft(frames[1])) <= MaxApp
    BY <1>1, <2>4 DEF CallInv, RoomFor
  <2>. QED  BY <1>2, <1>3, <2>7, <2>8, AppLedgerAssumption DEF AppLedgerAssumption
<1>. QED  BY <1>2, <1>3, <1>4, <1>5

\* What the handler does to the ledger when the program has approved.
LEMMA CompletedKeeps ==
  ASSUME CallInv, InProgram
  PROVE  LET o == Completed(ctx, Current)
         IN  /\ AppSound(o.s)
             /\ IF Current.after = "create" THEN o.s.apps = ctx.apps + 1 ELSE o.s.apps = ctx.apps
<1>. DEFINE o == Completed(ctx, Current)
<1>1. /\ ProgramFits(Current, Depth, ctx) /\ Current \in ProgramFrames /\ AppSound(ctx)
      /\ Current.app \in App /\ Current.who \in Addr /\ Current.who \notin Unborn(ctx)
      /\ Current.code \in Code
  BY ProgramTop DEF CallInv, ProgramFrames
<1>2. Current.after # "create" => Current.app # 0
  BY <1>1 DEF ProgramFits
<1>3. CASE Current.after = "create"
  <2>1. o = EndDeploy(ctx, Current.who)
    BY <1>3 DEF Completed
  <2>. HIDE DEF o
  <2>2. AppSound(o.s) /\ o.s.apps = ctx.apps + 1
    BY <1>1, <1>3, <2>1, RoomForNew, EndDeployKeeps
  <2>. QED  BY <1>3, <2>2 DEF o
<1>4. CASE Current.after \in {"close", "clear"}
  <2>1. o = CloseApp(ctx, Current.who, Current.app)
    BY <1>4 DEF Completed
  <2>. HIDE DEF o
  <2>. QED  BY <1>1, <1>4, <2>1, CloseAppKeeps DEF Same, o
<1>5. CASE Current.after = "delete"
  <2>1. o = DeleteApp(ctx, Current.app)
    BY <1>5 DEF Completed
  <2>. HIDE DEF o
  <2>. QED  BY <1>1, <1>2, <1>5, <2>1, DeleteAppKeeps DEF Same, o
<1>6. CASE Current.after = "update"
  <2>1. o = ReplacePrograms(ctx, Current.app, Current.code) /\ Runnable(Current.code)
    BY <1>1, <1>6 DEF Completed, ProgramFits
  <2>. HIDE DEF o
  <2>. QED  BY <1>1, <1>2, <1>6, <2>1, ReplaceProgramsKeeps DEF Same, o
<1>7. CASE Current.after \notin {"create", "close", "clear", "delete", "update"}
  <2>1. o = Ok(ctx)
    BY <1>7 DEF Completed
  <2>. QED  BY <1>1, <1>7, <2>1 DEF Ok
<1>. QED  BY <1>3, <1>4, <1>5, <1>6, <1>7

\* The group that the program on top belongs to.
LEMMA GroupBelow ==
  ASSUME CallInv, InProgram, Depth > 1
  PROVE  LET g == Below[Len(Below)]
         IN  /\ Below # <<>> /\ Len(Below) = Depth - 1 /\ g = frames[Depth - 1]
             /\ g.form = "group" /\ g \in GroupFrames /\ GroupFits(g, Depth - 1, ctx)
             /\ g.at <= Len(g.txs) /\ g.at \in DOMAIN g.txs
             /\ IsCall(g.txs[g.at]) /\ g.txs[g.at].from \notin Unborn(ctx)
             /\ Current.app = g.txs[g.at].app /\ Current.who = g.txs[g.at].from
             /\ Current.after = g.txs[g.at].then
             /\ Below[1] = frames[1]
<1>. DEFINE g == Below[Len(Below)]
<1>1. /\ Depth = Len(frames) /\ Depth \in Nat \ {0} /\ frames # <<>>
      /\ Current.form = "program" /\ Len(Below) = Depth - 1 /\ Below \in Seq(Frames)
      /\ StackOK(Below, ctx) /\ \A k \in 1..(Depth - 1) : Below[k] = frames[k]
      /\ Below # <<>> => Linked(g, Current, ctx) /\ Below[1] = frames[1]
  BY ProgramTop, OnTop
<1>2. Below # <<>> /\ Depth - 1 \in 1..(Depth - 1) /\ Depth - 1 \in 1..Len(Below)
  BY <1>1
<1>3. g.form = "group" /\ g = frames[Depth - 1]
  BY <1>1, <1>2 DEF Linked
<1>4. FrameFits(g, Depth - 1, ctx)
  BY <1>1, <1>2 DEF StackOK
<1>5. GroupFits(g, Depth - 1, ctx) /\ g \in GroupFrames
  BY <1>3, <1>4 DEF FrameFits, GroupFits
<1>6. Linked(g, Current, ctx)
  BY <1>1, <1>2
<1>. HIDE DEF g
<1>7. /\ g.at <= Len(g.txs) /\ IsCall(g.txs[g.at]) /\ g.txs[g.at].from \notin Unborn(ctx)
      /\ Current.app = g.txs[g.at].app /\ Current.who = g.txs[g.at].from
      /\ Current.after = g.txs[g.at].then
  BY <1>3, <1>6 DEF Linked
<1>8. g.at \in DOMAIN g.txs
  BY <1>5, <1>7 DEF GroupFrames
<1>. QED  BY <1>1, <1>2, <1>3, <1>5, <1>7, <1>8 DEF g

\* The end of a program keeps the invariant.
LEMMA ApproveKeeps ==
  ASSUME CallInv, Approve
  PROVE  CallInv'
<1>. DEFINE o == Completed(ctx, Current)
            s == o.s
            n == Spent(1)
<1>1. InProgram
  BY DEF Approve
<1>2. /\ AppSound(s)
      /\ IF Current.after = "create" THEN s.apps = ctx.apps + 1 ELSE s.apps = ctx.apps
  BY <1>1, CompletedKeeps
<1>3. n \in Nets /\ ctx.apps \in Nat
  BY SpentNets, AppNumbers DEF CallInv
<1>4. \/ Unwind(ctx, n)
      \/ /\ Depth = 1 /\ ctx' = s /\ frames' = <<>> /\ net' = n
         /\ store' = (IF o.ok \/ shared THEN s ELSE store)
         /\ shared' = (shared \/ o.ok)
      \/ Depth # 1 /\ Thrown(s, n)
      \/ Depth # 1 /\ FinishTx(s, Below, n)
  BY DEF Approve
<1>. HIDE DEF s, n
<1>5. ctx.apps <= s.apps /\ s.apps \in Nat
  BY <1>2, <1>3
<1>6. CASE Unwind(ctx, n)
  BY <1>3, <1>6, UnwindKeeps DEF CallInv
<1>7. CASE /\ Depth = 1 /\ ctx' = s /\ frames' = <<>> /\ net' = n
           /\ store' = (IF o.ok \/ shared THEN s ELSE store)
           /\ shared' = (shared \/ o.ok)
  <2>1. AppSound(store') /\ AppSound(ctx')
    BY <1>2, <1>7 DEF CallInv
  <2>2. store'.apps <= ctx'.apps
    <3>1. store.apps <= ctx.apps /\ store.apps \in Nat
      BY AppNumbers DEF CallInv
    <3>. QED  BY <1>3, <1>5, <1>7, <3>1
  <2>3. shared' \in BOOLEAN /\ (shared' => store' = ctx')
    BY <1>7
  <2>4. StackOK(frames, ctx)' /\ RoomFor(frames, ctx.apps)'
    BY <1>7, NothingRuns
  <2>. QED  BY <1>3, <1>7, <2>1, <2>2, <2>3, <2>4 DEF CallInv
<1>8. CASE Depth # 1 /\ Thrown(s, n)
  BY <1>2, <1>3, <1>5, <1>8, ThrownKeeps
<1>9. CASE Depth # 1 /\ FinishTx(s, Below, n)
  <2>. DEFINE g == Below[Len(Below)]
  <2>1. /\ Depth \in Nat \ {0} /\ Depth > 1 /\ frames # <<>>
    BY <1>1, <1>9, ProgramTop, OnTop
  <2>2. /\ Below # <<>> /\ Len(Below) = Depth - 1
        /\ g.form = "group" /\ g.at <= Len(g.txs)
        /\ g.txs[g.at].from \notin Unborn(ctx)
        /\ Current.after = g.txs[g.at].then /\ Below[1] = frames[1]
    BY <1>1, <2>1, GroupBelow
  <2>3. Unborn(s) \subseteq Unborn(ctx)
    BY <1>2, <1>5, UnbornShrink DEF CallInv
  <2>4. StackOK(Below, s) /\ g.txs[g.at].from \notin Unborn(s)
    BY <2>1, <2>2, <2>3, BelowStays
  <2>5. RoomFor(Below, ctx.apps)
    BY <2>1, <2>2 DEF CallInv, RoomFor
  <2>6. \/ s.apps <= ctx.apps
        \/ Len(Below) = 1 /\ g.txs[g.at].then = "create" /\ s.apps = ctx.apps + 1
    <3>1. CASE Current.after = "create"
      BY <1>1, <1>2, <2>1, <2>2, <3>1, RoomForNew
    <3>2. CASE Current.after # "create"
      BY <1>2, <1>3, <3>2
    <3>. QED  BY <3>1, <3>2
  <2>. HIDE DEF g
  <2>. QED  BY <1>2, <1>3, <1>5, <1>9, <2>2, <2>4, <2>5, <2>6, FinishTxKeeps DEF g
<1>. QED  BY <1>4, <1>6, <1>7, <1>8, <1>9

-----------------------------------------------------------------------------
(* The invariant                                                           *)

\* Every step does.
LEMMA StepKeeps ==
  ASSUME CallInv, [Next]_vars
  PROVE  CallInv'
<1>1. CASE UNCHANGED vars
  BY <1>1 DEF vars, CallInv
<1>2. CASE \E g \in Groups : Submit(g)
  BY <1>2, SubmitKeeps
<1>3. CASE \E tx \in DirectCalls : DirectCall(tx)
  BY <1>3, DirectCallKeeps
<1>4. CASE NextTx
  BY <1>4, NextTxKeeps
<1>5. CASE Commit
  BY <1>5, CommitKeeps
<1>6. CASE Take
  BY <1>6, TakeKeeps
<1>7. CASE IfNew
  BY <1>7, IfNewKeeps
<1>8. CASE AppGlobalPut \/ AppGlobalDel \/ AppLocalPut \/ AppLocalDel
  BY <1>8, StateStepsKeep
<1>9. CASE ITxnBegin
  BY <1>9, ITxnBeginKeeps
<1>10. CASE ITxnNext
  BY <1>10, ITxnNextKeeps
<1>11. CASE ITxnField
  BY <1>11, ITxnFieldKeeps
<1>12. CASE ITxnSubmit
  BY <1>12, ITxnSubmitKeeps
<1>13. CASE ITxnReturn
  BY <1>13, ITxnReturnKeeps
<1>14. CASE Err
  BY <1>14, ErrKeeps
<1>15. CASE Approve
  BY <1>15, ApproveKeeps
<1>. QED  BY <1>1, <1>2, <1>3, <1>4, <1>5, <1>6, <1>7, <1>8, <1>9, <1>10, <1>11, <1>12,
             <1>13, <1>14, <1>15 DEF Next

\* The invariant holds.
LEMMA CallInvHolds == Spec => []CallInv
<1>1. Init => CallInv
  BY InitKeeps
<1>2. CallInv /\ [Next]_vars => CallInv'
  BY StepKeeps
<1>. QED  BY <1>1, <1>2, PTL DEF Spec

\* The fields of the runtime keep their types, and calls and the groups they
\* make alternate, whatever programs and groups there are.
THEOREM FieldsAreTyped == Spec => []TypeOK
<1>1. ASSUME CallInv PROVE TypeOK
  <2>1. /\ net.left \in Nat /\ net.cost \in Nat /\ net.budget \in Nat
        /\ net.callers \in Seq(App) /\ shared \in BOOLEAN
    BY <1>1 DEF CallInv, Nets
  <2>2. ctx.apps \in 0..MaxApp /\ store.apps \in 0..MaxApp
    BY <1>1 DEF CallInv, AppSound, AppState
  <2>3. frames \in Seq(Frames) /\ DOMAIN frames = 1..Len(frames) /\ Depth = Len(frames)
    BY <1>1 DEF CallInv, StackOK, Depth
  <2>4. \A k \in DOMAIN frames : frames[k].form \in {"group", "program"}
    <3>1. \A f \in Frames : f.form \in {"group", "program"}
      BY DEF Frames, GroupFrames, ProgramFrames
    <3>. QED  BY <2>3, <3>1
  <2>5. ASSUME NEW k \in 1..(Depth - 1) PROVE frames[k].form # frames[k + 1].form
    <3>1. Linked(frames[k], frames[k + 1], ctx)
      BY <1>1, <2>3, <2>5 DEF CallInv, StackOK
    <3>. QED  BY <3>1 DEF Linked
  <2>. QED  BY <2>1, <2>2, <2>4, <2>5 DEF TypeOK
<1>2. CallInv => TypeOK
  BY <1>1
<1>. QED  BY <1>2, CallInvHolds, PTL

-----------------------------------------------------------------------------
(* What a step may do                                                      *)

\* A step of a program before its end leaves Algos, the register and what it
\* costs alone.
Kept(s) ==
  /\ AppSound(s)
  /\ s.amt = ctx.amt /\ s.apps = ctx.apps
  /\ s.owner = ctx.owner /\ s.made = ctx.made /\ s.joined = ctx.joined
  /\ s.app = ctx.app /\ SameExcess(ctx, s)

\* The context itself is such a ledger.
LEMMA CtxKept ==
  ASSUME CallInv
  PROVE  Kept(ctx)
BY DEF Kept, CallInv, SameExcess

\* A sequence and one element more.
LEMMA AppendOne ==
  ASSUME NEW S, NEW fs \in Seq(S), NEW g
  PROVE  /\ Len(Append(fs, g)) = Len(fs) + 1 /\ Len(fs) \in Nat /\ Append(fs, g) # <<>>
         /\ Append(fs, g)[Len(fs) + 1] = g /\ \A k \in 1..Len(fs) : Append(fs, g)[k] = fs[k]
<1>. DEFINE T == S \cup {g}
            gs == Append(fs, g)
<1>1. fs \in Seq(T) /\ g \in T
  OBVIOUS
<1>. HIDE DEF T
<1>2. /\ gs \in Seq(T) /\ Len(gs) = Len(fs) + 1 /\ Len(fs) \in Nat
      /\ gs[Len(fs) + 1] = g /\ \A k \in 1..Len(fs) : gs[k] = fs[k]
  BY <1>1
<1>. HIDE DEF gs
<1>3. gs # <<>>
  BY <1>2
<1>. QED  BY <1>2, <1>3 DEF gs

\* What remains of the context's other fields when an opcode is counted.
SameNet(n) ==
  /\ {"left", "credit", "budget", "cost"} \subseteq DOMAIN n
  /\ n.left = net.left /\ n.credit = net.credit /\ n.budget = net.budget

\* A program has taken a step within its budget.
GoesOn ==
  /\ \E h : /\ h.form = "program" /\ h.after = Current.after /\ h.who = Current.who
           /\ frames' = Append(Below, h)
  /\ SameNet(net') /\ ~(net'.cost > net'.budget)

\* A program has submitted its inner transactions.
Submits ==
  LET txs == Current.inner
  IN  /\ txs # <<>> /\ FeesEnough(txs)
      /\ frames' = Append(frames, GroupFrame(txs))
      /\ net' = [net EXCEPT
           !.credit = InnerCredit(txs), !.inner = TRUE,
           !.budget = @ + MaxCost * Cardinality({i \in DOMAIN txs : IsCall(txs[i])}),
           !.callers = IF txs[1].app = 0 THEN @ ELSE Append(@, txs[1].app)]

\* Counting an opcode changes nothing else.
LEMMA SpentSame ==
  ASSUME CallInv, NEW n
  PROVE  SameNet(Spent(n)) /\ SameNet(net) /\ Spent(n).cost = net.cost + n
BY DEF SameNet, Spent, CallInv, Nets

\* A step within the budget, or an exception.
LEMMA ContinueShape ==
  ASSUME CallInv, InProgram, NEW s, NEW f \in ProgramFrames, NEW n, Continue(s, f, n),
         f.after = Current.after, f.who = Current.who
  PROVE  \/ Unwind(s, Spent(n))
         \/ Write(s) /\ GoesOn
<1>. DEFINE g == [f EXCEPT !.pc = @ + 1]
<1>1. \/ Unwind(s, Spent(n))
      \/ /\ Write(s) /\ frames' = Append(Below, g) /\ net' = Spent(n)
         /\ ~(net.cost + n > net.budget)
  BY DEF Continue
<1>2. g.form = "program" /\ g.after = Current.after /\ g.who = Current.who
  BY DEF ProgramFrames
<1>. HIDE DEF g
<1>3. SameNet(Spent(n)) /\ Spent(n).cost = net.cost + n
  BY SpentSame
<1>. QED  BY <1>1, <1>2, <1>3 DEF GoesOn, SameNet

\* The stack is then as deep as it was, or deeper.
LEMMA StackGrows ==
  ASSUME CallInv, frames # <<>>, GoesOn \/ Submits
  PROVE  Len(frames') \in Nat /\ Len(frames') >= Depth
<1>1. /\ Below \in Seq(Frames) /\ Len(Below) = Depth - 1 /\ Depth \in Nat \ {0}
      /\ frames \in Seq(Frames) /\ Len(frames) = Depth
  BY OnTop
<1>2. CASE GoesOn
  <2>1. PICK h : frames' = Append(Below, h)
    BY <1>2 DEF GoesOn
  <2>2. Len(frames') = Len(Below) + 1
    BY <1>1, <2>1, AppendOne
  <2>. QED  BY <1>1, <2>2
<1>3. CASE Submits
  <2>. DEFINE f == GroupFrame(Current.inner)
  <2>1. frames' = Append(frames, f)
    BY <1>3 DEF Submits
  <2>. HIDE DEF f
  <2>2. Len(frames') = Len(frames) + 1
    BY <1>1, <2>1, AppendOne
  <2>. QED  BY <1>1, <2>2
<1>. QED  BY <1>2, <1>3

\* The end of a transaction moves the group on, and nothing else.
LEMMA FinishedStack ==
  ASSUME NEW fs \in Seq(Frames), fs # <<>>, NEW s, NEW n, FinishTx(s, fs, n)
  PROVE  /\ Len(frames') = Len(fs) /\ frames' # <<>> /\ DOMAIN frames' = DOMAIN fs
         /\ \A k \in 1..(Len(fs) - 1) : frames'[k] = fs[k]
         /\ frames'[Len(fs)] = [fs[Len(fs)] EXCEPT !.at = @ + 1]
<1>. DEFINE g == [fs[Len(fs)] EXCEPT !.at = @ + 1]
            h == [fs EXCEPT ![Len(fs)] = g]
<1>1. frames' = h
  BY DEF FinishTx
<1>2. Len(fs) \in Nat \ {0} /\ DOMAIN fs = 1..Len(fs)
  OBVIOUS
<1>. HIDE DEF g
<1>3. DOMAIN h = 1..Len(fs)
  BY <1>2
<1>4. h[Len(fs)] = g
  BY <1>2
<1>5. ASSUME NEW k \in 1..(Len(fs) - 1) PROVE h[k] = fs[k]
  <2>. DEFINE m == Len(fs)
  <2>1. m \in Nat \ {0} /\ k \in 1..(m - 1)
    BY <1>2
  <2>. HIDE DEF m
  <2>2. k \in 1..m /\ k # m
    BY <2>1
  <2>3. k \in DOMAIN fs /\ k # Len(fs)
    BY <1>2, <2>2 DEF m
  <2>. QED  BY <2>3
<1>. HIDE DEF h
<1>7. Len(h) = Len(fs)
  BY <1>2, <1>3, LenProperties
<1>6. h # <<>>
  BY <1>2, <1>3
<1>. QED  BY <1>1, <1>2, <1>3, <1>4, <1>5, <1>6, <1>7 DEF g

\* A program has thrown over what it wrote.
ThrowsAtWrite(s) == Step.op \in {"put", "lput"} /\ \E n : Unwind(s, n)

\* A step of a program that is not its end.
LEMMA ProgramShape ==
  ASSUME CallInv, InProgram, Next, ~Approve
  PROVE  \E s : /\ Kept(s)
                /\ \/ \E n : SameNet(n) /\ Unwind(s, n)
                   \/ Write(s) /\ (GoesOn \/ Submits)
                /\ KeysFit(ctx) => KeysFit(s) \/ ThrowsAtWrite(s)
<1>. DEFINE Shaped(s) == \/ \E n : SameNet(n) /\ Unwind(s, n)
                         \/ Write(s) /\ (GoesOn \/ Submits)
<1>1. /\ frames # <<>> /\ Current.form = "program" /\ IsStep(Step) /\ Depth \in Nat \ {0}
      /\ Current.who \in Addr /\ Current.app \in App /\ AppSound(ctx)
      /\ Current \in ProgramFrames /\ Current.inner \in Seq(AppTx)
  BY ProgramTop, OnTop DEF CallInv
<1>2. ASSUME NEW s, NEW f \in ProgramFrames, NEW n, Continue(s, f, n),
             f.after = Current.after, f.who = Current.who
      PROVE  Shaped(s)
  BY <1>1, <1>2, ContinueShape, SpentSame
<1>. DEFINE Fits(s) == KeysFit(ctx) => KeysFit(s) \/ ThrowsAtWrite(s)
<1>3. Kept(ctx) /\ Fits(ctx)
  BY CtxKept
<1>4. ASSUME Unwind(ctx, net) PROVE Shaped(ctx)
  BY <1>4, SpentSame
<1>5. SUFFICES \E s : Kept(s) /\ Shaped(s) /\ Fits(s)
  OBVIOUS
<1>6. CASE AppGlobalPut \/ AppGlobalDel \/ AppLocalPut \/ AppLocalDel
  <2>. DEFINE Puts == {SetGlobal(ctx, Current.app, Step.key),
                       SetLocal(ctx, Current.who, Current.app, Step.key)}
              Dels == {DelGlobal(ctx, Current.app, Step.key),
                       DelLocal(ctx, Current.who, Current.app, Step.key)}
  <2>1. PICK o \in Puts \cup Dels :
             /\ StepTo(o, 1) /\ Step.key \in Key
             /\ o \in Dels \/ (o \in Puts /\ Step.op \in {"put", "lput"})
    BY <1>1, <1>6 DEF AppGlobalPut, AppGlobalDel, AppLocalPut, AppLocalDel, IsStep
  <2>2. Kept(o.s)
    <3>1. AppSound(o.s) /\ Same(ctx, o.s) /\ o.s.owner = ctx.owner /\ o.s.joined = ctx.joined
          /\ o.s.made = ctx.made /\ o.s.app = ctx.app /\ SameExcess(ctx, o.s)
      BY <1>1, <2>1, KeysKeep
    <3>. QED  BY <3>1 DEF Kept, Same
  <2>3. Shaped(o.s)
    <3>1. CASE o.ok
      BY <1>1, <1>2, <2>1, <3>1 DEF StepTo
    <3>2. CASE ~o.ok
      BY <2>1, <3>2, SpentSame DEF StepTo
    <3>. QED  BY <3>1, <3>2
  <2>4. Fits(o.s)
    <3>. SUFFICES ASSUME KeysFit(ctx) PROVE KeysFit(o.s) \/ ThrowsAtWrite(o.s)
      OBVIOUS
    <3>1. CASE o \in Dels
      BY <1>1, <2>1, <3>1, KeysStayWithin
    <3>2. CASE o \in Puts /\ o.ok
      BY <1>1, <2>1, <3>2, KeysStayWithin
    <3>3. CASE Step.op \in {"put", "lput"} /\ ~o.ok
      BY <2>1, <3>3 DEF StepTo, ThrowsAtWrite
    <3>. QED  BY <2>1, <3>1, <3>2, <3>3
  <2>. HIDE DEF Shaped, Fits, Puts, Dels
  <2>. QED  BY <2>2, <2>3, <2>4
<1>7. CASE Take \/ Err
  <2>1. Continue(ctx, Current, Step.n) \/ Unwind(ctx, net)
    BY <1>7 DEF Take, Err
  <2>. HIDE DEF Shaped, Fits
  <2>. QED  BY <1>1, <1>2, <1>3, <1>4, <2>1
<1>8. CASE IfNew
  <2>. DEFINE f == IF Current.app = 0 THEN [Current EXCEPT !.pc = Len(Current.steps) - 1]
                   ELSE Current
  <2>1. Continue(ctx, f, 2)
    BY <1>8 DEF IfNew
  <2>2. PICK h : \/ Unwind(ctx, Spent(2))
                 \/ /\ Write(ctx) /\ frames' = Append(Below, h) /\ net' = Spent(2)
                    /\ ~(net.cost + 2 > net.budget) /\ h = [f EXCEPT !.pc = @ + 1]
    BY <2>1 DEF Continue
  <2>3. h = [f EXCEPT !.pc = @ + 1] =>
          h.form = "program" /\ h.after = Current.after /\ h.who = Current.who
    BY <1>1 DEF ProgramFrames
  <2>. HIDE DEF f
  <2>4. SameNet(Spent(2)) /\ Spent(2).cost = net.cost + 2
    BY SpentSame
  <2>5. Shaped(ctx)
    BY <2>2, <2>3, <2>4 DEF GoesOn, SameNet
  <2>. HIDE DEF Shaped, Fits
  <2>. QED  BY <1>3, <2>5
<1>9. CASE ITxnBegin \/ ITxnNext \/ ITxnField
  <2>1. PICK v, n : \/ Unwind(ctx, net)
                    \/ Continue(ctx, [Current EXCEPT !.inner = v], n)
    BY <1>9 DEF ITxnBegin, ITxnNext, ITxnField
  <2>. DEFINE f == [Current EXCEPT !.inner = v]
              h == [f EXCEPT !.pc = @ + 1]
  <2>2. h.form = "program" /\ h.after = Current.after /\ h.who = Current.who
    BY <1>1 DEF ProgramFrames
  <2>3. CASE Continue(ctx, f, n)
    <3>1. \/ Unwind(ctx, Spent(n))
          \/ /\ Write(ctx) /\ frames' = Append(Below, h) /\ net' = Spent(n)
             /\ ~(net.cost + n > net.budget)
      BY <2>3 DEF Continue
    <3>. HIDE DEF h
    <3>2. SameNet(Spent(n)) /\ Spent(n).cost = net.cost + n
      BY SpentSame
    <3>3. Shaped(ctx)
      BY <2>2, <3>1, <3>2 DEF GoesOn, SameNet
    <3>. HIDE DEF Shaped, Fits
    <3>. QED  BY <1>3, <3>3
  <2>. HIDE DEF Shaped, Fits
  <2>. QED  BY <1>3, <1>4, <2>1, <2>3
<1>10. CASE ITxnSubmit
  <2>1. \/ Unwind(ctx, net) \/ Continue(ctx, Current, 1)
        \/ Submits /\ UNCHANGED <<store, ctx, shared>>
    BY <1>10 DEF ITxnSubmit, Submits
  <2>2. CASE Submits /\ UNCHANGED <<store, ctx, shared>>
    <3>1. Write(ctx)
      BY <2>2 DEF CallInv, Write
    <3>2. Shaped(ctx)
      BY <2>2, <3>1
    <3>. HIDE DEF Shaped, Fits
    <3>. QED  BY <1>3, <3>2
  <2>. HIDE DEF Shaped, Fits
  <2>. QED  BY <1>1, <1>2, <1>3, <1>4, <2>1, <2>2
<1>11. ~InGroup
  BY <1>1 DEF InGroup
<1>. HIDE DEF Shaped, Fits
<1>. QED  BY <1>1, <1>6, <1>7, <1>8, <1>9, <1>10, <1>11
          DEF Next, Submit, DirectCall, NextTx, Commit, ITxnReturn

\* After an exception nothing runs, unless a clear-state program threw it.
LEMMA UnwindIs ==
  ASSUME CallInv, NEW s, AppSound(s), NEW n, Unwind(s, n), Clears = {}
  PROVE  /\ frames' = <<>> /\ ctx'.amt = s.amt /\ ctx'.apps = s.apps
         /\ \A k \in Joins : Joins = {k} => frames[k].app \notin ctx'.joined[frames[k].who]
<1>1. CASE Joins = {}
  BY <1>1 DEF Unwind, Thrown
<1>2. CASE Joins # {}
  <2>. DEFINE k == CHOOSE k \in Joins : TRUE
              left == LeaveApp(s, frames[k].who, frames[k].app).s
  <2>1. k \in Joins
    BY <1>2
  <2>2. frames' = <<>> /\ ctx' = left
    BY <1>2 DEF Unwind, Thrown
  <2>. HIDE DEF k
  <2>3. frames \in Seq(Frames) /\ k \in 1..Len(frames) /\ frames[k].form = "program"
    BY <2>1 DEF CallInv, StackOK, Joins
  <2>4. frames[k] \in ProgramFrames
    BY <2>3 DEF CallInv, StackOK, FrameFits, ProgramFits
  <2>5. /\ left.amt = s.amt /\ left.apps = s.apps
        /\ frames[k].app \notin left.joined[frames[k].who]
    BY <2>4, LeaveAppKeeps DEF ProgramFrames, Same
  <2>. HIDE DEF left
  <2>. QED  BY <2>1, <2>2, <2>5
<1>. QED  BY <1>1, <1>2

\* An exception in a clear-state program: the local state goes.
LEMMA UnwindClears ==
  ASSUME CallInv, NEW s, AppSound(s), s.apps = ctx.apps, NEW n, Unwind(s, n), Clears # {}
  PROVE  /\ ctx'.amt = s.amt /\ ctx'.apps = s.apps
         /\ AppExists(s, Current.app) /\ Current.app \in s.joined[Current.who] =>
              frames' # <<>> /\ Current.app \notin ctx'.joined[Current.who]
<1>. DEFINE k == CHOOSE k \in Clears : TRUE
            closed == CloseApp(s, frames[k].who, frames[k].app)
            g == frames[1]
            tx == g.txs[g.at]
<1>1. k \in Clears
  OBVIOUS
<1>2. IF closed.ok THEN FinishTx(closed.s, SubSeq(frames, 1, k - 1), n) ELSE Thrown(closed.s, n)
  BY DEF Unwind
<1>. HIDE DEF k
<1>3. /\ k = 2 /\ Below = SubSeq(frames, 1, k - 1) /\ Below # <<>> /\ Below[Len(Below)] = g
      /\ Len(Below) = 1 /\ g.form = "group" /\ frames # <<>>
      /\ Linked(g, frames[2], ctx) /\ ProgramFits(frames[2], 2, ctx) /\ Current = frames[k]
  BY <1>1, ClearIsSecond DEF Below
<1>4. /\ AppSound(closed.s) /\ Same(s, closed.s)
      /\ closed.ok <=> AppExists(s, Current.app) /\ Current.app \in s.joined[Current.who]
      /\ closed.ok => Current.app \notin closed.s.joined[Current.who]
  <2>1. frames[k].who \in Addr /\ frames[k].app \in App
    BY <1>3 DEF ProgramFits, ProgramFrames
  <2>. QED  BY <1>3, <2>1, CloseAppKeeps
<1>5. tx \in AppTx /\ tx.from \notin Unborn(ctx)
  <2>1. FrameFits(g, 1, ctx)
    <3>1. 1 \in 1..Len(frames)
      BY <1>1, <1>3 DEF CallInv, StackOK, Clears
    <3>. QED  BY <3>1 DEF CallInv, StackOK
  <2>2. g \in GroupFrames /\ g.at \in 1..Len(g.txs)
    BY <1>3, <2>1 DEF FrameFits, GroupFits, Linked
  <2>. QED  BY <1>3, <2>2 DEF GroupFrames, Linked
<1>. HIDE DEF closed
<1>6. CASE closed.ok
  <2>1. FinishTx(closed.s, Below, n)
    BY <1>2, <1>3, <1>6
  <2>2. /\ ctx' = Rekey(closed.s, tx)
        /\ frames' = [Below EXCEPT ![Len(Below)].at = @ + 1]
    BY <1>3, <2>1 DEF FinishTx, Write
  <2>3. frames' # <<>>
    BY <1>3, <2>1, OnTop, FinishedStack
  <2>4. tx.from \notin Unborn(closed.s)
    BY <1>4, <1>5 DEF Unborn, Same
  <2>5. /\ ctx'.joined = closed.s.joined /\ ctx'.amt = closed.s.amt
        /\ ctx'.apps = closed.s.apps
    BY <1>4, <1>5, <2>2, <2>4, RekeyKeeps DEF Alike
  <2>. QED  BY <1>4, <1>6, <2>3, <2>5 DEF Same
<1>7. CASE ~closed.ok
  BY <1>2, <1>4, <1>7 DEF Thrown, Same
<1>. QED  BY <1>6, <1>7

-----------------------------------------------------------------------------
(* Opting in and out                                                       *)

\* A clear-state program that ends, whichever way, has opted the account out.
LEMMA ClearStep ==
  ASSUME CallInv, Next, InProgram, Current.after = "clear", Len(frames') < Depth,
         AppExists(ctx, Current.app), Current.app \in ctx.joined[Current.who]
  PROVE  frames' # <<>> /\ Current.app \notin ctx'.joined[Current.who]
<1>1. /\ Current.form = "program" /\ frames # <<>> /\ Depth = Len(frames) /\ Depth \in Nat \ {0}
      /\ Current.app \in App /\ Current.who \in Addr /\ AppSound(ctx)
      /\ ProgramFits(Current, Depth, ctx)
  BY ProgramTop, OnTop DEF CallInv
<1>2. Depth \in Clears /\ Depth > 1
  <2>1. frames \in Seq(Frames) /\ Depth \in DOMAIN frames
    BY <1>1, OnTop
  <2>. QED  BY <1>1, <2>1 DEF Clears, ProgramFits, Current
<1>3. ASSUME NEW s, Kept(s), NEW n, Unwind(s, n)
      PROVE  frames' # <<>> /\ Current.app \notin ctx'.joined[Current.who]
  <2>1. AppExists(s, Current.app) /\ Current.app \in s.joined[Current.who]
    BY <1>3 DEF Kept, AppExists
  <2>. QED  BY <1>2, <1>3, <2>1, UnwindClears DEF Kept
<1>4. CASE ~Approve
  <2>1. PICK s : /\ Kept(s)
                 /\ \/ \E n : SameNet(n) /\ Unwind(s, n)
                    \/ Write(s) /\ (GoesOn \/ Submits)
    BY <1>4, ProgramShape
  <2>2. ~(GoesOn \/ Submits)
    BY <1>1, StackGrows
  <2>. QED  BY <1>3, <2>1, <2>2
<1>5. CASE Approve
  <2>. DEFINE o == Completed(ctx, Current)
              g == Below[Len(Below)]
              tx == g.txs[g.at]
  <2>1. o = CloseApp(ctx, Current.who, Current.app)
    BY DEF Completed
  <2>2. /\ o.ok /\ AppSound(o.s) /\ Same(ctx, o.s)
        /\ Current.app \notin o.s.joined[Current.who]
    <3>. HIDE DEF o
    <3>. QED  BY <1>1, <2>1, CloseAppKeeps
  <2>3. Unwind(ctx, Spent(1)) \/ FinishTx(o.s, Below, Spent(1))
    BY <1>2, <1>5, <2>2 DEF Approve
  <2>. HIDE DEF o
  <2>4. CASE Unwind(ctx, Spent(1))
    BY <1>3, <2>4, CtxKept
  <2>5. CASE FinishTx(o.s, Below, Spent(1))
    <3>1. /\ Below # <<>> /\ g \in GroupFrames /\ g.at \in DOMAIN g.txs
          /\ tx.from \notin Unborn(ctx) /\ Len(Below) = Depth - 1
      BY <1>2, GroupBelow
    <3>2. tx \in AppTx
      BY <3>1 DEF GroupFrames
    <3>3. tx.from \notin Unborn(o.s)
      BY <2>2, <3>1 DEF Unborn, Same
    <3>4. ctx' = Rekey(o.s, tx)
      BY <2>5 DEF FinishTx, Write
    <3>5. ctx'.joined = o.s.joined
      BY <2>2, <3>2, <3>3, <3>4, RekeyKeeps DEF Alike
    <3>6. frames' # <<>>
      <4>1. Below \in Seq(Frames)
        BY <1>1, OnTop
      <4>. HIDE DEF Below
      <4>. QED  BY <3>1, <4>1, <2>5, FinishedStack
    <3>. QED  BY <2>2, <3>5, <3>6
  <2>. QED  BY <2>3, <2>4, <2>5
<1>. QED  BY <1>4, <1>5

\* An account that is in can always opt out with a clear-state call, whatever
\* the program of the application does: an exception of the program, its end
\* and its budget all lead to the closing of the local state, in a frame of the
\* group's.
THEOREM OptOutSucceeds == Spec => ClearStateWorks
<1>1. ASSUME CallInv, [Next]_vars
      PROVE  [(InProgram /\ Current.after = "clear" /\ Len(frames') < Depth
               /\ AppExists(ctx, Current.app) /\ Current.app \in ctx.joined[Current.who])
              => frames' # <<>> /\ Current.app \notin ctx'.joined[Current.who]]_vars
  BY <1>1, ClearStep
<1>. QED  BY <1>1, CallInvHolds, PTL DEF Spec, ClearStateWorks

\* A direct opt-in that ends, and not with the program's approval, is taken back.
LEMMA JoinStep ==
  ASSUME CallInv, Next, frames # <<>>, frames[1].form = "program", frames[1].after = "join",
         frames' = <<>>, ~(InProgram /\ Step.op = "accept")
  PROVE  frames[1].app \notin ctx'.joined[frames[1].who]
<1>1. /\ frames \in Seq(Frames) /\ DOMAIN frames = 1..Len(frames) /\ 1 \in 1..Len(frames)
      /\ Depth \in Nat \ {0} /\ Depth = Len(frames)
  BY OnTop
<1>2. Clears = {}
  BY ClearIsSecond
<1>3. Joins = {1}
  <2>1. 1 \in Joins
    BY <1>1 DEF Joins
  <2>2. ASSUME NEW k \in Joins PROVE k = 1
    <3>1. k \in 1..Len(frames) /\ frames[k].form = "program" /\ frames[k].after = "join"
      BY <1>1 DEF Joins
    <3>2. FrameFits(frames[k], k, ctx)
      BY <3>1 DEF CallInv, StackOK
    <3>3. k \in {1, 2}
      BY <3>1, <3>2 DEF FrameFits, ProgramFits
    <3>4. ASSUME k = 2 PROVE FALSE
      <4>1. 1 \in 1..(Len(frames) - 1)
        BY <1>1, <3>1, <3>4
      <4>2. Linked(frames[1], frames[1 + 1], ctx)
        BY <4>1 DEF CallInv, StackOK
      <4>. QED  BY <3>1, <3>4, <4>2 DEF Linked
    <3>. QED  BY <3>3, <3>4
  <2>. QED  BY <2>1, <2>2
<1>4. ASSUME NEW s, AppSound(s), NEW n, Unwind(s, n)
      PROVE  frames[1].app \notin ctx'.joined[frames[1].who]
  BY <1>2, <1>3, <1>4, UnwindIs
<1>5. CASE InProgram
  <2>1. ~Approve
    BY <1>5 DEF Approve
  <2>2. PICK s : /\ Kept(s)
                 /\ \/ \E n : SameNet(n) /\ Unwind(s, n)
                    \/ Write(s) /\ (GoesOn \/ Submits)
    BY <1>5, <2>1, ProgramShape
  <2>3. ~(GoesOn \/ Submits)
    BY <1>1, StackGrows
  <2>. QED  BY <1>4, <2>2, <2>3 DEF Kept
<1>6. CASE NextTx
  <2>1. frames' # Append(frames, ProgramOf(Begun.s, TxAt))
    BY <1>1, AppendOne
  <2>2. ~FinishTx(Moved.s, frames, CountedNet)
    BY <1>1, FinishedStack
  <2>3. InGroup /\ Current.at <= Len(Current.txs)
    BY <1>6, NextTxIs
  <2>4. AppSound(Charged.s) /\ AppSound(Moved.s)
        /\ (Allowed /\ IsCall(TxAt) => AppSound(Begun.s))
    BY <2>3, NextTxLedgers
  <2>. QED  BY <1>4, <1>6, <2>1, <2>2, <2>4, NextTxIs
<1>7. CASE Commit
  BY <1>1, <1>7 DEF Commit, InGroup, Current
<1>8. CASE ITxnReturn
  <2>. DEFINE front == SubSeq(frames, 1, Depth - 2)
  <2>1. PICK f : Unwind(ctx, Spent(1)) \/ frames' = Append(front, f)
    BY <1>8 DEF ITxnReturn
  <2>2. front \in Seq(Frames)
    <3>1. InGroup /\ Depth > 1 /\ Depth - 2 = (Depth - 1) - 1
      BY <1>1, <1>8 DEF ITxnReturn
    <3>. QED  BY <3>1, CallerIs DEF StackOK
  <2>. HIDE DEF front
  <2>3. frames' # Append(front, f)
    BY <2>2, AppendOne
  <2>. QED  BY <1>4, <2>1, <2>3 DEF CallInv
<1>. QED  BY <1>5, <1>6, <1>7, <1>8
          DEF Next, Submit, DirectCall, Take, IfNew, AppGlobalPut, AppGlobalDel, AppLocalPut,
              AppLocalDel, ITxnBegin, ITxnNext, ITxnField, ITxnSubmit, Err, Approve

\* An opt-in that the program rejects leaves no local state, however deep in
\* the inner calls of the program the exception is.
THEOREM RejectedOptInsLeave == Spec => OptInTakenBack
<1>1. ASSUME CallInv, [Next]_vars
      PROVE  [(frames # <<>> /\ frames[1].form = "program" /\ frames[1].after = "join"
               /\ frames' = <<>> /\ ~(InProgram /\ Step.op = "accept"))
              => frames[1].app \notin ctx'.joined[frames[1].who]]_vars
  BY <1>1, JoinStep
<1>. QED  BY <1>1, CallInvHolds, PTL DEF Spec, OptInTakenBack

-----------------------------------------------------------------------------
(* Algos                                                                   *)

\* What a step may do to the sum of all Algos.
AlgosStep ==
  frames # <<>> =>
    LET lost == Sum(ctx.amt) - Sum(ctx'.amt)
    IN  IF ctx'.apps > ctx.apps
        THEN \/ lost = ctx.amt[AppAddress[ctx'.apps]]
             \/ lost = 0 /\ frames' = <<>>
        ELSE IF InGroup /\ Current.at <= Len(Current.txs)
        THEN \/ lost = ChargedFee(Current.txs[Current.at])
             \/ lost = 0 /\ frames' = <<>>
        ELSE lost = 0

\* Algos are numbers, of finitely many addresses.
LEMMA AlgosAre ==
  ASSUME NEW s, AppSound(s)
  PROVE  /\ s.amt \in [Addr -> Int] /\ Sum(s.amt) \in Int /\ s.apps \in Nat
         /\ IsFiniteSet(Addr)
<1>1. s.amt \in [Addr -> Int] /\ s.apps \in Nat /\ IsFiniteSet(Addr)
  BY AppNumbers, LedgerAssumption DEF AppSound, AppState
<1>. QED  BY <1>1, SumInt

\* Where nothing of the Algos changes.
LEMMA AlgosStay ==
  ASSUME CallInv, ctx'.amt = ctx.amt, ctx'.apps = ctx.apps,
         ~(InGroup /\ Current.at <= Len(Current.txs))
  PROVE  AlgosStep
<1>1. Sum(ctx.amt) \in Int /\ ctx.apps \in Nat
  BY AlgosAre DEF CallInv
<1>2. Sum(ctx.amt) - Sum(ctx'.amt) = 0 /\ ~(ctx'.apps > ctx.apps)
  BY <1>1
<1>. QED  BY <1>2 DEF AlgosStep

\* An exception leaves the Algos of the ledger that it left.
LEMMA UnwindAlgos ==
  ASSUME CallInv, NEW s, AppSound(s), s.apps = ctx.apps, NEW n, Unwind(s, n)
  PROVE  ctx'.amt = s.amt /\ ctx'.apps = s.apps
<1>1. CASE Clears = {}
  BY <1>1, UnwindIs
<1>2. CASE Clears # {}
  BY <1>2, UnwindClears
<1>. QED  BY <1>1, <1>2

\* What completes a call takes the Algos that the address of a new application
\* had, and no others.
LEMMA CompletedAlgos ==
  ASSUME CallInv, InProgram
  PROVE  LET o == Completed(ctx, Current)
         IN  IF Current.after = "create"
             THEN /\ o.s.apps = ctx.apps + 1
                  /\ \/ ~o.ok /\ o.s.amt = ctx.amt
                     \/ o.s.amt = [ctx.amt EXCEPT ![AppAddress[ctx.apps + 1]] = 0]
             ELSE Same(ctx, o.s)
<1>. DEFINE o == Completed(ctx, Current)
            who == Current.who
            app == Current.app
<1>1. /\ ProgramFits(Current, Depth, ctx) /\ who \in Addr /\ app \in App
      /\ who \notin Unborn(ctx) /\ AppSound(ctx) /\ Current.code \in Code
  BY ProgramTop DEF ProgramFrames, CallInv
<1>2. CASE Current.after = "create"
  <2>1. o = EndDeploy(ctx, who)
    BY <1>2 DEF Completed
  <2>2. ctx.apps < MaxApp /\ Runnable(ctx.app[0])
    BY <1>2, RoomForNew
  <2>. HIDE DEF o, who
  <2>3. /\ o.s.apps = ctx.apps + 1
        /\ o.s.amt = IF o.ok THEN [ctx.amt EXCEPT ![AppAddress[ctx.apps + 1]] = 0] ELSE ctx.amt
    BY <1>1, <2>1, <2>2, EndDeployKeeps
  <2>. QED  BY <1>2, <2>3 DEF o
<1>3. CASE Current.after # "create"
  <2>1. app # 0
    BY <1>1, <1>3 DEF ProgramFits
  <2>2. Current.after = "update" => Runnable(Current.code)
    BY <1>1 DEF ProgramFits
  <2>3. \/ o = CloseApp(ctx, who, app) \/ o = DeleteApp(ctx, app) \/ o = Ok(ctx)
        \/ Current.after = "update" /\ o = ReplacePrograms(ctx, app, Current.code)
    BY <1>3 DEF Completed
  <2>. HIDE DEF o, who, app
  <2>4. Same(ctx, o.s)
    <3>1. CASE o = CloseApp(ctx, who, app)
      BY <1>1, <3>1, CloseAppKeeps
    <3>2. CASE o = DeleteApp(ctx, app)
      BY <1>1, <2>1, <3>2, DeleteAppKeeps
    <3>3. CASE o = Ok(ctx)
      BY <3>3 DEF Ok, Same
    <3>4. CASE Current.after = "update" /\ o = ReplacePrograms(ctx, app, Current.code)
      BY <1>1, <2>1, <2>2, <3>4, ReplaceProgramsKeeps
    <3>. QED  BY <2>3, <3>1, <3>2, <3>3, <3>4
  <2>. QED  BY <1>3, <2>4 DEF o
<1>. QED  BY <1>2, <1>3

\* The end of a program moves no Algos but those.
LEMMA ApproveAlgos ==
  ASSUME CallInv, Approve
  PROVE  AlgosStep
<1>. DEFINE o == Completed(ctx, Current)
            g == Below[Len(Below)]
            tx == g.txs[g.at]
            x == AppAddress[ctx.apps + 1]
<1>1. /\ InProgram /\ ~InGroup /\ AppSound(o.s) /\ AppSound(ctx) /\ Depth \in Nat \ {0}
      /\ frames # <<>>
      /\ IF Current.after = "create" THEN o.s.apps = ctx.apps + 1 ELSE o.s.apps = ctx.apps
  <2>1. InProgram
    BY DEF Approve
  <2>2. Current.form = "program" /\ frames # <<>>
    BY <2>1, ProgramTop
  <2>. QED  BY <2>1, <2>2, CompletedKeeps, OnTop DEF InGroup, CallInv
<1>2. \/ Unwind(ctx, Spent(1))
      \/ ctx' = o.s /\ (~o.ok => frames' = <<>>)
      \/ Depth > 1 /\ o.ok /\ FinishTx(o.s, Below, Spent(1))
  BY <1>1 DEF Approve, Thrown
<1>3. IF Current.after = "create"
      THEN \/ ~o.ok /\ o.s.amt = ctx.amt
           \/ o.s.amt = [ctx.amt EXCEPT ![x] = 0]
      ELSE o.s.amt = ctx.amt
  <2>1. IF Current.after = "create"
        THEN \/ ~o.ok /\ o.s.amt = ctx.amt
             \/ o.s.amt = [ctx.amt EXCEPT ![x] = 0]
        ELSE Same(ctx, o.s)
    BY <1>1, CompletedAlgos
  <2>. HIDE DEF o, x
  <2>. QED  BY <2>1 DEF Same
<1>. HIDE DEF o
<1>4. CASE Unwind(ctx, Spent(1))
  BY <1>1, <1>4, UnwindAlgos, AlgosStay
<1>5. ASSUME ctx'.amt = o.s.amt, ctx'.apps = o.s.apps, ~o.ok => frames' = <<>>
      PROVE  AlgosStep
  <2>1. CASE Current.after = "create"
    <3>1. /\ ctx.amt \in [Addr -> Int] /\ IsFiniteSet(Addr) /\ Sum(ctx.amt) \in Int
          /\ ctx.apps \in Nat
      BY <1>1, AlgosAre
    <3>2. x \in Addr
      BY <1>1, <2>1, RoomForNew, AppLedgerAssumption
    <3>3. ctx'.apps > ctx.apps /\ ctx'.apps = ctx.apps + 1
      BY <1>1, <1>5, <2>1, <3>1
    <3>4. CASE ~o.ok /\ o.s.amt = ctx.amt
      <4>1. Sum(ctx.amt) - Sum(ctx'.amt) = 0
        BY <1>5, <3>1, <3>4
      <4>. QED  BY <1>5, <3>3, <3>4, <4>1 DEF AlgosStep
    <3>5. CASE o.s.amt = [ctx.amt EXCEPT ![x] = 0]
      <4>1. Sum(ctx'.amt) = Sum(ctx.amt) - ctx.amt[x] + 0 /\ ctx.amt[x] \in Int
        <5>. HIDE DEF x
        <5>. QED  BY <1>5, <3>1, <3>2, <3>5, SumUpdate
      <4>2. Sum(ctx.amt) - Sum(ctx'.amt) = ctx.amt[AppAddress[ctx'.apps]]
        BY <3>1, <3>3, <4>1
      <4>. QED  BY <3>3, <4>2 DEF AlgosStep
    <3>. QED  BY <1>3, <2>1, <3>4, <3>5
  <2>2. CASE Current.after # "create"
    BY <1>1, <1>3, <1>5, <2>2, AlgosStay
  <2>. QED  BY <2>1, <2>2
<1>6. CASE ctx' = o.s /\ (~o.ok => frames' = <<>>)
  BY <1>5, <1>6
<1>7. CASE Depth > 1 /\ o.ok /\ FinishTx(o.s, Below, Spent(1))
  <2>1. /\ Below # <<>> /\ g \in GroupFrames /\ g.at \in DOMAIN g.txs
        /\ tx.from \notin Unborn(ctx)
    BY <1>1, <1>7, GroupBelow
  <2>2. tx \in AppTx /\ ctx' = Rekey(o.s, tx)
    BY <1>7, <2>1 DEF GroupFrames, FinishTx, Write
  <2>3. tx.from \notin Unborn(o.s)
    <3>1. ctx.apps <= o.s.apps
      BY <1>1, AlgosAre
    <3>. QED  BY <1>1, <2>1, <3>1, UnbornShrink
  <2>. HIDE DEF tx
  <2>4. ctx'.amt = o.s.amt /\ ctx'.apps = o.s.apps
    BY <1>1, <2>2, <2>3, RekeyKeeps DEF Alike
  <2>. QED  BY <1>5, <1>7, <2>4
<1>. QED  BY <1>2, <1>4, <1>6, <1>7

\* One iteration takes the fee, or nothing when it throws.
LEMMA NextTxAlgos ==
  ASSUME CallInv, NextTx
  PROVE  AlgosStep
<1>1. /\ InGroup /\ Current.at <= Len(Current.txs) /\ AppSound(ctx)
      /\ TxAt \in AppTx /\ AppSound(Charged.s) /\ Alike(ctx, Charged.s)
      /\ AppSound(Moved.s) /\ Alike(ctx, Moved.s) /\ Sum(Moved.s.amt) = Sum(Charged.s.amt)
  BY NextTxIs, NextTxLedgers DEF CallInv
<1>2. /\ ctx.amt \in [Addr -> Int] /\ IsFiniteSet(Addr) /\ Sum(ctx.amt) \in Int
      /\ ctx.apps \in Nat /\ TxAt.from \in Addr /\ ChargedFee(TxAt) \in Int
  <2>1. TxAt.from \in Addr /\ TxAt.fee \in Nat /\ MinFee \in Nat
    BY <1>1, LedgerAssumption DEF AppTx
  <2>. QED  BY <1>1, <2>1, AlgosAre DEF ChargedFee
<1>3. \/ Sum(Charged.s.amt) = Sum(ctx.amt) - ChargedFee(TxAt)
      \/ ~Allowed /\ Sum(Charged.s.amt) = Sum(ctx.amt)
  <2>1. \/ Charged.s.amt = [ctx.amt EXCEPT ![TxAt.from] = @ - ChargedFee(TxAt)]
        \/ ~Allowed /\ Charged.s = ctx
    BY <1>1, NextTxLedgers
  <2>. DEFINE fee == ChargedFee(TxAt)
              a == TxAt.from
              v == ctx.amt[a] - fee
  <2>2. v \in Int /\ ctx.amt[a] \in Int
    BY <1>2
  <2>3. Sum([ctx.amt EXCEPT ![a] = v]) = Sum(ctx.amt) - ctx.amt[a] + v
    <3>. HIDE DEF v, a
    <3>. QED  BY <1>2, <2>2, SumUpdate DEF a
  <2>4. CASE Charged.s.amt = [ctx.amt EXCEPT ![a] = @ - fee]
    <3>1. Sum(Charged.s.amt) = Sum(ctx.amt) - ctx.amt[a] + v
      BY <2>3, <2>4
    <3>. QED  BY <1>2, <2>2, <3>1
  <2>. QED  BY <2>1, <2>4
<1>4. Clears = {}
  <2>1. ASSUME NEW k \in Clears PROVE FALSE
    BY <1>1, ClearIsSecond DEF InGroup, Clears
  <2>. QED  BY <2>1
<1>5. ASSUME ctx'.apps = ctx.apps, Sum(ctx'.amt) = Sum(Charged.s.amt), Allowed \/ frames' = <<>>
      PROVE  AlgosStep
  <2>1. ~(ctx'.apps > ctx.apps)
    BY <1>2, <1>5
  <2>2. \/ Sum(ctx.amt) - Sum(ctx'.amt) = ChargedFee(TxAt)
        \/ Sum(ctx.amt) - Sum(ctx'.amt) = 0 /\ frames' = <<>>
    BY <1>2, <1>3, <1>5
  <2>. QED  BY <1>1, <2>1, <2>2 DEF AlgosStep, TxAt
<1>6. ASSUME NEW s, AppSound(s), s.apps = ctx.apps, Sum(s.amt) = Sum(Charged.s.amt),
             NEW n, Unwind(s, n)
      PROVE  AlgosStep
  <2>1. frames' = <<>> /\ ctx'.amt = s.amt /\ ctx'.apps = s.apps
    BY <1>4, <1>6, UnwindIs DEF CallInv
  <2>. QED  BY <1>5, <1>6, <2>1
<1>7. ctx.apps = Charged.s.apps /\ ctx.apps = Moved.s.apps
  BY <1>1 DEF Alike
<1>8. Allowed /\ IsCall(TxAt) =>
        AppSound(Begun.s) /\ Begun.s.amt = Charged.s.amt /\ Begun.s.apps = ctx.apps
  BY <1>1, <1>7, NextTxLedgers DEF Same
<1>9. CASE ~Allowed /\ Unwind(Charged.s, TypedNet)
  BY <1>1, <1>6, <1>7, <1>9
<1>10. CASE Allowed /\ ~IsCall(TxAt) /\ Moved.ok /\ FinishTx(Moved.s, frames, CountedNet)
  <2>1. ctx' = Rekey(Moved.s, TxAt)
    BY <1>10 DEF FinishTx, Write, TxAt, Current, Depth
  <2>2. TxAt.from \notin Unborn(Moved.s)
    BY <1>1, <1>7, <1>10, NextTxLedgers DEF Unborn
  <2>3. ctx'.amt = Moved.s.amt /\ ctx'.apps = Moved.s.apps
    BY <1>1, <2>1, <2>2, RekeyKeeps DEF Alike
  <2>. QED  BY <1>1, <1>5, <1>7, <1>10, <2>3
<1>11. CASE Allowed /\ ~IsCall(TxAt) /\ ~Moved.ok /\ Unwind(Moved.s, CountedNet)
  BY <1>1, <1>6, <1>7, <1>11
<1>12. CASE Allowed /\ IsCall(TxAt) /\ ~Begun.ok /\ Unwind(Begun.s, CountedNet)
  BY <1>6, <1>8, <1>12
<1>13. CASE Allowed /\ IsCall(TxAt) /\ Write(Begun.s)
  BY <1>5, <1>8, <1>13 DEF Write
<1>. QED  BY NextTxIs, <1>9, <1>10, <1>11, <1>12, <1>13

\* Every step keeps Algos.
LEMMA AlgosKept ==
  ASSUME CallInv, Next
  PROVE  AlgosStep
<1>1. CASE frames = <<>>
  BY <1>1 DEF AlgosStep
<1>2. CASE Approve
  BY <1>2, ApproveAlgos
<1>3. CASE InProgram /\ ~Approve
  <2>1. ~InGroup
    BY <1>3, ProgramTop DEF InGroup
  <2>2. PICK s : /\ Kept(s)
                 /\ \/ \E n : SameNet(n) /\ Unwind(s, n)
                    \/ Write(s) /\ (GoesOn \/ Submits)
    BY <1>3, ProgramShape
  <2>3. AppSound(s) /\ s.amt = ctx.amt /\ s.apps = ctx.apps
    BY <2>2 DEF Kept
  <2>4. ctx'.amt = ctx.amt /\ ctx'.apps = ctx.apps
    BY <2>2, <2>3, UnwindAlgos DEF Write
  <2>. QED  BY <2>1, <2>4, AlgosStay
<1>4. CASE NextTx
  BY <1>4, NextTxAlgos
<1>5. CASE Commit \/ ITxnReturn
  <2>1. ~(InGroup /\ Current.at <= Len(Current.txs))
    <3>1. InGroup /\ Current.at > Len(Current.txs)
      BY <1>5 DEF Commit, ITxnReturn
    <3>2. Current.at \in Nat /\ Len(Current.txs) \in Nat
      BY <3>1, GroupTop DEF GroupFrames
    <3>. QED  BY <3>1, <3>2
  <2>2. ctx' = ctx \/ Unwind(ctx, Spent(1))
    BY <1>5 DEF Commit, ITxnReturn
  <2>3. ctx'.amt = ctx.amt /\ ctx'.apps = ctx.apps
    BY <2>2, UnwindAlgos DEF CallInv
  <2>. QED  BY <2>1, <2>3, AlgosStay
<1>. QED  BY <1>1, <1>2, <1>3, <1>4, <1>5
          DEF Next, Submit, DirectCall, Take, IfNew, AppGlobalPut, AppGlobalDel, AppLocalPut,
              AppLocalDel, ITxnBegin, ITxnNext, ITxnField, ITxnSubmit, Err

\* Algos move between accounts; only fees leave them, and what the address of a
\* new application had before.
THEOREM AlgosStayConserved == Spec => AlgosConserved
<1>1. ASSUME CallInv, [Next]_vars
      PROVE  [AlgosStep]_vars
  BY <1>1, AlgosKept
<1>2. ASSUME CallInv, [Next]_vars
      PROVE  [ frames # <<>> =>
                 LET lost == Sum(ctx.amt) - Sum(ctx'.amt)
                 IN  IF ctx'.apps > ctx.apps
                     THEN \/ lost = ctx.amt[AppAddress[ctx'.apps]]
                          \/ lost = 0 /\ frames' = <<>>
                     ELSE IF InGroup /\ Current.at <= Len(Current.txs)
                     THEN \/ lost = ChargedFee(Current.txs[Current.at])
                          \/ lost = 0 /\ frames' = <<>>
                     ELSE lost = 0 ]_vars
  BY <1>1, <1>2 DEF AlgosStep
<1>. QED  BY <1>2, CallInvHolds, PTL DEF Spec, AlgosConserved

-----------------------------------------------------------------------------
(* What is to come                                                         *)

\* Transactions of a frame after the one that it is at, and their fees.
Ahead(f) == IF f.form = "group" THEN Len(f.txs) - f.at ELSE 0
\* The fees of a group.
FeesOf(txs) == [i \in DOMAIN txs |-> txs[i].fee]
\* Their fees.
Dues(f) ==
  IF f.form = "group" THEN SumOver(FeesOf(f.txs), (f.at + 1)..Len(f.txs)) ELSE 0

\* The same of all frames.
AheadAll(fs) == Sum([k \in DOMAIN fs |-> Ahead(fs[k])])
\* The fees ahead in all frames.
DuesAll(fs) == Sum([k \in DOMAIN fs |-> Dues(fs[k])])

\* The transaction that the frame on top is at is still to come.
Here(f) == IF f.form = "group" THEN 1 ELSE 0
\* The fee of that transaction.
DueHere(f) == IF f.form = "group" /\ f.at <= Len(f.txs) THEN f.txs[f.at].fee ELSE 0

\* All transactions to come, and their fees.
ToCome(fs) == AheadAll(fs) + Here(fs[Len(fs)])
DueToCome(fs) == DuesAll(fs) + DueHere(fs[Len(fs)])

\* The sum of a sequence and one number more.
LEMMA SumOfPush ==
  ASSUME NEW n \in Nat, NEW q, DOMAIN q = 1..n, \A k \in 1..n : q[k] \in Int,
         NEW r, DOMAIN r = 1..(n + 1), \A k \in 1..n : r[k] = q[k], r[n + 1] \in Int
  PROVE  Sum(r) = Sum(q) + r[n + 1] /\ Sum(q) \in Int
<1>. DEFINE m == n + 1
<1>1. IsFiniteSet(1..n) /\ IsFiniteSet(1..m) /\ m \in 1..m /\ (1..m) \ {m} = 1..n
  <2>1. m \in Nat /\ m = n + 1 /\ m \in Int /\ n \in Int
    OBVIOUS
  <2>. HIDE DEF m
  <2>2. m \in 1..m /\ (1..m) \ {m} = 1..n
    BY <2>1
  <2>3. IsFiniteSet(1..n) /\ IsFiniteSet(1..m)
    BY <2>1, FS_Interval
  <2>. QED  BY <2>2, <2>3
<1>2. \A k \in 1..m : r[k] \in Int
  <2>. SUFFICES ASSUME NEW k \in 1..m PROVE r[k] \in Int
    OBVIOUS
  <2>1. k \in 1..n \/ k = n + 1
    OBVIOUS
  <2>. QED  BY <2>1
<1>. HIDE DEF m
<1>3. SumOver(r, 1..m) = r[m] + SumOver(r, (1..m) \ {m})
  BY <1>1, <1>2, SumOverRemove
<1>4. SumOver(r, 1..n) = SumOver(q, 1..n)
  BY <1>1, SumOverSame
<1>5. SumOver(q, 1..n) \in Int
  BY <1>1, SumOverInt
<1>6. Sum(r) = SumOver(r, 1..m) /\ Sum(q) = SumOver(q, 1..n)
  BY SumIsFold DEF m
<1>7. Sum(r) = Sum(q) + r[m] /\ Sum(q) \in Int
  <2>1. r[m] \in Int
    BY DEF m
  <2>2. SumOver(r, 1..m) = r[m] + SumOver(r, 1..n)
    BY <1>1, <1>3
  <2>. QED  BY <1>4, <1>5, <1>6, <2>1, <2>2
<1>. QED  BY <1>7 DEF m

\* Fees are numbers.
LEMMA FeesNat ==
  ASSUME NEW txs \in Seq(AppTx), NEW D, D \subseteq DOMAIN txs
  PROVE  IsFiniteSet(D) /\ (\A i \in D : FeesOf(txs)[i] \in Int) /\ SumOver(FeesOf(txs), D) \in Int
<1>1. IsFiniteSet(DOMAIN txs)
  <2>1. DOMAIN txs = 1..Len(txs) /\ Len(txs) \in Nat
    OBVIOUS
  <2>. QED  BY <2>1, FS_Interval
<1>2. IsFiniteSet(D)
  BY <1>1, FS_Subset
<1>3. ASSUME NEW i \in D PROVE FeesOf(txs)[i] \in Int
  <2>1. i \in DOMAIN txs /\ txs[i] \in AppTx
    OBVIOUS
  <2>2. txs[i].fee \in Int
    BY <2>1 DEF AppTx
  <2>. QED  BY <2>1, <2>2 DEF FeesOf
<1>. QED  BY <1>2, <1>3, SumOverInt

\* What is ahead in a frame is a number.
LEMMA FrameCounts ==
  ASSUME NEW f \in Frames
  PROVE  Ahead(f) \in Int /\ Dues(f) \in Int /\ Here(f) \in {0, 1}
<1>1. CASE f.form = "group"
  <2>1. f \in GroupFrames
    BY <1>1 DEF Frames, ProgramFrames
  <2>2. f.txs \in Seq(AppTx) /\ Len(f.txs) \in Nat /\ f.at \in Nat \ {0}
        /\ DOMAIN f.txs = 1..Len(f.txs)
    BY <2>1 DEF GroupFrames
  <2>3. (f.at + 1)..Len(f.txs) \subseteq DOMAIN f.txs
    BY <2>2
  <2>4. SumOver(FeesOf(f.txs), (f.at + 1)..Len(f.txs)) \in Int
    BY <2>2, <2>3, FeesNat
  <2>. QED  BY <1>1, <2>2, <2>4 DEF Ahead, Dues, Here
<1>. QED  BY <1>1 DEF Ahead, Dues, Here

\* A frame on top adds what is ahead in it.
LEMMA PushCounts ==
  ASSUME NEW fs \in Seq(Frames), NEW g \in Frames
  PROVE  LET gs == Append(fs, g)
         IN  /\ AheadAll(fs) \in Int /\ AheadAll(gs) = AheadAll(fs) + Ahead(g)
             /\ DuesAll(fs) \in Int /\ DuesAll(gs) = DuesAll(fs) + Dues(g)
             /\ gs[Len(gs)] = g
<1>. DEFINE gs == Append(fs, g)
            n == Len(fs)
<1>1. /\ Len(gs) = n + 1 /\ n \in Nat /\ gs[n + 1] = g /\ \A k \in 1..n : gs[k] = fs[k]
  BY AppendOne
<1>2. /\ DOMAIN fs = 1..n /\ DOMAIN gs = 1..(n + 1)
  OBVIOUS
<1>3. \A k \in 1..n : fs[k] \in Frames
  OBVIOUS
<1>. HIDE DEF gs, n
<1>4. \A k \in 1..n : Ahead(fs[k]) \in Int /\ Dues(fs[k]) \in Int
  BY <1>3, FrameCounts
<1>5. Ahead(g) \in Int /\ Dues(g) \in Int
  BY FrameCounts
<1>6. AheadAll(fs) \in Int /\ AheadAll(gs) = AheadAll(fs) + Ahead(g)
  <2>. DEFINE q == [k \in DOMAIN fs |-> Ahead(fs[k])]
              r == [k \in DOMAIN gs |-> Ahead(gs[k])]
  <2>1. DOMAIN q = 1..n /\ DOMAIN r = 1..(n + 1)
    BY <1>2
  <2>2. \A k \in 1..n : q[k] \in Int /\ r[k] = q[k]
    BY <1>1, <1>2, <1>4
  <2>3. r[n + 1] = Ahead(g) /\ r[n + 1] \in Int
    BY <1>1, <1>2, <1>5
  <2>. HIDE DEF q, r
  <2>4. Sum(r) = Sum(q) + r[n + 1] /\ Sum(q) \in Int
    BY <1>1, <2>1, <2>2, <2>3, SumOfPush
  <2>. QED  BY <2>3, <2>4 DEF q, r, AheadAll
<1>7. DuesAll(fs) \in Int /\ DuesAll(gs) = DuesAll(fs) + Dues(g)
  <2>. DEFINE q == [k \in DOMAIN fs |-> Dues(fs[k])]
              r == [k \in DOMAIN gs |-> Dues(gs[k])]
  <2>1. DOMAIN q = 1..n /\ DOMAIN r = 1..(n + 1)
    BY <1>2
  <2>2. \A k \in 1..n : q[k] \in Int /\ r[k] = q[k]
    BY <1>1, <1>2, <1>4
  <2>3. r[n + 1] = Dues(g) /\ r[n + 1] \in Int
    BY <1>1, <1>2, <1>5
  <2>. HIDE DEF q, r
  <2>4. Sum(r) = Sum(q) + r[n + 1] /\ Sum(q) \in Int
    BY <1>1, <2>1, <2>2, <2>3, SumOfPush
  <2>. QED  BY <2>3, <2>4 DEF q, r, DuesAll
<1>. QED  BY <1>1, <1>6, <1>7 DEF gs

\* The group goes on to its next transaction.
LEMMA NextCounts ==
  ASSUME NEW g \in GroupFrames, g.at <= Len(g.txs), NEW h, h = [g EXCEPT !.at = @ + 1]
  PROVE  /\ h \in Frames /\ h.form = "group"
         /\ Ahead(h) + 1 = Ahead(g) /\ Dues(h) + DueHere(h) = Dues(g)
         /\ DueHere(h) \in Nat /\ DueHere(g) \in Nat
<1>1. /\ g.at \in Nat \ {0} /\ g.txs \in Seq(AppTx) /\ g.form = "group"
      /\ h.at = g.at + 1 /\ h.txs = g.txs /\ h.form = "group" /\ h \in GroupFrames
  <2>1. g.at + 1 \in Nat \ {0}
    BY DEF GroupFrames
  <2>. QED  BY <2>1 DEF GroupFrames
<1>. DEFINE txs == g.txs
            m == g.at + 1
<1>2. Len(txs) \in Nat /\ DOMAIN txs = 1..Len(txs) /\ m \in Nat \ {0}
  BY <1>1
<1>3. ASSUME NEW i \in 1..Len(txs) PROVE txs[i].fee \in Nat
  <2>1. txs[i] \in AppTx
    BY <1>1, <1>2
  <2>. QED  BY <2>1 DEF AppTx
<1>4. Dues(h) + DueHere(h) = Dues(g)
  <2>. DEFINE D == m..Len(txs)
              q == FeesOf(txs)
  <2>1. /\ IsFiniteSet(D) /\ D \subseteq DOMAIN txs /\ \A i \in D : q[i] \in Int
    <3>1. D \subseteq DOMAIN txs
      BY <1>2
    <3>. QED  BY <1>1, <3>1, FeesNat
  <2>2. Dues(g) = SumOver(q, D) /\ Dues(h) = SumOver(q, (m + 1)..Len(txs))
    BY <1>1 DEF Dues
  <2>3. CASE m <= Len(txs)
    <3>1. m \in D /\ D \ {m} = (m + 1)..Len(txs)
      BY <1>2, <2>3
    <3>2. q[m] = txs[m].fee /\ q[m] \in Int
      BY <1>2, <2>1, <2>3, <3>1 DEF FeesOf
    <3>3. DueHere(h) = txs[m].fee
      BY <1>1, <2>3 DEF DueHere
    <3>. HIDE DEF D, q
    <3>4. SumOver(q, D) = q[m] + SumOver(q, D \ {m})
      BY <2>1, <3>1, SumOverRemove
    <3>5. SumOver(q, D \ {m}) \in Int
      BY <1>1, <2>1, FeesNat DEF q
    <3>6. Dues(h) = SumOver(q, D \ {m}) /\ Dues(g) = SumOver(q, D)
      BY <2>2, <3>1 DEF D
    <3>. QED  BY <3>2, <3>3, <3>4, <3>5, <3>6
  <2>4. CASE ~(m <= Len(txs))
    <3>1. D = {} /\ (m + 1)..Len(txs) = {}
      BY <1>2, <2>4
    <3>2. DueHere(h) = 0
      BY <1>1, <2>4 DEF DueHere
    <3>3. Dues(h) = 0 /\ Dues(g) = 0
      <4>1. SumOver(q, {}) = 0
        BY SumOverNothing
      <4>. HIDE DEF q
      <4>. QED  BY <2>2, <3>1, <4>1
    <3>. QED  BY <3>2, <3>3
  <2>. QED  BY <2>3, <2>4
<1>5. Ahead(h) + 1 = Ahead(g)
  BY <1>1, <1>2 DEF Ahead
<1>6. DueHere(h) \in Nat /\ DueHere(g) \in Nat
  BY <1>1, <1>2, <1>3 DEF DueHere
<1>. QED  BY <1>1, <1>4, <1>5, <1>6 DEF Frames

\* A group at its start, and at its end.
LEMMA WholeGroup ==
  ASSUME NEW txs \in Seq(AppTx), txs # <<>>
  PROVE  LET g == GroupFrame(txs)
         IN  /\ g \in GroupFrames /\ g \in Frames /\ g.form = "group"
             /\ Ahead(g) + 1 = Len(txs) /\ Dues(g) + DueHere(g) = Fees(txs)
             /\ DueHere(g) \in Nat /\ Fees(txs) \in Int
<1>. DEFINE g == GroupFrame(txs)
            D == 1..Len(txs)
            q == FeesOf(txs)
<1>1. /\ g \in GroupFrames /\ g.form = "group" /\ g.txs = txs /\ g.at = 1
      /\ Len(txs) \in Nat \ {0} /\ DOMAIN txs = D /\ 1 \in D /\ D \ {1} = 2..Len(txs)
  BY DEF GroupFrame, GroupFrames
<1>. HIDE DEF g
<1>2. IsFiniteSet(D) /\ (\A i \in D : q[i] \in Int) /\ SumOver(q, D \ {1}) \in Int
  <2>1. D \subseteq DOMAIN txs /\ D \ {1} \subseteq DOMAIN txs
    BY <1>1
  <2>. QED  BY <2>1, FeesNat
<1>3. q[1] = txs[1].fee /\ txs[1].fee \in Nat
  <2>1. txs[1] \in AppTx
    BY <1>1
  <2>2. txs[1].fee \in Nat
    BY <2>1 DEF AppTx
  <2>. QED  BY <1>1, <2>2 DEF FeesOf
<1>4. Fees(txs) = SumOver(q, D)
  BY <1>1, SumIsFold DEF Fees, FeesOf
<1>5. SumOver(q, D) = q[1] + SumOver(q, D \ {1})
  <2>. HIDE DEF q, D
  <2>. QED  BY <1>1, <1>2, SumOverRemove
<1>6. Dues(g) = SumOver(q, 2..Len(txs)) /\ DueHere(g) = txs[1].fee
  <2>1. 1 + 1 = 2 /\ 1 <= Len(txs)
    BY <1>1
  <2>. QED  BY <1>1, <2>1 DEF Dues, DueHere
<1>7. Ahead(g) + 1 = Len(txs)
  BY <1>1 DEF Ahead
<1>8. Dues(g) + DueHere(g) = Fees(txs) /\ Fees(txs) \in Int /\ DueHere(g) \in Nat
  <2>1. Dues(g) = SumOver(q, D \ {1})
    BY <1>1, <1>6
  <2>. HIDE DEF q, D
  <2>. QED  BY <1>2, <1>3, <1>4, <1>5, <1>6, <2>1
<1>. QED  BY <1>1, <1>7, <1>8 DEF Frames, g

\* A group that is done has nothing to come.
LEMMA GroupOver ==
  ASSUME NEW g \in GroupFrames, g.at = Len(g.txs) + 1
  PROVE  Ahead(g) + Here(g) = 0 /\ Dues(g) + DueHere(g) = 0
<1>1. g.txs \in Seq(AppTx) /\ Len(g.txs) \in Nat /\ g.form = "group"
  BY DEF GroupFrames
<1>2. (g.at + 1)..Len(g.txs) = {}
  BY <1>1
<1>. QED  BY <1>1, <1>2, SumOverNothing DEF Ahead, Dues, Here, DueHere

\* A program has nothing to come of its own.
LEMMA ProgramCounts ==
  ASSUME NEW f, f.form = "program"
  PROVE  Ahead(f) = 0 /\ Dues(f) = 0 /\ Here(f) = 0 /\ DueHere(f) = 0
BY DEF Ahead, Dues, Here, DueHere

\* The sum of the whole stack is that below and that of the frame on top.
LEMMA TopCounts ==
  ASSUME CallInv, frames # <<>>
  PROVE  /\ ToCome(frames) = AheadAll(Below) + Ahead(Current) + Here(Current)
         /\ DueToCome(frames) = DuesAll(Below) + Dues(Current) + DueHere(Current)
         /\ AheadAll(Below) \in Int /\ DuesAll(Below) \in Int
         /\ frames = Append(Below, Current)
<1>1. /\ frames \in Seq(Frames) /\ Current \in Frames /\ Depth = Len(frames)
      /\ Below \in Seq(Frames)
  BY OnTop
<1>2. frames = Append(Below, Current)
  <2>1. [frames EXCEPT ![Len(frames)] = Current] = Append(Below, Current)
    BY <1>1, FrontOf DEF Below, Depth
  <2>2. [frames EXCEPT ![Len(frames)] = Current] = frames
    BY <1>1 DEF Current
  <2>. QED  BY <2>1, <2>2
<1>. DEFINE fs == Below
            f == Current
<1>3. fs \in Seq(Frames) /\ f \in Frames
  BY <1>1
<1>. HIDE DEF fs, f
<1>4. /\ AheadAll(Append(fs, f)) = AheadAll(fs) + Ahead(f) /\ AheadAll(fs) \in Int
      /\ DuesAll(Append(fs, f)) = DuesAll(fs) + Dues(f) /\ DuesAll(fs) \in Int
      /\ Append(fs, f)[Len(Append(fs, f))] = f
  BY <1>3, PushCounts
<1>. QED  BY <1>2, <1>4 DEF fs, f, ToCome, DueToCome

-----------------------------------------------------------------------------
(* What a step does to that                                                *)

\* There are p more transactions to come, with d more to pay.
Advance(p, d) ==
  /\ ToCome(frames') = ToCome(frames) + p
  /\ DueToCome(frames') = DueToCome(frames) + d

\* The first element stays unless there was none.
LEMMA FirstOfPush ==
  ASSUME NEW S, NEW fs \in Seq(S), NEW g
  PROVE  Append(fs, g)[1] = IF fs = <<>> THEN g ELSE fs[1]
<1>. DEFINE gs == Append(fs, g)
<1>1. /\ Len(fs) \in Nat /\ gs[Len(fs) + 1] = g /\ \A k \in 1..Len(fs) : gs[k] = fs[k]
  BY AppendOne
<1>. HIDE DEF gs
<1>2. CASE fs = <<>>
  <2>1. Len(fs) = 0
    BY <1>2
  <2>. QED  BY <1>1, <1>2, <2>1 DEF gs
<1>3. CASE fs # <<>>
  <2>1. 1 \in 1..Len(fs)
    BY <1>3
  <2>. QED  BY <1>1, <1>3, <2>1 DEF gs
<1>. QED  BY <1>2, <1>3

\* What is on top of a stack that has been pushed on.
LEMMA PushToCome ==
  ASSUME NEW fs \in Seq(Frames), NEW g \in Frames
  PROVE  /\ ToCome(Append(fs, g)) = AheadAll(fs) + Ahead(g) + Here(g)
         /\ DueToCome(Append(fs, g)) = DuesAll(fs) + Dues(g) + DueHere(g)
         /\ AheadAll(fs) \in Int /\ DuesAll(fs) \in Int
         /\ AheadAll(Append(fs, g)) = AheadAll(fs) + Ahead(g)
         /\ DuesAll(Append(fs, g)) = DuesAll(fs) + Dues(g)
<1>1. /\ AheadAll(Append(fs, g)) = AheadAll(fs) + Ahead(g) /\ AheadAll(fs) \in Int
      /\ DuesAll(Append(fs, g)) = DuesAll(fs) + Dues(g) /\ DuesAll(fs) \in Int
      /\ Append(fs, g)[Len(Append(fs, g))] = g
  BY PushCounts
<1>. QED  BY <1>1 DEF ToCome, DueToCome

\* The stack after the end of a transaction: the group on top, moved on.
LEMMA FinishedPush ==
  ASSUME NEW fs \in Seq(Frames), fs # <<>>, NEW g, g = fs[Len(fs)], g \in GroupFrames,
         g.at <= Len(g.txs), NEW s, NEW n, FinishTx(s, fs, n)
  PROVE  LET front == SubSeq(fs, 1, Len(fs) - 1)
             h == [g EXCEPT !.at = @ + 1]
         IN  /\ front \in Seq(Frames) /\ h \in Frames /\ h.form = "group"
             /\ fs = Append(front, g) /\ frames' = Append(front, h)
             /\ frames'[1].form = fs[1].form
<1>. DEFINE front == SubSeq(fs, 1, Len(fs) - 1)
            h == [g EXCEPT !.at = @ + 1]
<1>1. /\ Len(fs) \in Nat \ {0} /\ front \in Seq(Frames)
      /\ \A f \in Frames : [fs EXCEPT ![Len(fs)] = f] = Append(front, f)
  BY FrontOf
<1>2. h \in Frames /\ h.form = "group"
  BY NextCounts
<1>3. frames' = [fs EXCEPT ![Len(fs)] = h]
  BY DEF FinishTx
<1>4. [fs EXCEPT ![Len(fs)] = g] = fs /\ g \in Frames /\ g.form = "group"
  BY DEF Frames, GroupFrames
<1>. HIDE DEF front, h
<1>5. frames' = Append(front, h) /\ fs = Append(front, g)
  BY <1>1, <1>2, <1>3, <1>4
<1>6. frames'[1].form = fs[1].form
  <2>1. frames'[1] = IF front = <<>> THEN h ELSE front[1]
    BY <1>1, <1>5, FirstOfPush
  <2>2. fs[1] = IF front = <<>> THEN g ELSE front[1]
    BY <1>1, <1>5, FirstOfPush
  <2>. QED  BY <1>2, <1>4, <2>1, <2>2
<1>. QED  BY <1>1, <1>2, <1>5, <1>6 DEF front, h

\* The end of a program in a group: its transaction is no longer the one below,
\* and the next one is the one at.
LEMMA EndMoves ==
  ASSUME CallInv, InProgram, Depth > 1, NEW s, NEW n, SameNet(n), FinishTx(s, Below, n)
  PROVE  /\ Advance(0, 0) /\ SameNet(net') /\ net'.cost = n.cost
         /\ frames'[1].form = frames[1].form
<1>. DEFINE g == Below[Len(Below)]
            front == SubSeq(Below, 1, Len(Below) - 1)
            h == [g EXCEPT !.at = @ + 1]
<1>1. /\ Below # <<>> /\ g \in GroupFrames /\ g.at <= Len(g.txs) /\ Below[1] = frames[1]
      /\ frames # <<>> /\ Below \in Seq(Frames) /\ Current.form = "program"
      /\ g \in Frames
  <2>1. frames # <<>> /\ Current.form = "program"
    BY ProgramTop
  <2>2. Below \in Seq(Frames)
    BY <2>1, OnTop
  <2>. QED  BY <2>1, <2>2, GroupBelow DEF Frames
<1>2. /\ front \in Seq(Frames) /\ h \in Frames /\ h.form = "group"
      /\ Below = Append(front, g) /\ frames' = Append(front, h)
      /\ frames'[1].form = Below[1].form
  <2>. DEFINE fs == Below
  <2>1. fs \in Seq(Frames) /\ fs # <<>> /\ g = fs[Len(fs)]
    BY <1>1
  <2>. HIDE DEF fs, g
  <2>. QED  BY <1>1, <2>1, FinishedPush DEF fs
<1>3. SameNet(net') /\ net'.cost = n.cost
  <2>. DEFINE v == IF Len(IF n.callers = <<>> THEN <<>>
                          ELSE SubSeq(n.callers, 1, Len(n.callers) - 1)) = 1 THEN <<>>
                   ELSE IF n.callers = <<>> THEN <<>>
                        ELSE SubSeq(n.callers, 1, Len(n.callers) - 1)
  <2>1. net' = [n EXCEPT !.callers = v] \/ net' = n
    BY DEF FinishTx
  <2>. HIDE DEF v
  <2>2. /\ net'.left = n.left /\ net'.credit = n.credit /\ net'.budget = n.budget
        /\ net'.cost = n.cost /\ DOMAIN net' = DOMAIN n
    BY <2>1 DEF SameNet
  <2>. QED  BY <2>2 DEF SameNet
<1>4. /\ Ahead(h) + 1 = Ahead(g) /\ Dues(h) + DueHere(h) = Dues(g) /\ DueHere(h) \in Nat
  <2>. HIDE DEF g
  <2>. QED  BY <1>1, NextCounts
<1>. HIDE DEF h, g, front
<1>5. /\ ToCome(frames) = AheadAll(Below) + Ahead(Current) + Here(Current)
      /\ DueToCome(frames) = DuesAll(Below) + Dues(Current) + DueHere(Current)
      /\ Ahead(Current) = 0 /\ Here(Current) = 0 /\ Dues(Current) = 0 /\ DueHere(Current) = 0
  BY <1>1, TopCounts, ProgramCounts
<1>6. /\ AheadAll(Below) = AheadAll(front) + Ahead(g) /\ DuesAll(Below) = DuesAll(front) + Dues(g)
      /\ AheadAll(front) \in Int /\ DuesAll(front) \in Int
  BY <1>1, <1>2, PushToCome
<1>7. /\ ToCome(frames') = AheadAll(front) + Ahead(h) + Here(h)
      /\ DueToCome(frames') = DuesAll(front) + Dues(h) + DueHere(h)
  BY <1>2, PushToCome
<1>8. Here(h) = 1
  BY <1>2 DEF Here
<1>9. Ahead(h) \in Int /\ Dues(h) \in Int /\ Ahead(g) \in Int /\ Dues(g) \in Int
  BY <1>1, <1>2, FrameCounts
<1>10. Advance(0, 0)
  <2>1. ToCome(frames') = ToCome(frames) + 0
    BY <1>4, <1>5, <1>6, <1>7, <1>8, <1>9
  <2>2. DueToCome(frames') = DueToCome(frames) + 0
    BY <1>4, <1>5, <1>6, <1>7, <1>9
  <2>. QED  BY <2>1, <2>2 DEF Advance
<1>. QED  BY <1>1, <1>2, <1>3, <1>10

\* A step of a program changes nothing about what is to come.
LEMMA StepMoves ==
  ASSUME CallInv, CallInv', InProgram, GoesOn
  PROVE  Advance(0, 0) /\ frames'[1].form = frames[1].form
<1>1. /\ frames # <<>> /\ Below \in Seq(Frames) /\ Current.form = "program"
      /\ Depth \in Nat \ {0} /\ Len(Below) = Depth - 1 /\ Depth = Len(frames)
      /\ \A k \in 1..(Depth - 1) : Below[k] = frames[k]
  BY ProgramTop, OnTop
<1>2. PICK h : h.form = "program" /\ frames' = Append(Below, h)
  BY DEF GoesOn
<1>. DEFINE fs == Below
<1>. HIDE DEF fs
<1>3. fs \in Seq(Frames) /\ frames' = Append(fs, h)
  BY <1>1, <1>2 DEF fs
<1>4. h \in Frames
  <2>1. frames' \in Seq(Frames)
    BY DEF CallInv, StackOK
  <2>2. Len(frames') = Len(fs) + 1 /\ Len(fs) \in Nat /\ frames'[Len(fs) + 1] = h
    BY <1>3, AppendOne
  <2>. QED  BY <2>1, <2>2
<1>5. /\ ToCome(frames') = AheadAll(fs) + Ahead(h) + Here(h)
      /\ DueToCome(frames') = DuesAll(fs) + Dues(h) + DueHere(h)
      /\ AheadAll(fs) \in Int /\ DuesAll(fs) \in Int
  BY <1>3, <1>4, PushToCome
<1>6. /\ ToCome(frames) = AheadAll(fs) + Ahead(Current) + Here(Current)
      /\ DueToCome(frames) = DuesAll(fs) + Dues(Current) + DueHere(Current)
  BY <1>1, TopCounts DEF fs
<1>7. /\ Ahead(Current) = 0 /\ Here(Current) = 0 /\ Dues(Current) = 0 /\ DueHere(Current) = 0
      /\ Ahead(h) = 0 /\ Here(h) = 0 /\ Dues(h) = 0 /\ DueHere(h) = 0
  BY <1>1, <1>2, ProgramCounts
<1>8. Advance(0, 0)
  BY <1>5, <1>6, <1>7 DEF Advance
<1>9. frames'[1].form = frames[1].form
  <2>1. frames'[1] = IF fs = <<>> THEN h ELSE fs[1]
    BY <1>3, FirstOfPush
  <2>2. CASE fs = <<>>
    <3>1. Len(fs) = 0
      BY <2>2
    <3>2. Depth = 1
      BY <1>1, <3>1 DEF fs
    <3>3. Current = frames[1]
      BY <3>2 DEF Current
    <3>. QED  BY <1>1, <1>2, <2>1, <2>2, <3>3
  <2>3. CASE fs # <<>>
    BY <1>1, <2>1, <2>3, OnTop DEF fs
  <2>. QED  BY <2>2, <2>3
<1>. QED  BY <1>8, <1>9

\* itxn_submit adds the inner transactions.
LEMMA SubmitMoves ==
  ASSUME CallInv, InProgram, Submits
  PROVE  /\ Advance(Len(Current.inner), Fees(Current.inner))
         /\ frames'[1].form = frames[1].form
         /\ Current.inner \in Seq(AppTx) /\ Current.inner # <<>>
<1>. DEFINE txs == Current.inner
            g == GroupFrame(txs)
<1>1. /\ frames # <<>> /\ frames \in Seq(Frames) /\ Current.form = "program"
      /\ txs \in Seq(AppTx) /\ txs # <<>> /\ frames' = Append(frames, g)
      /\ Below \in Seq(Frames) /\ Current \in Frames
  BY ProgramTop, OnTop DEF Submits
<1>2. /\ g \in Frames /\ g.form = "group" /\ Ahead(g) + 1 = Len(txs)
      /\ Dues(g) + DueHere(g) = Fees(txs) /\ DueHere(g) \in Nat
  <2>. HIDE DEF txs
  <2>. QED  BY <1>1, WholeGroup
<1>. HIDE DEF txs, g
<1>3. Here(g) = 1
  BY <1>2 DEF Here
<1>4. /\ ToCome(frames') = AheadAll(frames) + Ahead(g) + Here(g)
      /\ DueToCome(frames') = DuesAll(frames) + Dues(g) + DueHere(g)
      /\ AheadAll(frames) \in Int /\ DuesAll(frames) \in Int
  BY <1>1, <1>2, PushToCome
<1>5. /\ ToCome(frames) = AheadAll(Below) + Ahead(Current) + Here(Current)
      /\ DueToCome(frames) = DuesAll(Below) + Dues(Current) + DueHere(Current)
      /\ frames = Append(Below, Current)
  BY <1>1, TopCounts
<1>6. /\ AheadAll(frames) = AheadAll(Below) + Ahead(Current)
      /\ DuesAll(frames) = DuesAll(Below) + Dues(Current)
      /\ AheadAll(Below) \in Int /\ DuesAll(Below) \in Int
  <2>1. /\ AheadAll(Append(Below, Current)) = AheadAll(Below) + Ahead(Current)
        /\ DuesAll(Append(Below, Current)) = DuesAll(Below) + Dues(Current)
        /\ AheadAll(Below) \in Int /\ DuesAll(Below) \in Int
    BY <1>1, PushToCome
  <2>. QED  BY <1>5, <2>1
<1>7. /\ Ahead(Current) = 0 /\ Here(Current) = 0 /\ Dues(Current) = 0 /\ DueHere(Current) = 0
  BY <1>1, ProgramCounts
<1>8. Ahead(g) \in Int /\ Dues(g) \in Int
  BY <1>2, FrameCounts
<1>9. Advance(Len(txs), Fees(txs))
  <2>1. ToCome(frames') = ToCome(frames) + Len(txs)
    BY <1>2, <1>3, <1>4, <1>5, <1>6, <1>7, <1>8
  <2>2. DueToCome(frames') = DueToCome(frames) + Fees(txs)
    BY <1>2, <1>4, <1>5, <1>6, <1>7, <1>8
  <2>. QED  BY <2>1, <2>2 DEF Advance
<1>10. frames'[1].form = frames[1].form
  BY <1>1, FirstOfPush
<1>. QED  BY <1>1, <1>9, <1>10 DEF txs

\* A program that has taken its first step.
Started(fs) == \E k \in DOMAIN fs : fs[k].form = "program" /\ fs[k].pc > 1

\* A frame on top of a stack has started, or one of those below.
LEMMA PushStarted ==
  ASSUME NEW fs \in Seq(Frames), NEW g
  PROVE  Started(Append(fs, g)) <=> Started(fs) \/ (g.form = "program" /\ g.pc > 1)
<1>. DEFINE gs == Append(fs, g)
            n == Len(fs)
<1>1. /\ n \in Nat /\ DOMAIN fs = 1..n /\ DOMAIN gs = 1..(n + 1)
      /\ gs[n + 1] = g /\ \A k \in 1..n : gs[k] = fs[k]
  <2>1. DOMAIN fs = 1..n /\ DOMAIN gs = 1..(n + 1)
    OBVIOUS
  <2>. QED  BY <2>1, AppendOne
<1>. HIDE DEF gs, n
<1>2. \A k : k \in 1..(n + 1) <=> k \in 1..n \/ k = n + 1
  BY <1>1
<1>3. Started(gs) <=> Started(fs) \/ (g.form = "program" /\ g.pc > 1)
  BY <1>1, <1>2 DEF Started
<1>. QED  BY <1>3 DEF gs

\* An inner group has returned to the program that waits for it.
LEMMA ReturnMoves ==
  ASSUME CallInv, CallInv', ITxnReturn, frames' # <<>>
  PROVE  /\ Advance(0, 0) /\ SameNet(net') /\ ~(net'.cost > net'.budget)
         /\ frames'[1].form = frames[1].form /\ UNCHANGED <<store, ctx, shared>>
<1>. DEFINE k == Depth - 1
            c == frames[k]
            front == SubSeq(frames, 1, Depth - 2)
            f == [c EXCEPT !.inner = <<>>, !.submitted = @ + 1, !.pc = @ + 1]
<1>1. /\ InGroup /\ Depth > 1 /\ Depth \in Nat \ {0} /\ frames # <<>>
      /\ Current.form = "group" /\ Current \in GroupFrames
      /\ Current.at = Len(Current.txs) + 1 /\ Below \in Seq(Frames) /\ Len(Below) = Depth - 1
      /\ \A j \in 1..(Depth - 1) : Below[j] = frames[j]
      /\ Current \in Frames
  <2>1. InGroup /\ Depth > 1 /\ Current.at > Len(Current.txs)
    BY DEF ITxnReturn
  <2>2. GroupFits(Current, Depth, ctx) /\ Current \in GroupFrames /\ frames # <<>>
        /\ Current.form = "group" /\ Len(Current.txs) \in Nat
    BY <2>1, GroupTop
  <2>3. Current.at = Len(Current.txs) + 1
    BY <2>1, <2>2 DEF GroupFits
  <2>. QED  BY <2>1, <2>2, <2>3, OnTop
<1>2. Clears = {}
  <2>1. ASSUME NEW j \in Clears PROVE FALSE
    BY <1>1, ClearIsSecond DEF Clears
  <2>. QED  BY <2>1
<1>3. ~Unwind(ctx, Spent(1))
  BY <1>2, UnwindIs DEF CallInv
<1>4. /\ frames' = Append(front, f) /\ net' = [Spent(1) EXCEPT !.inner = FALSE]
      /\ ~(net.cost + 1 > net.budget) /\ UNCHANGED <<store, ctx, shared>>
  BY <1>3 DEF ITxnReturn
<1>5. Depth - 2 = k - 1 /\ k = Depth - 1
  BY <1>1
<1>6. /\ k \in Nat \ {0} /\ c.form = "program" /\ c \in ProgramFrames
      /\ StackOK(front, ctx) /\ Len(front) = k - 1
      /\ \A j \in 1..(k - 1) : front[j] = frames[j]
  BY <1>1, <1>5, CallerIs
<1>7. f.form = "program"
  <2>. HIDE DEF c
  <2>. QED  BY <1>6 DEF ProgramFrames
<1>. HIDE DEF front, k, c, f
<1>8. front \in Seq(Frames) /\ c \in Frames
  BY <1>6 DEF StackOK, Frames
<1>9. Below = Append(front, c)
  <2>. DEFINE fs == Append(front, c)
  <2>1. /\ fs \in Seq(Frames) /\ Len(fs) = k /\ fs[k] = c
        /\ \A j \in 1..(k - 1) : fs[j] = front[j]
    <3>1. fs \in Seq(Frames)
      BY <1>8
    <3>. QED  BY <1>6, <1>8, <3>1, AppendOne
  <2>. HIDE DEF fs
  <2>2. \A j \in 1..Len(fs) : fs[j] = Below[j]
    <3>. SUFFICES ASSUME NEW j \in 1..k PROVE fs[j] = Below[j]
      BY <2>1
    <3>1. j \in 1..(k - 1) \/ j = k
      BY <1>6
    <3>2. Below[j] = frames[j]
      BY <1>1, <1>5
    <3>. QED  BY <1>6, <2>1, <3>1, <3>2 DEF c
  <2>3. fs = Below
    BY <1>1, <1>5, <2>1, <2>2, SeqEqual
  <2>. QED  BY <2>3 DEF fs
<1>10. f \in Frames
  <2>1. frames' \in Seq(Frames)
    BY DEF CallInv, StackOK
  <2>2. Len(frames') = Len(front) + 1 /\ Len(front) \in Nat /\ frames'[Len(front) + 1] = f
    BY <1>4, <1>8, AppendOne
  <2>. QED  BY <2>1, <2>2
<1>11. /\ ToCome(frames') = AheadAll(front) + Ahead(f) + Here(f)
       /\ DueToCome(frames') = DuesAll(front) + Dues(f) + DueHere(f)
       /\ AheadAll(front) \in Int /\ DuesAll(front) \in Int
  BY <1>4, <1>8, <1>10, PushToCome
<1>12. /\ AheadAll(Below) = AheadAll(front) + Ahead(c) /\ DuesAll(Below) = DuesAll(front) + Dues(c)
  BY <1>8, <1>9, PushToCome
<1>13. /\ ToCome(frames) = AheadAll(Below) + Ahead(Current) + Here(Current)
       /\ DueToCome(frames) = DuesAll(Below) + Dues(Current) + DueHere(Current)
  BY <1>1, TopCounts
<1>14. Ahead(Current) + Here(Current) = 0 /\ Dues(Current) + DueHere(Current) = 0
  BY <1>1, GroupOver
<1>15. /\ Ahead(f) = 0 /\ Here(f) = 0 /\ Dues(f) = 0 /\ DueHere(f) = 0
       /\ Ahead(c) = 0 /\ Dues(c) = 0
  BY <1>6, <1>7, ProgramCounts
<1>16. /\ Ahead(Current) \in Int /\ Dues(Current) \in Int /\ Here(Current) \in Int
       /\ DueHere(Current) \in Int
  <2>1. Ahead(Current) \in Int /\ Dues(Current) \in Int /\ Here(Current) \in Int
    BY <1>1, FrameCounts
  <2>2. DueHere(Current) = 0
    <3>1. ~(Current.at <= Len(Current.txs))
      BY <1>1, GroupTop
    <3>. QED  BY <3>1 DEF DueHere
  <2>. QED  BY <2>1, <2>2
<1>17. Advance(0, 0)
  <2>1. ToCome(frames') = ToCome(frames) + 0
    BY <1>11, <1>12, <1>13, <1>14, <1>15, <1>16
  <2>2. DueToCome(frames') = DueToCome(frames) + 0
    BY <1>11, <1>12, <1>13, <1>14, <1>15, <1>16
  <2>. QED  BY <2>1, <2>2 DEF Advance
<1>18. SameNet(net') /\ ~(net'.cost > net'.budget)
  <2>1. SameNet(Spent(1)) /\ Spent(1).cost = net.cost + 1
    BY SpentSame
  <2>. QED  BY <1>4, <2>1 DEF SameNet
<1>19. frames'[1].form = frames[1].form
  <2>1. frames'[1] = IF front = <<>> THEN f ELSE front[1]
    BY <1>4, <1>8, FirstOfPush
  <2>2. Below[1] = IF front = <<>> THEN c ELSE front[1]
    BY <1>8, <1>9, FirstOfPush
  <2>3. Below[1] = frames[1]
    <3>1. 1 \in 1..(Depth - 1)
      BY <1>1
    <3>. QED  BY <1>1, <3>1
  <2>. QED  BY <1>6, <1>7, <2>1, <2>2, <2>3
<1>. QED  BY <1>4, <1>17, <1>18, <1>19

\* One transaction of a group has been taken.
LEMMA TakeMoves ==
  ASSUME CallInv, CallInv', NextTx, frames' # <<>>
  PROVE  /\ Advance(-1, -TxAt.fee)
         /\ frames'[1].form = frames[1].form /\ Allowed
         /\ net'.left = net.left - 1 /\ net'.credit = net.credit /\ net'.budget = net.budget
         /\ net'.cost \in {0, net.cost} /\ (Started(frames') => Started(frames))
<1>1. /\ InGroup /\ frames # <<>> /\ Current.form = "group" /\ Current \in GroupFrames
      /\ Current.at <= Len(Current.txs) /\ Current \in Frames
      /\ frames \in Seq(Frames) /\ Below \in Seq(Frames) /\ Depth = Len(frames)
      /\ Current.at \in DOMAIN Current.txs /\ TxAt \in AppTx
  <2>1. InGroup /\ Current.at <= Len(Current.txs)
    BY NextTxIs
  <2>2. /\ frames # <<>> /\ Current.form = "group" /\ Current \in GroupFrames
        /\ Current.at \in DOMAIN Current.txs /\ TxAt \in AppTx
    BY <2>1, GroupTop DEF TxAt
  <2>. QED  BY <2>1, <2>2, OnTop
<1>2. Clears = {}
  <2>1. ASSUME NEW j \in Clears PROVE FALSE
    BY <1>1, ClearIsSecond DEF Clears
  <2>. QED  BY <2>1
<1>3. \/ Allowed /\ ~IsCall(TxAt) /\ Moved.ok /\ FinishTx(Moved.s, frames, CountedNet)
      \/ /\ Allowed /\ IsCall(TxAt) /\ Begun.ok /\ Write(Begun.s) /\ net' = RunNet
         /\ frames' = Append(frames, ProgramOf(Begun.s, TxAt))
  <2>1. AppSound(Charged.s) /\ AppSound(Moved.s)
        /\ (Allowed /\ IsCall(TxAt) => AppSound(Begun.s))
    BY <1>1, NextTxLedgers
  <2>. QED  BY <1>2, <2>1, NextTxIs, UnwindIs
<1>4. /\ ToCome(frames) = AheadAll(Below) + Ahead(Current) + Here(Current)
      /\ DueToCome(frames) = DuesAll(Below) + Dues(Current) + DueHere(Current)
      /\ AheadAll(Below) \in Int /\ DuesAll(Below) \in Int
      /\ frames = Append(Below, Current)
  BY <1>1, TopCounts
<1>5. /\ Here(Current) = 1 /\ DueHere(Current) = TxAt.fee /\ TxAt.fee \in Nat
      /\ Ahead(Current) \in Int /\ Dues(Current) \in Int
  <2>1. TxAt.fee \in Nat
    BY <1>1 DEF AppTx
  <2>. QED  BY <1>1, <2>1, FrameCounts DEF Here, DueHere, TxAt
<1>6. /\ CountedNet \in Nets /\ RunNet \in Nets /\ net.left \in Nat \ {0}
      /\ CountedNet.left = net.left - 1 /\ RunNet.left = net.left - 1
      /\ CountedNet.credit = net.credit /\ RunNet.credit = net.credit
      /\ CountedNet.budget = net.budget /\ RunNet.budget = net.budget
      /\ CountedNet.cost = net.cost /\ RunNet.cost \in {0, net.cost}
  BY <1>1, <1>3, NextTxNets
<1>7. CASE Allowed /\ ~IsCall(TxAt) /\ Moved.ok /\ FinishTx(Moved.s, frames, CountedNet)
  <2>. DEFINE h == [Current EXCEPT !.at = @ + 1]
              front == SubSeq(frames, 1, Len(frames) - 1)
  <2>1. Current = frames[Len(frames)] /\ Below = front
    BY <1>1 DEF Current, Below
  <2>2. frames' = Append(front, h) /\ frames'[1].form = frames[1].form
    <3>. DEFINE g == Current
    <3>1. g \in GroupFrames /\ g.at <= Len(g.txs) /\ g = frames[Len(frames)]
      BY <1>1, <2>1
    <3>. HIDE DEF g
    <3>. QED  BY <1>1, <1>7, <3>1, FinishedPush DEF g
  <2>3. /\ h \in Frames /\ h.form = "group" /\ Ahead(h) + 1 = Ahead(Current)
        /\ Dues(h) + DueHere(h) = Dues(Current) /\ DueHere(h) \in Nat
    <3>. DEFINE g == Current
    <3>1. g \in GroupFrames /\ g.at <= Len(g.txs)
      BY <1>1
    <3>. HIDE DEF g
    <3>. QED  BY <3>1, NextCounts DEF g
  <2>. HIDE DEF h
  <2>4. /\ ToCome(frames') = AheadAll(Below) + Ahead(h) + Here(h)
        /\ DueToCome(frames') = DuesAll(Below) + Dues(h) + DueHere(h)
    BY <1>1, <2>1, <2>2, <2>3, PushToCome
  <2>5. Here(h) = 1 /\ Ahead(h) \in Int /\ Dues(h) \in Int
    BY <2>3, FrameCounts DEF Here
  <2>6. ToCome(frames') = ToCome(frames) + -1
    <3>. DEFINE all == AheadAll(Below)
                x == Ahead(h)
                y == Ahead(Current)
    <3>1. ToCome(frames') = all + x + 1 /\ ToCome(frames) = all + y + 1
      BY <1>4, <1>5, <2>4, <2>5
    <3>2. x + 1 = y /\ all \in Int /\ x \in Int /\ y \in Int
      BY <1>4, <1>5, <2>3, <2>5
    <3>. HIDE DEF all, x, y
    <3>. QED  BY <3>1, <3>2
  <2>7. DueToCome(frames') = DueToCome(frames) + -TxAt.fee
    <3>. DEFINE all == DuesAll(Below)
                x == Dues(h)
                y == Dues(Current)
                z == DueHere(h)
                fee == TxAt.fee
    <3>1. DueToCome(frames') = all + x + z /\ DueToCome(frames) = all + y + fee
      BY <1>4, <1>5, <2>4
    <3>2. /\ x + z = y /\ all \in Int /\ x \in Int /\ y \in Int
          /\ z \in Nat /\ fee \in Nat
      BY <1>4, <1>5, <2>3, <2>5
    <3>. HIDE DEF all, x, y, z, fee
    <3>3. DueToCome(frames') = DueToCome(frames) + -fee
      BY <3>1, <3>2
    <3>. QED  BY <3>3 DEF fee
  <2>8. /\ net'.left = CountedNet.left /\ net'.credit = CountedNet.credit
        /\ net'.budget = CountedNet.budget /\ net'.cost = CountedNet.cost
    <3>. DEFINE n == CountedNet
                v == IF Len(IF n.callers = <<>> THEN <<>>
                            ELSE SubSeq(n.callers, 1, Len(n.callers) - 1)) = 1 THEN <<>>
                     ELSE IF n.callers = <<>> THEN <<>>
                          ELSE SubSeq(n.callers, 1, Len(n.callers) - 1)
    <3>1. net' = [n EXCEPT !.callers = v] \/ net' = n
      BY <1>7 DEF FinishTx
    <3>2. n \in Nets
      BY <1>6
    <3>. HIDE DEF v, n
    <3>3. net'.left = n.left /\ net'.credit = n.credit /\ net'.budget = n.budget
          /\ net'.cost = n.cost
      BY <3>1, <3>2 DEF Nets
    <3>. QED  BY <3>3 DEF n
  <2>9. Started(frames') => Started(frames)
    <3>1. Started(Append(front, h)) <=> Started(front) \/ (h.form = "program" /\ h.pc > 1)
      BY <1>1, <2>1, PushStarted
    <3>2. Started(frames) <=> Started(Below) \/ (Current.form = "program" /\ Current.pc > 1)
      BY <1>1, <1>4, PushStarted
    <3>. QED  BY <2>1, <2>2, <2>3, <3>1, <3>2
  <2>. QED  BY <1>6, <1>7, <2>2, <2>6, <2>7, <2>8, <2>9 DEF Advance
<1>8. CASE /\ Allowed /\ IsCall(TxAt) /\ Begun.ok /\ Write(Begun.s) /\ net' = RunNet
           /\ frames' = Append(frames, ProgramOf(Begun.s, TxAt))
  <2>. DEFINE f == ProgramOf(Begun.s, TxAt)
  <2>1. f.form = "program"
    BY ProgramOfIs
  <2>. HIDE DEF f
  <2>2. frames' = Append(frames, f)
    BY <1>8 DEF f
  <2>3. f \in Frames
    <3>1. frames' \in Seq(Frames)
      BY DEF CallInv, StackOK
    <3>2. Len(frames') = Len(frames) + 1 /\ Len(frames) \in Nat /\ frames'[Len(frames) + 1] = f
      BY <1>1, <2>2, AppendOne
    <3>. QED  BY <3>1, <3>2
  <2>4. /\ ToCome(frames') = AheadAll(frames) + Ahead(f) + Here(f)
        /\ DueToCome(frames') = DuesAll(frames) + Dues(f) + DueHere(f)
    BY <1>1, <2>2, <2>3, PushToCome
  <2>5. Ahead(f) = 0 /\ Here(f) = 0 /\ Dues(f) = 0 /\ DueHere(f) = 0
    BY <2>1, ProgramCounts
  <2>6. AheadAll(frames) = AheadAll(Below) + Ahead(Current)
        /\ DuesAll(frames) = DuesAll(Below) + Dues(Current)
    <3>1. AheadAll(Append(Below, Current)) = AheadAll(Below) + Ahead(Current)
          /\ DuesAll(Append(Below, Current)) = DuesAll(Below) + Dues(Current)
      BY <1>1, PushToCome
    <3>. QED  BY <1>4, <3>1
  <2>7. ToCome(frames') = ToCome(frames) + -1
    BY <1>4, <1>5, <2>4, <2>5, <2>6
  <2>8. DueToCome(frames') = DueToCome(frames) + -TxAt.fee
    BY <1>4, <1>5, <2>4, <2>5, <2>6
  <2>9. frames'[1].form = frames[1].form
    BY <1>1, <2>2, FirstOfPush
  <2>10. Started(frames') => Started(frames)
    <3>1. Started(Append(frames, f)) <=> Started(frames) \/ (f.form = "program" /\ f.pc > 1)
      BY <1>1, PushStarted
    <3>2. f.pc = 1
      BY DEF f, ProgramOf, ProgramFrame
    <3>. QED  BY <2>2, <3>1, <3>2
  <2>. QED  BY <1>6, <1>8, <2>7, <2>8, <2>9, <2>10 DEF Advance
<1>. QED  BY <1>3, <1>7, <1>8

\* Writing to the context leaves a store that is not shared.
LEMMA WriteSame ==
  ASSUME NEW s, Write(s)
  PROVE  shared' = shared /\ (~shared => store' = store)
BY DEF Write

\* A program that threw and went on as a cleared one.
LEMMA UnwindMoves ==
  ASSUME CallInv, InProgram, NEW s, AppSound(s), NEW n, SameNet(n), Unwind(s, n), frames' # <<>>
  PROVE  /\ Advance(0, 0) /\ SameNet(net') /\ ~Started(frames')
         /\ frames'[1].form = frames[1].form
         /\ shared' = shared /\ (~shared => store' = store)
<1>1. Clears # {}
  BY UnwindIs
<1>. DEFINE k == CHOOSE k \in Clears : TRUE
            closed == CloseApp(s, frames[k].who, frames[k].app)
<1>2. k \in Clears
  BY <1>1
<1>3. IF closed.ok THEN FinishTx(closed.s, SubSeq(frames, 1, k - 1), n) ELSE Thrown(closed.s, n)
  BY <1>1 DEF Unwind
<1>. HIDE DEF k, closed
<1>4. /\ Depth = 2 /\ Below = SubSeq(frames, 1, k - 1) /\ Below # <<>> /\ Len(Below) = 1
      /\ frames[1].form = "group" /\ Below[Len(Below)] = frames[1]
  BY <1>2, ClearIsSecond
<1>5. FinishTx(closed.s, Below, n)
  BY <1>3, <1>4 DEF Thrown
<1>6. /\ Advance(0, 0) /\ SameNet(net') /\ frames'[1].form = frames[1].form
  BY <1>4, <1>5, EndMoves
<1>7. shared' = shared /\ (~shared => store' = store)
  BY <1>5, WriteSame DEF FinishTx
<1>8. ~Started(frames')
  <2>1. Below \in Seq(Frames)
    BY <1>4, ProgramTop, OnTop
  <2>. DEFINE fs == Below
  <2>2. fs \in Seq(Frames) /\ fs # <<>> /\ Len(fs) = 1
    BY <1>4, <2>1
  <2>. HIDE DEF fs
  <2>3. DOMAIN frames' = DOMAIN fs
    BY <1>5, <2>2, FinishedStack DEF fs
  <2>4. DOMAIN fs = 1..1
    BY <2>2
  <2>. QED  BY <1>4, <1>6, <2>3, <2>4 DEF Started
<1>. QED  BY <1>6, <1>7, <1>8

\* What has been spent, compared with what may be.
Eased ==
  \/ ~(net'.cost > net'.budget) \/ ~Started(frames')
  \/ Started(frames) /\ net'.cost <= net.cost /\ net'.budget >= net.budget

\* The end of a program takes nothing and adds nothing.
LEMMA ApproveMoves ==
  ASSUME CallInv, Approve, frames' # <<>>
  PROVE  /\ Advance(0, 0) /\ SameNet(net') /\ Eased
         /\ frames'[1].form = frames[1].form
         /\ shared' = shared /\ (~shared => store' = store)
<1>. DEFINE o == Completed(ctx, Current)
<1>1. InProgram /\ Depth \in Nat \ {0}
  <2>1. InProgram
    BY DEF Approve
  <2>. QED  BY <2>1, ProgramTop, OnTop
<1>2. SameNet(Spent(1)) /\ Spent(1).cost = net.cost + 1 /\ Spent(1).budget = net.budget
  BY SpentSame DEF SameNet
<1>3. \/ Unwind(ctx, Spent(1))
      \/ Depth > 1 /\ ~(net.cost + 1 > net.budget) /\ FinishTx(o.s, Below, Spent(1))
  BY <1>1 DEF Approve, Thrown
<1>. HIDE DEF o
<1>4. CASE Unwind(ctx, Spent(1))
  BY <1>1, <1>2, <1>4, UnwindMoves DEF Eased, CallInv
<1>5. CASE Depth > 1 /\ ~(net.cost + 1 > net.budget) /\ FinishTx(o.s, Below, Spent(1))
  <2>1. /\ Advance(0, 0) /\ SameNet(net') /\ net'.cost = Spent(1).cost
        /\ frames'[1].form = frames[1].form
    BY <1>1, <1>2, <1>5, EndMoves
  <2>2. shared' = shared /\ (~shared => store' = store)
    BY <1>5, WriteSame DEF FinishTx
  <2>3. ~(net'.cost > net'.budget)
    BY <1>2, <1>5, <2>1 DEF SameNet
  <2>. QED  BY <2>1, <2>2, <2>3 DEF Eased
<1>. QED  BY <1>3, <1>4, <1>5

\* A step that goes on, one that takes a transaction, one that adds a group.
Goes == Advance(0, 0) /\ SameNet(net')
TakesOne ==
  /\ NextTx /\ Allowed /\ Advance(-1, -TxAt.fee)
  /\ net'.left = net.left - 1 /\ net'.credit = net.credit /\ net'.budget = net.budget
AddsGroup ==
  /\ InProgram /\ Submits /\ Advance(Len(Current.inner), Fees(Current.inner))

\* What a step does that is not the first or the last of a call.
LEMMA Moves ==
  ASSUME CallInv, CallInv', Next, frames # <<>>, frames' # <<>>
  PROVE  /\ Goes \/ TakesOne \/ AddsGroup
         /\ Eased /\ frames'[1].form = frames[1].form
         /\ shared' = shared /\ (~shared => store' = store)
<1>1. CASE Approve
  BY <1>1, ApproveMoves DEF Goes
<1>2. CASE InProgram /\ ~Approve
  <2>1. PICK s : /\ Kept(s)
                 /\ \/ \E n : SameNet(n) /\ Unwind(s, n)
                    \/ Write(s) /\ (GoesOn \/ Submits)
    BY <1>2, ProgramShape
  <2>2. AppSound(s)
    BY <2>1 DEF Kept
  <2>3. ASSUME NEW n, SameNet(n), Unwind(s, n)
        PROVE  Goes /\ Eased /\ frames'[1].form = frames[1].form
               /\ shared' = shared /\ (~shared => store' = store)
    BY <1>2, <2>2, <2>3, UnwindMoves DEF Goes, Eased
  <2>4. CASE Write(s) /\ GoesOn
    BY <1>2, <2>4, StepMoves, WriteSame DEF Goes, Eased, GoesOn
  <2>5. CASE Write(s) /\ Submits
    <3>1. /\ Advance(Len(Current.inner), Fees(Current.inner))
          /\ frames'[1].form = frames[1].form
          /\ Current.inner \in Seq(AppTx)
      BY <1>2, <2>5, SubmitMoves
    <3>. DEFINE m == MaxCost * Cardinality({i \in DOMAIN Current.inner : IsCall(Current.inner[i])})
                v == IF Current.inner[1].app = 0 THEN net.callers
                     ELSE Append(net.callers, Current.inner[1].app)
                c == InnerCredit(Current.inner)
    <3>2. m \in Nat
      BY <3>1, CallsCounted
    <3>3. net' = [net EXCEPT !.credit = c, !.inner = TRUE, !.budget = net.budget + m, !.callers = v]
      BY <2>5 DEF Submits
    <3>. HIDE DEF m, v, c
    <3>4. net'.cost = net.cost /\ net'.budget = net.budget + m /\ net.budget \in Nat
          /\ net.cost \in Nat
      BY <3>3 DEF CallInv, Nets
    <3>5. Started(frames') => Started(frames)
      <4>. DEFINE g == GroupFrame(Current.inner)
      <4>1. frames' = Append(frames, g) /\ g.form = "group"
        BY <2>5 DEF Submits, GroupFrame
      <4>. HIDE DEF g
      <4>2. Started(Append(frames, g)) <=> Started(frames) \/ (g.form = "program" /\ g.pc > 1)
        BY OnTop, PushStarted
      <4>. QED  BY <4>1, <4>2
    <3>6. Eased
      BY <3>2, <3>4, <3>5 DEF Eased
    <3>. QED  BY <1>2, <2>5, <3>1, <3>6, WriteSame DEF AddsGroup
  <2>. QED  BY <2>1, <2>3, <2>4, <2>5
<1>3. CASE NextTx
  <2>1. /\ Advance(-1, -TxAt.fee)
        /\ frames'[1].form = frames[1].form /\ Allowed
        /\ net'.left = net.left - 1 /\ net'.credit = net.credit /\ net'.budget = net.budget
        /\ net'.cost \in {0, net.cost} /\ (Started(frames') => Started(frames))
    BY <1>3, TakeMoves
  <2>2. Eased
    <3>1. net.cost \in Nat /\ net.budget \in Nat
      BY DEF CallInv, Nets
    <3>. QED  BY <2>1, <3>1 DEF Eased
  <2>3. shared' = shared /\ (~shared => store' = store)
    <3>1. Clears = {}
      <4>1. ASSUME NEW j \in Clears PROVE FALSE
        BY <1>3, NextTxIs, ClearIsSecond DEF Clears, InGroup
      <4>. QED  BY <4>1
    <3>2. AppSound(Charged.s) /\ AppSound(Moved.s)
          /\ (Allowed /\ IsCall(TxAt) => AppSound(Begun.s))
      BY <1>3, NextTxIs, NextTxLedgers
    <3>3. Write(Begun.s) \/ FinishTx(Moved.s, frames, CountedNet)
      BY <1>3, <3>1, <3>2, NextTxIs, UnwindIs
    <3>. QED  BY <3>3, WriteSame DEF FinishTx
  <2>. QED  BY <1>3, <2>1, <2>2, <2>3 DEF TakesOne
<1>4. CASE ITxnReturn
  BY <1>4, ReturnMoves DEF Goes, Eased
<1>5. ~Commit
  BY DEF Commit
<1>. QED  BY <1>1, <1>2, <1>3, <1>4, <1>5
          DEF Next, Submit, DirectCall, Take, IfNew, AppGlobalPut, AppGlobalDel, AppLocalPut,
              AppLocalDel, ITxnBegin, ITxnNext, ITxnField, ITxnSubmit, Err

-----------------------------------------------------------------------------
(* The budget                                                              *)

\* Multiplication by a natural number.
LEMMA Products ==
  ASSUME NEW m \in Nat, NEW a \in Int, NEW b \in Int
  PROVE  /\ m * a \in Int /\ m * (a + b) = m * a + m * b
         /\ a <= b => m * a <= m * b
<1>1. m * a \in Int /\ m * (a + b) = m * a + m * b
  OBVIOUS
<1>2. ASSUME a <= b PROVE m * a <= m * b
  <2>. DEFINE d == b - a
  <2>1. d \in Nat /\ b = a + d
    BY <1>2
  <2>. HIDE DEF d
  <2>2. m * (a + d) = m * a + m * d /\ m * d \in Nat
    BY <2>1
  <2>. QED  BY <1>1, <2>1, <2>2
<1>. QED  BY <1>1, <1>2

\* What is to come is a number.
LEMMA ToComeInt ==
  ASSUME CallInv, frames # <<>>
  PROVE  ToCome(frames) \in Int /\ DueToCome(frames) \in Int
<1>1. /\ ToCome(frames) = AheadAll(Below) + Ahead(Current) + Here(Current)
      /\ DueToCome(frames) = DuesAll(Below) + Dues(Current) + DueHere(Current)
      /\ AheadAll(Below) \in Int /\ DuesAll(Below) \in Int
  BY TopCounts
<1>2. Current \in Frames
  BY OnTop
<1>3. Ahead(Current) \in Int /\ Dues(Current) \in Int /\ Here(Current) \in Int
  BY <1>2, FrameCounts
<1>4. DueHere(Current) \in Int
  <2>1. CASE Current.form = "group" /\ Current.at <= Len(Current.txs)
    <3>1. InGroup
      BY <2>1 DEF InGroup
    <3>2. Current.txs[Current.at] \in AppTx
      BY <2>1, <3>1, GroupTop
    <3>3. Current.txs[Current.at].fee \in Int
      BY <3>2 DEF AppTx
    <3>. QED  BY <2>1, <3>3 DEF DueHere
  <2>2. CASE ~(Current.form = "group" /\ Current.at <= Len(Current.txs))
    BY <2>2 DEF DueHere
  <2>. QED  BY <2>1, <2>2
<1>. QED  BY <1>1, <1>3, <1>4

\* The transactions that the property counts.
LEMMA PendingIs ==
  ASSUME CallInv, frames # <<>>
  PROVE  Pending = ToCome(frames)
<1>. DEFINE n == Depth - 1
            q == [k \in DOMAIN Below |-> Ahead(Below[k])]
            r == [k \in DOMAIN frames |->
                    IF frames[k].form = "group"
                    THEN Len(frames[k].txs) - frames[k].at + (IF k = Depth THEN 1 ELSE 0) ELSE 0]
<1>1. /\ Depth \in Nat \ {0} /\ Depth = Len(frames) /\ frames \in Seq(Frames)
      /\ Current \in Frames /\ Below \in Seq(Frames) /\ Len(Below) = Depth - 1
      /\ \A k \in 1..(Depth - 1) : Below[k] = frames[k]
  BY OnTop
<1>2. n \in Nat /\ n + 1 = Depth /\ DOMAIN Below = 1..n /\ DOMAIN frames = 1..(n + 1)
  BY <1>1
<1>3. DOMAIN q = 1..n /\ DOMAIN r = 1..(n + 1)
  BY <1>2
<1>4. ASSUME NEW k \in 1..n PROVE q[k] \in Int /\ r[k] = q[k]
  <2>1. Below[k] \in Frames /\ Below[k] = frames[k] /\ k # Depth /\ k \in DOMAIN frames
        /\ k \in DOMAIN Below
    BY <1>1, <1>2
  <2>2. q[k] = Ahead(frames[k]) /\ Ahead(frames[k]) \in Int
    BY <2>1, FrameCounts
  <2>3. r[k] = IF frames[k].form = "group" THEN Len(frames[k].txs) - frames[k].at + 0 ELSE 0
    BY <2>1
  <2>4. CASE frames[k].form = "group"
    <3>1. frames[k] \in GroupFrames
      BY <2>1, <2>4 DEF Frames, ProgramFrames
    <3>2. Len(frames[k].txs) \in Nat /\ frames[k].at \in Nat
      BY <3>1 DEF GroupFrames
    <3>. QED  BY <2>2, <2>3, <2>4, <3>2 DEF Ahead
  <2>. QED  BY <2>2, <2>3, <2>4 DEF Ahead
<1>5. r[n + 1] = Ahead(Current) + Here(Current) /\ r[n + 1] \in Int
  <2>1. Ahead(Current) \in Int /\ Here(Current) \in Int
    BY <1>1, FrameCounts
  <2>2. r[n + 1] = IF Current.form = "group" THEN Len(Current.txs) - Current.at + 1 ELSE 0
    BY <1>2 DEF Current
  <2>3. CASE Current.form = "group"
    BY <2>1, <2>2, <2>3 DEF Ahead, Here
  <2>4. CASE Current.form # "group"
    BY <2>1, <2>2, <2>4 DEF Ahead, Here
  <2>. QED  BY <2>1, <2>3, <2>4
<1>6. Pending = Sum(r) /\ AheadAll(Below) = Sum(q)
  BY DEF Pending, AheadAll
<1>. HIDE DEF q, r
<1>7. Sum(r) = Sum(q) + r[n + 1] /\ Sum(q) \in Int
  BY <1>2, <1>3, <1>4, <1>5, SumOfPush
<1>8. /\ ToCome(frames) = AheadAll(Below) + Ahead(Current) + Here(Current)
      /\ AheadAll(Below) \in Int
  BY TopCounts
<1>9. Ahead(Current) \in Int /\ Here(Current) \in Int
  BY <1>1, FrameCounts
<1>. QED  BY <1>5, <1>6, <1>7, <1>8, <1>9

\* A stack of one frame.
LEMMA OneCounts ==
  ASSUME NEW f \in Frames, DueHere(f) \in Int
  PROVE  /\ ToCome(<<f>>) = Ahead(f) + Here(f) /\ DueToCome(<<f>>) = Dues(f) + DueHere(f)
         /\ Started(<<f>>) <=> f.form = "program" /\ f.pc > 1
<1>1. <<f>> = Append(<<>>, f) /\ <<>> \in Seq(Frames)
  OBVIOUS
<1>2. AheadAll(<<>>) = 0 /\ DuesAll(<<>>) = 0
  <2>1. DOMAIN <<>> = {}
    OBVIOUS
  <2>2. ASSUME NEW q, DOMAIN q = {} PROVE Sum(q) = 0
    BY <2>2, SumIsFold, SumOverNothing
  <2>. DEFINE q == [k \in DOMAIN <<>> |-> Ahead(<<>>[k])]
              r == [k \in DOMAIN <<>> |-> Dues(<<>>[k])]
  <2>3. DOMAIN q = {} /\ DOMAIN r = {}
    BY <2>1
  <2>. HIDE DEF q, r
  <2>4. Sum(q) = 0 /\ Sum(r) = 0
    BY <2>2, <2>3
  <2>. QED  BY <2>4 DEF q, r, AheadAll, DuesAll
<1>3. /\ ToCome(Append(<<>>, f)) = AheadAll(<<>>) + Ahead(f) + Here(f)
      /\ DueToCome(Append(<<>>, f)) = DuesAll(<<>>) + Dues(f) + DueHere(f)
  BY <1>1, PushToCome
<1>4. Ahead(f) \in Int /\ Dues(f) \in Int /\ Here(f) \in Int
  BY FrameCounts
<1>5. Started(Append(<<>>, f)) <=> Started(<<>>) \/ (f.form = "program" /\ f.pc > 1)
  BY <1>1, PushStarted
<1>6. ~Started(<<>>)
  BY DEF Started
<1>. QED  BY <1>1, <1>2, <1>3, <1>4, <1>5, <1>6

\* A group that has just been submitted.
LEMMA OneGroup ==
  ASSUME NEW g \in Seq(AppTx), g # <<>>
  PROVE  LET fs == <<GroupFrame(g)>>
         IN  /\ ToCome(fs) = Len(g) /\ DueToCome(fs) = Fees(g) /\ ~Started(fs)
             /\ fs[1].form = "group" /\ fs # <<>>
<1>. DEFINE f == GroupFrame(g)
<1>1. /\ f \in Frames /\ f.form = "group" /\ Ahead(f) + 1 = Len(g)
      /\ Dues(f) + DueHere(f) = Fees(g) /\ DueHere(f) \in Nat
  BY WholeGroup
<1>. HIDE DEF f
<1>2. Here(f) = 1
  BY <1>1 DEF Here
<1>. QED  BY <1>1, <1>2, OneCounts DEF f

\* A direct call that has just begun.
LEMMA OneProgram ==
  ASSUME NEW f \in Frames, f.form = "program", f.pc = 1
  PROVE  ToCome(<<f>>) = 0 /\ ~Started(<<f>>) /\ <<f>>[1].form = "program"
<1>1. Ahead(f) = 0 /\ Dues(f) = 0 /\ Here(f) = 0 /\ DueHere(f) = 0
  BY ProgramCounts
<1>. QED  BY <1>1, OneCounts

\* The transactions counted so far and those to come; a direct call is one.
Counted == MaxTxns - net.left + ToCome(frames) + IF frames[1].form = "group" THEN 0 ELSE 1

\* The counter of transactions never exceeds its start, no program that has
\* taken a step is beyond the budget, and the budget is what the transactions
\* bring, those taken and those to come.
BudgetInv ==
  /\ net.left <= MaxTxns
  /\ frames # <<>> =>
       /\ Started(frames) => net.cost <= net.budget
       /\ net.budget <= MaxCost * Counted

\* The calls of a group are at most its transactions.
LEMMA CallsAtMost ==
  ASSUME NEW g \in Seq(AppTx)
  PROVE  LET m == Cardinality({i \in DOMAIN g : IsCall(g[i])})
         IN  m \in Nat /\ m <= Len(g) /\ Len(g) \in Nat
<1>1. DOMAIN g = 1..Len(g) /\ Len(g) \in Nat
  OBVIOUS
<1>2. IsFiniteSet(1..Len(g)) /\ Cardinality(1..Len(g)) = Len(g)
  BY <1>1, FS_Interval
<1>. DEFINE D == {i \in DOMAIN g : IsCall(g[i])}
<1>3. D \subseteq 1..Len(g)
  BY <1>1
<1>. HIDE DEF D
<1>4. Cardinality(D) \in Nat /\ Cardinality(D) <= Cardinality(1..Len(g))
  BY <1>2, <1>3, FS_Subset, FS_CardinalityType
<1>. QED  BY <1>1, <1>2, <1>4 DEF D

\* The counter of transactions that the end of a transaction or an exception
\* leaves.
LEMMA FinishLeft ==
  ASSUME NEW s, NEW fs, NEW n, "left" \in DOMAIN n, FinishTx(s, fs, n)
  PROVE  net'.left = n.left
<1>. DEFINE v == IF Len(IF n.callers = <<>> THEN <<>>
                        ELSE SubSeq(n.callers, 1, Len(n.callers) - 1)) = 1 THEN <<>>
                 ELSE IF n.callers = <<>> THEN <<>>
                      ELSE SubSeq(n.callers, 1, Len(n.callers) - 1)
<1>1. net' = [n EXCEPT !.callers = v] \/ net' = n
  BY DEF FinishTx
<1>. HIDE DEF v
<1>. QED  BY <1>1

\* So does an exception.
LEMMA UnwindLeft ==
  ASSUME NEW s, NEW n, "left" \in DOMAIN n, Unwind(s, n)
  PROVE  net'.left = n.left
<1>1. ASSUME NEW t, Thrown(t, n) PROVE net'.left = n.left
  BY <1>1 DEF Thrown
<1>2. (\E t : Thrown(t, n)) \/ (\E t, fs : FinishTx(t, fs, n))
  BY DEF Unwind
<1>. QED  BY <1>1, <1>2, FinishLeft

\* The counter of transactions never grows while a call is in progress.
LEMMA LeftFalls ==
  ASSUME CallInv, Next, frames # <<>>
  PROVE  net'.left \in Int /\ net'.left <= net.left
<1>1. net \in Nets /\ net.left \in Nat /\ "left" \in DOMAIN net
  BY DEF CallInv, Nets
<1>2. "left" \in DOMAIN Spent(1) /\ Spent(1).left = net.left
  BY SpentSame DEF SameNet
<1>3. CASE Approve
  <2>1. ASSUME NEW t, Thrown(t, Spent(1)) PROVE net'.left = net.left
    BY <1>2, <2>1 DEF Thrown
  <2>2. \/ Unwind(ctx, Spent(1)) \/ net' = Spent(1) \/ (\E t : Thrown(t, Spent(1)))
        \/ (\E t : FinishTx(t, Below, Spent(1)))
    BY <1>3 DEF Approve
  <2>. QED  BY <1>1, <1>2, <2>1, <2>2, FinishLeft, UnwindLeft
<1>4. CASE InProgram /\ ~Approve
  <2>1. PICK s : /\ Kept(s)
                 /\ \/ \E n : SameNet(n) /\ Unwind(s, n)
                    \/ Write(s) /\ (GoesOn \/ Submits)
    BY <1>4, ProgramShape
  <2>2. CASE Submits
    <3>. DEFINE c == InnerCredit(Current.inner)
                m == net.budget + MaxCost * Cardinality({i \in DOMAIN Current.inner :
                                                            IsCall(Current.inner[i])})
                v == IF Current.inner[1].app = 0 THEN net.callers
                     ELSE Append(net.callers, Current.inner[1].app)
    <3>1. net' = [net EXCEPT !.credit = c, !.inner = TRUE, !.budget = m, !.callers = v]
      BY <2>2 DEF Submits
    <3>. HIDE DEF c, m, v
    <3>2. net'.left = net.left
      BY <1>1, <3>1 DEF Nets
    <3>. QED  BY <1>1, <3>2
  <2>. QED  BY <1>1, <2>1, <2>2, UnwindLeft DEF SameNet, GoesOn
<1>5. CASE NextTx
  <2>1. InGroup /\ Current.at <= Len(Current.txs)
    BY <1>5, NextTxIs
  <2>2. /\ TypedNet \in Nets /\ TypedNet = [net EXCEPT !.kind = TypedNet.kind]
        /\ Allowed => /\ CountedNet \in Nets /\ RunNet \in Nets /\ net.left \in Nat \ {0}
                      /\ CountedNet.left = net.left - 1 /\ RunNet.left = net.left - 1
    BY <2>1, NextTxNets
  <2>3. TypedNet.left = net.left
    BY <1>1, <2>2 DEF Nets
  <2>4. "left" \in DOMAIN TypedNet /\ (Allowed => "left" \in DOMAIN CountedNet)
    BY <2>2 DEF Nets
  <2>5. net'.left = net.left \/ (Allowed /\ net'.left = net.left - 1)
    BY <1>5, <2>2, <2>3, <2>4, NextTxIs, UnwindLeft, FinishLeft
  <2>. QED  BY <1>1, <2>5
<1>6. CASE Commit
  BY <1>1, <1>6 DEF Commit
<1>7. CASE ITxnReturn
  <2>1. Unwind(ctx, Spent(1)) \/ net' = [Spent(1) EXCEPT !.inner = FALSE]
    BY <1>7 DEF ITxnReturn
  <2>. QED  BY <1>1, <1>2, <2>1, UnwindLeft
<1>. QED  BY <1>3, <1>4, <1>5, <1>6, <1>7
          DEF Next, Submit, DirectCall, Take, IfNew, AppGlobalPut, AppGlobalDel, AppLocalPut,
              AppLocalDel, ITxnBegin, ITxnNext, ITxnField, ITxnSubmit, Err

\* A group that is submitted brings a program's budget for each of its calls.
LEMMA SubmitBudget ==
  ASSUME CallInv, NEW g \in Groups, Submit(g)
  PROVE  BudgetInv'
<1>1. g \in Seq(AppTx) /\ g # <<>> /\ MaxTxns \in Nat /\ MaxCost \in Nat
  BY AppCallsAssumption
<1>. DEFINE m == Cardinality({i \in DOMAIN g : IsCall(g[i])})
            c == Fees(g) - MinFee * Len(g)
            b == MaxCost * m
<1>2. m \in Nat /\ m <= Len(g) /\ Len(g) \in Nat
  BY <1>1, CallsAtMost
<1>3. net' = [NewNet(g[1].app) EXCEPT !.credit = c, !.budget = b]
  BY DEF Submit
<1>. HIDE DEF m, c, b
<1>4. net'.left = MaxTxns /\ net'.budget = b
  BY <1>3 DEF NewNet
<1>5. frames' = <<>> \/ frames' = <<GroupFrame(g)>>
  BY DEF Submit
<1>6. CASE frames' = <<>>
  BY <1>1, <1>4, <1>6 DEF BudgetInv
<1>7. CASE frames' = <<GroupFrame(g)>>
  <2>1. ToCome(frames') = Len(g) /\ ~Started(frames') /\ frames'[1].form = "group"
    BY <1>1, <1>7, OneGroup
  <2>2. Counted' = Len(g)
    BY <1>1, <1>2, <1>4, <2>1 DEF Counted
  <2>3. b <= MaxCost * Len(g)
    BY <1>1, <1>2, Products DEF b
  <2>. QED  BY <1>1, <1>4, <2>1, <2>2, <2>3 DEF BudgetInv
<1>. QED  BY <1>5, <1>6, <1>7

\* A direct call brings the budget of one.
LEMMA DirectBudget ==
  ASSUME CallInv, CallInv', BudgetInv, NEW tx \in DirectCalls, DirectCall(tx)
  PROVE  BudgetInv'
<1>. DEFINE p == Prepare(ctx, [tx EXCEPT !.type = net.kind])
            f == ProgramOf(p.s, tx)
            v == IF p.ok THEN 0 ELSE net.cost
<1>1. net' = [net EXCEPT !.cost = v, !.budget = MaxCost] /\ frames' = IF p.ok THEN <<f>> ELSE <<>>
  BY DEF DirectCall
<1>2. f.form = "program" /\ f.pc = 1
  BY DEF ProgramOf, ProgramFrame
<1>. HIDE DEF p, f, v
<1>3. /\ net'.left = net.left /\ net'.budget = MaxCost /\ net.left \in Nat
      /\ MaxTxns \in Nat /\ MaxCost \in Nat
  BY <1>1, AppCallsAssumption DEF CallInv, Nets
<1>4. net'.left <= MaxTxns
  BY <1>3 DEF BudgetInv
<1>5. CASE frames' = <<>>
  BY <1>4, <1>5 DEF BudgetInv
<1>6. CASE frames' = <<f>>
  <2>1. f \in Frames
    <3>1. frames' \in Seq(Frames)
      BY DEF CallInv, StackOK
    <3>2. Len(<<f>>) = 1 /\ <<f>>[1] = f
      OBVIOUS
    <3>. QED  BY <1>6, <3>1, <3>2
  <2>2. ToCome(frames') = 0 /\ ~Started(frames') /\ frames'[1].form = "program"
    BY <1>2, <1>6, <2>1, OneProgram
  <2>. DEFINE d == Counted'
  <2>3. d \in Int /\ 1 <= d
    BY <1>3, <1>4, <2>2 DEF Counted
  <2>. HIDE DEF d
  <2>4. MaxCost * 1 <= MaxCost * d /\ MaxCost * 1 = MaxCost
    BY <1>3, <2>3, Products
  <2>5. net'.budget <= MaxCost * Counted'
    BY <1>3, <2>4 DEF d
  <2>. QED  BY <1>4, <2>2, <2>5 DEF BudgetInv
<1>. QED  BY <1>1, <1>5, <1>6

\* Steps of a call keep the accounts of the budget.
LEMMA BudgetKeeps ==
  ASSUME CallInv, CallInv', BudgetInv, Next, frames # <<>>
  PROVE  BudgetInv'
<1>1. /\ net.left \in Nat /\ net'.left \in Int /\ net'.left <= MaxTxns
      /\ MaxTxns \in Nat /\ MaxCost \in Nat
      /\ net.left <= MaxTxns /\ net.budget \in Nat /\ net.cost \in Nat
      /\ net'.cost \in Nat /\ net'.budget \in Nat
  BY LeftFalls, AppCallsAssumption DEF BudgetInv, CallInv, Nets
<1>2. CASE frames' = <<>>
  BY <1>1, <1>2 DEF BudgetInv
<1>3. CASE frames' # <<>>
  <2>1. /\ Goes \/ TakesOne \/ AddsGroup
        /\ Eased /\ frames'[1].form = frames[1].form
    BY <1>3, Moves
  <2>2. Started(frames') => net'.cost <= net'.budget
    BY <1>1, <2>1 DEF Eased, BudgetInv
  <2>. DEFINE e == IF frames[1].form = "group" THEN 0 ELSE 1
              c == ToCome(frames)
              d == ToCome(frames')
  <2>3. c \in Int /\ e \in Int /\ Counted = MaxTxns - net.left + c + e
        /\ Counted' = MaxTxns - net'.left + d + e
    BY <2>1, ToComeInt DEF Counted
  <2>4. net.budget <= MaxCost * Counted
    BY DEF BudgetInv
  <2>. HIDE DEF e
  <2>5. CASE Goes
    <3>1. d = c + 0 /\ net'.left = net.left /\ net'.budget = net.budget
      BY <2>5 DEF Goes, Advance, SameNet
    <3>2. Counted' = Counted
      BY <1>1, <2>3, <3>1
    <3>. QED  BY <1>1, <2>2, <2>4, <3>1, <3>2 DEF BudgetInv
  <2>6. CASE TakesOne
    <3>1. d = c + (-1) /\ net'.left = net.left - 1 /\ net'.budget = net.budget
      BY <2>6 DEF TakesOne, Advance
    <3>2. Counted' = Counted
      BY <1>1, <2>3, <3>1
    <3>. QED  BY <1>1, <2>2, <2>4, <3>1, <3>2 DEF BudgetInv
  <2>7. CASE AddsGroup
    <3>. DEFINE txs == Current.inner
                m == Cardinality({i \in DOMAIN txs : IsCall(txs[i])})
                v == IF txs[1].app = 0 THEN net.callers ELSE Append(net.callers, txs[1].app)
                k == InnerCredit(txs)
                b == net.budget + MaxCost * m
    <3>1. txs \in Seq(AppTx) /\ d = c + Len(txs)
      BY <2>7, SubmitMoves DEF AddsGroup, Advance
    <3>2. m \in Nat /\ m <= Len(txs) /\ Len(txs) \in Nat
      BY <3>1, CallsAtMost
    <3>3. net' = [net EXCEPT !.credit = k, !.inner = TRUE, !.budget = b, !.callers = v]
      BY <2>7 DEF AddsGroup, Submits
    <3>. HIDE DEF k, b, v
    <3>4. net'.left = net.left /\ net'.budget = b
      BY <3>3 DEF CallInv, Nets
    <3>. DEFINE l == Len(txs)
    <3>. HIDE DEF m, txs, c, d
    <3>5. Counted' = Counted + l /\ Counted \in Int
      <4>1. l \in Int /\ d = c + l
        BY <3>1, <3>2
      <4>. HIDE DEF l
      <4>2. Counted' = MaxTxns - net.left + (c + l) + e /\ Counted = MaxTxns - net.left + c + e
        BY <2>3, <3>4, <4>1
      <4>. DEFINE x == MaxTxns - net.left
                  y == Counted'
                  z == Counted
      <4>3. x \in Int
        BY <1>1
      <4>. HIDE DEF x, y, z
      <4>4. y = x + (c + l) + e /\ z = x + c + e
        BY <4>2 DEF x, y, z
      <4>5. y = z + l /\ z \in Int
        BY <2>3, <4>1, <4>3, <4>4
      <4>. QED  BY <4>5 DEF y, z
    <3>6. MaxCost * (Counted + l) = MaxCost * Counted + MaxCost * l
          /\ MaxCost * Counted \in Int /\ MaxCost * l \in Int
          /\ MaxCost * m <= MaxCost * l /\ MaxCost * m \in Int
      BY <1>1, <3>2, <3>5, Products
    <3>7. net'.budget <= MaxCost * Counted'
      <4>1. net'.budget = net.budget + MaxCost * m
        BY <3>4 DEF b
      <4>2. MaxCost * Counted' = MaxCost * (Counted + l)
        BY <3>5
      <4>. DEFINE x == MaxCost * m
                  y == MaxCost * l
                  z == MaxCost * Counted
      <4>. HIDE DEF x, y, z
      <4>3. net'.budget = net.budget + x /\ MaxCost * Counted' = z + y /\ x <= y
            /\ net.budget <= z /\ x \in Int /\ y \in Int /\ z \in Int
        BY <2>4, <3>6, <4>1, <4>2 DEF x, y, z
      <4>. QED  BY <1>1, <4>3
    <3>. QED  BY <1>1, <2>2, <3>7 DEF BudgetInv
  <2>. QED  BY <2>1, <2>5, <2>6, <2>7
<1>. QED  BY <1>2, <1>3

\* So does a step that changes nothing.
LEMMA BudgetStutters ==
  ASSUME UNCHANGED vars, BudgetInv
  PROVE  BudgetInv'
BY DEF BudgetInv, Counted, vars

\* The accounts of the budget hold.
LEMMA BudgetHolds == Spec => [](CallInv /\ BudgetInv)
<1>1. Init => BudgetInv
  <2>. SUFFICES ASSUME Init PROVE BudgetInv
    OBVIOUS
  <2>1. frames = <<>> /\ net.left = MaxTxns /\ MaxTxns \in Nat
    BY AppCallsAssumption DEF Init, NewNet
  <2>. QED  BY <2>1 DEF BudgetInv
<1>2. ASSUME CallInv, CallInv', BudgetInv, [Next]_vars PROVE BudgetInv'
  <2>1. CASE Next /\ frames # <<>>
    BY <1>2, <2>1, BudgetKeeps
  <2>2. CASE Next /\ frames = <<>>
    <3>1. (\E g \in Groups : Submit(g)) \/ (\E tx \in DirectCalls : DirectCall(tx))
      BY <2>2 DEF Next, NextTx, Commit, Take, IfNew, AppGlobalPut, AppGlobalDel, AppLocalPut,
                  AppLocalDel, ITxnBegin, ITxnNext, ITxnField, ITxnSubmit, ITxnReturn, Err,
                  Approve, InGroup, InProgram
    <3>. QED  BY <1>2, <3>1, SubmitBudget, DirectBudget
  <2>3. CASE UNCHANGED vars
    BY <1>2, <2>3, BudgetStutters
  <2>. QED  BY <1>2, <2>1, <2>2, <2>3
<1>. QED  BY <1>1, <1>2, CallInvHolds, PTL DEF Spec

\* Submitted transactions pay for all the opcodes.
THEOREM BudgetIsPooled == Spec => []BudgetPooled
<1>1. CallInv /\ BudgetInv => BudgetPooled
  <2>. SUFFICES ASSUME CallInv, BudgetInv, frames # <<>> PROVE BudgetPooled
    BY DEF BudgetPooled
  <2>1. Pending = ToCome(frames)
    BY PendingIs
  <2>2. (\E k \in Programs : frames[k].pc > 1) => Started(frames)
    BY DEF Programs, Started
  <2>3. net.budget <= MaxCost * (MaxTxns - net.left + ToCome(frames)
                                 + IF frames[1].form = "group" THEN 0 ELSE 1)
    BY DEF BudgetInv, Counted
  <2>. QED  BY <2>1, <2>2, <2>3 DEF BudgetPooled, BudgetInv
<1>. QED  BY <1>1, BudgetHolds, PTL

-----------------------------------------------------------------------------
(* What minimum balances are ahead of applications                         *)

\* While the program of a new application runs, its creator has paid for an
\* application that is not in the register yet.
OwedBy(f, s, a) ==
  IF f.form = "program" /\ f.after = "create" /\ f.who = a THEN CreatorCost(s.app[0]) ELSE 0
Owed(fs, s, a) == IF fs = <<>> THEN 0 ELSE OwedBy(fs[Len(fs)], s, a)
Surplus(fs, s, a) == Excess(s, a) - Owed(fs, s, a)

\* What is owed is a natural, and makes the surplus smaller.
LEMMA OwedNat ==
  ASSUME NEW s \in AppState, NEW a \in Addr, NEW fs
  PROVE  /\ Owed(fs, s, a) \in Nat /\ Surplus(fs, s, a) \in Int /\ Excess(s, a) \in Int
         /\ Surplus(fs, s, a) <= Excess(s, a)
<1>1. s.app[0] \in Code
  BY AppLedgerAssumption DEF AppState, App
<1>2. CreatorCost(s.app[0]) \in Nat
  BY <1>1, CostNat
<1>3. Owed(fs, s, a) \in Nat
  BY <1>2 DEF Owed, OwedBy
<1>4. Excess(s, a) \in Int
  BY ExcessInt
<1>. QED  BY <1>3, <1>4 DEF Surplus

\* Where nothing is owed.
LEMMA NothingOwed ==
  ASSUME NEW s \in AppState, NEW a \in Addr, NEW fs,
         fs = <<>> \/ fs[Len(fs)].form # "program" \/ fs[Len(fs)].after # "create"
  PROVE  Owed(fs, s, a) = 0 /\ Surplus(fs, s, a) = Excess(s, a)
<1>1. Owed(fs, s, a) = 0
  BY DEF Owed, OwedBy
<1>2. Excess(s, a) \in Int
  BY ExcessInt
<1>. QED  BY <1>1, <1>2 DEF Surplus

\* Algos and keys to sign with have nothing to do with applications.
LEMMA AlikeOrderly ==
  ASSUME NEW s, AppSound(s), NEW t, AppSound(t), Alike(s, t)
  PROVE  SameExcess(s, t) /\ (KeysFit(t) <=> KeysFit(s))
<1>1. s \in AppState /\ t \in AppState
  BY DEF AppSound
<1>2. t.min = s.min /\ t.made = s.made /\ t.joined = s.joined /\ t.app = s.app
      /\ t.keys = s.keys /\ t.local = s.local
  BY DEF Alike
<1>3. SameExcess(s, t)
  BY <1>1, <1>2, ExcessSame
<1>. QED  BY <1>2, <1>3 DEF KeysFit

\* The end of a transaction changes keys to sign with only.
LEMMA FinishOrderly ==
  ASSUME NEW s, AppSound(s), NEW fs \in Seq(Frames), fs # <<>>, NEW g, g = fs[Len(fs)],
         g \in GroupFrames, g.at \in DOMAIN g.txs, g.txs[g.at].from \notin Unborn(s),
         NEW n, FinishTx(s, fs, n)
  PROVE  /\ SameExcess(s, ctx') /\ (KeysFit(s) => KeysFit(ctx'))
         /\ ctx'.amt = s.amt /\ ctx'.apps = s.apps
         /\ frames' # <<>> /\ frames'[Len(frames')].form = "group"
<1>. DEFINE tx == g.txs[g.at]
<1>1. tx \in AppTx /\ ctx' = Rekey(s, tx)
  BY DEF GroupFrames, FinishTx, Write
<1>2. tx.from \notin Unborn(s)
  OBVIOUS
<1>. HIDE DEF tx
<1>3. AppSound(ctx') /\ Alike(s, ctx') /\ ctx'.amt = s.amt
  BY <1>1, <1>2, RekeyKeeps
<1>4. SameExcess(s, ctx') /\ (KeysFit(ctx') <=> KeysFit(s))
  BY <1>3, AlikeOrderly
<1>5. frames' # <<>> /\ Len(frames') = Len(fs)
      /\ frames'[Len(fs)] = [fs[Len(fs)] EXCEPT !.at = @ + 1]
  BY FinishedStack
<1>6. [fs[Len(fs)] EXCEPT !.at = @ + 1].form = "group"
  BY DEF GroupFrames
<1>. QED  BY <1>3, <1>4, <1>5, <1>6 DEF Alike

\* Two changes that leave minimum balances ahead of applications as they were.
LEMMA SameExcessChain ==
  ASSUME NEW s, NEW t, NEW u, SameExcess(s, t), SameExcess(t, u)
  PROVE  SameExcess(s, u)
BY DEF SameExcess

\* An exception.
LEMMA UnwindOrderly ==
  ASSUME CallInv, NEW s, AppSound(s), s.apps = ctx.apps, NEW n, Unwind(s, n)
  PROVE  /\ SameExcess(s, ctx') /\ (KeysFit(s) => KeysFit(ctx'))
         /\ frames' = <<>> \/ (/\ frames' # <<>> /\ frames'[Len(frames')].form = "group"
                              /\ Depth \in Clears)
<1>1. CASE Clears = {} /\ Joins = {}
  BY <1>1 DEF Unwind, Thrown, SameExcess
<1>2. CASE Clears = {} /\ Joins # {}
  <2>. DEFINE k == CHOOSE k \in Joins : TRUE
              left == LeaveApp(s, frames[k].who, frames[k].app).s
  <2>1. k \in Joins
    BY <1>2
  <2>2. frames' = <<>> /\ ctx' = left
    BY <1>2 DEF Unwind, Thrown
  <2>. HIDE DEF k
  <2>3. frames[k] \in ProgramFrames
    BY <2>1 DEF Joins, CallInv, StackOK, FrameFits, ProgramFits
  <2>4. Orderly(s, left)
    BY <2>3, LeaveAppKeeps DEF ProgramFrames
  <2>. HIDE DEF left
  <2>. QED  BY <2>2, <2>4 DEF Orderly
<1>3. CASE Clears # {}
  <2>. DEFINE k == CHOOSE k \in Clears : TRUE
              closed == CloseApp(s, frames[k].who, frames[k].app)
              g == frames[1]
              tx == g.txs[g.at]
  <2>1. k \in Clears
    BY <1>3
  <2>2. IF closed.ok THEN FinishTx(closed.s, SubSeq(frames, 1, k - 1), n)
        ELSE Thrown(closed.s, n)
    BY <1>3 DEF Unwind
  <2>. HIDE DEF k
  <2>3. /\ k = 2 /\ Depth = 2 /\ Below = SubSeq(frames, 1, k - 1) /\ Below # <<>>
        /\ Below[Len(Below)] = g
        /\ g.form = "group" /\ Linked(g, frames[2], ctx) /\ ProgramFits(frames[2], 2, ctx)
    BY <2>1, ClearIsSecond
  <2>4. AppSound(closed.s) /\ Same(s, closed.s) /\ Orderly(s, closed.s)
    <3>1. frames[k].who \in Addr /\ frames[k].app \in App
      BY <2>3 DEF ProgramFits, ProgramFrames
    <3>. QED  BY <3>1, CloseAppKeeps
  <2>5. g \in GroupFrames /\ g.at \in DOMAIN g.txs /\ tx.from \notin Unborn(ctx)
        /\ frames \in Seq(Frames) /\ frames # <<>>
    <3>1. 1 \in 1..Len(frames) /\ frames \in Seq(Frames)
      BY <2>1, <2>3 DEF CallInv, StackOK, Clears
    <3>2. FrameFits(g, 1, ctx)
      BY <3>1 DEF CallInv, StackOK
    <3>3. g \in GroupFrames /\ g.at \in 1..Len(g.txs)
      BY <2>3, <3>2 DEF FrameFits, GroupFits, Linked
    <3>. QED  BY <2>3, <3>1, <3>3 DEF GroupFrames, Linked
  <2>6. tx.from \notin Unborn(closed.s)
    BY <2>4, <2>5 DEF Unborn, Same
  <2>7. Below \in Seq(Frames)
    BY <2>5, OnTop
  <2>. HIDE DEF closed, g
  <2>8. CASE closed.ok
    <3>. DEFINE fs == Below
    <3>1. fs \in Seq(Frames) /\ fs # <<>> /\ g = fs[Len(fs)] /\ FinishTx(closed.s, fs, n)
      BY <2>2, <2>3, <2>7, <2>8
    <3>. HIDE DEF fs
    <3>2. /\ SameExcess(closed.s, ctx') /\ (KeysFit(closed.s) => KeysFit(ctx'))
          /\ frames' # <<>> /\ frames'[Len(frames')].form = "group"
      BY <2>4, <2>5, <2>6, <3>1, FinishOrderly
    <3>. QED  BY <2>1, <2>3, <2>4, <3>2, SameExcessChain DEF Orderly
  <2>9. CASE ~closed.ok
    BY <2>2, <2>4, <2>9 DEF Thrown, Orderly
  <2>. QED  BY <2>8, <2>9
<1>. QED  BY <1>1, <1>2, <1>3

\* The end of a program's call settles what is owed.
LEMMA CompletedOrderly ==
  ASSUME CallInv, InProgram
  PROVE  LET o == Completed(ctx, Current)
         IN  /\ \A a \in Addr : Excess(o.s, a) \in {Surplus(frames, ctx, a), 0}
             /\ KeysFit(ctx) => KeysFit(o.s)
<1>. DEFINE o == Completed(ctx, Current)
            who == Current.who
            app == Current.app
<1>1. /\ ProgramFits(Current, Depth, ctx) /\ who \in Addr /\ app \in App
      /\ who \notin Unborn(ctx) /\ AppSound(ctx) /\ ctx \in AppState
      /\ frames # <<>> /\ Current = frames[Len(frames)] /\ Current.form = "program"
  BY ProgramTop DEF ProgramFrames, CallInv, AppSound, Current, Depth
<1>2. CASE Current.after = "create"
  <2>1. o = EndDeploy(ctx, who)
    BY <1>2 DEF Completed
  <2>2. ctx.apps < MaxApp /\ Runnable(ctx.app[0])
    BY <1>2, RoomForNew
  <2>3. \A a \in Addr : Owed(frames, ctx, a) = IF a = who THEN CreatorCost(ctx.app[0]) ELSE 0
    BY <1>1, <1>2 DEF Owed, OwedBy
  <2>. HIDE DEF o, who
  <2>4. /\ Excess(o.s, who) = Excess(ctx, who) - CreatorCost(ctx.app[0])
        /\ \A b \in Addr \ {who} :
             Excess(o.s, b) = IF o.ok /\ b = AppAddress[ctx.apps + 1] THEN 0 ELSE Excess(ctx, b)
        /\ KeysFit(ctx) => KeysFit(o.s)
    BY <1>1, <2>1, <2>2, EndDeployKeeps
  <2>5. ASSUME NEW a \in Addr PROVE Excess(o.s, a) \in {Surplus(frames, ctx, a), 0}
    <3>1. CASE a = who
      BY <2>3, <2>4, <3>1 DEF Surplus
    <3>2. CASE a # who
      <4>1. Excess(ctx, a) \in Int
        BY <1>1, ExcessInt
      <4>2. Surplus(frames, ctx, a) = Excess(ctx, a)
        BY <2>3, <3>2, <4>1 DEF Surplus
      <4>. QED  BY <2>4, <3>2, <4>2
    <3>. QED  BY <3>1, <3>2
  <2>. QED  BY <2>4, <2>5 DEF o
<1>3. CASE Current.after # "create"
  <2>1. app # 0 /\ Current.code \in Code
    BY <1>1, <1>3 DEF ProgramFits, ProgramFrames
  <2>2. Current.after = "update" => Runnable(Current.code)
    BY <1>1 DEF ProgramFits
  <2>3. \/ o = CloseApp(ctx, who, app) \/ o = DeleteApp(ctx, app) \/ o = Ok(ctx)
        \/ Current.after = "update" /\ o = ReplacePrograms(ctx, app, Current.code)
    BY <1>3 DEF Completed
  <2>4. \A a \in Addr : Surplus(frames, ctx, a) = Excess(ctx, a)
    BY <1>1, <1>3, NothingOwed
  <2>. HIDE DEF o, who, app
  <2>5. Orderly(ctx, o.s)
    <3>1. CASE o = CloseApp(ctx, who, app)
      BY <1>1, <3>1, CloseAppKeeps
    <3>2. CASE o = DeleteApp(ctx, app)
      BY <1>1, <2>1, <3>2, DeleteAppKeeps
    <3>3. CASE o = Ok(ctx)
      BY <3>3 DEF Ok, Orderly, SameExcess
    <3>4. CASE Current.after = "update" /\ o = ReplacePrograms(ctx, app, Current.code)
      BY <1>1, <2>1, <2>2, <3>4, ReplaceProgramsKeeps
    <3>. QED  BY <2>3, <3>1, <3>2, <3>3, <3>4
  <2>. QED  BY <2>4, <2>5 DEF o, Orderly, SameExcess
<1>. QED  BY <1>2, <1>3

\* What the call of an application asks before its program runs.
LEMMA PrepareOrderly ==
  ASSUME NEW s, AppSound(s), NEW tx, tx.from \in Addr, tx.from \notin Unborn(s),
         tx.app \in App, tx.code \in Code, Callable(tx),
         NEW f, f.after = tx.then, f.who = tx.from, f.form = "program"
  PROVE  LET p == Prepare(s, tx)
         IN  /\ \A a \in Addr : /\ Excess(p.s, a) >= Excess(s, a)
                                /\ p.ok => Excess(p.s, a) - OwedBy(f, p.s, a) = Excess(s, a)
             /\ KeysFit(s) => KeysFit(p.s)
<1>. DEFINE p == Prepare(s, tx)
            x == tx.from
            d == tx.code
<1>1. s \in AppState /\ \A a \in Addr : Excess(s, a) \in Int
  BY ExcessInt DEF AppSound
<1>2. CASE tx.then = "create"
  <2>1. p = BeginDeploy(s, x, d, tx.type)
    BY <1>2 DEF Prepare
  <2>2. d.valid => Runnable(d)
    BY DEF Callable
  <2>3. CreatorCost(d) \in Nat
    BY CostNat
  <2>. HIDE DEF p, x, d
  <2>4. /\ p.ok => p.s.app[0] = d /\ Excess(p.s, x) = Excess(s, x) + CreatorCost(d)
        /\ Excess(p.s, x) >= Excess(s, x)
        /\ \A b \in Addr \ {x} : Excess(p.s, b) = Excess(s, b)
        /\ KeysFit(s) => KeysFit(p.s)
    BY <2>1, <2>2, BeginDeployKeeps DEF x, d
  <2>5. ASSUME NEW a \in Addr
        PROVE  /\ Excess(p.s, a) >= Excess(s, a)
               /\ p.ok => Excess(p.s, a) - OwedBy(f, p.s, a) = Excess(s, a)
    <3>1. CASE a = x
      <4>1. p.ok => OwedBy(f, p.s, a) = CreatorCost(d)
        BY <1>2, <2>4, <3>1 DEF OwedBy, x
      <4>. QED  BY <1>1, <2>3, <2>4, <3>1, <4>1
    <3>2. CASE a # x
      <4>1. OwedBy(f, p.s, a) = 0
        BY <3>2 DEF OwedBy, x
      <4>. QED  BY <1>1, <2>4, <3>2, <4>1
    <3>. QED  BY <3>1, <3>2
  <2>. QED  BY <2>4, <2>5 DEF p
<1>3. CASE tx.then # "create"
  <2>1. tx.app # 0
    BY <1>3 DEF Callable
  <2>2. p = JoinApp(s, x, tx.app, tx.type) \/ p.s = s
    BY <1>3 DEF Prepare
  <2>. HIDE DEF p, x
  <2>3. Orderly(s, p.s)
    <3>1. CASE p = JoinApp(s, x, tx.app, tx.type)
      BY <2>1, <3>1, JoinAppKeeps DEF x
    <3>2. CASE p.s = s
      BY <3>2 DEF Orderly, SameExcess
    <3>. QED  BY <2>2, <3>1, <3>2
  <2>4. \A a \in Addr : OwedBy(f, p.s, a) = 0
    BY <1>3 DEF OwedBy
  <2>. QED  BY <1>1, <2>3, <2>4 DEF p, Orderly, SameExcess
<1>. QED  BY <1>2, <1>3

\* A step of a call neither asks an account for less than its applications and
\* the one it is deploying cost, nor, unless it ends the call, for more.
Settles(a) ==
  LET d == Surplus(frames', ctx', a)
  IN  \/ d = 0 \/ d = Surplus(frames, ctx, a)
      \/ frames' = <<>> /\ d >= Surplus(frames, ctx, a)

\* An exception, however it was caught, asks for no more.
LEMMA UnwindSettles ==
  ASSUME CallInv, CallInv', frames # <<>>, NEW s, AppSound(s), s.apps = ctx.apps,
         NEW n, Unwind(s, n), NEW a \in Addr, Excess(s, a) >= Excess(ctx, a),
         Clears # {} => Excess(s, a) = Excess(ctx, a)
  PROVE  Settles(a)
<1>1. /\ SameExcess(s, ctx') /\ Current = frames[Len(frames)]
      /\ frames' = <<>> \/ (/\ frames' # <<>> /\ frames'[Len(frames')].form = "group"
                           /\ Depth \in Clears)
  BY UnwindOrderly DEF Current, Depth
<1>2. ctx' \in AppState /\ ctx \in AppState /\ s \in AppState
  BY DEF CallInv, AppSound
<1>3. Surplus(frames', ctx', a) = Excess(ctx', a)
  BY <1>1, <1>2, NothingOwed
<1>4. Excess(ctx', a) = Excess(s, a)
  BY <1>1 DEF SameExcess
<1>5. /\ Surplus(frames, ctx, a) \in Int /\ Surplus(frames, ctx, a) <= Excess(ctx, a)
      /\ Excess(ctx, a) \in Int /\ Excess(s, a) \in Int
  BY <1>2, OwedNat
<1>6. CASE frames' = <<>>
  BY <1>3, <1>4, <1>5, <1>6 DEF Settles
<1>7. CASE Depth \in Clears
  <2>1. Current.after = "clear"
    BY <1>7 DEF Clears, Current
  <2>2. Surplus(frames, ctx, a) = Excess(ctx, a)
    BY <1>1, <1>2, <2>1, NothingOwed
  <2>. QED  BY <1>3, <1>4, <1>7, <2>2 DEF Settles
<1>. QED  BY <1>1, <1>6, <1>7

\* A program that goes on is the same call.
LEMMA StepSettles ==
  ASSUME CallInv, CallInv', InProgram, NEW s, Kept(s), Write(s), GoesOn \/ Submits,
         NEW a \in Addr
  PROVE  Settles(a)
<1>1. /\ frames # <<>> /\ Current = frames[Len(frames)] /\ Current.form = "program"
      /\ ProgramFits(Current, Depth, ctx) /\ ctx' = s /\ frames \in Seq(Frames)
      /\ Below \in Seq(Frames)
  BY ProgramTop, OnTop DEF Current, Depth, Write
<1>2. Excess(s, a) = Excess(ctx, a) /\ s.app = ctx.app
  BY DEF Kept, SameExcess
<1>3. s \in AppState /\ ctx \in AppState
  BY DEF CallInv, Kept, AppSound
<1>4. CASE GoesOn
  <2>1. PICK h : /\ h.form = "program" /\ h.after = Current.after /\ h.who = Current.who
                 /\ frames' = Append(Below, h)
    BY <1>4 DEF GoesOn
  <2>2. frames' # <<>> /\ frames'[Len(frames')] = h
    BY <1>1, <2>1, AppendOne
  <2>3. Owed(frames', s, a) = Owed(frames, ctx, a)
    BY <1>1, <1>2, <2>1, <2>2 DEF Owed, OwedBy
  <2>. QED  BY <1>1, <1>2, <2>3 DEF Settles, Surplus
<1>5. CASE Submits
  <2>. DEFINE g == GroupFrame(Current.inner)
  <2>1. Current.inner # <<>> /\ frames' = Append(frames, g) /\ g.form = "group"
    BY <1>5 DEF Submits, GroupFrame
  <2>. HIDE DEF g
  <2>2. frames' # <<>> /\ frames'[Len(frames')] = g
    BY <1>1, <2>1, AppendOne
  <2>3. Current.after # "create"
    BY <1>1, <2>1 DEF ProgramFits
  <2>4. Surplus(frames', s, a) = Excess(s, a) /\ Surplus(frames, ctx, a) = Excess(ctx, a)
    BY <1>1, <1>3, <2>1, <2>2, <2>3, NothingOwed
  <2>. QED  BY <1>1, <1>2, <2>4 DEF Settles
<1>. QED  BY <1>4, <1>5

\* The end of a program settles what is owed.
LEMMA ApproveSettles ==
  ASSUME CallInv, CallInv', Approve, NEW a \in Addr
  PROVE  Settles(a)
<1>. DEFINE o == Completed(ctx, Current)
            g == Below[Len(Below)]
            e == Surplus(frames, ctx, a)
<1>1. InProgram /\ frames # <<>> /\ Depth \in Nat \ {0} /\ ctx \in AppState /\ ctx' \in AppState
      /\ AppSound(ctx) /\ Below \in Seq(Frames)
  <2>1. InProgram
    BY DEF Approve
  <2>2. frames # <<>>
    BY <2>1, ProgramTop
  <2>. QED  BY <2>1, <2>2, OnTop DEF CallInv, AppSound
<1>2. AppSound(o.s) /\ o.s.apps >= ctx.apps
  BY <1>1, CompletedKeeps, AlgosAre
<1>3. Excess(o.s, a) \in {e, 0}
  <2>1. \A b \in Addr : Excess(o.s, b) \in {Surplus(frames, ctx, b), 0}
    BY <1>1, CompletedOrderly
  <2>. QED  BY <2>1
<1>4. \/ Unwind(ctx, Spent(1))
      \/ ctx' = o.s /\ frames' = <<>>
      \/ Depth > 1 /\ FinishTx(o.s, Below, Spent(1))
  BY <1>1 DEF Approve, Thrown
<1>5. Excess(ctx, a) \in Int /\ e \in Int
  BY <1>1, OwedNat
<1>. HIDE DEF o, e
<1>6. CASE Unwind(ctx, Spent(1))
  BY <1>1, <1>5, <1>6, UnwindSettles
<1>7. CASE ctx' = o.s /\ frames' = <<>>
  <2>1. Surplus(frames', ctx', a) = Excess(o.s, a)
    BY <1>1, <1>7, NothingOwed
  <2>. QED  BY <1>3, <2>1 DEF Settles, e
<1>8. CASE Depth > 1 /\ FinishTx(o.s, Below, Spent(1))
  <2>1. /\ Below # <<>> /\ g \in GroupFrames /\ g.at \in DOMAIN g.txs
        /\ g.txs[g.at].from \notin Unborn(ctx)
    BY <1>1, <1>8, GroupBelow
  <2>2. g.txs[g.at].from \notin Unborn(o.s)
    <3>1. Unborn(o.s) \subseteq Unborn(ctx)
      BY <1>1, <1>2, UnbornShrink
    <3>. QED  BY <2>1, <3>1
  <2>. DEFINE fs == Below
  <2>3. fs \in Seq(Frames) /\ fs # <<>> /\ g = fs[Len(fs)] /\ FinishTx(o.s, fs, Spent(1))
    BY <1>1, <1>8, <2>1
  <2>. HIDE DEF fs, g
  <2>4. SameExcess(o.s, ctx') /\ frames' # <<>> /\ frames'[Len(frames')].form = "group"
    BY <1>2, <2>1, <2>2, <2>3, FinishOrderly
  <2>5. Surplus(frames', ctx', a) = Excess(ctx', a) /\ Excess(ctx', a) = Excess(o.s, a)
    BY <1>1, <2>4, NothingOwed DEF SameExcess
  <2>. QED  BY <1>3, <2>5 DEF Settles, e
<1>. QED  BY <1>4, <1>6, <1>7, <1>8

\* A transaction asks for what its call begins to owe.
LEMMA NextTxSettles ==
  ASSUME CallInv, CallInv', NextTx, NEW a \in Addr
  PROVE  Settles(a)
<1>1. /\ InGroup /\ Current.at <= Len(Current.txs) /\ AppSound(ctx) /\ TxAt \in AppTx
      /\ AppSound(Charged.s) /\ Alike(ctx, Charged.s)
      /\ AppSound(Moved.s) /\ Alike(ctx, Moved.s)
      /\ frames # <<>> /\ Current.form = "group" /\ Current \in GroupFrames
      /\ Current.at \in DOMAIN Current.txs /\ Current = frames[Len(frames)]
      /\ GroupFits(Current, Depth, ctx) /\ frames \in Seq(Frames)
      /\ ctx \in AppState /\ ctx' \in AppState
  <2>1. InGroup /\ Current.at <= Len(Current.txs)
    BY NextTxIs
  <2>2. frames # <<>>
    BY <2>1 DEF InGroup
  <2>. QED  BY <2>1, <2>2, OnTop, NextTxLedgers, GroupTop
            DEF CallInv, InGroup, Current, Depth, AppSound
<1>2. Clears = {}
  <2>1. ASSUME NEW k \in Clears PROVE FALSE
    <3>1. k = 2 /\ Depth = 2 /\ frames[2].form = "program"
      BY <2>1, ClearIsSecond DEF ProgramFits, ProgramFrames
    <3>. QED  BY <1>1, <3>1 DEF Depth
  <2>. QED  BY <2>1
<1>3. Surplus(frames, ctx, a) = Excess(ctx, a) /\ Excess(ctx, a) \in Int
  BY <1>1, NothingOwed, ExcessInt
<1>4. Excess(Charged.s, a) = Excess(ctx, a) /\ Excess(Moved.s, a) = Excess(ctx, a)
  BY <1>1, AlikeOrderly DEF SameExcess
<1>5. ASSUME NEW s, AppSound(s), s.apps = ctx.apps, NEW n, Unwind(s, n),
             Excess(s, a) >= Excess(ctx, a)
      PROVE  Settles(a)
  BY <1>1, <1>2, <1>5, UnwindSettles
<1>6. Charged.s.apps = ctx.apps /\ Moved.s.apps = ctx.apps
  BY <1>1 DEF Alike
<1>7. CASE ~Allowed /\ Unwind(Charged.s, TypedNet)
  BY <1>1, <1>3, <1>4, <1>5, <1>6, <1>7
<1>8. CASE Allowed /\ ~IsCall(TxAt) /\ ~Moved.ok /\ Unwind(Moved.s, CountedNet)
  BY <1>1, <1>3, <1>4, <1>5, <1>6, <1>8
<1>9. CASE Allowed /\ ~IsCall(TxAt) /\ Moved.ok /\ FinishTx(Moved.s, frames, CountedNet)
  <2>1. TxAt.from \notin Unborn(Moved.s)
    BY <1>1, <1>6, <1>9, NextTxLedgers DEF Unborn
  <2>2. Current.txs[Current.at].from \notin Unborn(Moved.s)
    BY <2>1 DEF TxAt
  <2>. DEFINE g == Current
  <2>3. g = frames[Len(frames)] /\ g \in GroupFrames /\ g.at \in DOMAIN g.txs
        /\ g.txs[g.at].from \notin Unborn(Moved.s)
    BY <1>1, <2>2
  <2>. HIDE DEF g
  <2>4. SameExcess(Moved.s, ctx') /\ frames' # <<>> /\ frames'[Len(frames')].form = "group"
    BY <1>1, <1>9, <2>3, FinishOrderly
  <2>5. Surplus(frames', ctx', a) = Excess(ctx', a) /\ Excess(ctx', a) = Excess(Moved.s, a)
    BY <1>1, <2>4, NothingOwed DEF SameExcess
  <2>. QED  BY <1>3, <1>4, <2>5 DEF Settles
<1>10. CASE Allowed /\ IsCall(TxAt) /\ (\/ Unwind(Begun.s, CountedNet)
                                        \/ Begun.ok /\ Write(Begun.s)
                                           /\ frames' = Append(frames, ProgramOf(Begun.s, TxAt)))
  <2>. DEFINE f == ProgramOf(Begun.s, TxAt)
  <2>1. /\ TxAt.from \in Addr /\ TxAt.from \notin Unborn(Charged.s)
        /\ TxAt.app \in App /\ TxAt.code \in Code /\ Callable(TxAt)
    <3>1. Callable(TxAt)
      BY <1>1, <1>10 DEF GroupFits, TxAt
    <3>2. TxAt.from \notin Unborn(Charged.s)
      BY <1>1, <1>6, <1>10, NextTxLedgers DEF Unborn
    <3>. QED  BY <1>1, <3>1, <3>2 DEF AppTx
  <2>2. f.form = "program" /\ f.after = TxAt.then /\ f.who = TxAt.from
    BY ProgramOfIs
  <2>. HIDE DEF f
  <2>3. /\ Excess(Begun.s, a) >= Excess(Charged.s, a)
        /\ Begun.ok => Excess(Begun.s, a) - OwedBy(f, Begun.s, a) = Excess(Charged.s, a)
    BY <1>1, <2>1, <2>2, PrepareOrderly DEF Begun
  <2>4. AppSound(Begun.s) /\ Begun.s.apps = ctx.apps
    BY <1>1, <1>6, <1>10, NextTxLedgers DEF Same
  <2>5. CASE Unwind(Begun.s, CountedNet)
    BY <1>4, <1>5, <2>3, <2>4, <2>5
  <2>6. CASE Begun.ok /\ Write(Begun.s) /\ frames' = Append(frames, f)
    <3>1. frames' # <<>> /\ frames'[Len(frames')] = f
      BY <1>1, <2>6, AppendOne
    <3>2. ctx' = Begun.s
      BY <2>6 DEF Write
    <3>3. Surplus(frames', ctx', a) = Excess(Begun.s, a) - OwedBy(f, Begun.s, a)
      BY <3>1, <3>2 DEF Surplus, Owed
    <3>. QED  BY <1>3, <1>4, <2>3, <2>6, <3>3 DEF Settles
  <2>. QED  BY <1>10, <2>5, <2>6 DEF f
<1>. QED  BY NextTxIs, <1>7, <1>8, <1>9, <1>10

\* So no step of a call changes what is asked beyond that.
LEMMA CallSettles ==
  ASSUME CallInv, CallInv', Next, frames # <<>>, NEW a \in Addr
  PROVE  Settles(a)
<1>1. ctx \in AppState /\ ctx' \in AppState /\ Excess(ctx, a) \in Int /\ AppSound(ctx)
  BY ExcessInt DEF CallInv, AppSound
<1>2. CASE Approve
  BY <1>2, ApproveSettles
<1>3. CASE InProgram /\ ~Approve
  <2>1. PICK s : /\ Kept(s)
                 /\ \/ \E n : SameNet(n) /\ Unwind(s, n)
                    \/ Write(s) /\ (GoesOn \/ Submits)
    BY <1>3, ProgramShape
  <2>2. ASSUME NEW n, Unwind(s, n) PROVE Settles(a)
    <3>1. AppSound(s) /\ s.apps = ctx.apps /\ Excess(s, a) = Excess(ctx, a)
      BY <2>1 DEF Kept, SameExcess
    <3>. QED  BY <1>1, <2>2, <3>1, UnwindSettles
  <2>. QED  BY <1>3, <2>1, <2>2, StepSettles
<1>4. CASE NextTx
  BY <1>4, NextTxSettles
<1>5. CASE Commit
  <2>1. frames' = <<>> /\ ctx' = ctx /\ frames[Len(frames)].form = "group"
    BY <1>5 DEF Commit, InGroup, Current, Depth
  <2>2. Surplus(frames', ctx', a) = Excess(ctx, a) /\ Surplus(frames, ctx, a) = Excess(ctx, a)
    BY <1>1, <2>1, NothingOwed
  <2>. QED  BY <2>2 DEF Settles
<1>6. CASE ITxnReturn
  <2>. DEFINE front == SubSeq(frames, 1, Depth - 2)
              c == frames[Depth - 1]
              f == [c EXCEPT !.inner = <<>>, !.submitted = @ + 1, !.pc = @ + 1]
  <2>1. \/ Unwind(ctx, Spent(1))
        \/ frames' = Append(front, f) /\ ctx' = ctx
    BY <1>6 DEF ITxnReturn
  <2>2. CASE Unwind(ctx, Spent(1))
    BY <1>1, <2>2, UnwindSettles
  <2>3. CASE frames' = Append(front, f) /\ ctx' = ctx
    <3>1. InGroup /\ Depth > 1 /\ Depth - 2 = (Depth - 1) - 1
      BY <1>6, OnTop DEF ITxnReturn
    <3>2. front \in Seq(Frames) /\ c \in ProgramFrames /\ c.after # "create"
      BY <3>1, CallerIs DEF StackOK
    <3>3. f.after = c.after
      <4>. HIDE DEF c
      <4>. QED  BY <3>2 DEF ProgramFrames
    <3>. HIDE DEF f, front
    <3>4. frames' # <<>> /\ frames'[Len(frames')] = f
      BY <2>3, <3>2, AppendOne
    <3>5. frames[Len(frames)].form = "group"
      BY <3>1 DEF InGroup, Current, Depth
    <3>6. Surplus(frames', ctx', a) = Excess(ctx, a) /\ Surplus(frames, ctx, a) = Excess(ctx, a)
      BY <1>1, <2>3, <3>2, <3>3, <3>4, <3>5, NothingOwed
    <3>. QED  BY <3>6 DEF Settles
  <2>. QED  BY <2>1, <2>2, <2>3
<1>. QED  BY <1>2, <1>3, <1>4, <1>5, <1>6
          DEF Next, Submit, DirectCall, Take, IfNew, AppGlobalPut, AppGlobalDel, AppLocalPut,
              AppLocalDel, ITxnBegin, ITxnNext, ITxnField, ITxnSubmit, Err

-----------------------------------------------------------------------------
(* What the store is after a step of a call                                *)

\* The context's state has become the store's only if they were one.
Held == shared' = shared /\ store' = IF shared THEN ctx' ELSE store

\* An exception changes the store with the context, or not at all.
LEMMA UnwindHolds ==
  ASSUME NEW s, NEW n, Unwind(s, n)
  PROVE  Held
<1>1. ASSUME NEW t, Thrown(t, n) PROVE Held
  BY <1>1 DEF Thrown, Held
<1>2. ASSUME NEW t, NEW fs, FinishTx(t, fs, n) PROVE Held
  BY <1>2 DEF FinishTx, Write, Held
<1>3. (\E t : Thrown(t, n)) \/ (\E t, fs : FinishTx(t, fs, n))
  BY DEF Unwind
<1>. QED  BY <1>1, <1>2, <1>3

\* What the store can be after a step of a call.
LEMMA StoreIs ==
  ASSUME CallInv, Next, frames # <<>>
  PROVE  \/ Held
         \/ Commit
         \/ Approve /\ Depth = 1 /\ store' \in {store, ctx'}
<1>1. CASE Approve
  <2>1. \/ Unwind(ctx, Spent(1))
        \/ Depth = 1 /\ store' \in {store, ctx'}
        \/ \E t : Thrown(t, Spent(1)) \/ FinishTx(t, Below, Spent(1))
    BY <1>1 DEF Approve
  <2>. QED  BY <1>1, <2>1, UnwindHolds DEF Thrown, FinishTx, Write, Held
<1>2. CASE InProgram /\ ~Approve
  <2>1. PICK s : (\E n : SameNet(n) /\ Unwind(s, n)) \/ Write(s)
    BY <1>2, ProgramShape
  <2>. QED  BY <2>1, UnwindHolds DEF Write, Held
<1>3. CASE NextTx
  BY <1>3, NextTxIs, UnwindHolds DEF FinishTx, Write, Held
<1>4. CASE ITxnReturn
  <2>1. Unwind(ctx, Spent(1)) \/ UNCHANGED <<store, ctx, shared>>
    BY <1>4 DEF ITxnReturn
  <2>. QED  BY <2>1, UnwindHolds DEF Held, CallInv
<1>. QED  BY <1>1, <1>2, <1>3, <1>4
          DEF Next, Submit, DirectCall, Take, IfNew, AppGlobalPut, AppGlobalDel, AppLocalPut,
              AppLocalDel, ITxnBegin, ITxnNext, ITxnField, ITxnSubmit, Err

\* What begins when nothing is in progress.
LEMMA Begins ==
  ASSUME Next, frames = <<>>
  PROVE  (\E g \in Groups : Submit(g)) \/ (\E tx \in DirectCalls : DirectCall(tx))
BY DEF Next, NextTx, Commit, Take, IfNew, AppGlobalPut, AppGlobalDel, AppLocalPut,
       AppLocalDel, ITxnBegin, ITxnNext, ITxnField, ITxnSubmit, ITxnReturn, Err,
       Approve, InGroup, InProgram

-----------------------------------------------------------------------------
(* Minimum balances                                                        *)

\* At first there are no applications and every account has the same minimum.
LEMMA GenesisExcess ==
  ASSUME Init, NEW a \in Addr
  PROVE  Excess(store, a) = 0 /\ ctx = store /\ frames = <<>>
<1>. DEFINE g == Genesis(InitialAccounts, Funds)
<1>1. store = WithApps(g) /\ ctx = store /\ frames = <<>>
  BY DEF Init
<1>2. /\ g.min = [b \in Addr |-> AccountMin]
      /\ "min" \in DOMAIN g /\ {"made", "joined"} \cap DOMAIN g = {}
  BY DEF Genesis
<1>. HIDE DEF g
<1>3. /\ store.min = g.min /\ store.made = [b \in Addr |-> {}]
      /\ store.joined = [b \in Addr |-> {}]
  BY <1>1, <1>2 DEF WithApps, Extended
<1>4. store.made[a] \ {0} = {} /\ store.joined[a] = {} /\ store.min[a] = AccountMin
  BY <1>2, <1>3
<1>5. store \in AppState
  BY InitKeeps DEF CallInv, AppSound
<1>6. AppCosts(store, a) = 0
  <2>1. AppCosts(store, a) = SumOver(CreatorCosts(store), {}) + SumOver(HolderCosts(store), {})
    BY <1>4, <1>5, CostsAre
  <2>. QED  BY <2>1, SumOverNothing
<1>7. AccountMin \in Nat
  BY LedgerAssumption
<1>. QED  BY <1>1, <1>4, <1>6, <1>7 DEF Excess

\* Groups run on a context of their own, and where there are only groups, every
\* account has what its applications and the one it is deploying cost.
ExactInv ==
  /\ \A a \in Addr : Excess(store, a) = 0
  /\ frames # <<>> =>
       /\ ~shared /\ frames[1].form = "group"
       /\ \A a \in Addr : Surplus(frames, ctx, a) = 0

\* A group begins on the store.
LEMMA SubmitSettles ==
  ASSUME CallInv, CallInv', NEW g \in Groups, Submit(g)
  PROVE  /\ ctx' = store /\ store' = store /\ shared' = FALSE
         /\ \A a \in Addr : Surplus(frames', ctx', a) = Excess(store, a)
         /\ frames' # <<>> => frames'[1].form = "group"
<1>1. ctx' = store /\ store' = store /\ shared' = FALSE
      /\ (frames' = <<>> \/ frames' = <<GroupFrame(g)>>)
  BY DEF Submit
<1>2. frames' # <<>> => Len(frames') = 1 /\ frames'[1].form = "group"
  BY <1>1 DEF GroupFrame
<1>3. ctx' \in AppState
  BY DEF CallInv, AppSound
<1>4. \A a \in Addr : Surplus(frames', ctx', a) = Excess(ctx', a)
  BY <1>2, <1>3, NothingOwed
<1>. QED  BY <1>1, <1>2, <1>4

\* A step of a group keeps minimum balances exact.
LEMMA ExactKeeps ==
  ASSUME DirectCalls = {}, CallInv, CallInv', ExactInv, Next
  PROVE  ExactInv'
<1>1. CASE frames = <<>>
  <2>1. PICK g \in Groups : Submit(g)
    BY <1>1, Begins
  <2>2. /\ ctx' = store /\ store' = store /\ shared' = FALSE
        /\ \A a \in Addr : Surplus(frames', ctx', a) = Excess(store, a)
        /\ frames' # <<>> => frames'[1].form = "group"
    BY <2>1, SubmitSettles
  <2>. QED  BY <2>2 DEF ExactInv
<1>2. CASE frames # <<>>
  <2>1. ~shared /\ frames[1].form = "group"
    BY <1>2 DEF ExactInv
  <2>2. ASSUME NEW a \in Addr
        PROVE  Surplus(frames, ctx, a) = 0 /\ (frames' # <<>> => Surplus(frames', ctx', a) = 0)
    <3>1. Settles(a) /\ Surplus(frames, ctx, a) = 0
      BY <1>2, <2>2, CallSettles DEF ExactInv
    <3>. QED  BY <3>1 DEF Settles
  <2>3. frames' # <<>> => ~shared' /\ frames'[1].form = "group"
    BY <1>2, <2>1, Moves
  <2>4. \A a \in Addr : Excess(store', a) = 0
    <3>1. CASE Commit
      <4>1. store' = ctx /\ frames[Len(frames)].form = "group" /\ ctx \in AppState
        BY <3>1 DEF Commit, InGroup, Current, Depth, CallInv, AppSound
      <4>. QED  BY <2>2, <4>1, NothingOwed
    <3>2. CASE Held
      BY <2>1, <3>2 DEF Held, ExactInv
    <3>3. ~(Approve /\ Depth = 1)
      <4>1. ASSUME Approve, Depth = 1 PROVE FALSE
        BY <2>1, <4>1, ProgramTop DEF Approve, Current
      <4>. QED  BY <4>1
    <3>. QED  BY <1>2, <3>1, <3>2, <3>3, StoreIs
  <2>. QED  BY <2>2, <2>3, <2>4 DEF ExactInv
<1>. QED  BY <1>1, <1>2

\* So they are in every state, if there are only groups.
LEMMA ExactHolds ==
  ASSUME DirectCalls = {}
  PROVE  Spec => []ExactInv
<1>1. Init => ExactInv
  <2>. SUFFICES ASSUME Init PROVE ExactInv
    OBVIOUS
  <2>. QED  BY GenesisExcess DEF ExactInv, Init
<1>2. ASSUME CallInv, CallInv', ExactInv, [Next]_vars PROVE ExactInv'
  <2>1. CASE Next
    BY <1>2, <2>1, ExactKeeps
  <2>2. CASE UNCHANGED vars
    BY <1>2, <2>2 DEF ExactInv, vars
  <2>. QED  BY <1>2, <2>1, <2>2
<1>. QED  BY <1>1, <1>2, CallInvHolds, PTL DEF Spec

\* Whatever groups and programs there are, the minimum balance of an account is
\* what its applications cost.  Direct calls that fail raise it for nothing.
THEOREM MinimumsStayExact ==
  ASSUME DirectCalls = {}
  PROVE  Spec => []MinBalanceExact
<1>1. CallInv /\ ExactInv => MinBalanceExact
  <2>. SUFFICES ASSUME CallInv, ExactInv, NEW a \in Addr
                PROVE  store.min[a] = AccountMin + AppCosts(store, a)
    BY DEF MinBalanceExact, MinMatchesApps
  <2>1. store \in AppState /\ Excess(store, a) = 0 /\ AccountMin \in Nat
    BY LedgerAssumption DEF CallInv, AppSound, ExactInv
  <2>2. AppCosts(store, a) \in Nat /\ store.min[a] \in Int
    BY <2>1, ExcessInt
  <2>. QED  BY <2>1, <2>2 DEF Excess
<1>2. Spec => []ExactInv
  BY ExactHolds
<1>. QED  BY <1>1, <1>2, CallInvHolds, PTL

\* With direct calls too, no account has less than its applications cost.
FloorInv ==
  \A a \in Addr : Excess(store, a) >= 0 /\ Surplus(frames, ctx, a) >= 0

\* A direct call asks for what its program begins to owe, or, if it fails, for
\* what it has added.
LEMMA DirectSettles ==
  ASSUME CallInv, CallInv', NEW tx \in DirectCalls, DirectCall(tx), NEW a \in Addr
  PROVE  /\ Excess(ctx', a) >= Excess(ctx, a)
         /\ \/ Surplus(frames', ctx', a) = Excess(ctx, a)
            \/ Surplus(frames', ctx', a) = Excess(ctx', a)
         /\ store' \in {store, ctx'}
<1>. DEFINE u == [tx EXCEPT !.type = net.kind]
            p == Prepare(ctx, u)
            f == ProgramOf(p.s, tx)
<1>1. /\ u.from = tx.from /\ u.then = tx.then
      /\ u.from \in Addr /\ u.app \in App /\ u.code \in Code
      /\ u.from \notin Unborn(ctx) /\ Callable(u)
      /\ f.form = "program" /\ f.after = tx.then /\ f.who = tx.from
      /\ Write(p.s) /\ frames' = IF p.ok THEN <<f>> ELSE <<>>
  BY DirectIs
<1>2. ctx' = p.s /\ frames' = (IF p.ok THEN <<f>> ELSE <<>>) /\ store' \in {store, ctx'}
  BY <1>1 DEF Write
<1>3. AppSound(ctx)
  BY DEF CallInv
<1>. HIDE DEF u, f
<1>8. /\ Excess(p.s, a) >= Excess(ctx, a)
      /\ p.ok => Excess(p.s, a) - OwedBy(f, p.s, a) = Excess(ctx, a)
  BY <1>1, <1>3, PrepareOrderly
<1>. HIDE DEF p
<1>9. CASE p.ok
  <2>1. frames' # <<>> /\ frames'[Len(frames')] = f
    BY <1>2, <1>9
  <2>2. Surplus(frames', ctx', a) = Excess(p.s, a) - OwedBy(f, p.s, a)
    BY <1>2, <2>1 DEF Surplus, Owed
  <2>. QED  BY <1>2, <1>8, <1>9, <2>2
<1>10. CASE ~p.ok
  <2>1. ctx' \in AppState
    BY DEF CallInv, AppSound
  <2>2. Surplus(frames', ctx', a) = Excess(ctx', a)
    BY <1>2, <1>10, <2>1, NothingOwed
  <2>. QED  BY <1>2, <1>8, <2>2
<1>. QED  BY <1>9, <1>10

\* No step asks an account for less than its applications cost.
LEMMA FloorKeeps ==
  ASSUME CallInv, CallInv', FloorInv, Next
  PROVE  FloorInv'
<1>. SUFFICES ASSUME NEW a \in Addr
              PROVE  Excess(store', a) >= 0 /\ Surplus(frames', ctx', a) >= 0
  BY DEF FloorInv
<1>1. /\ Excess(store, a) >= 0 /\ Surplus(frames, ctx, a) >= 0
      /\ ctx \in AppState /\ ctx' \in AppState /\ store \in AppState
  BY DEF FloorInv, CallInv, AppSound
<1>2. /\ Surplus(frames', ctx', a) <= Excess(ctx', a) /\ Excess(ctx', a) \in Int
      /\ Surplus(frames, ctx, a) <= Excess(ctx, a) /\ Excess(ctx, a) \in Int
      /\ Surplus(frames', ctx', a) \in Int /\ Surplus(frames, ctx, a) \in Int
  BY <1>1, OwedNat
<1>3. Surplus(frames', ctx', a) >= 0 /\ store' \in {store, ctx'}
  <2>1. CASE frames # <<>>
    <3>1. Settles(a)
      BY <2>1, CallSettles
    <3>2. store' \in {store, ctx'}
      BY <2>1, StoreIs DEF Held, Commit
    <3>. QED  BY <1>1, <1>2, <3>1, <3>2 DEF Settles
  <2>2. CASE frames = <<>>
    <3>1. CASE \E g \in Groups : Submit(g)
      BY <1>1, <3>1, SubmitSettles
    <3>2. CASE \E tx \in DirectCalls : DirectCall(tx)
      <4>1. /\ Excess(ctx', a) >= Excess(ctx, a)
            /\ \/ Surplus(frames', ctx', a) = Excess(ctx, a)
               \/ Surplus(frames', ctx', a) = Excess(ctx', a)
            /\ store' \in {store, ctx'}
        BY <3>2, DirectSettles
      <4>. QED  BY <1>1, <1>2, <4>1
    <3>. QED  BY <2>2, <3>1, <3>2, Begins
  <2>. QED  BY <2>1, <2>2
<1>. QED  BY <1>1, <1>2, <1>3

\* So none ever does.
LEMMA FloorHolds == Spec => []FloorInv
<1>1. Init => FloorInv
  <2>. SUFFICES ASSUME Init, NEW a \in Addr
                PROVE  Excess(store, a) >= 0 /\ Surplus(frames, ctx, a) >= 0
    BY DEF FloorInv
  <2>1. Excess(store, a) = 0 /\ ctx = store /\ frames = <<>>
    BY GenesisExcess
  <2>2. ctx \in AppState
    BY InitKeeps DEF CallInv, AppSound
  <2>. QED  BY <2>1, <2>2, NothingOwed
<1>2. ASSUME CallInv, CallInv', FloorInv, [Next]_vars PROVE FloorInv'
  <2>1. CASE Next
    BY <1>2, <2>1, FloorKeeps
  <2>2. CASE UNCHANGED vars
    BY <1>2, <2>2 DEF FloorInv, vars
  <2>. QED  BY <1>2, <2>1, <2>2
<1>. QED  BY <1>1, <1>2, CallInvHolds, PTL DEF Spec

\* Whatever callers do, also by direct calls that fail, what an account has to
\* keep is never less than the applications it has cost.
THEOREM MinimumsSuffice ==
  Spec => [](\A a \in Addr : store.min[a] >= AccountMin + AppCosts(store, a))
<1>1. CallInv /\ FloorInv => \A a \in Addr : store.min[a] >= AccountMin + AppCosts(store, a)
  <2>. SUFFICES ASSUME CallInv, FloorInv, NEW a \in Addr
                PROVE  store.min[a] >= AccountMin + AppCosts(store, a)
    OBVIOUS
  <2>1. store \in AppState /\ Excess(store, a) >= 0 /\ AccountMin \in Nat
    BY LedgerAssumption DEF CallInv, AppSound, FloorInv
  <2>2. AppCosts(store, a) \in Nat /\ store.min[a] \in Int
    BY <2>1, ExcessInt
  <2>. QED  BY <2>1, <2>2 DEF Excess
<1>. QED  BY <1>1, CallInvHolds, FloorHolds, PTL

-----------------------------------------------------------------------------
(* Who can be overdrawn                                                    *)

\* A fee that is taken was covered.
LEMMA FeeIsCovered ==
  ASSUME NEW s, AppSound(s), NEW tx \in AppTx, NEW a \in Addr
  PROVE  LET o == DeductFee(s, tx) IN o.s.amt[a] >= s.amt[a] \/ o.s.amt[a] >= 0
<1>. DEFINE f == [s.amt EXCEPT ![tx.from] = s.amt[tx.from] - ChargedFee(tx)]
            t == [s EXCEPT !.amt = f]
            o == DeductFee(s, tx)
<1>1. s \in AppState /\ tx.from \in Addr /\ ChargedFee(tx) \in Nat /\ s.amt \in [Addr -> Int]
  BY LedgerAssumption DEF AppSound, AppTx, ChargedFee, LedgerAssumption, AppState
<1>2. o = Throw(s) \/ (o.s = t /\ s.amt[tx.from] >= ChargedFee(tx))
  BY <1>1 DEF DeductFee, Debit, AppState
<1>3. t.amt = f
  <2>. HIDE DEF f
  <2>. QED  BY <1>1 DEF AppState
<1>4. s.amt[tx.from] >= ChargedFee(tx) => f[a] >= s.amt[a] \/ f[a] >= 0
  BY <1>1
<1>5. s.amt[a] \in Int /\ Throw(s).s = s
  BY <1>1 DEF Throw
<1>. HIDE DEF f, t, o
<1>6. o.s.amt[a] >= s.amt[a] \/ o.s.amt[a] >= 0
  BY <1>2, <1>3, <1>4, <1>5
<1>. QED  BY <1>6 DEF o

\* A payment takes from the sender only, and leaves nothing below zero if the
\* sender's minimum was not.
LEMMA PayRaises ==
  ASSUME NEW s, AppSound(s), NEW tx \in AppTx, s.min[tx.from] >= 0, NEW a \in Addr
  PROVE  LET o == TransferAlgo(s, tx)
         IN  /\ a # tx.from => o.s.amt[a] >= s.amt[a]
             /\ o.ok /\ a = tx.from => o.s.amt[a] >= 0
<1>. DEFINE x == tx.from
            known == s.acct \cup {tx.to}
            f == [s.amt EXCEPT ![x] = s.amt[x] - tx.amt]
            g == [f EXCEPT ![tx.to] = f[tx.to] + tx.amt]
            h == [g EXCEPT ![x] = g[x] - g[x]]
            i == [h EXCEPT ![tx.close] = h[tx.close] + g[x]]
            t == [s EXCEPT !.acct = known, !.amt = g]
            u == [s EXCEPT !.acct = known, !.amt = i]
            o == TransferAlgo(s, tx)
<1>1. s \in AppState /\ x \in Addr /\ tx.to \in Addr /\ tx.amt \in Nat /\ s.min[x] \in Int
  BY DEF AppSound, AppTx, AppState
<1>2. f \in [Addr -> Int] /\ s.amt \in [Addr -> Int]
  BY <1>1 DEF AppState
<1>3. g \in [Addr -> Int]
  BY <1>1, <1>2
<1>4. h \in [Addr -> Int] /\ h[x] = 0
  BY <1>1, <1>3
<1>5. \/ o.s = t /\ (o.ok => g[x] >= s.min[x])
      \/ o.s = u /\ tx.close \in Addr /\ tx.close # x /\ g[x] >= s.min[x]
  <2>. DEFINE k == [s EXCEPT !.acct = known]
              moved == Credit(Debit(k, x, tx.amt), tx.to, tx.amt)
              closed == Credit(Debit(moved, x, moved.amt[x]), tx.close, moved.amt[x])
  <2>1. \/ o = Throw(moved)
        \/ AboveMin(moved, x, "pay") /\ o = Ok(moved)
        \/ AboveMin(moved, x, "pay") /\ o = Ok(closed) /\ tx.close \in moved.acct \ {x}
    BY DEF TransferAlgo
  <2>2. moved = t
    BY <1>1, <1>2 DEF Debit, Credit, AppState
  <2>3. t \in AppState /\ t.amt = g /\ t.min = s.min /\ t.acct = known /\ known \in SUBSET Addr
    <3>1. known \in SUBSET Addr
      BY <1>1 DEF AppState
    <3>. HIDE DEF known, g
    <3>. QED  BY <1>1, <1>3, <3>1 DEF AppState
  <2>4. closed = [[t EXCEPT !.amt = h] EXCEPT !.amt = i]
    <3>. HIDE DEF moved, t
    <3>. QED  BY <1>1, <1>3, <2>2, <2>3 DEF Debit, Credit, AppState
  <2>5. [[t EXCEPT !.amt = h] EXCEPT !.amt = i] = u
    <3>. HIDE DEF g, h, i, known
    <3>. QED  BY <1>1 DEF AppState
  <2>6. AboveMin(moved, x, "pay") => g[x] >= s.min[x]
    <3>. HIDE DEF moved, t, g
    <3>. QED  BY <2>2, <2>3 DEF AboveMin
  <2>. HIDE DEF k, moved, closed, t, u, o, g
  <2>7. Throw(moved).s = moved /\ ~Throw(moved).ok /\ Ok(moved).s = moved /\ Ok(closed).s = closed
    BY DEF Throw, Ok
  <2>. QED  BY <2>1, <2>2, <2>3, <2>4, <2>5, <2>6, <2>7
<1>6. t.amt = g /\ u.amt = i
  <2>. HIDE DEF g, i
  <2>. QED  BY <1>1 DEF AppState
<1>7. a # x => g[a] >= s.amt[a]
  BY <1>1, <1>2, <1>3
<1>8. tx.close \in Addr /\ tx.close # x /\ g[x] >= 0 => i[x] = 0 /\ (a # x => i[a] >= g[a])
  <2>. SUFFICES ASSUME tx.close \in Addr, tx.close # x, g[x] >= 0
                PROVE  i[x] = 0 /\ (a # x => i[a] >= g[a])
    OBVIOUS
  <2>1. a # x => h[a] = g[a]
    BY <1>1, <1>3
  <2>2. i[x] = h[x]
    <3>. HIDE DEF h, g
    <3>. QED  BY <1>1, <1>4
  <2>3. i[a] = h[a] \/ i[a] = h[a] + g[x]
    <3>. HIDE DEF h, g
    <3>. QED  BY <1>1, <1>4
  <2>4. g[a] \in Int /\ g[x] \in Int /\ h[a] \in Int
    <3>. HIDE DEF h, g
    <3>. QED  BY <1>1, <1>3, <1>4
  <2>. HIDE DEF g, h, i
  <2>. QED  BY <1>4, <2>1, <2>2, <2>3, <2>4
<1>9. g[a] \in Int /\ g[x] \in Int /\ s.amt[a] \in Int
  <2>. HIDE DEF g
  <2>. QED  BY <1>1, <1>2, <1>3
<1>10. tx.close \in Addr => i[a] \in Int
  <2>. HIDE DEF g, h
  <2>. QED  BY <1>1, <1>3, <1>4
<1>. HIDE DEF f, g, h, i, t, u, o
<1>11. /\ a # x => o.s.amt[a] >= s.amt[a]
       /\ o.ok /\ a = x => o.s.amt[a] >= 0
  <2>1. CASE o.s = t /\ (o.ok => g[x] >= s.min[x])
    BY <1>1, <1>6, <1>7, <1>9, <2>1
  <2>2. CASE o.s = u /\ tx.close \in Addr /\ tx.close # x /\ g[x] >= s.min[x]
    <3>1. g[x] >= 0
      BY <1>1, <1>9, <2>2
    <3>2. i[x] = 0 /\ (a # x => i[a] >= g[a])
      BY <1>8, <2>2, <3>1
    <3>. QED  BY <1>6, <1>7, <1>9, <1>10, <2>2, <3>2
  <2>. QED  BY <1>5, <2>1, <2>2
<1>. QED  BY <1>11 DEF o

\* The end of a transaction moves no Algos and creates no application.
LEMMA FinishAmt ==
  ASSUME NEW s \in AppState, NEW fs, NEW n, FinishTx(s, fs, n)
  PROVE  ctx'.amt = s.amt /\ ctx'.apps = s.apps
<1>. DEFINE tx == fs[Len(fs)].txs[fs[Len(fs)].at]
<1>1. ctx' = Rekey(s, tx)
  BY DEF FinishTx, Write
<1>. HIDE DEF tx
<1>. QED  BY <1>1 DEF Rekey, AppState

\* A step takes an account's Algos below zero only if it throws, and it is not
\* the account of an application that is to come.
LEMMA AmtMoves ==
  ASSUME CallInv, Next, frames # <<>>, \A b \in Addr : ctx.min[b] >= 0, NEW a \in Addr
  PROVE  /\ ctx'.apps >= ctx.apps
         /\ \/ ctx'.amt[a] >= ctx.amt[a] \/ ctx'.amt[a] >= 0
            \/ frames' = <<>> /\ a \notin Unborn(ctx)
<1>1. AppSound(ctx) /\ ctx \in AppState /\ ctx.amt[a] \in Int /\ ctx.apps \in Nat
  BY AlgosAre DEF CallInv, AppSound, AppState
<1>2. CASE ctx'.amt = ctx.amt /\ ctx'.apps = ctx.apps
  BY <1>1, <1>2
<1>3. CASE Approve
  <2>. DEFINE o == Completed(ctx, Current)
  <2>1. InProgram
    BY <1>3 DEF Approve
  <2>2. /\ o.s \in AppState /\ o.s.apps >= ctx.apps
        /\ \/ o.s.amt = ctx.amt
           \/ o.s.amt = [ctx.amt EXCEPT ![AppAddress[ctx.apps + 1]] = 0]
    BY <1>1, <2>1, CompletedKeeps, CompletedAlgos DEF AppSound, Same
  <2>3. \/ Unwind(ctx, Spent(1)) \/ ctx' = o.s
        \/ \E t : t = o.s /\ FinishTx(t, Below, Spent(1))
    BY <1>3 DEF Approve, Thrown
  <2>4. o.s.amt[a] >= ctx.amt[a] \/ o.s.amt[a] >= 0
    <3>1. ctx.amt \in [Addr -> Int]
      BY <1>1 DEF AppState
    <3>. HIDE DEF o
    <3>. QED  BY <1>1, <2>2, <3>1
  <2>. HIDE DEF o
  <2>5. CASE Unwind(ctx, Spent(1))
    BY <1>1, <2>5, UnwindAlgos
  <2>6. CASE ctx' = o.s
    BY <2>2, <2>4, <2>6
  <2>7. CASE \E t : t = o.s /\ FinishTx(t, Below, Spent(1))
    BY <2>2, <2>4, <2>7, FinishAmt
  <2>. QED  BY <2>3, <2>5, <2>6, <2>7
<1>4. CASE InProgram /\ ~Approve
  <2>1. PICK s : /\ Kept(s)
                 /\ \/ \E n : SameNet(n) /\ Unwind(s, n)
                    \/ Write(s)
    BY <1>4, ProgramShape
  <2>2. ctx'.amt = s.amt /\ ctx'.apps = s.apps
    BY <2>1, UnwindAlgos DEF Kept, Write
  <2>. QED  BY <1>1, <2>1, <2>2 DEF Kept
<1>5. CASE NextTx
  <2>1. InGroup /\ Current.at <= Len(Current.txs)
    BY <1>5, NextTxIs
  <2>2. /\ TxAt \in AppTx
        /\ AppSound(Charged.s) /\ Alike(ctx, Charged.s)
        /\ AppSound(Moved.s) /\ Alike(ctx, Moved.s)
        /\ Allowed => TxAt.from \notin Unborn(ctx) /\ TxAt.from \in Addr
        /\ Allowed /\ IsCall(TxAt) => AppSound(Begun.s) /\ Same(Charged.s, Begun.s)
    BY <2>1, NextTxLedgers
  <2>3. Charged.s.amt[a] >= ctx.amt[a] \/ Charged.s.amt[a] >= 0
    BY <1>1, <2>2, FeeIsCovered DEF Charged
  <2>4. Charged.s.min[TxAt.from] >= 0
    BY <2>2 DEF Alike, AppTx
  <2>5. /\ a # TxAt.from => Moved.s.amt[a] >= Charged.s.amt[a]
        /\ Moved.ok /\ a = TxAt.from => Moved.s.amt[a] >= 0
    BY <2>2, <2>4, PayRaises DEF Moved
  <2>6. Charged.s.apps = ctx.apps /\ Moved.s.apps = ctx.apps
        /\ Charged.s.amt[a] \in Int /\ Moved.s.amt[a] \in Int
    BY <2>2 DEF Alike, AppSound, AppState
  <2>7. a # TxAt.from => Moved.s.amt[a] >= ctx.amt[a] \/ Moved.s.amt[a] >= 0
    BY <1>1, <2>3, <2>5, <2>6
  <2>8. CASE ~Allowed /\ Unwind(Charged.s, TypedNet)
    BY <1>1, <2>2, <2>3, <2>6, <2>8, UnwindAlgos
  <2>9. CASE Allowed /\ Moved.ok /\ FinishTx(Moved.s, frames, CountedNet)
    <3>1. ctx'.amt = Moved.s.amt /\ ctx'.apps = Moved.s.apps
      BY <2>2, <2>9, FinishAmt DEF AppSound
    <3>. QED  BY <1>1, <2>5, <2>6, <2>7, <2>9, <3>1
  <2>10. CASE Allowed /\ Unwind(Moved.s, CountedNet)
    <3>1. Clears = {}
      <4>1. ASSUME NEW j \in Clears PROVE FALSE
        BY <2>1, <4>1, ClearIsSecond DEF Clears, InGroup
      <4>. QED  BY <4>1
    <3>2. frames' = <<>> /\ ctx'.amt = Moved.s.amt /\ ctx'.apps = Moved.s.apps
      BY <2>2, <2>10, <3>1, UnwindIs
    <3>. QED  BY <1>1, <2>2, <2>6, <2>7, <2>10, <3>2
  <2>11. CASE Allowed /\ IsCall(TxAt) /\ (Unwind(Begun.s, CountedNet) \/ Write(Begun.s))
    <3>1. AppSound(Begun.s) /\ Begun.s.amt = Charged.s.amt /\ Begun.s.apps = ctx.apps
      BY <2>2, <2>6, <2>11 DEF Same
    <3>2. ctx'.amt = Charged.s.amt /\ ctx'.apps = ctx.apps
      BY <2>11, <3>1, UnwindAlgos DEF Write
    <3>. QED  BY <1>1, <2>3, <3>2
  <2>. QED  BY <1>5, <2>8, <2>9, <2>10, <2>11, NextTxIs
<1>6. CASE ITxnReturn
  <2>1. Unwind(ctx, Spent(1)) \/ ctx' = ctx
    BY <1>6 DEF ITxnReturn
  <2>. QED  BY <1>1, <1>2, <2>1, UnwindAlgos
<1>. QED  BY <1>2, <1>3, <1>4, <1>5, <1>6
          DEF Next, Submit, DirectCall, Take, IfNew, AppGlobalPut, AppGlobalDel, AppLocalPut,
              AppLocalDel, ITxnBegin, ITxnNext, ITxnField, ITxnSubmit, Err, Commit

\* No minimum balance is below zero.
LEMMA MinsNat ==
  ASSUME CallInv, FloorInv, NEW a \in Addr
  PROVE  ctx.min[a] >= 0
<1>1. ctx \in AppState /\ AccountMin \in Nat
  BY LedgerAssumption DEF CallInv, AppSound
<1>2. /\ Surplus(frames, ctx, a) >= 0 /\ Surplus(frames, ctx, a) <= Excess(ctx, a)
      /\ Surplus(frames, ctx, a) \in Int /\ Excess(ctx, a) \in Int
  BY <1>1, OwedNat DEF FloorInv
<1>3. AppCosts(ctx, a) \in Nat /\ ctx.min[a] \in Int
  BY <1>1, ExcessInt
<1>4. Excess(ctx, a) >= 0
  BY <1>2
<1>. QED  BY <1>1, <1>3, <1>4 DEF Excess

\* The addresses of applications to come are not overdrawn.
Funded(s) == \A a \in Unborn(s) : s.amt[a] >= 0
FundedInv == Funded(store) /\ Funded(ctx)

\* The address of an application to come is not overdrawn by a step.
LEMMA FundedKeeps ==
  ASSUME CallInv, CallInv', FloorInv, FundedInv, Next
  PROVE  FundedInv'
<1>1. AppSound(store) /\ AppSound(ctx) /\ AppSound(ctx')
  BY DEF CallInv
<1>2. CASE frames = <<>>
  <2>1. CASE \E g \in Groups : Submit(g)
    BY <2>1 DEF Submit, FundedInv
  <2>2. CASE \E tx \in DirectCalls : DirectCall(tx)
    <3>1. PICK s : Same(ctx, s) /\ Write(s)
      BY <2>2, DirectIs
    <3>2. store' \in {store, ctx'}
      BY <3>1 DEF Write
    <3>3. Same(ctx, ctx')
      BY <3>1 DEF Write
    <3>4. Funded(ctx')
      BY <3>3 DEF Same, FundedInv, Funded, Unborn
    <3>. QED  BY <3>2, <3>4 DEF FundedInv
  <2>. QED  BY <1>2, <2>1, <2>2, Begins
<1>3. CASE frames # <<>>
  <2>1. store' \in {store, ctx'}
    BY <1>3, StoreIs DEF Held, Commit
  <2>2. Unborn(ctx') \subseteq Unborn(ctx) /\ Unborn(ctx) \subseteq Addr
    <3>1. ctx'.apps >= ctx.apps
      BY <1>3, AmtMoves, MinsNat, AppCallsAssumption
    <3>. QED  BY <1>1, <3>1, UnbornShrink, UnbornAre
  <2>3. ASSUME NEW a \in Unborn(ctx') PROVE ctx'.amt[a] >= 0
    <3>1. a \in Unborn(ctx) /\ a \in Addr /\ ctx.amt[a] >= 0
      BY <2>2 DEF FundedInv, Funded
    <3>2. ctx'.amt[a] >= ctx.amt[a] \/ ctx'.amt[a] >= 0
      BY <1>3, <3>1, AmtMoves, MinsNat
    <3>3. ctx'.amt[a] \in Int /\ ctx.amt[a] \in Int
      BY <1>1, <3>1 DEF AppSound, AppState
    <3>. QED  BY <3>1, <3>2, <3>3
  <2>. QED  BY <2>1, <2>3 DEF FundedInv, Funded
<1>. QED  BY <1>2, <1>3

\* So it never is.
LEMMA FundedHolds == Spec => [](CallInv /\ FloorInv /\ FundedInv)
<1>1. Init => FundedInv
  <2>. SUFFICES ASSUME Init PROVE Funded(store)
    BY DEF FundedInv, Init
  <2>. DEFINE g == Genesis(InitialAccounts, Funds)
  <2>1. store = WithApps(g)
    BY DEF Init
  <2>2. /\ g.amt = [a \in Addr |-> IF a \in InitialAccounts THEN Funds[a] ELSE 0]
        /\ "amt" \in DOMAIN g
    BY DEF Genesis
  <2>. HIDE DEF g
  <2>3. store.amt = g.amt
    BY <2>1, <2>2 DEF WithApps, Extended
  <2>4. Unborn(store) \subseteq Addr
    BY InitKeeps, UnbornAre DEF CallInv
  <2>5. \A a \in Addr : store.amt[a] \in Nat
    BY <2>2, <2>3, AppCallsAssumption
  <2>. QED  BY <2>4, <2>5 DEF Funded
<1>2. ASSUME CallInv, CallInv', FloorInv, FundedInv, [Next]_vars PROVE FundedInv'
  <2>1. CASE Next
    BY <1>2, <2>1, FundedKeeps
  <2>2. CASE UNCHANGED vars
    BY <1>2, <2>2 DEF FundedInv, vars
  <2>. QED  BY <1>2, <2>1, <2>2
<1>. QED  BY <1>1, <1>2, CallInvHolds, FloorHolds, PTL DEF Spec

-----------------------------------------------------------------------------
(* Fees                                                                    *)

\* The Algos that a step of a call takes from the accounts.
Lost == Sum(ctx.amt) - Sum(ctx'.amt)

\* A step that ends no call takes at least the fee that its transaction offers.
LEMMA LostIs ==
  ASSUME CallInv, CallInv', FundedInv, Next, frames # <<>>, frames' # <<>>
  PROVE  /\ Lost \in Int /\ Lost >= 0
         /\ NextTx => Lost >= TxAt.fee /\ TxAt.fee \in Nat
<1>1. /\ ctx.apps \in Nat /\ ctx'.apps \in Nat /\ ctx'.apps <= MaxApp
      /\ Sum(ctx.amt) \in Int /\ Sum(ctx'.amt) \in Int
  BY AlgosAre, AppNumbers DEF CallInv
<1>2. AlgosStep
  BY AlgosKept
<1>3. ASSUME InGroup, Current.at <= Len(Current.txs)
      PROVE  TxAt.fee \in Nat /\ ChargedFee(TxAt) \in Nat /\ ChargedFee(TxAt) >= TxAt.fee
  <2>1. TxAt \in AppTx /\ MinFee \in Nat
    BY <1>3, NextTxLedgers, LedgerAssumption
  <2>. QED  BY <2>1 DEF AppTx, ChargedFee
<1>4. CASE ctx'.apps > ctx.apps
  <2>1. ctx'.apps \in (ctx.apps + 1)..MaxApp
    BY <1>1, <1>4, AppLedgerAssumption
  <2>2. ctx.amt[AppAddress[ctx'.apps]] >= 0
    BY <2>1 DEF FundedInv, Funded, Unborn
  <2>3. ~NextTx
    <3>. SUFFICES ASSUME NextTx PROVE ctx'.apps = ctx.apps
      BY <1>1, <1>4
    <3>1. InGroup /\ Current.at <= Len(Current.txs)
      BY NextTxIs
    <3>2. Clears = {}
      <4>1. ASSUME NEW j \in Clears PROVE FALSE
        BY <3>1, <4>1, ClearIsSecond DEF Clears, InGroup
      <4>. QED  BY <4>1
    <3>3. /\ AppSound(Charged.s) /\ Alike(ctx, Charged.s)
          /\ AppSound(Moved.s) /\ Alike(ctx, Moved.s)
          /\ Allowed /\ IsCall(TxAt) => AppSound(Begun.s) /\ Same(Charged.s, Begun.s)
      BY <3>1, NextTxLedgers
    <3>4. FinishTx(Moved.s, frames, CountedNet) \/ (Allowed /\ IsCall(TxAt) /\ Write(Begun.s))
      BY <3>2, <3>3, NextTxIs, UnwindIs
    <3>. QED  BY <3>3, <3>4, FinishAmt DEF Alike, Same, Write, AppSound
  <2>. QED  BY <1>1, <1>2, <1>4, <2>2, <2>3 DEF AlgosStep, Lost
<1>5. CASE ~(ctx'.apps > ctx.apps) /\ InGroup /\ Current.at <= Len(Current.txs)
  <2>1. Lost = ChargedFee(TxAt)
    BY <1>2, <1>5 DEF AlgosStep, Lost, TxAt
  <2>. QED  BY <1>3, <1>5, <2>1
<1>6. CASE ~(ctx'.apps > ctx.apps) /\ ~(InGroup /\ Current.at <= Len(Current.txs))
  <2>1. Lost = 0 /\ ~NextTx
    BY <1>2, <1>6, NextTxIs DEF AlgosStep, Lost
  <2>. QED  BY <2>1
<1>. QED  BY <1>4, <1>5, <1>6

\* Of a group: what its accounts have paid so far, with the fees of what is still
\* to come, covers the minimum fee of every transaction and the credit.
CountedTxns == MaxTxns - net.left + ToCome(frames)
PaidInv ==
  frames # <<>> /\ frames[1].form = "group" =>
    /\ ~shared /\ net.credit >= 0
    /\ Sum(store.amt) - Sum(ctx.amt) + DueToCome(frames) >= MinFee * CountedTxns + net.credit

\* A group that begins offers enough.
LEMMA SubmitPays ==
  ASSUME CallInv, CallInv', NEW g \in Groups, Submit(g)
  PROVE  PaidInv'
<1>. SUFFICES ASSUME frames' # <<>>
              PROVE  /\ ~shared' /\ net'.credit >= 0
                     /\ Sum(store'.amt) - Sum(ctx'.amt) + DueToCome(frames')
                          >= MinFee * CountedTxns' + net'.credit
  BY DEF PaidInv
<1>. DEFINE c == Fees(g) - MinFee * Len(g)
            b == MaxCost * Cardinality({i \in DOMAIN g : IsCall(g[i])})
<1>1. /\ ctx' = store /\ store' = store /\ ~shared' /\ FeesCovered(g)
      /\ frames' = <<GroupFrame(g)>>
      /\ net' = [NewNet(g[1].app) EXCEPT !.credit = c, !.budget = b]
  BY DEF Submit
<1>2. g \in Seq(AppTx) /\ g # <<>> /\ MaxTxns \in Nat /\ MinFee \in Nat /\ Len(g) \in Nat
  BY AppCallsAssumption, LedgerAssumption
<1>3. Fees(g) >= MinFee * Len(g)
  BY <1>1 DEF FeesCovered, Fees
<1>4. Fees(g) \in Int
  BY <1>2, WholeGroup
<1>5. MinFee * Len(g) \in Int
  BY <1>2, Products
<1>6. ToCome(frames') = Len(g) /\ DueToCome(frames') = Fees(g)
  BY <1>1, <1>2, OneGroup
<1>7. Sum(store'.amt) - Sum(ctx'.amt) = 0
  <2>1. Sum(ctx'.amt) \in Int
    BY AlgosAre DEF CallInv
  <2>. QED  BY <1>1, <2>1
<1>. HIDE DEF c, b
<1>8. net'.left = MaxTxns /\ net'.credit = c
  BY <1>1 DEF NewNet
<1>9. CountedTxns' = Len(g)
  BY <1>2, <1>6, <1>8 DEF CountedTxns
<1>. DEFINE x == MinFee * Len(g)
            y == Fees(g)
<1>10. c = y - x /\ x \in Int /\ y \in Int /\ y >= x /\ MinFee * CountedTxns' = x
  BY <1>3, <1>4, <1>5, <1>9 DEF c
<1>11. Sum(store'.amt) - Sum(ctx'.amt) + DueToCome(frames') = y
  BY <1>6, <1>7, <1>10
<1>. HIDE DEF x, y
<1>. QED  BY <1>1, <1>8, <1>10, <1>11

\* A step of a group keeps what is paid, and what is still offered, enough.
LEMMA PaidKeeps ==
  ASSUME CallInv, CallInv', FundedInv, PaidInv, Next, frames # <<>>
  PROVE  PaidInv'
<1>. SUFFICES ASSUME frames' # <<>>, frames'[1].form = "group"
              PROVE  /\ ~shared' /\ net'.credit >= 0
                     /\ Sum(store'.amt) - Sum(ctx'.amt) + DueToCome(frames')
                          >= MinFee * CountedTxns' + net'.credit
  BY DEF PaidInv
<1>1. /\ Goes \/ TakesOne \/ AddsGroup
      /\ frames[1].form = "group" /\ shared' = shared /\ (~shared => store' = store)
  BY Moves
<1>2. /\ ~shared /\ net.credit >= 0
      /\ Sum(store.amt) - Sum(ctx.amt) + DueToCome(frames) >= MinFee * CountedTxns + net.credit
  BY <1>1 DEF PaidInv
<1>3. /\ Lost \in Int /\ Lost >= 0
      /\ NextTx => Lost >= TxAt.fee /\ TxAt.fee \in Nat
  BY LostIs
<1>. DEFINE a == Sum(store.amt)
            b == Sum(ctx.amt)
            d == DueToCome(frames)
            t == ToCome(frames)
            m == MinFee * CountedTxns
<1>4. /\ a \in Int /\ b \in Int /\ Sum(ctx'.amt) = b - Lost /\ Sum(store'.amt) = a
  <2>1. Sum(ctx'.amt) \in Int /\ b \in Int /\ a \in Int
    BY AlgosAre DEF CallInv
  <2>2. Sum(store'.amt) = a
    BY <1>1, <1>2
  <2>. QED  BY <2>1, <2>2 DEF Lost
<1>5. /\ d \in Int /\ t \in Int /\ net.left \in Nat /\ net.credit \in Int
      /\ MaxTxns \in Nat /\ MinFee \in Nat
  BY ToComeInt, AppCallsAssumption, LedgerAssumption DEF CallInv, Nets
<1>6. CountedTxns \in Int /\ m \in Int
  <2>1. CountedTxns \in Int
    BY <1>5 DEF CountedTxns
  <2>. QED  BY <1>5, <2>1, Products
<1>7. a - b + d >= m + net.credit
  BY <1>2
<1>8. /\ CountedTxns = MaxTxns - net.left + t
      /\ CountedTxns' = MaxTxns - net'.left + ToCome(frames')
  BY DEF CountedTxns
<1>9. ~shared'
  BY <1>1, <1>2
<1>10. CASE Goes
  <2>1. /\ net'.left = net.left /\ net'.credit = net.credit
        /\ ToCome(frames') = t + 0 /\ DueToCome(frames') = d + 0
    BY <1>10 DEF Goes, Advance, SameNet
  <2>2. CountedTxns' = CountedTxns
    BY <1>5, <1>8, <2>1
  <2>3. MinFee * CountedTxns' = m
    BY <2>2
  <2>. HIDE DEF a, b, d, t, m
  <2>4. Sum(store'.amt) - Sum(ctx'.amt) + DueToCome(frames') = a - (b - Lost) + d
    BY <1>4, <1>5, <2>1
  <2>. QED  BY <1>2, <1>3, <1>4, <1>5, <1>6, <1>7, <1>9, <2>1, <2>3, <2>4
<1>11. CASE TakesOne
  <2>. DEFINE f == TxAt.fee
  <2>1. /\ net'.left = net.left - 1 /\ net'.credit = net.credit
        /\ ToCome(frames') = t + (-1) /\ DueToCome(frames') = d + (-f)
        /\ f \in Nat /\ Lost >= f
    BY <1>3, <1>11 DEF TakesOne, Advance
  <2>2. CountedTxns' = CountedTxns
    BY <1>5, <1>8, <2>1
  <2>3. MinFee * CountedTxns' = m
    BY <2>2
  <2>. HIDE DEF a, b, d, t, m, f
  <2>4. Sum(store'.amt) - Sum(ctx'.amt) + DueToCome(frames') = a - (b - Lost) + (d + (-f))
    BY <1>4, <1>5, <2>1
  <2>. QED  BY <1>2, <1>3, <1>4, <1>5, <1>6, <1>7, <1>9, <2>1, <2>3, <2>4
<1>12. CASE AddsGroup
  <2>. DEFINE txs == Current.inner
              k == InnerCredit(txs)
              v == IF txs[1].app = 0 THEN net.callers ELSE Append(net.callers, txs[1].app)
              n == net.budget + MaxCost * Cardinality({i \in DOMAIN txs : IsCall(txs[i])})
              l == Len(txs)
              f == Fees(txs)
  <2>1. /\ txs \in Seq(AppTx) /\ txs # <<>>
        /\ ToCome(frames') = t + l /\ DueToCome(frames') = d + f
    BY <1>12, SubmitMoves DEF AddsGroup, Advance
  <2>2. l \in Nat /\ f \in Int
    BY <2>1, WholeGroup
  <2>3. k >= 0 /\ net' = [net EXCEPT !.credit = k, !.inner = TRUE, !.budget = n, !.callers = v]
    BY <1>12 DEF AddsGroup, Submits, FeesEnough
  <2>4. k = f + net.credit - MinFee * l
    BY DEF InnerCredit
  <2>. HIDE DEF k, v, n
  <2>5. net'.credit = k /\ net'.left = net.left
    BY <2>3 DEF CallInv, Nets
  <2>6. CountedTxns' = CountedTxns + l
    <3>. HIDE DEF t, l
    <3>. QED  BY <1>5, <1>8, <2>1, <2>2, <2>5
  <2>7. MinFee * (CountedTxns + l) = m + MinFee * l /\ MinFee * l \in Int
    <3>. HIDE DEF l
    <3>. QED  BY <1>5, <1>6, <2>2, Products
  <2>. DEFINE p == MinFee * l
  <2>8. MinFee * CountedTxns' = m + p /\ p \in Int /\ k = f + net.credit - p
    BY <2>4, <2>6, <2>7
  <2>. HIDE DEF a, b, d, t, m, f, l, p
  <2>9. Sum(store'.amt) - Sum(ctx'.amt) + DueToCome(frames') = a - (b - Lost) + (d + f)
    BY <1>4, <1>5, <2>1
  <2>10. a - (b - Lost) + (d + f) >= m + p + k
    <3>. DEFINE c == net.credit
                e == Lost
    <3>1. a \in Int /\ b \in Int /\ d \in Int /\ m \in Int /\ f \in Int /\ p \in Int
      BY <1>4, <1>5, <1>6, <2>2, <2>8
    <3>2. a - b + d >= m + c /\ k = f + c - p /\ c \in Int /\ e \in Int /\ e >= 0
      BY <1>3, <1>5, <1>7, <2>8
    <3>. HIDE DEF c, e
    <3>3. a - (b - e) + (d + f) >= m + p + k
      BY <3>1, <3>2
    <3>. QED  BY <3>3 DEF e
  <2>. QED  BY <1>9, <2>3, <2>5, <2>8, <2>9, <2>10
<1>. QED  BY <1>1, <1>10, <1>11, <1>12

\* So it always is.
LEMMA PaidHolds == Spec => [](CallInv /\ PaidInv)
<1>1. Init => PaidInv
  BY DEF Init, PaidInv
<1>2. ASSUME CallInv, CallInv', FundedInv, PaidInv, [Next]_vars PROVE PaidInv'
  <2>1. CASE Next /\ frames # <<>>
    BY <1>2, <2>1, PaidKeeps
  <2>2. CASE Next /\ frames = <<>>
    <3>1. CASE \E g \in Groups : Submit(g)
      BY <1>2, <3>1, SubmitPays
    <3>2. CASE \E tx \in DirectCalls : DirectCall(tx)
      <4>1. PICK f : f.form = "program" /\ (frames' = <<>> \/ frames' = <<f>>)
        BY <1>2, <3>2, DirectIs
      <4>. QED  BY <4>1 DEF PaidInv
    <3>. QED  BY <2>2, <3>1, <3>2, Begins
  <2>3. CASE UNCHANGED vars
    BY <1>2, <2>3 DEF PaidInv, CountedTxns, vars
  <2>. QED  BY <1>2, <2>1, <2>2, <2>3
<1>. QED  BY <1>1, <1>2, FundedHolds, PTL DEF Spec

\* Whatever the programs submit, a group that comes to its end has paid for all
\* the transactions it made.
THEOREM FeesArePaid == Spec => []FeesPaid
<1>1. CallInv /\ PaidInv => FeesPaid
  <2>. SUFFICES ASSUME CallInv, PaidInv, InGroup, Depth = 1, Current.at > Len(Current.txs)
                PROVE  Sum(store.amt) - Sum(ctx.amt) >= MinFee * (MaxTxns - net.left)
    BY DEF FeesPaid
  <2>1. /\ frames # <<>> /\ Current.form = "group" /\ frames[1] = Current
        /\ frames \in Seq(Frames) /\ Len(frames) = 1
    BY OnTop DEF InGroup, Current, Depth
  <2>2. Current \in GroupFrames /\ Current.at = Len(Current.txs) + 1 /\ Current \in Frames
    <3>1. FrameFits(Current, Depth, ctx) /\ Current \in Frames
      BY <2>1, OnTop
    <3>2. Current \in GroupFrames /\ Current.at \in 1..(Len(Current.txs) + 1)
      BY <2>1, <3>1 DEF FrameFits, GroupFits
    <3>3. Len(Current.txs) \in Nat /\ Current.at \in Nat
      BY <3>2 DEF GroupFrames
    <3>. QED  BY <3>1, <3>2, <3>3
  <2>. DEFINE g == Current
  <2>3. frames = <<g>>
    BY <2>1
  <2>. HIDE DEF g
  <2>4. g \in GroupFrames /\ g.at = Len(g.txs) + 1 /\ g \in Frames
    BY <2>2 DEF g
  <2>5. DueHere(g) = 0
    <3>1. Len(g.txs) \in Nat
      BY <2>4 DEF GroupFrames
    <3>. QED  BY <2>4, <3>1 DEF DueHere
  <2>6. ToCome(frames) = 0 /\ DueToCome(frames) = 0
    BY <2>3, <2>4, <2>5, OneCounts, GroupOver
  <2>7. net.credit >= 0
        /\ Sum(store.amt) - Sum(ctx.amt) + DueToCome(frames) >= MinFee * CountedTxns + net.credit
    BY <2>1 DEF PaidInv
  <2>8. CountedTxns = MaxTxns - net.left /\ MaxTxns - net.left \in Int /\ net.credit \in Int
    BY <2>6, AppCallsAssumption DEF CountedTxns, CallInv, Nets
  <2>. DEFINE m == MinFee * (MaxTxns - net.left)
              e == Sum(store.amt) - Sum(ctx.amt)
  <2>9. m \in Int /\ e \in Int
    <3>1. MinFee \in Nat
      BY LedgerAssumption
    <3>2. Sum(store.amt) \in Int /\ Sum(ctx.amt) \in Int
      BY AlgosAre DEF CallInv
    <3>. QED  BY <2>8, <3>1, <3>2, Products
  <2>10. e + 0 >= m + net.credit
    BY <2>6, <2>7, <2>8
  <2>. HIDE DEF m, e
  <2>11. e >= m
    BY <2>7, <2>8, <2>9, <2>10
  <2>. QED  BY <2>11 DEF m, e
<1>. QED  BY <1>1, PaidHolds, PTL

-----------------------------------------------------------------------------
(* Schemas and balances of the store                                       *)

\* A write that throws ends the call: clear-state programs, which catch it, have
\* none.
LEMMA WritesEnd ==
  ASSUME ClearsTidy, CallInv, InProgram, NEW s, Kept(s), ThrowsAtWrite(s)
  PROVE  frames' = <<>>
<1>1. PICK n : Step.op \in {"put", "lput"} /\ Unwind(s, n)
  BY DEF ThrowsAtWrite
<1>2. frames' = <<>> \/ Depth \in Clears
  BY <1>1, UnwindOrderly DEF Kept
<1>3. ProgramFits(Current, Depth, ctx) /\ frames # <<>> /\ Current.pc <= Len(Current.steps)
      /\ Current.pc \in Nat \ {0} /\ Len(Current.steps) \in Nat
  BY ProgramTop DEF ProgramFrames, InProgram
<1>4. ASSUME Depth \in Clears PROVE FALSE
  <2>1. NoPuts(Current.steps)
    BY <1>3, <1>4 DEF Clears, Current, ProgramFits
  <2>2. Current.pc \in 1..Len(Current.steps)
    BY <1>3
  <2>. QED  BY <1>1, <2>1, <2>2 DEF NoPuts, Step
<1>. QED  BY <1>2, <1>4

\* A step that ends no call leaves states within their schemas.
LEMMA FitMoves ==
  ASSUME ClearsTidy, CallInv, Next, KeysFit(ctx), frames # <<>>, frames' # <<>>
  PROVE  KeysFit(ctx')
<1>1. AppSound(ctx) /\ ctx \in AppState
  BY DEF CallInv, AppSound
<1>2. ASSUME NEW s, AppSound(s), s.apps = ctx.apps, KeysFit(s), NEW n, Unwind(s, n)
      PROVE  KeysFit(ctx')
  BY <1>2, UnwindOrderly
<1>3. CASE Approve
  <2>. DEFINE o == Completed(ctx, Current)
              fs == Below
              g == fs[Len(fs)]
  <2>1. InProgram /\ Depth \in Nat \ {0} /\ fs \in Seq(Frames)
    <3>1. InProgram
      BY <1>3 DEF Approve
    <3>. QED  BY <3>1, ProgramTop, OnTop
  <2>2. AppSound(o.s) /\ KeysFit(o.s) /\ o.s.apps >= ctx.apps
    BY <1>1, <2>1, CompletedKeeps, CompletedOrderly, AlgosAre
  <2>3. Unwind(ctx, Spent(1)) \/ (Depth > 1 /\ FinishTx(o.s, fs, Spent(1)))
    BY <1>3, <2>1 DEF Approve, Thrown
  <2>. HIDE DEF o
  <2>4. CASE Depth > 1 /\ FinishTx(o.s, fs, Spent(1))
    <3>1. /\ fs # <<>> /\ g \in GroupFrames /\ g.at \in DOMAIN g.txs
          /\ g.txs[g.at].from \notin Unborn(ctx)
      BY <2>1, <2>4, GroupBelow
    <3>2. g.txs[g.at].from \notin Unborn(o.s)
      <4>1. ctx.apps <= o.s.apps
        BY <1>1, <2>2, AlgosAre
      <4>2. Unborn(o.s) \subseteq Unborn(ctx)
        BY <1>1, <2>2, <4>1, UnbornShrink
      <4>. QED  BY <3>1, <4>2
    <3>. HIDE DEF fs
    <3>. QED  BY <2>1, <2>2, <2>4, <3>1, <3>2, FinishOrderly
  <2>. QED  BY <1>1, <1>2, <2>3, <2>4
<1>4. CASE InProgram /\ ~Approve
  <2>1. PICK s : /\ Kept(s)
                 /\ (\E n : Unwind(s, n)) \/ Write(s)
                 /\ KeysFit(s) \/ ThrowsAtWrite(s)
    BY <1>4, ProgramShape
  <2>2. KeysFit(s)
    BY <1>4, <2>1, WritesEnd
  <2>. QED  BY <1>2, <2>1, <2>2 DEF Kept, Write
<1>5. CASE NextTx
  <2>1. InGroup /\ Current.at <= Len(Current.txs)
    BY <1>5, NextTxIs
  <2>2. /\ TxAt \in AppTx
        /\ AppSound(Charged.s) /\ Alike(ctx, Charged.s)
        /\ AppSound(Moved.s) /\ Alike(ctx, Moved.s)
        /\ Allowed => TxAt.from \notin Unborn(ctx) /\ TxAt.from \in Addr
        /\ Allowed /\ IsCall(TxAt) => AppSound(Begun.s) /\ Same(Charged.s, Begun.s)
    BY <2>1, NextTxLedgers
  <2>3. Clears = {}
    <3>1. ASSUME NEW j \in Clears PROVE FALSE
      BY <2>1, <3>1, ClearIsSecond DEF Clears, InGroup
    <3>. QED  BY <3>1
  <2>4. \/ FinishTx(Moved.s, frames, CountedNet) /\ Allowed
        \/ Allowed /\ IsCall(TxAt) /\ Write(Begun.s)
    BY <1>5, <2>2, <2>3, NextTxIs, UnwindIs
  <2>5. KeysFit(Charged.s) /\ KeysFit(Moved.s)
    BY <1>1, <2>2, AlikeOrderly
  <2>6. TxAt.from \notin Unborn(Charged.s) /\ TxAt.from \notin Unborn(Moved.s)
    BY <2>2, <2>4 DEF Unborn, Alike
  <2>7. /\ frames \in Seq(Frames) /\ Current = frames[Len(frames)] /\ Current \in GroupFrames
        /\ Current.at \in DOMAIN Current.txs /\ GroupFits(Current, Depth, ctx)
    BY <2>1, OnTop, GroupTop DEF Current, Depth
  <2>8. CASE FinishTx(Moved.s, frames, CountedNet)
    <3>. DEFINE g == Current
    <3>1. g = frames[Len(frames)] /\ g \in GroupFrames /\ g.at \in DOMAIN g.txs
          /\ g.txs[g.at].from \notin Unborn(Moved.s)
      BY <2>6, <2>7 DEF TxAt
    <3>. HIDE DEF g
    <3>. QED  BY <2>2, <2>5, <2>7, <2>8, <3>1, FinishOrderly
  <2>9. CASE Allowed /\ IsCall(TxAt) /\ Write(Begun.s)
    <3>. DEFINE f == [form |-> "program", after |-> TxAt.then, who |-> TxAt.from]
    <3>1. f.form = "program" /\ f.after = TxAt.then /\ f.who = TxAt.from
      OBVIOUS
    <3>. HIDE DEF f
    <3>2. Callable(TxAt) /\ TxAt.app \in App /\ TxAt.code \in Code /\ TxAt.from \in Addr
      BY <2>2, <2>7, <2>9 DEF GroupFits, TxAt, AppTx
    <3>3. KeysFit(Begun.s)
      BY <2>2, <2>5, <2>6, <3>1, <3>2, PrepareOrderly DEF Begun
    <3>. QED  BY <2>9, <3>3 DEF Write
  <2>. QED  BY <2>4, <2>8, <2>9
<1>6. CASE ITxnReturn
  <2>1. Unwind(ctx, Spent(1)) \/ ctx' = ctx
    BY <1>6 DEF ITxnReturn
  <2>. QED  BY <1>1, <1>2, <2>1
<1>. QED  BY <1>3, <1>4, <1>5, <1>6
          DEF Next, Submit, DirectCall, Take, IfNew, AppGlobalPut, AppGlobalDel, AppLocalPut,
              AppLocalDel, ITxnBegin, ITxnNext, ITxnField, ITxnSubmit, Err, Commit

\* What a group works on is fit to become the store.
FitInv ==
  /\ KeysFit(store) /\ \A a \in Addr : store.amt[a] >= 0
  /\ frames # <<>> => KeysFit(ctx) /\ \A a \in Addr : ctx.amt[a] >= 0

\* So a group that ends leaves the store as sound as it was.
LEMMA FitKeeps ==
  ASSUME DirectCalls = {}, ClearsTidy, CallInv, CallInv', FloorInv, ExactInv, FitInv, Next
  PROVE  FitInv'
<1>1. CASE frames = <<>>
  <2>1. ctx' = store /\ store' = store
    BY <1>1, Begins DEF Submit
  <2>. QED  BY <2>1 DEF FitInv
<1>2. CASE frames # <<>>
  <2>1. /\ ~shared /\ frames[1].form = "group"
        /\ KeysFit(ctx) /\ \A a \in Addr : ctx.amt[a] >= 0
    BY <1>2 DEF ExactInv, FitInv
  <2>2. frames' # <<>> => KeysFit(ctx')
    BY <1>2, <2>1, FitMoves
  <2>3. ASSUME frames' # <<>>, NEW a \in Addr PROVE ctx'.amt[a] >= 0
    <3>1. ctx'.amt[a] >= ctx.amt[a] \/ ctx'.amt[a] >= 0
      BY <1>2, <2>3, AmtMoves, MinsNat
    <3>2. ctx.amt[a] >= 0 /\ ctx.amt[a] \in Int /\ ctx'.amt[a] \in Int
      BY <2>1 DEF CallInv, AppSound, AppState
    <3>. QED  BY <3>1, <3>2
  <2>4. store' = store \/ store' = ctx
    <3>1. ~(Approve /\ Depth = 1)
      <4>1. ASSUME Approve, Depth = 1 PROVE FALSE
        BY <2>1, <4>1, ProgramTop DEF Approve, Current
      <4>. QED  BY <4>1
    <3>. QED  BY <1>2, <2>1, <3>1, StoreIs DEF Held, Commit
  <2>. QED  BY <2>1, <2>2, <2>3, <2>4 DEF FitInv
<1>. QED  BY <1>1, <1>2

\* The first store is fit.
LEMMA GenesisFits ==
  ASSUME Init
  PROVE  KeysFit(store) /\ \A a \in Addr : store.amt[a] >= 0
<1>. DEFINE g == Genesis(InitialAccounts, Funds)
<1>1. store = WithApps(g)
  BY DEF Init
<1>2. /\ g.amt = [a \in Addr |-> IF a \in InitialAccounts THEN Funds[a] ELSE 0]
      /\ "amt" \in DOMAIN g
  BY DEF Genesis
<1>. HIDE DEF g
<1>3. /\ store.amt = g.amt /\ store.keys = [n \in App |-> {}]
      /\ store.joined = [a \in Addr |-> {}] /\ store.app = [n \in App |-> NoApp]
  BY <1>1, <1>2 DEF WithApps, Extended
<1>4. KeysFit(store)
  BY <1>3, FS_EmptySet DEF KeysFit, NoApp
<1>. QED  BY <1>2, <1>3, <1>4, AppCallsAssumption

\* Where there are only groups and no clear-state program puts, the store is
\* sound after whatever callers submit and programs do.
THEOREM StoreStaysSound ==
  ASSUME DirectCalls = {}, ClearsTidy
  PROVE  Spec => []StoreSound
<1>1. Init => FitInv
  <2>. SUFFICES ASSUME Init PROVE FitInv
    OBVIOUS
  <2>1. frames = <<>>
    BY DEF Init
  <2>. QED  BY <2>1, GenesisFits DEF FitInv
<1>2. ASSUME CallInv, CallInv', FloorInv, ExactInv, FitInv, [Next]_vars PROVE FitInv'
  <2>1. CASE Next
    BY <1>2, <2>1, FitKeeps
  <2>2. CASE UNCHANGED vars
    BY <1>2, <2>2 DEF FitInv, vars
  <2>. QED  BY <1>2, <2>1, <2>2
<1>3. CallInv /\ FitInv => StoreSound
  BY DEF CallInv, AppSound, FitInv, StoreSound, WithinSchemas, KeysFit
<1>4. Spec => []ExactInv
  BY ExactHolds
<1>. QED  BY <1>1, <1>2, <1>3, <1>4, FundedHolds, PTL DEF Spec
=============================================================================
