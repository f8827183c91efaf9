--------------------------- MODULE RuntimeProofs ---------------------------
(***************************************************************************)
(* Theorems about Runtime, for every set of accounts, groups and           *)
(* deployments and every value of the fees.                                *)
(*                                                                         *)
(* The inductive invariant says, besides what the theorems state, that a   *)
(* group in progress has room under the bound on assets, and that the      *)
(* context is a private copy while a group is processed.                   *)
(*                                                                         *)
(* The refinement of AtomicLedger needs to know what that copy is: what    *)
(* the transactions so far make of the store (Halfway).                    *)
(***************************************************************************)
EXTENDS RuntimeRefinement, LedgerProofs

\* The variables other than the two ledgers.
ControlOK ==
  /\ shared \in BOOLEAN
  /\ kind \in TxType \cup {"none"}
  /\ group \in Seq(Tx)
  /\ idx \in 0..(Len(group) + 1)
  /\ optins \in Seq(Addr)

Room == idx > 0 => RoomFor(group, idx, ctx.ctr)

\* A group and a series of opt-ins are never in progress together.
Turns == idx > 0 => optins = <<>>

IInv ==
  /\ ControlOK
  /\ Sound(store) /\ Sound(ctx)
  /\ ContextIsolated
  /\ Room
  /\ Turns

-----------------------------------------------------------------------------

\* The inductive invariant holds after the constructor.
LEMMA InitIInv == Init => IInv
<1>. SUFFICES ASSUME Init PROVE IInv
  OBVIOUS
<1>1. Sound(store) /\ Sound(ctx)
  BY GenesisSound, RuntimeAssumption DEF RuntimeAssumption, Init
<1>2. shared \in BOOLEAN /\ kind \in TxType \cup {"none"}
  BY DEF Init
<1>3. group \in Seq(Tx) /\ idx \in 0..(Len(group) + 1) /\ optins \in Seq(Addr)
  BY DEF Init
<1>4. ControlOK
  BY <1>2, <1>3 DEF ControlOK
<1>. QED  BY <1>1, <1>4 DEF Init, IInv, ContextIsolated, Room, Turns

\* It holds when executeTx has cloned the store.
LEMMA ExecuteTxIInv ==
  ASSUME IInv, NEW g \in Groups, ExecuteTx(g)
  PROVE  IInv'
<1>1. g \in Seq(Tx) /\ g # <<>> /\ Len(g) \in Nat /\ Len(g) # 0
  BY RuntimeAssumption DEF RuntimeAssumption
<1>2. idx' # 0 => group' = g /\ idx' = 1
  BY DEF ExecuteTx, Idle
<1>3. idx' = 0 => UNCHANGED <<group, idx>>
  BY DEF ExecuteTx
<1>4. ControlOK'
  <2>1. shared' \in BOOLEAN /\ kind' \in TxType \cup {"none"}
    BY DEF ExecuteTx
  <2>2. optins' \in Seq(Addr)
    BY DEF IInv, ControlOK, ExecuteTx
  <2>3. group' \in Seq(Tx) /\ idx' \in 0..(Len(group') + 1)
    <3>1. CASE group' = g /\ idx' = 1
      BY <1>1, <3>1
    <3>2. CASE UNCHANGED <<group, idx>>
      BY <3>2 DEF IInv, ControlOK
    <3>. QED  BY <3>1, <3>2 DEF ExecuteTx
  <2>. QED  BY <2>1, <2>2, <2>3 DEF ControlOK
<1>5. Sound(store)' /\ Sound(ctx)'
  BY DEF IInv, ExecuteTx
<1>6. ContextIsolated'
  BY DEF ContextIsolated, ExecuteTx
<1>7. Room'
  BY <1>1, <1>2 DEF Room, RoomFor, ExecuteTx
<1>8. Turns'
  BY DEF Turns, ExecuteTx, Idle
<1>. QED  BY <1>4, <1>5, <1>6, <1>7, <1>8 DEF IInv

\* What a step of processTransactions knows about the transaction it applies.
LEMMA StepFacts ==
  ASSUME IInv, StepTx
  PROVE  LET o == ApplyTx(store, ctx, group[idx])
         IN  /\ group[idx] \in Tx /\ idx \in 1..Len(group)
             /\ Sound(o.s) /\ ctx' = o.s
             /\ OnlyAffects(group[idx].from, ctx, o.s)
             /\ o.ok /\ NonNegative(ctx) => NonNegative(o.s)
             /\ o.ok => Authorised(store, group[idx])
             /\ o.ok => RoomFor(group, idx + 1, o.s.ctr)
<1>. DEFINE tx == group[idx]
            o == ApplyTx(store, ctx, tx)
<1>1. tx \in Tx /\ idx \in 1..Len(group) /\ Len(group) \in Nat
  BY DEF IInv, ControlOK, StepTx
<1>2. RoomFor(group, idx, ctx.ctr) /\ Sound(ctx) /\ ctx.ctr \in Nat
  BY <1>1, LedgerAssumption DEF IInv, Room, Sound, State, LedgerAssumption
<1>3. tx.type = "create" => ctx.ctr < MaxAsset
  BY <1>1, <1>2, LedgerAssumption DEF RoomFor, LedgerAssumption
<1>4. /\ Sound(o.s) /\ OnlyAffects(tx.from, ctx, o.s)
      /\ o.s.ctr \in ctx.ctr..(ctx.ctr + 1)
      /\ o.ok /\ NonNegative(ctx) => NonNegative(o.s)
      /\ o.ok => Authorised(store, tx)
  BY <1>1, <1>2, <1>3, ApplyTxSound
<1>5. ctx' = o.s
  BY DEF StepTx
<1>. HIDE DEF o
<1>6. RoomFor(group, idx + 1, o.s.ctr)
  <2>. SUFFICES ASSUME NEW j \in (idx + 1)..Len(group), group[j].type = "create"
                PROVE  o.s.ctr + Len(group) - (idx + 1) + 1 <= MaxAsset
    BY DEF RoomFor
  <2>1. j \in idx..Len(group)
    BY <1>1
  <2>2. ctx.ctr + Len(group) - idx + 1 <= MaxAsset
    BY <1>2, <2>1 DEF RoomFor
  <2>3. o.s.ctr \in Nat /\ o.s.ctr <= ctx.ctr + 1 /\ idx \in Nat /\ MaxAsset \in Nat
    BY <1>1, <1>2, <1>4, LedgerAssumption DEF LedgerAssumption
  <2>. QED  BY <1>1, <1>2, <2>2, <2>3
<1>. HIDE DEF tx
<1>. QED  BY <1>1, <1>4, <1>5, <1>6 DEF o, tx

\* It holds after every transaction, whether it succeeded or threw.
LEMMA StepTxIInv ==
  ASSUME IInv, StepTx
  PROVE  IInv'
<1>. DEFINE o == ApplyTx(store, ctx, group[idx])
<1>1. /\ group[idx] \in Tx /\ idx \in 1..Len(group) /\ Len(group) \in Nat
      /\ Sound(o.s) /\ ctx' = o.s
      /\ o.ok => RoomFor(group, idx + 1, o.s.ctr)
  BY StepFacts DEF IInv, ControlOK
<1>2. \/ o.ok /\ idx' = idx + 1 /\ group' = group
      \/ idx' = 0 /\ group' = <<>>
  BY DEF StepTx
<1>3. kind' = group[idx].type /\ UNCHANGED <<store, shared, optins>>
  BY DEF StepTx
<1>. HIDE DEF o
<1>4. ControlOK'
  <2>1. shared' \in BOOLEAN /\ optins' \in Seq(Addr)
    BY <1>3 DEF IInv, ControlOK
  <2>2. kind' \in TxType \cup {"none"}
    BY <1>1, <1>3 DEF Tx
  <2>3. group' \in Seq(Tx) /\ idx' \in 0..(Len(group') + 1)
    <3>1. CASE idx' = idx + 1 /\ group' = group
      BY <1>1, <3>1 DEF IInv, ControlOK
    <3>2. CASE idx' = 0 /\ group' = <<>>
      BY <3>2
    <3>. QED  BY <1>2, <3>1, <3>2
  <2>. QED  BY <2>1, <2>2, <2>3 DEF ControlOK
<1>5. ~shared /\ ContextIsolated'
  BY <1>1, <1>3 DEF IInv, ContextIsolated
<1>6. Room'
  BY <1>1, <1>2 DEF Room
<1>7. Turns'
  BY <1>1, <1>3 DEF IInv, Turns
<1>. QED  BY <1>1, <1>3, <1>4, <1>5, <1>6, <1>7 DEF IInv

\* It holds when the context becomes the store.
LEMMA CommitGroupIInv ==
  ASSUME IInv, CommitGroup
  PROVE  IInv'
<1>1. ControlOK'
  BY DEF IInv, ControlOK, CommitGroup
<1>2. Sound(store)' /\ Sound(ctx)' /\ ContextIsolated' /\ Room'
  BY DEF IInv, CommitGroup, ContextIsolated, Room
<1>3. Turns'
  BY DEF Turns, CommitGroup
<1>. QED  BY <1>1, <1>2, <1>3 DEF IInv

\* Operations on the current context happen when no group is in progress.
LEMMA OnContextIInv ==
  ASSUME IInv, idx = 0, NEW o, OnContext(o), Sound(o.s), optins' \in Seq(Addr)
  PROVE  IInv'
<1>1. Sound(ctx)' /\ Sound(store)'
  BY DEF IInv, OnContext
<1>2. ControlOK'
  BY DEF IInv, ControlOK, OnContext
<1>3. ContextIsolated'
  <2>1. idx' = 0
    BY DEF OnContext
  <2>2. ASSUME shared' PROVE store' = ctx'
    BY <2>2 DEF OnContext
  <2>. QED  BY <2>1, <2>2 DEF ContextIsolated
<1>4. Room' /\ Turns'
  BY DEF OnContext, Room, Turns
<1>. QED  BY <1>1, <1>2, <1>3, <1>4 DEF IInv

\* It holds after accounts are written into the store.
LEMMA AddAccountsIInv ==
  ASSUME IInv, NEW addrs \in SUBSET Addr, NEW n \in Nat, AddAccounts(addrs, n)
  PROVE  IInv'
<1>1. Sound(NewAccounts(store, addrs, n))
  BY NewAccountsSound DEF IInv
<1>2. Sound(store)' /\ Sound(ctx)'
  BY <1>1 DEF IInv, AddAccounts
<1>3. ControlOK'
  BY DEF IInv, ControlOK, AddAccounts
<1>4. ContextIsolated' /\ Room' /\ Turns'
  BY DEF IInv, ContextIsolated, Room, Turns, AddAccounts, Idle
<1>. QED  BY <1>2, <1>3, <1>4 DEF IInv

\* Every step preserves it.
LEMMA NextIInv == IInv /\ [Next]_vars => IInv'
<1>. SUFFICES ASSUME IInv, [Next]_vars PROVE IInv'
  OBVIOUS
<1>1. ASSUME NEW g \in Groups, ExecuteTx(g) PROVE IInv'
  BY <1>1, ExecuteTxIInv
<1>2. CASE StepTx
  BY <1>2, StepTxIInv
<1>3. CASE CommitGroup
  BY <1>3, CommitGroupIInv
<1>4. ASSUME NEW p \in OptIns, DirectOptIn(p.acct, p.asset) PROVE IInv'
  <2>1. p.acct \in Addr /\ p.asset \in Asset
    BY RuntimeAssumption DEF RuntimeAssumption
  <2>2. Sound(OptInToASA(ctx, p.acct, p.asset, kind).s)
    BY <2>1, OptInSound DEF IInv
  <2>. QED  BY <1>4, <2>2, OnContextIInv DEF DirectOptIn, Idle, IInv, ControlOK
<1>5. ASSUME NEW d \in Deployments, DirectDeploy(d) PROVE IInv'
  <2>. DEFINE o == DeployASA(ctx, d.creator, d.total, d.defaultFrozen, d.roles, d.bad, kind)
  <2>1. /\ d.creator \in Addr /\ d.total \in Nat /\ d.defaultFrozen \in BOOLEAN
        /\ d.roles \in Roles /\ d.optIns \in Seq(Addr)
    BY RuntimeAssumption DEF RuntimeAssumption, Deployment
  <2>2. Sound(o.s)
    BY <1>5, <2>1, DeploySound DEF IInv, DirectDeploy
  <2>3. optins' \in Seq(Addr)
    BY <1>5, <2>1 DEF DirectDeploy
  <2>. QED  BY <1>5, <2>2, <2>3, OnContextIInv DEF DirectDeploy, Idle
<1>6. CASE OptInNext
  <2>. DEFINE o == OptInToASA(ctx, Head(optins), store.ctr, kind)
  <2>1. Head(optins) \in Addr /\ Tail(optins) \in Seq(Addr)
    BY <1>6 DEF IInv, ControlOK, OptInNext
  <2>2. Sound(o.s)
    <3>1. CASE store.ctr \in Asset
      BY <2>1, <3>1, OptInSound DEF IInv
    <3>2. CASE store.ctr \notin Asset
      BY <3>2 DEF OptInToASA, Throw, IInv, Sound, State
    <3>. QED  BY <3>1, <3>2
  <2>3. optins' \in Seq(Addr)
    BY <1>6, <2>1 DEF OptInNext
  <2>4. idx = 0
    BY <1>6 DEF IInv, ControlOK, Turns, OptInNext
  <2>. HIDE DEF o
  <2>5. OnContext(o)
    BY <1>6 DEF OptInNext, o
  <2>. QED  BY <2>2, <2>3, <2>4, <2>5, OnContextIInv
<1>7. ASSUME NEW a \in Lsigs, CreateLsigAccount(a) PROVE IInv'
  BY <1>7, AddAccountsIInv, RuntimeAssumption DEF RuntimeAssumption, CreateLsigAccount
<1>8. CASE LoadAccountsFromConfig
  BY <1>8, AddAccountsIInv, RuntimeAssumption DEF RuntimeAssumption, LoadAccountsFromConfig
<1>9. CASE UNCHANGED vars
  BY <1>9 DEF vars, IInv, ControlOK, ContextIsolated, Room, Turns
<1>. QED
  BY <1>1, <1>2, <1>3, <1>4, <1>5, <1>6, <1>7, <1>8, <1>9 DEF Next, Group

-----------------------------------------------------------------------------

\* The inductive invariant holds whatever callers do.
THEOREM SpecIInv == Spec => []IInv
BY InitIInv, NextIInv, PTL DEF Spec

\* Every variable keeps its type.
THEOREM TypeCorrect == Spec => []TypeOK
<1>1. IInv => TypeOK
  BY DEF IInv, ControlOK, TypeOK, Sound
<1>. QED  BY <1>1, SpecIInv, PTL

\* Both ledgers stay sound under every interleaving of executeTx with direct
\* calls, after every exception: minimum balances pay for all holdings,
\* holdings are attached to accounts and assets that exist, creators hold.
THEOREM LedgersStaySound == Spec => []LedgersSound
<1>1. IInv => LedgersSound
  BY DEF IInv, Sound, LedgersSound
<1>. QED  BY <1>1, SpecIInv, PTL

\* A group is always processed on a private copy of the store.
THEOREM ContextStaysIsolated == Spec => []ContextIsolated
<1>1. IInv => ContextIsolated
  BY DEF IInv
<1>. QED  BY <1>1, SpecIInv, PTL
-----------------------------------------------------------------------------
(* Disciplined callers: TxSpec                                             *)

\* The context of a group in progress has no negative balance, and whatever the
\* group has taken from an account so far, an unrefused transaction of that account
\* among those already processed has taken.
Funded == NonNegative(store) /\ (idx > 0 => NonNegative(ctx))

Backed ==
  idx > 0 =>
    \A a \in Addr :
      ctx.amt[a] < store.amt[a] \/ ctx.auth[a] # store.auth[a] =>
        \E i \in 1..(idx - 1) : group[i].from = a /\ Unrefused(i)

TxInv == IInv /\ Funded /\ Backed

\* The invariant of the disciplined use holds after the constructor.
LEMMA InitTxInv == Init => TxInv
<1>. SUFFICES ASSUME Init PROVE TxInv
  OBVIOUS
<1>1. IInv
  BY InitIInv
<1>2. NonNegative(store)
  BY RuntimeAssumption, GenesisSound DEF RuntimeAssumption, Init
<1>3. idx = 0
  BY DEF Init
<1>. QED  BY <1>1, <1>2, <1>3 DEF TxInv, Funded, Backed

\* The steps of TxNext are steps of Next.
LEMMA TxNextIInv == IInv /\ [TxNext]_vars => IInv'
BY NextIInv DEF TxNext, Next

\* No step of a group leaves an overdrawn context that could be committed.
LEMMA FundedStep == TxInv /\ [TxNext]_vars => Funded'
<1>. SUFFICES ASSUME TxInv, [TxNext]_vars PROVE Funded'
  OBVIOUS
<1>1. ASSUME NEW g \in Groups, ExecuteTx(g) PROVE Funded'
  BY <1>1 DEF TxInv, Funded, ExecuteTx
<1>2. CASE StepTx
  <2>. DEFINE o == ApplyTx(store, ctx, group[idx])
  <2>1. /\ idx > 0 /\ ctx' = o.s /\ store' = store
        /\ o.ok \/ idx' = 0
        /\ o.ok /\ NonNegative(ctx) => NonNegative(o.s)
    <3>1. /\ idx \in 1..Len(group) /\ ctx' = o.s
          /\ o.ok /\ NonNegative(ctx) => NonNegative(o.s)
      BY <1>2, StepFacts DEF TxInv
    <3>2. store' = store /\ (o.ok \/ idx' = 0)
      BY <1>2 DEF StepTx
    <3>. QED  BY <3>1, <3>2
  <2>. HIDE DEF o
  <2>. QED  BY <2>1 DEF TxInv, Funded
<1>3. CASE CommitGroup
  <2>1. idx > 0 /\ idx' = 0 /\ store' = ctx
    BY <1>3 DEF TxInv, IInv, ControlOK, CommitGroup
  <2>. QED  BY <2>1 DEF TxInv, Funded
<1>4. ASSUME NEW a \in Lsigs \ store.acct, CreateLsigAccount(a) PROVE Funded'
  <2>1. NonNegative(NewAccounts(store, {a}, 0))
    BY RuntimeAssumption, NewAccountsSound DEF RuntimeAssumption, TxInv, IInv, Funded
  <2>. QED  BY <1>4, <2>1 DEF CreateLsigAccount, AddAccounts, Idle, Funded
<1>5. CASE UNCHANGED vars
  BY <1>5 DEF vars, TxInv, Funded
<1>. QED  BY <1>1, <1>2, <1>3, <1>4, <1>5 DEF TxNext, Group

\* What a context has taken so far is backed by transactions that were not refused.
LEMMA BackedStep == TxInv /\ [TxNext]_vars => Backed'
<1>. SUFFICES ASSUME TxInv, [TxNext]_vars PROVE Backed'
  OBVIOUS
<1>1. ASSUME NEW g \in Groups, ExecuteTx(g) PROVE Backed'
  <2>1. ctx' = store /\ store' = store /\ \A a \in Addr : store.amt[a] \in Int
    BY <1>1 DEF ExecuteTx, TxInv, IInv, Sound, State
  <2>. QED  BY <2>1 DEF Backed
<1>2. CASE StepTx
  <2>. DEFINE o == ApplyTx(store, ctx, group[idx])
              x == group[idx].from
  <2>1. /\ idx \in 1..Len(group) /\ Len(group) \in Nat /\ ctx' = o.s
        /\ OnlyAffects(x, ctx, o.s) /\ Sound(o.s)
        /\ o.ok => Authorised(store, group[idx])
    BY <1>2, StepFacts DEF TxInv, IInv, ControlOK
  <2>2. /\ store' = store
        /\ \/ o.ok /\ idx' = idx + 1 /\ group' = group
           \/ idx' = 0
    BY <1>2 DEF StepTx
  <2>. HIDE DEF o
  <2>3. CASE idx' = 0
    BY <2>3 DEF Backed
  <2>4. CASE o.ok /\ idx' = idx + 1 /\ group' = group
    <3>. SUFFICES ASSUME NEW a \in Addr,
                         ctx'.amt[a] < store.amt[a] \/ ctx'.auth[a] # store.auth[a]
                  PROVE  \E i \in 1..idx : group[i].from = a /\ Unrefused(i)
      BY <2>1, <2>2, <2>4 DEF Backed, Unrefused, Signed
    <3>1. CASE a = x
      <4>1. Unrefused(idx)
        BY <2>1, <2>4 DEF Authorised, Unrefused, Signed
      <4>. QED  BY <2>1, <3>1, <4>1
    <3>2. CASE a # x
      <4>1. ctx.amt[a] \in Int /\ o.s.amt[a] \in Int /\ store.amt[a] \in Int
        BY <2>1 DEF TxInv, IInv, Sound, State
      <4>2. ctx.amt[a] < store.amt[a] \/ ctx.auth[a] # store.auth[a]
        BY <2>1, <3>2, <4>1 DEF OnlyAffects
      <4>3. PICK i \in 1..(idx - 1) : group[i].from = a /\ Unrefused(i)
        BY <2>1, <4>2 DEF TxInv, Backed
      <4>. QED  BY <2>1, <4>3
    <3>. QED  BY <3>1, <3>2
  <2>. QED  BY <2>2, <2>3, <2>4
<1>3. CASE CommitGroup
  BY <1>3 DEF CommitGroup, Backed
<1>4. ASSUME NEW a \in Lsigs \ store.acct, CreateLsigAccount(a) PROVE Backed'
  BY <1>4 DEF CreateLsigAccount, AddAccounts, Idle, Backed
<1>5. CASE UNCHANGED vars
  BY <1>5 DEF vars, TxInv, Backed, Unrefused, Signed
<1>. QED  BY <1>1, <1>2, <1>3, <1>4, <1>5 DEF TxNext, Group

\* Every step of TxNext preserves it.
LEMMA TxStep == TxInv /\ [TxNext]_vars => TxInv'
BY TxNextIInv, FundedStep, BackedStep DEF TxInv

\* Hence the invariant of the disciplined use always holds.
LEMMA TxSpecInv == TxSpec => []TxInv
BY InitTxInv, TxStep, PTL DEF TxSpec

\* While transactions go through executeTx, no account of the store is ever
\* overdrawn, although the handlers subtract before they check: the context
\* that is overdrawn is thrown away.
THEOREM StoreStaysSolvent == TxSpec => []Solvent
<1>1. TxInv => Solvent
  BY DEF TxInv, Funded, Solvent
<1>. QED  BY <1>1, TxSpecInv, PTL

\* Whatever a committed group takes from an account, or does to its signing
\* authority, it does with a transaction of that account that carries the
\* signature the store asked for before the group, or none at all; one that is
\* signed by anybody else takes nothing.
THEOREM DebitsStayAuthorised == TxSpec => DebitsAreAuthorised
<1>. DEFINE Step ==
       \A a \in store.acct :
         store'.amt[a] < store.amt[a] \/ store'.auth[a] # store.auth[a] =>
           \E i \in DOMAIN group : group[i].from = a /\ Unrefused(i)
<1>1. ASSUME TxInv, [TxNext]_vars PROVE [Step]_vars
  <2>1. store \in State /\ store.acct \subseteq Addr /\ group \in Seq(Tx)
    BY <1>1 DEF TxInv, IInv, ControlOK, Sound, State
  <2>2. ASSUME store' = store PROVE Step
    BY <2>1, <2>2 DEF State
  <2>3. CASE CommitGroup
    <3>1. idx = Len(group) + 1 /\ idx > 0 /\ store' = ctx
      BY <2>3 DEF CommitGroup, TxInv, IInv, ControlOK
    <3>2. 1..(idx - 1) = DOMAIN group
      BY <2>1, <3>1
    <3>. QED  BY <1>1, <2>1, <3>1, <3>2 DEF TxInv, Backed
  <2>4. ASSUME NEW a \in Lsigs \ store.acct, CreateLsigAccount(a) PROVE Step
    <3>1. \A b \in Addr \ {a} : store'.amt[b] = store.amt[b] /\ store'.auth[b] = store.auth[b]
      BY <1>1, <2>4, RuntimeAssumption, NewAccountsSound
      DEF RuntimeAssumption, TxInv, IInv, CreateLsigAccount, AddAccounts
    <3>. QED  BY <2>1, <2>4, <3>1 DEF State
  <2>. QED
    BY <1>1, <2>2, <2>3, <2>4 DEF TxNext, Group, ExecuteTx, StepTx, vars
<1>. QED  BY <1>1, TxSpecInv, PTL DEF TxSpec, DebitsAreAuthorised

-----------------------------------------------------------------------------
(* TxSpec implements AtomicLedger                                          *)

\* The handlers that AtomicLedger names are those of the Runtime: small updates.
LEMMA SameUpdates ==
  /\ \A s : Atomic!Ok(s) = Ok(s) /\ Atomic!Throw(s) = Throw(s)
  /\ \A s, a, n : Atomic!Debit(s, a, n) = Debit(s, a, n)
  /\ \A s, a, n : Atomic!Credit(s, a, n) = Credit(s, a, n)
  /\ \A s, a, b, c, n : Atomic!MoveUnits(s, a, b, c, n) = MoveUnits(s, a, b, c, n)
  /\ \A s, a, c : Atomic!CloseAsset(s, a, c) = CloseAsset(s, a, c)
  /\ \A s, a, c : Atomic!Holds(s, a, c) = Holds(s, a, c)
  /\ \A s, a, c : Atomic!Unfrozen(s, a, c) = Unfrozen(s, a, c)
  /\ \A s, a, k : Atomic!AboveMin(s, a, k) = AboveMin(s, a, k)
  /\ \A tx : Atomic!ChargedFee(tx) = ChargedFee(tx) /\ Atomic!FeeKnown(tx) = FeeKnown(tx)
  /\ \A s, tx : Atomic!Authorised(s, tx) = Authorised(s, tx)
  /\ \A s, tx : Atomic!Rekey(s, tx) = Rekey(s, tx)
<1>1. \A s : Atomic!Ok(s) = Ok(s) /\ Atomic!Throw(s) = Throw(s)
  BY DEF Ok, Atomic!Ok, Throw, Atomic!Throw
<1>2. /\ \A s, a, n : Atomic!Debit(s, a, n) = Debit(s, a, n)
      /\ \A s, a, n : Atomic!Credit(s, a, n) = Credit(s, a, n)
  BY DEF Debit, Atomic!Debit, Credit, Atomic!Credit
<1>3. \A s, a, b, c, n : Atomic!MoveUnits(s, a, b, c, n) = MoveUnits(s, a, b, c, n)
  BY DEF MoveUnits, Atomic!MoveUnits, AddUnits, Atomic!AddUnits, SubUnits, Atomic!SubUnits
<1>4. \A s, a, c : Atomic!CloseAsset(s, a, c) = CloseAsset(s, a, c)
  BY DEF CloseAsset, Atomic!CloseAsset
<1>5. /\ \A s, a, c : Atomic!Holds(s, a, c) = Holds(s, a, c)
      /\ \A s, a, c : Atomic!Unfrozen(s, a, c) = Unfrozen(s, a, c)
  BY DEF Holds, Atomic!Holds, Unfrozen, Atomic!Unfrozen
<1>6. /\ \A s, a, k : Atomic!AboveMin(s, a, k) = AboveMin(s, a, k)
      /\ \A s, tx : Atomic!Authorised(s, tx) = Authorised(s, tx)
  BY DEF AboveMin, Atomic!AboveMin, Authorised, Atomic!Authorised, Unsigned, Atomic!Unsigned
<1>7. /\ \A tx : Atomic!ChargedFee(tx) = ChargedFee(tx) /\ Atomic!FeeKnown(tx) = FeeKnown(tx)
      /\ \A s, tx : Atomic!Rekey(s, tx) = Rekey(s, tx)
  BY DEF ChargedFee, Atomic!ChargedFee, FeeKnown, Atomic!FeeKnown, Rekey, Atomic!Rekey
<1>. QED  BY <1>1, <1>2, <1>3, <1>4, <1>5, <1>6, <1>7

\* The handlers of every type of transaction.
LEMMA SameHandlers ==
  /\ \A s, tx : Atomic!DeductFee(s, tx) = DeductFee(s, tx)
  /\ \A s, tx : Atomic!Dispatch(s, tx) = Dispatch(s, tx)
<1>1. \A s, tx : Atomic!DeductFee(s, tx) = DeductFee(s, tx)
  BY SameUpdates DEF DeductFee, Atomic!DeductFee
<1>2. \A s, tx : Atomic!TransferAlgo(s, tx) = TransferAlgo(s, tx)
  BY SameUpdates DEF TransferAlgo, Atomic!TransferAlgo
<1>3. \A s, a, n, f, r, b, k : Atomic!DeployASA(s, a, n, f, r, b, k) = DeployASA(s, a, n, f, r, b, k)
  BY SameUpdates DEF DeployASA, Atomic!DeployASA
<1>4. \A s, a, c, k : Atomic!OptInToASA(s, a, c, k) = OptInToASA(s, a, c, k)
  BY SameUpdates DEF OptInToASA, Atomic!OptInToASA
<1>5. \A s, tx : Atomic!TransferAsset(s, tx) = TransferAsset(s, tx)
  BY SameUpdates, <1>4 DEF TransferAsset, Atomic!TransferAsset
<1>6. \A s, tx : Atomic!RevokeAsset(s, tx) = RevokeAsset(s, tx)
  BY SameUpdates DEF RevokeAsset, Atomic!RevokeAsset
<1>7. \A s, tx : Atomic!FreezeAsset(s, tx) = FreezeAsset(s, tx)
  BY SameUpdates DEF FreezeAsset, Atomic!FreezeAsset
<1>8. \A s, tx : Atomic!DestroyAsset(s, tx) = DestroyAsset(s, tx)
  BY SameUpdates DEF DestroyAsset, Atomic!DestroyAsset
<1>9. \A s, tx : Atomic!ModifyAsset(s, tx) = ModifyAsset(s, tx)
  BY DEF ModifyAsset, Atomic!ModifyAsset, Role, Atomic!Role, RoleRank, Atomic!RoleRank
<1>10. \A s, tx : Atomic!ConfigAsset(s, tx) = ConfigAsset(s, tx)
  <2>1. Atomic!NoRoles = NoRoles
    BY DEF NoRoles, Atomic!NoRoles, Role, Atomic!Role
  <2>. QED  BY SameUpdates, <1>8, <1>9, <2>1 DEF ConfigAsset, Atomic!ConfigAsset
<1>11. \A s, tx : Atomic!Dispatch(s, tx) = Dispatch(s, tx)
  BY SameUpdates, <1>2, <1>3, <1>5, <1>6, <1>7, <1>10 DEF Dispatch, Atomic!Dispatch
<1>. QED  BY <1>1, <1>11

\* So is a transaction of a group.
LEMMA SameApplyTx ==
  \A base, s, tx : Atomic!ApplyTx(base, s, tx) = ApplyTx(base, s, tx)
BY SameUpdates, SameHandlers DEF ApplyTx, Atomic!ApplyTx

\* So are the start, the loading of accounts and the checks of a group.
LEMMA SameRest ==
  /\ \A s, A, n : Atomic!NewAccounts(s, A, n) = NewAccounts(s, A, n)
  /\ \A A, f : Atomic!Genesis(A, f) = Genesis(A, f)
  /\ \A g : Atomic!FeesCovered(g) = FeesCovered(g)
  /\ \A g : Atomic!IsInjective(g) = IsInjective(g)
<1>1. \A s, A, n : Atomic!NewAccounts(s, A, n) = NewAccounts(s, A, n)
  BY DEF NewAccounts, Atomic!NewAccounts, Asset, Atomic!Asset
<1>2. \A A, f : Atomic!Genesis(A, f) = Genesis(A, f)
  BY DEF Genesis, Atomic!Genesis, Asset, Atomic!Asset, NoRoles, Atomic!NoRoles, Role, Atomic!Role
<1>3. \A f : Atomic!Sum(f) = Sum(f)
  BY DEF Sum, Atomic!Sum, FoldFunction, Atomic!FoldFunction, FoldFunctionOnSet, Atomic!FoldFunctionOnSet, MapThenFoldSet, Atomic!MapThenFoldSet
<1>4. \A g : Atomic!FeesCovered(g) = FeesCovered(g)
  BY <1>3 DEF FeesCovered, Atomic!FeesCovered
<1>5. \A g : Atomic!IsInjective(g) = IsInjective(g)
  BY DEF IsInjective, Atomic!IsInjective
<1>. QED  BY <1>1, <1>2, <1>4, <1>5

-----------------------------------------------------------------------------
(* Whole groups                                                            *)

\* The outcome of one more transaction of a group.
OneMore(c, i, o) == IF o.ok THEN Atomic!ApplyTx(c.base, o.s, c.txs[i]) ELSE o
Latest(T) == CHOOSE i \in T : \A j \in T : i >= j

Applying == INSTANCE Recursion WITH Op <- OneMore, Pick <- Latest

\* The outcome of the first n transactions of g.
Prefix(s, g, n) == Applying!FoldOver([base |-> s, txs |-> g], Atomic!Ok(s), 1..n)

\* A group that is applied as a whole is applied up to its last transaction.
LEMMA GroupIsPrefix ==
  ASSUME NEW s, NEW g, NEW n \in Nat, DOMAIN g = 1..n
  PROVE  Atomic!ApplyGroup(s, g) = Prefix(s, g, n)
BY DEF Atomic!ApplyGroup, Atomic!FoldLeft, Atomic!MapThenFoldSet, Atomic!Max,
       Prefix, Applying!FoldOver, Applying!Solves, Applying!Rest, OneMore, Latest

\* Nothing has been applied at first.
LEMMA PrefixNone ==
  ASSUME NEW s, NEW g
  PROVE  Prefix(s, g, 0) = Ok(s)
<1>1. 1..0 = {}
  OBVIOUS
<1>. QED  BY <1>1, SameUpdates, Applying!FoldOverNothing DEF Prefix

\* A fold may go through the positions of a group.
LEMMA Positions ==
  ASSUME NEW n \in Nat
  PROVE  /\ Applying!Descends(1..n) /\ Applying!Picks(1..n)
         /\ n > 0 => Latest(1..n) = n /\ Applying!Rest(1..n) = 1..(n - 1)
<1>1. Applying!PicksLast
  BY DEF Applying!PicksLast, Applying!Latest, Latest
<1>. QED  BY <1>1, Applying!Positions

\* Each transaction follows those before it.
LEMMA PrefixNext ==
  ASSUME NEW s, NEW g, NEW n \in Nat \ {0}
  PROVE  Prefix(s, g, n) = OneMore([base |-> s, txs |-> g], n, Prefix(s, g, n - 1))
<1>3. Latest(1..n) = n /\ Applying!Rest(1..n) = 1..(n - 1)
  BY Positions
<1>. DEFINE c == [base |-> s, txs |-> g]
<1>5. Applying!FoldOver(c, Atomic!Ok(s), 1..n)
        = OneMore(c, Latest(1..n), Applying!FoldOver(c, Atomic!Ok(s), Applying!Rest(1..n)))
  <2>1. Applying!Descends(1..n) /\ Applying!Picks(1..n) /\ 1..n # {}
    BY Positions
  <2>. HIDE DEF c
  <2>. QED  BY <2>1, Applying!FoldOverStep
<1>. QED  BY <1>3, <1>5 DEF Prefix

-----------------------------------------------------------------------------
(* Steps                                                                   *)

\* The context of a group in progress is what its first transactions make of the
\* store, which none of them has touched.
Halfway ==
  idx > 0 =>
    /\ group \in Groups /\ FeesCovered(group) /\ IsInjective(group)
    /\ Prefix(store, group, idx - 1).ok /\ Prefix(store, group, idx - 1).s = ctx

AtomicInv == TxInv /\ Halfway

\* Every step preserves it.
LEMMA HalfwayStep == AtomicInv /\ [TxNext]_vars => Halfway'
<1>. SUFFICES ASSUME AtomicInv, [TxNext]_vars PROVE Halfway'
  OBVIOUS
<1>1. ASSUME NEW g \in Groups, ExecuteTx(g) PROVE Halfway'
  <2>1. CASE idx' = 0
    BY <2>1 DEF Halfway
  <2>2. CASE idx' # 0
    <3>1. /\ FeesCovered(g) /\ IsInjective(g)
          /\ group' = g /\ idx' = 1 /\ ctx' = store /\ store' = store
      BY <1>1, <2>2 DEF ExecuteTx, Idle
    <3>2. Prefix(store, g, 0).ok /\ Prefix(store, g, 0).s = store
      BY PrefixNone DEF Ok
    <3>. QED  BY <3>1, <3>2 DEF Halfway
  <2>. QED  BY <2>1, <2>2
<1>2. CASE StepTx
  <2>. DEFINE o == ApplyTx(store, ctx, group[idx])
  <2>1. CASE idx' = 0
    BY <2>1 DEF Halfway
  <2>2. CASE idx' # 0
    <3>1. idx \in Nat \ {0} /\ idx > 0
      BY <1>2 DEF StepTx, AtomicInv, TxInv, IInv, ControlOK
    <3>2. /\ o.ok /\ ctx' = o.s
          /\ idx' = idx + 1 /\ group' = group /\ store' = store
      BY <1>2, <2>2 DEF StepTx
    <3>3. Prefix(store, group, idx) = o
      <4>1. Prefix(store, group, idx)
              = OneMore([base |-> store, txs |-> group], idx, Prefix(store, group, idx - 1))
        BY <3>1, PrefixNext
      <4>2. Prefix(store, group, idx - 1).ok /\ Prefix(store, group, idx - 1).s = ctx
        BY <3>1 DEF AtomicInv, Halfway
      <4>. QED  BY <4>1, <4>2, SameApplyTx DEF OneMore
    <3>. HIDE DEF o
    <3>4. idx' - 1 = idx
      BY <3>1, <3>2
    <3>. QED  BY <3>1, <3>2, <3>3, <3>4 DEF AtomicInv, Halfway
  <2>. QED  BY <2>1, <2>2
<1>3. CASE CommitGroup
  BY <1>3 DEF CommitGroup, Halfway
<1>4. ASSUME NEW l \in Lsigs, CreateLsigAccount(l) PROVE Halfway'
  BY <1>4 DEF CreateLsigAccount, AddAccounts, Idle, Halfway
<1>5. CASE UNCHANGED vars
  BY <1>5 DEF vars, AtomicInv, Halfway
<1>. QED  BY <1>1, <1>2, <1>3, <1>4, <1>5 DEF TxNext, Group

\* Only two steps are visible through the store: the end of a group, which is
\* the whole group at once, and the loading of a logic signature.
LEMMA StepIsAtomic == AtomicInv /\ [TxNext]_vars => [Atomic!Next]_store
<1>. SUFFICES ASSUME AtomicInv, [TxNext]_vars PROVE [Atomic!Next]_store
  OBVIOUS
<1>1. ASSUME NEW g \in Groups, ExecuteTx(g) PROVE store' = store
  BY <1>1 DEF ExecuteTx
<1>2. ASSUME StepTx PROVE store' = store
  BY <1>2 DEF StepTx
<1>3. ASSUME CommitGroup PROVE Atomic!Next
  <2>1. /\ group \in Seq(Tx) /\ Len(group) \in Nat /\ DOMAIN group = 1..Len(group)
        /\ idx = Len(group) + 1 /\ idx > 0 /\ store' = ctx
    BY <1>3 DEF CommitGroup, AtomicInv, TxInv, IInv, ControlOK
  <2>2. /\ group \in Groups /\ FeesCovered(group) /\ IsInjective(group)
        /\ Prefix(store, group, Len(group)).ok
        /\ Prefix(store, group, Len(group)).s = store'
    BY <2>1 DEF AtomicInv, Halfway
  <2>3. Atomic!ApplyGroup(store, group) = Prefix(store, group, Len(group))
    BY <2>1, GroupIsPrefix
  <2>4. Atomic!Submit(group)
    BY <2>2, <2>3, SameRest DEF Atomic!Submit, Atomic!Effect
  <2>. QED  BY <2>2, <2>4 DEF Atomic!Next
<1>4. ASSUME NEW l \in Lsigs \ store.acct, CreateLsigAccount(l) PROVE Atomic!Next
  <2>1. store' = NewAccounts(store, {l}, 0)
    BY <1>4 DEF CreateLsigAccount, AddAccounts
  <2>2. Atomic!Load(l)
    BY <2>1, SameRest DEF Atomic!Load
  <2>. QED  BY <2>2 DEF Atomic!Next
<1>5. ASSUME UNCHANGED vars PROVE store' = store
  BY <1>5 DEF vars
<1>. QED  BY <1>1, <1>2, <1>3, <1>4, <1>5 DEF TxNext, Group

\* Seen through the store, executeTx applies each group as a whole or not at all,
\* in the order of the calls, every transaction on the result of those before
\* it and authorised by the ledger from before the group.
THEOREM GroupsAreAtomic == TxSpec => Atomicity
<1>1. Init => Halfway
  BY DEF Init, Halfway
<1>2. Init => Atomic!Init
  BY SameRest DEF Init, Atomic!Init
<1>. QED
  BY <1>1, <1>2, InitTxInv, TxStep, HalfwayStep, StepIsAtomic, PTL
     DEF AtomicInv, TxSpec, Atomicity, Atomic!Spec

-----------------------------------------------------------------------------
(* Who takes units of an asset, and who takes frozen ones: under the       *)
(* disciplined use.  A right may itself be handed on within a group: the   *)
(* manager of the store appoints a clawback address, which takes the units *)
(* later in the same group.  The invariant therefore follows the roles of  *)
(* every asset as well as its units.  The last part is about sums: the     *)
(* units of an asset are as many as were created (SupplyInv).              *)

\* tx may take units of c from a, in ledger s.
MayTake(s, tx, a, c) ==
  /\ tx.asset = c
  /\ \/ /\ tx.type = "transfer" /\ tx.from = a
        /\ c \in s.frozen[a] => tx.amt = 0 /\ tx.close # NoAddr
     \/ tx.type = "revoke" /\ tx.target = a /\ tx.from = s.def[c].roles["clawback"]
     \/ tx.type = "config" /\ tx.from = s.def[c].roles["manager"]

\* tx may end the freezing of the holding of c in a.
MayThaw(tx, a, c) ==
  /\ tx.asset = c
  /\ \/ tx.type = "freeze" /\ tx.target = a /\ ~tx.flag
     \/ tx.type = "config"
     \/ tx.type = "transfer" /\ tx.from = a /\ tx.amt = 0 /\ tx.close # NoAddr

\* tx may change the roles of c.
MayAppoint(s, tx, c) ==
  tx.asset = c /\ tx.type = "config" /\ tx.from = s.def[c].roles["manager"]

\* tx takes s to t, and does what it may.
Proper(s, t, tx) ==
  /\ \A a \in Addr, c \in Asset : t.units[a][c] < s.units[a][c] => MayTake(s, tx, a, c)
  /\ \A a \in Addr, c \in Asset : c \in s.frozen[a] \ t.frozen[a] => MayThaw(tx, a, c)
  /\ \A c \in 1..s.ctr : t.def[c].roles # s.def[c].roles => MayAppoint(s, tx, c)
  /\ t.ctr >= s.ctr

\* What a handler that moves Algos only leaves alone.
Untouched(s, t) ==
  t.units = s.units /\ t.frozen = s.frozen /\ t.def = s.def /\ t.ctr = s.ctr

\* Whoever moves Algos only takes no units.
LEMMA UntouchedProper ==
  ASSUME NEW s \in State, NEW t, NEW tx, Untouched(s, t)
  PROVE  Proper(s, t, tx)
BY LedgerAssumption DEF LedgerAssumption, Untouched, Proper, State

-----------------------------------------------------------------------------
(* Handlers                                                                *)

\* Fees and rekeying concern no asset.
LEMMA FeesUntouched ==
  ASSUME NEW s \in State, NEW tx \in Tx
  PROVE  Untouched(s, DeductFee(s, tx).s) /\ Untouched(s, Rekey(s, tx))
BY DEF DeductFee, Debit, Throw, Rekey, Untouched, State

\* Nor do payments.
LEMMA PaymentUntouched ==
  ASSUME NEW s \in State, NEW tx \in Tx
  PROVE  Untouched(s, TransferAlgo(s, tx).s)
BY DEF TransferAlgo, Debit, Credit, Throw, Ok, Untouched, State

\* Moving units takes them from where they come.
LEMMA MoveTakes ==
  ASSUME NEW s \in State, NEW a \in Addr, NEW b \in Addr, NEW c \in Asset,
         NEW n \in Nat, n <= s.units[a][c], NEW d \in Addr, NEW e \in Asset,
         MoveUnits(s, a, b, c, n).units[d][e] < s.units[d][e]
  PROVE  d = a /\ e = c /\ n # 0
<1>. DEFINE less == [s.units EXCEPT ![a] = [s.units[a] EXCEPT ![c] = s.units[a][c] - n]]
            more == [less EXCEPT ![b] = [less[b] EXCEPT ![c] = less[b][c] + n]]
<1>1. s.units \in [Addr -> [Asset -> Nat]] /\ s.units[a][c] - n \in Nat
  BY DEF State
<1>2. less \in [Addr -> [Asset -> Nat]]
  BY <1>1
<1>3. MoveUnits(s, a, b, c, n).units = more
  BY DEF MoveUnits, AddUnits, SubUnits, State
<1>4. \A x \in Addr, y \in Asset :
        less[x][y] = IF x = a /\ y = c THEN s.units[x][y] - n ELSE s.units[x][y]
  BY <1>1
<1>5. \A x \in Addr, y \in Asset :
        more[x][y] = IF x = b /\ y = c THEN less[x][y] + n ELSE less[x][y]
  BY <1>2
<1>. HIDE DEF less, more
<1>6. more[d][e] < s.units[d][e]
  BY <1>3
<1>7. less[d][e] \in Nat /\ s.units[d][e] \in Nat
  BY <1>1, <1>2
<1>. QED  BY <1>4, <1>5, <1>6, <1>7

\* Closing a holding takes what is left in it, and its freeze flag.
LEMMA CloseTakes ==
  ASSUME NEW s \in State, NEW a \in Addr, NEW c \in Asset
  PROVE  LET t == CloseAsset(s, a, c)
         IN  /\ \A d \in Addr, e \in Asset :
                  d # a \/ e # c => t.units[d][e] = s.units[d][e]
             /\ \A d \in Addr, e \in Asset : e \in s.frozen[d] \ t.frozen[d] => d = a /\ e = c
             /\ t.def = s.def /\ t.ctr = s.ctr
BY DEF CloseAsset, State

\* A transfer takes units of its sender, frozen ones only by closing with nothing moved.
LEMMA TransferAssetProper ==
  ASSUME NEW s, Sound(s), NEW tx \in Tx, tx.type = "transfer", TransferAsset(s, tx).ok
  PROVE  Proper(s, TransferAsset(s, tx).s, tx)
<1>. DEFINE x == tx.from
            c == tx.asset
            opt == IF tx.amt = 0 /\ x = tx.to THEN OptInToASA(s, x, c, tx.type) ELSE Ok(s)
            s1 == opt.s
            s2 == MoveUnits(s1, x, tx.to, c, tx.amt)
            s3 == MoveUnits(s2, x, tx.close, c, s2.units[x][c])
            s4 == CloseAsset(s3, x, c)
            mayMove == /\ opt.ok
                       /\ Holds(s1, x, c) /\ Holds(s1, tx.to, c)
                       /\ tx.amt # 0 => Unfrozen(s1, x, c) /\ Unfrozen(s1, tx.to, c)
                       /\ s1.units[x][c] >= tx.amt
            mayClose == /\ tx.close \in Addr \ {x, NoAddr}
                        /\ x # s1.def[c].creator
                        /\ Unfrozen(s1, tx.close, c)
<1>1. x \in Addr /\ tx.to \in Addr /\ c \in Asset /\ tx.amt \in Nat
  BY DEF Tx
<1>2. /\ Sound(s1) /\ s1.ctr = s.ctr /\ s1.def = s.def /\ s1.units = s.units
      /\ \A a \in Addr : s.frozen[a] \subseteq s1.frozen[a]
      /\ tx.amt # 0 => s1 = s
  <2>1. CASE tx.amt = 0 /\ x = tx.to
    <3>1. Sound(s1) /\ s1.ctr = s.ctr /\ s1.def = s.def /\ s1.units = s.units
      BY <1>1, <2>1, OptInSound
    <3>2. \A a \in Addr : s.frozen[a] \subseteq s1.frozen[a]
      BY <1>1, <2>1 DEF OptInToASA, Throw, Sound, State
    <3>. QED  BY <2>1, <3>1, <3>2
  <2>2. CASE ~(tx.amt = 0 /\ x = tx.to)
    BY <2>2 DEF Ok
  <2>. QED  BY <2>1, <2>2
<1>3. TransferAsset(s, tx) = IF ~mayMove THEN Throw(s1)
                             ELSE IF tx.close = NoAddr THEN Ok(s2)
                             ELSE IF mayClose THEN Ok(s4) ELSE Throw(s2)
  BY DEF TransferAsset
<1>. HIDE DEF x, c, opt, s1
<1>4. mayMove
  BY <1>3 DEF Throw
<1>5. tx.amt <= s1.units[x][c]
  BY <1>1, <1>2, <1>4 DEF Sound, State
<1>6. /\ Sound(s2) /\ s2.opted = s1.opted /\ s2.frozen = s1.frozen
      /\ s2.def = s1.def /\ s2.ctr = s1.ctr
  BY <1>1, <1>2, <1>4, <1>5, MoveUnitsSound
<1>7. \A a \in Addr, e \in Asset :
        s2.units[a][e] < s.units[a][e] => a = x /\ e = c /\ tx.amt # 0
  BY <1>1, <1>2, <1>5, MoveTakes DEF Sound
<1>8. tx.amt # 0 => c \notin s.frozen[x]
  BY <1>2, <1>4 DEF Unfrozen
<1>9. s.ctr \in Int
  BY <1>2 DEF Sound, State
<1>. HIDE DEF s2
<1>10. CASE tx.close = NoAddr
  <2>1. TransferAsset(s, tx).s = s2
    BY <1>3, <1>4, <1>10 DEF Ok
  <2>2. \A a \in Addr, e \in Asset : s2.units[a][e] < s.units[a][e] => MayTake(s, tx, a, e)
    BY <1>7, <1>8 DEF MayTake, x, c
  <2>. HIDE DEF MayTake, MayThaw
  <2>. QED  BY <1>2, <1>6, <1>9, <2>1, <2>2 DEF Proper
<1>11. CASE tx.close # NoAddr
  <2>1. mayClose /\ TransferAsset(s, tx).s = s4
    BY <1>3, <1>4, <1>11 DEF Ok, Throw
  <2>2. s2.units[x][c] \in Nat
    BY <1>1, <1>6 DEF Sound, State
  <2>3. s2.units[x][c] <= s2.units[x][c]
    BY <2>2
  <2>4. Holds(s2, x, c) /\ Holds(s2, tx.close, c) /\ tx.close \in Addr
    BY <1>4, <1>6, <2>1 DEF Holds, Unfrozen
  <2>5. Sound(s3) /\ s3.frozen = s2.frozen /\ s3.def = s2.def /\ s3.ctr = s2.ctr
    BY <1>1, <1>6, <2>2, <2>3, <2>4, MoveUnitsSound
  <2>6. \A a \in Addr, e \in Asset : s3.units[a][e] < s2.units[a][e] => a = x /\ e = c
    BY <1>1, <1>6, <2>2, <2>3, <2>4, MoveTakes DEF Sound
  <2>. HIDE DEF s3
  <2>7. /\ \A a \in Addr, e \in Asset : a # x \/ e # c => s4.units[a][e] = s3.units[a][e]
        /\ \A a \in Addr, e \in Asset : e \in s3.frozen[a] \ s4.frozen[a] => a = x /\ e = c
        /\ s4.def = s3.def /\ s4.ctr = s3.ctr
    BY <1>1, <2>5, CloseTakes DEF Sound
  <2>. HIDE DEF s4
  <2>8. \A a \in Addr, e \in Asset :
          s.units[a][e] \in Nat /\ s2.units[a][e] \in Nat /\ s3.units[a][e] \in Nat
    BY <1>2, <1>6, <2>5 DEF Sound, State
  <2>9. \A a \in Addr, e \in Asset : s4.units[a][e] < s.units[a][e] => a = x /\ e = c
    BY <1>7, <2>6, <2>7, <2>8
  <2>10. \A a \in Addr, e \in Asset : s4.units[a][e] < s.units[a][e] => MayTake(s, tx, a, e)
    BY <1>8, <1>11, <2>9 DEF MayTake, x, c
  <2>11. \A a \in Addr, e \in Asset : e \in s.frozen[a] \ s4.frozen[a] => MayThaw(tx, a, e)
    <3>1. \A a \in Addr, e \in Asset : e \in s.frozen[a] \ s4.frozen[a] => a = x /\ e = c
      BY <1>2, <1>6, <2>5, <2>7
    <3>. QED  BY <1>8, <1>11, <3>1 DEF MayThaw, x, c
  <2>. QED  BY <1>2, <1>6, <1>9, <2>1, <2>5, <2>7, <2>10, <2>11 DEF Proper
<1>. QED  BY <1>10, <1>11

\* A clawback takes units of its target.
LEMMA RevokeAssetProper ==
  ASSUME NEW s, Sound(s), NEW tx \in Tx, tx.type = "revoke", RevokeAsset(s, tx).ok
  PROVE  Proper(s, RevokeAsset(s, tx).s, tx)
<1>. DEFINE t == MoveUnits(s, tx.target, tx.to, tx.asset, tx.amt)
<1>1. /\ tx.target \in Addr /\ tx.to \in Addr /\ tx.asset \in Asset /\ tx.amt \in Nat
      /\ s \in State
  BY DEF Tx, Sound
<1>2. /\ RevokeAsset(s, tx).s = t
      /\ tx.from = s.def[tx.asset].roles["clawback"]
      /\ Holds(s, tx.target, tx.asset) /\ Holds(s, tx.to, tx.asset)
      /\ s.units[tx.target][tx.asset] >= tx.amt
  BY DEF RevokeAsset, Ok, Throw
<1>3. tx.amt <= s.units[tx.target][tx.asset]
  BY <1>1, <1>2 DEF State
<1>4. t.frozen = s.frozen /\ t.def = s.def /\ t.ctr = s.ctr /\ s.ctr \in Int
  BY <1>1, <1>2, <1>3, MoveUnitsSound DEF State
<1>5. \A a \in Addr, e \in Asset :
        t.units[a][e] < s.units[a][e] => a = tx.target /\ e = tx.asset
  BY <1>1, <1>3, MoveTakes
<1>. HIDE DEF t
<1>6. \A a \in Addr, e \in Asset : t.units[a][e] < s.units[a][e] => MayTake(s, tx, a, e)
  BY <1>2, <1>5 DEF MayTake
<1>. QED  BY <1>2, <1>4, <1>6 DEF Proper

\* Freezing and unfreezing move no units.
LEMMA FreezeAssetProper ==
  ASSUME NEW s, Sound(s), NEW tx \in Tx, tx.type = "freeze", FreezeAsset(s, tx).ok
  PROVE  Proper(s, FreezeAsset(s, tx).s, tx)
<1>. DEFINE t == FreezeAsset(s, tx).s
<1>1. /\ tx.target \in Addr /\ tx.asset \in Asset /\ s \in State
  BY DEF Tx, Sound
<1>2. t.units = s.units /\ t.def = s.def /\ t.ctr = s.ctr
  BY <1>1 DEF FreezeAsset, Ok, Throw, State
<1>3. t.frozen = [s.frozen EXCEPT ![tx.target] = IF tx.flag THEN @ \cup {tx.asset}
                                                            ELSE @ \ {tx.asset}]
  BY <1>1 DEF FreezeAsset, Ok, Throw, State
<1>. HIDE DEF t
<1>4. \A a \in Addr, e \in Asset :
        e \in s.frozen[a] \ t.frozen[a] => a = tx.target /\ e = tx.asset /\ ~tx.flag
  BY <1>1, <1>3 DEF State
<1>5. \A a \in Addr, e \in Asset : e \in s.frozen[a] \ t.frozen[a] => MayThaw(tx, a, e)
  BY <1>4 DEF MayThaw
<1>6. \A a \in Addr, e \in Asset : ~(t.units[a][e] < s.units[a][e])
  BY <1>1, <1>2 DEF State
<1>7. s.ctr \in Int
  BY <1>1 DEF State
<1>8. Proper(s, t, tx)
  BY <1>2, <1>5, <1>6, <1>7 DEF Proper
<1>. QED  BY <1>8 DEF t

\* A new asset has an index that no holding has yet.
LEMMA DeployASAProper ==
  ASSUME NEW s, Sound(s), NEW tx \in Tx, tx.type = "create", s.ctr < MaxAsset,
         NEW o, o = DeployASA(s, tx.from, tx.amt, tx.flag, tx.roles, FALSE, tx.type), o.ok
  PROVE  Proper(s, o.s, tx)
<1>. DEFINE id == s.ctr + 1
            x == tx.from
            t == o.s
<1>1. /\ x \in Addr /\ tx.amt \in Nat /\ s \in State
      /\ id \in Asset /\ s.ctr \in Nat /\ 1..s.ctr \subseteq Asset
  <2>1. x \in Addr /\ tx.amt \in Nat /\ s \in State
    BY DEF Tx, Sound
  <2>2. MaxAsset \in Nat /\ s.ctr \in 0..MaxAsset
    BY <2>1, LedgerAssumption DEF State, LedgerAssumption
  <2>. QED  BY <2>1, <2>2 DEF Asset
<1>2. /\ t.units = [s.units EXCEPT ![x] = [s.units[x] EXCEPT ![id] = tx.amt]]
      /\ t.frozen = s.frozen /\ t.ctr = id
      /\ \A c \in Asset : c # id => t.def[c] = s.def[c]
  BY <1>1 DEF DeployASA, Ok, Throw, State
<1>3. s.units[x][id] = 0
  <2>1. id \notin s.opted[x]
    BY <1>1 DEF Sound, HoldingsWellFormed
  <2>. QED  BY <1>1, <2>1 DEF Sound, HoldingsWellFormed
<1>. HIDE DEF t
<1>4. \A a \in Addr, c \in Asset : t.units[a][c] = IF a = x /\ c = id THEN tx.amt ELSE s.units[a][c]
  BY <1>1, <1>2 DEF State
<1>5. \A a \in Addr, c \in Asset : ~(t.units[a][c] < s.units[a][c])
  BY <1>1, <1>3, <1>4 DEF State
<1>6. \A c \in 1..s.ctr : t.def[c] = s.def[c]
  BY <1>1, <1>2
<1>7. Proper(s, t, tx)
  BY <1>1, <1>2, <1>5, <1>6 DEF Proper
<1>. QED  BY <1>7 DEF t

\* Appointing others is up to the manager, and so is the end of the asset.
LEMMA ConfigAssetProper ==
  ASSUME NEW s, Sound(s), NEW tx \in Tx, tx.type = "config", ConfigAsset(s, tx).ok
  PROVE  Proper(s, ConfigAsset(s, tx).s, tx)
<1>. DEFINE c == tx.asset
            t == ConfigAsset(s, tx).s
<1>1. c \in Asset /\ s \in State /\ s.ctr \in Int /\ 1..s.ctr \subseteq Asset
  <2>1. c \in Asset /\ s \in State
    BY DEF Tx, Sound
  <2>2. MaxAsset \in Nat /\ s.ctr \in 0..MaxAsset
    BY <2>1, LedgerAssumption DEF State, LedgerAssumption
  <2>. QED  BY <2>1, <2>2 DEF Asset
<1>2. tx.from = s.def[c].roles["manager"]
  BY DEF ConfigAsset, Throw
<1>3. /\ \A a \in Addr, e \in Asset : e # c => t.units[a][e] = s.units[a][e]
      /\ \A a \in Addr, e \in Asset : e # c /\ e \in s.frozen[a] => e \in t.frozen[a]
      /\ \A e \in Asset : e # c => t.def[e] = s.def[e]
      /\ t.ctr = s.ctr
  <2>1. CASE tx.roles = NoRoles
    <3>1. t = DestroyAsset(s, tx).s /\ DestroyAsset(s, tx).ok
      BY <2>1 DEF ConfigAsset, Throw
    <3>2. /\ t.units = [b \in Addr |-> [s.units[b] EXCEPT ![c] = 0]]
          /\ t.frozen = [b \in Addr |-> s.frozen[b] \ {c}]
          /\ t.def = s.def /\ t.ctr = s.ctr
      BY <1>1, <3>1 DEF DestroyAsset, Ok, Throw, State
    <3>. HIDE DEF t, c
    <3>. QED  BY <1>1, <3>2 DEF State
  <2>2. CASE tx.roles # NoRoles
    <3>1. t = ModifyAsset(s, tx).s
      BY <2>2 DEF ConfigAsset, Throw
    <3>2. PICK r : t = [s EXCEPT !.def[c].roles = r]
      BY <3>1 DEF ModifyAsset
    <3>. HIDE DEF t, c
    <3>3. /\ t.units = s.units /\ t.frozen = s.frozen /\ t.ctr = s.ctr
          /\ t.def = [s.def EXCEPT ![c] = [s.def[c] EXCEPT !.roles = r]]
      BY <1>1, <3>2 DEF State
    <3>4. \A e \in Asset : e # c => t.def[e] = s.def[e]
      BY <1>1, <3>3 DEF State
    <3>. QED  BY <3>3, <3>4
  <2>. QED  BY <2>1, <2>2
<1>. HIDE DEF t, c
<1>4. \A a \in Addr, e \in Asset : t.units[a][e] < s.units[a][e] => e = c
  BY <1>1, <1>3 DEF State
<1>5. \A a \in Addr, e \in Asset : t.units[a][e] < s.units[a][e] => MayTake(s, tx, a, e)
  BY <1>2, <1>4 DEF MayTake, c
<1>6. \A a \in Addr, e \in Asset : e \in s.frozen[a] \ t.frozen[a] => MayThaw(tx, a, e)
  BY <1>3 DEF MayThaw, c
<1>7. \A e \in 1..s.ctr : t.def[e].roles # s.def[e].roles => MayAppoint(s, tx, e)
  BY <1>1, <1>2, <1>3 DEF MayAppoint, c
<1>8. Proper(s, t, tx)
  BY <1>1, <1>3, <1>5, <1>6, <1>7 DEF Proper
<1>. QED  BY <1>8 DEF t

\* One transaction that returns takes nothing but what it may.
LEMMA ApplyTxProper ==
  ASSUME NEW base, NEW s, Sound(s), NEW tx \in Tx,
         tx.type = "create" => s.ctr < MaxAsset,
         ApplyTx(base, s, tx).ok
  PROVE  Proper(s, ApplyTx(base, s, tx).s, tx)
<1>. DEFINE p == DeductFee(s, tx).s
            done == Dispatch(p, tx)
            d == done.s
            r == Rekey(d, tx)
<1>1. s \in State /\ Sound(p) /\ Untouched(s, p)
  BY FeesUntouched, DeductFeeSound DEF Sound
<1>2. done.ok /\ ApplyTx(base, s, tx) = Ok(r)
  BY DEF ApplyTx, Throw
<1>. HIDE DEF p, r
<1>3. tx.type \in TxType /\ p \in State /\ p.ctr = s.ctr
  BY <1>1 DEF Tx, Sound, Untouched
<1>4. Proper(p, d, tx) /\ d \in State
  <2>1. CASE tx.type \in {"pay", "keyreg"}
    <3>1. done = TransferAlgo(p, tx) \/ done = Ok(p)
      BY <2>1 DEF Dispatch
    <3>2. Untouched(p, p)
      BY DEF Untouched
    <3>3. Untouched(p, d)
      BY <1>3, <3>1, <3>2, PaymentUntouched DEF Ok
    <3>4. Sound(d)
      BY <1>1, <3>1, TransferAlgoSound DEF Ok
    <3>. QED  BY <1>3, <3>3, <3>4, UntouchedProper DEF Sound
  <2>2. CASE tx.type = "create"
    <3>1. done = DeployASA(p, tx.from, tx.amt, tx.flag, tx.roles, FALSE, tx.type)
      BY <2>2 DEF Dispatch
    <3>2. /\ tx.from \in Addr /\ tx.amt \in Nat /\ tx.flag \in BOOLEAN
          /\ tx.roles \in Roles /\ p.ctr < MaxAsset
      BY <1>3, <2>2 DEF Tx
    <3>3. Sound(d)
      BY <1>1, <3>1, <3>2, DeploySound
    <3>. QED  BY <1>1, <1>2, <2>2, <3>1, <3>2, <3>3, DeployASAProper DEF Sound
  <2>3. CASE tx.type = "config"
    <3>1. done = ConfigAsset(p, tx)
      BY <2>3 DEF Dispatch
    <3>. QED  BY <1>1, <1>2, <2>3, <3>1, ConfigAssetProper, ConfigAssetSound DEF Sound
  <2>4. CASE tx.type = "transfer"
    <3>1. done = TransferAsset(p, tx)
      BY <2>4 DEF Dispatch
    <3>. QED  BY <1>1, <1>2, <2>4, <3>1, TransferAssetProper, TransferAssetSound DEF Sound
  <2>5. CASE tx.type = "revoke"
    <3>1. done = RevokeAsset(p, tx)
      BY <2>5 DEF Dispatch
    <3>. QED  BY <1>1, <1>2, <2>5, <3>1, RevokeAssetProper, RevokeAssetSound DEF Sound
  <2>6. CASE tx.type = "freeze"
    <3>1. done = FreezeAsset(p, tx)
      BY <2>6 DEF Dispatch
    <3>. QED  BY <1>1, <1>2, <2>6, <3>1, FreezeAssetProper, FreezeAssetSound DEF Sound
  <2>. QED  BY <1>3, <2>1, <2>2, <2>3, <2>4, <2>5, <2>6 DEF TxType
<1>. HIDE DEF d, done
<1>5. Untouched(d, r)
  BY <1>4, FeesUntouched DEF r
<1>6. Proper(s, r, tx)
  BY <1>1, <1>4, <1>5 DEF Proper, Untouched, MayTake, MayAppoint
<1>. QED  BY <1>2, <1>6 DEF Ok

-----------------------------------------------------------------------------
(* Groups                                                                  *)

\* Transaction i of the group is on asset c, not refused, and sent by one of `by`.
SentBy(i, c, by) == group[i].asset = c /\ Unrefused(i) /\ group[i].from \in by

Manager(c) == store.def[c].roles["manager"]
Takers(a, c) == {a, store.def[c].roles["clawback"], Manager(c)}

\* What the group has taken so far was taken by right, and whom it appointed the
\* manager of the store has appointed.
TakenByRight ==
  \A a \in Addr, c \in Asset :
    ctx.units[a][c] < store.units[a][c] => \E i \in 1..(idx - 1) : SentBy(i, c, Takers(a, c))

AppointedByRight ==
  \A c \in 1..store.ctr :
    ctx.def[c].roles # store.def[c].roles =>
      \E i \in 1..(idx - 1) : SentBy(i, c, {Manager(c)})

\* Transaction tx explains why a has fewer frozen units of c.
Excuse(tx, a, c) ==
  /\ tx.asset = c
  /\ \/ tx.type = "revoke" /\ tx.target = a
     \/ tx.type = "config"
     \/ tx.type = "freeze" /\ tx.target = a /\ ~tx.flag
     \/ tx.type = "transfer" /\ tx.from = a /\ tx.amt = 0 /\ tx.close # NoAddr

FrozenExcused ==
  \A a \in Addr, c \in Asset :
    c \in store.frozen[a] /\ (ctx.units[a][c] < store.units[a][c] \/ c \notin ctx.frozen[a]) =>
      \E i \in 1..(idx - 1) : Excuse(group[i], a, c)

HoldingsInv ==
  /\ TxInv
  /\ idx > 0 => /\ TakenByRight /\ AppointedByRight /\ FrozenExcused
                /\ ctx.ctr >= store.ctr

\* At first no group is under way.
LEMMA InitHoldings == Init => HoldingsInv
BY InitTxInv DEF Init, HoldingsInv

\* At the beginning of a group the context is the store.
LEMMA ExecuteTxHoldings ==
  ASSUME HoldingsInv, NEW g \in Groups, ExecuteTx(g)
  PROVE  HoldingsInv'
<1>1. ctx' = store /\ store' = store /\ store \in State
  BY DEF ExecuteTx, HoldingsInv, TxInv, IInv, Sound
<1>2. \A a \in Addr, c \in Asset : ~(store.units[a][c] < store.units[a][c])
  BY <1>1 DEF State
<1>3. store.ctr >= store.ctr
  BY <1>1, LedgerAssumption DEF State, LedgerAssumption
<1>4. TxInv'
  BY TxStep DEF HoldingsInv, TxNext, Group
<1>. QED
  BY <1>1, <1>2, <1>3, <1>4 DEF HoldingsInv, TakenByRight, AppointedByRight, FrozenExcused

\* A transaction adds its own takings to those of the group.
LEMMA StepTxHoldings ==
  ASSUME HoldingsInv, StepTx
  PROVE  HoldingsInv'
<1>. DEFINE tx == group[idx]
            o == ApplyTx(store, ctx, tx)
            t == o.s
<1>1. /\ tx \in Tx /\ idx \in 1..Len(group) /\ Len(group) \in Nat
      /\ Sound(store) /\ Sound(ctx) /\ Sound(t) /\ ctx' = t
      /\ o.ok => Authorised(store, tx)
  BY StepFacts DEF HoldingsInv, TxInv, IInv, ControlOK
<1>2. /\ store' = store
      /\ \/ o.ok /\ idx' = idx + 1 /\ group' = group
         \/ idx' = 0
  BY DEF StepTx
<1>3. TxInv'
  BY TxStep DEF HoldingsInv, TxNext, Group
<1>4. CASE idx' = 0
  BY <1>3, <1>4 DEF HoldingsInv
<1>5. CASE o.ok /\ idx' = idx + 1 /\ group' = group
  <2>1. /\ TakenByRight /\ AppointedByRight /\ FrozenExcused /\ ctx.ctr >= store.ctr
    BY <1>1 DEF HoldingsInv
  <2>2. tx.type = "create" => ctx.ctr < MaxAsset
    <3>1. RoomFor(group, idx, ctx.ctr) /\ idx \in idx..Len(group)
      BY <1>1 DEF HoldingsInv, TxInv, IInv, Room
    <3>2. ctx.ctr \in Int /\ MaxAsset \in Nat
      BY <1>1, LedgerAssumption DEF Sound, State, LedgerAssumption
    <3>3. tx.type = "create" => ctx.ctr + Len(group) - idx + 1 <= MaxAsset
      BY <3>1 DEF RoomFor
    <3>. QED  BY <1>1, <3>2, <3>3
  <2>3. Proper(ctx, t, tx)
    BY <1>1, <1>5, <2>2, ApplyTxProper
  <2>4. /\ Unrefused(idx)
        /\ \A i : Unrefused(i)' <=> Unrefused(i)
        /\ 1..(idx' - 1) = 1..idx /\ idx \in 1..idx /\ 1..(idx - 1) \subseteq 1..idx
    BY <1>1, <1>2, <1>5 DEF Authorised, Unrefused, Signed
  <2>. HIDE DEF o, t
  <2>5. /\ store \in State /\ ctx \in State /\ t \in State
        /\ store.ctr \in Int /\ ctx.ctr \in Int /\ t.ctr \in Int
        /\ \A a \in Addr, c \in Asset : /\ store.units[a][c] \in Nat
                                       /\ ctx.units[a][c] \in Nat /\ t.units[a][c] \in Nat
    <3>1. ASSUME NEW l, Sound(l)
          PROVE  l \in State /\ l.ctr \in Int /\ \A a \in Addr, c \in Asset : l.units[a][c] \in Nat
      BY <3>1 DEF Sound, State
    <3>. QED  BY <1>1, <3>1
  <2>6. ASSUME NEW c \in 1..store.ctr, ctx.def[c].roles # store.def[c].roles
        PROVE  \E i \in 1..idx : SentBy(i, c, {Manager(c)})
    BY <2>1, <2>4, <2>6 DEF AppointedByRight
  <2>7. ASSUME NEW a \in Addr, NEW c \in Asset, t.units[a][c] < store.units[a][c]
        PROVE  \E i \in 1..idx : SentBy(i, c, Takers(a, c))
    <3>1. CASE ctx.units[a][c] < store.units[a][c]
      BY <2>1, <2>4, <3>1 DEF TakenByRight
    <3>2. CASE ~(ctx.units[a][c] < store.units[a][c])
      <4>1. MayTake(ctx, tx, a, c)
        BY <2>3, <2>5, <2>7, <3>2 DEF Proper
      <4>2. c \in 1..store.ctr
        BY <1>1, <2>5, <2>7 DEF Sound, HoldingsWellFormed
      <4>3. CASE ctx.def[c].roles # store.def[c].roles
        BY <2>6, <4>2, <4>3 DEF SentBy, Takers
      <4>4. CASE ctx.def[c].roles = store.def[c].roles
        BY <2>4, <4>1, <4>4 DEF MayTake, SentBy, Takers, Manager
      <4>. QED  BY <4>3, <4>4
    <3>. QED  BY <3>1, <3>2
  <2>8. ASSUME NEW c \in 1..store.ctr, t.def[c].roles # store.def[c].roles
        PROVE  \E i \in 1..idx : SentBy(i, c, {Manager(c)})
    <3>1. CASE ctx.def[c].roles # store.def[c].roles
      BY <2>6, <3>1
    <3>2. CASE ctx.def[c].roles = store.def[c].roles
      <4>1. c \in 1..ctx.ctr
        BY <2>1, <2>5
      <4>2. MayAppoint(ctx, tx, c)
        BY <2>3, <2>8, <3>2, <4>1 DEF Proper
      <4>. QED  BY <2>4, <3>2, <4>2 DEF MayAppoint, SentBy, Manager
    <3>. QED  BY <3>1, <3>2
  <2>9. ASSUME NEW a \in Addr, NEW c \in Asset, c \in store.frozen[a],
               t.units[a][c] < store.units[a][c] \/ c \notin t.frozen[a]
        PROVE  \E i \in 1..idx : Excuse(group[i], a, c)
    <3>1. CASE ctx.units[a][c] < store.units[a][c] \/ c \notin ctx.frozen[a]
      BY <2>1, <2>4, <2>9, <3>1 DEF FrozenExcused
    <3>2. CASE ~(ctx.units[a][c] < store.units[a][c] \/ c \notin ctx.frozen[a])
      <4>1. \/ MayTake(ctx, tx, a, c) /\ c \in ctx.frozen[a]
            \/ MayThaw(tx, a, c)
        BY <2>3, <2>5, <2>9, <3>2 DEF Proper
      <4>2. Excuse(tx, a, c)
        BY <4>1 DEF MayTake, MayThaw, Excuse
      <4>. QED  BY <2>4, <4>2
    <3>. QED  BY <3>1, <3>2
  <2>10. TakenByRight'
    BY <1>1, <1>2, <1>5, <2>4, <2>7 DEF TakenByRight, SentBy, Takers, Manager, t
  <2>11. AppointedByRight'
    BY <1>1, <1>2, <1>5, <2>4, <2>8 DEF AppointedByRight, SentBy, Manager, t
  <2>12. FrozenExcused'
    BY <1>1, <1>2, <1>5, <2>4, <2>9 DEF FrozenExcused, Excuse, t
  <2>13. ctx'.ctr >= store'.ctr
    BY <1>1, <1>2, <2>1, <2>3, <2>5 DEF Proper, t
  <2>. QED  BY <1>3, <2>10, <2>11, <2>12, <2>13 DEF HoldingsInv
<1>. QED  BY <1>2, <1>4, <1>5

\* Every step keeps the invariant.
LEMMA NextHoldings == HoldingsInv /\ [TxNext]_vars => HoldingsInv'
<1>. SUFFICES ASSUME HoldingsInv, [TxNext]_vars PROVE HoldingsInv'
  OBVIOUS
<1>1. TxInv'
  BY TxStep DEF HoldingsInv
<1>2. ASSUME NEW g \in Groups, ExecuteTx(g) PROVE HoldingsInv'
  BY <1>2, ExecuteTxHoldings
<1>3. CASE StepTx
  BY <1>3, StepTxHoldings
<1>4. CASE CommitGroup
  BY <1>1, <1>4 DEF CommitGroup, HoldingsInv
<1>5. ASSUME NEW a \in Lsigs \ store.acct, CreateLsigAccount(a) PROVE HoldingsInv'
  BY <1>1, <1>5 DEF CreateLsigAccount, AddAccounts, Idle, HoldingsInv
<1>6. CASE UNCHANGED vars
  BY <1>1, <1>6 DEF vars, HoldingsInv, TakenByRight, AppointedByRight, FrozenExcused,
                    SentBy, Takers, Manager, Excuse, Unrefused, Signed
<1>. QED  BY <1>2, <1>3, <1>4, <1>5, <1>6 DEF TxNext, Group

\* Hence rights are respected at every moment of every group.
LEMMA HoldingsAlways == TxSpec => []HoldingsInv
BY InitHoldings, NextHoldings, PTL DEF TxSpec

\* Units leave the store in two kinds of steps: none when a logic signature gets
\* its account, and all that a group has taken when it is committed.
LEMMA StoreChanges ==
  ASSUME HoldingsInv, [TxNext]_vars
  PROVE  \/ \A a \in Addr, c \in Asset : ~(store'.units[a][c] < store.units[a][c])
         \/ /\ TakenByRight /\ FrozenExcused /\ store' = ctx
            /\ 1..(idx - 1) = DOMAIN group
<1>1. Sound(store) /\ store \in State /\ group \in Seq(Tx)
  BY DEF HoldingsInv, TxInv, IInv, ControlOK, Sound
<1>2. CASE store' = store
  BY <1>1, <1>2 DEF State
<1>3. CASE CommitGroup
  <2>1. idx = Len(group) + 1 /\ idx > 0 /\ store' = ctx
    BY <1>3 DEF CommitGroup, HoldingsInv, TxInv, IInv, ControlOK
  <2>2. 1..(idx - 1) = DOMAIN group
    BY <1>1, <2>1
  <2>. QED  BY <2>1, <2>2 DEF HoldingsInv
<1>4. ASSUME NEW x \in Lsigs \ store.acct, CreateLsigAccount(x)
      PROVE  \A a \in Addr, c \in Asset : ~(store'.units[a][c] < store.units[a][c])
  <2>1. store' = NewAccounts(store, {x}, 0) /\ x \in Addr
    BY <1>4, RuntimeAssumption DEF RuntimeAssumption, CreateLsigAccount, AddAccounts
  <2>2. store'.units = [a \in Addr |-> IF a \in {x} THEN [c \in Asset |-> 0] ELSE store.units[a]]
    BY <1>1, <2>1 DEF NewAccounts, State
  <2>3. store.opted[x] = {}
    BY <1>1, <1>4, <2>1 DEF Sound, HoldingsWellFormed
  <2>4. \A c \in Asset : store.units[x][c] = 0
    BY <1>1, <2>1, <2>3 DEF Sound, HoldingsWellFormed
  <2>5. ASSUME NEW a \in Addr, NEW c \in Asset
        PROVE  store'.units[a][c] = store.units[a][c]
    <3>1. CASE a = x
      BY <2>2, <2>4, <3>1
    <3>2. CASE a # x
      BY <2>2, <3>2
    <3>. QED  BY <3>1, <3>2
  <2>6. \A a \in Addr, c \in Asset : store.units[a][c] \in Nat
    BY <1>1 DEF State
  <2>. QED  BY <2>5, <2>6
<1>. QED  BY <1>2, <1>3, <1>4 DEF TxNext, Group, ExecuteTx, StepTx, vars

\* An account loses units of an asset only through a transaction on that asset of
\* its own, of the clawback address or of the manager that the store knew before
\* the group, whatever the group appoints on its way, and never through one that
\* is signed by anybody else.
THEOREM UnitsStayUnlessByRight == TxSpec => UnitsTakenByRight
<1>1. HoldingsInv /\ [TxNext]_vars =>
        [\A a \in Addr, c \in Asset :
           store'.units[a][c] < store.units[a][c] =>
             \E i \in DOMAIN group :
               /\ group[i].asset = c /\ Unrefused(i)
               /\ group[i].from \in {a, store.def[c].roles["clawback"],
                                       store.def[c].roles["manager"]}]_vars
  BY StoreChanges DEF TakenByRight, SentBy, Takers, Manager
<1>. QED  BY <1>1, HoldingsAlways, PTL DEF TxSpec, UnitsTakenByRight

\* A frozen holding loses units only to a clawback, to the end of the asset, to
\* whoever unfroze it first, or to its closing by a transfer of nothing.
THEOREM FrozenUnitsStayFrozen == TxSpec => FrozenUnitsStay
<1>. DEFINE Step ==
       \A a \in Addr, c \in Asset :
         c \in store.frozen[a] /\ store'.units[a][c] < store.units[a][c] =>
             \E i \in DOMAIN group :
               /\ group[i].asset = c
               /\ \/ group[i].type = "revoke" /\ group[i].target = a
                  \/ group[i].type = "config"
                  \/ group[i].type = "freeze" /\ group[i].target = a /\ ~group[i].flag
                  \/ /\ group[i].type = "transfer" /\ group[i].from = a
                     /\ group[i].amt = 0 /\ group[i].close # NoAddr
<1>1. ASSUME HoldingsInv, [TxNext]_vars PROVE [Step]_vars
  <2>1. CASE \A a \in Addr, c \in Asset : ~(store'.units[a][c] < store.units[a][c])
    BY <2>1
  <2>2. CASE FrozenExcused /\ store' = ctx /\ 1..(idx - 1) = DOMAIN group
    <3>1. ASSUME NEW a \in Addr, NEW c \in Asset,
                 c \in store.frozen[a], store'.units[a][c] < store.units[a][c]
          PROVE  \E i \in DOMAIN group : Excuse(group[i], a, c)
      BY <2>2, <3>1 DEF FrozenExcused
    <3>. QED  BY <3>1 DEF Excuse
  <2>. QED  BY <1>1, <2>1, <2>2, StoreChanges
<1>. QED  BY <1>1, HoldingsAlways, PTL DEF TxSpec, FrozenUnitsStay

-----------------------------------------------------------------------------
(* The supply of an asset                                                  *)

\* What every account holds of an asset.
Column(s, c) == [a \in Addr |-> s.units[a][c]]

\* Two ledgers with the same supply of every asset that the second one knows.
SameSupply(s, t) ==
  /\ t.live \subseteq s.live
  /\ \A c \in t.live : /\ t.def[c].total = s.def[c].total
                       /\ Sum(Column(t, c)) = Sum(Column(s, c))

\* The columns of a ledger are functions to integers.
LEMMA ColumnType ==
  ASSUME NEW s \in State, NEW c \in Asset
  PROVE  Column(s, c) \in [Addr -> Int] /\ Sum(Column(s, c)) \in Int
<1>1. Column(s, c) \in [Addr -> Int]
  BY DEF State, Column
<1>. QED  BY <1>1, SumInt, LedgerAssumption DEF LedgerAssumption

\* Ledgers with the same supply are both conserved.
LEMMA SameSupplyConserves ==
  ASSUME NEW s, NEW t, SameSupply(s, t), SupplyConserved(s)
  PROVE  SupplyConserved(t)
BY DEF SameSupply, SupplyConserved, Column

\* Whoever moves no units keeps the supply.
LEMMA SameUnitsSupply ==
  ASSUME NEW s, NEW t, t.units = s.units, t.live \subseteq s.live,
         \A c \in t.live : t.def[c].total = s.def[c].total
  PROVE  SameSupply(s, t)
BY DEF SameSupply, Column

\* Units that are moved are neither created nor lost.
LEMMA MoveConserves ==
  ASSUME NEW s \in State, NEW a \in Addr, NEW b \in Addr, NEW c \in Asset,
         NEW n \in Nat, n <= s.units[a][c]
  PROVE  \A d \in Asset : Sum(Column(MoveUnits(s, a, b, c, n), d)) = Sum(Column(s, d))
<1>. DEFINE less == [s.units EXCEPT ![a] = [s.units[a] EXCEPT ![c] = s.units[a][c] - n]]
            more == [less EXCEPT ![b] = [less[b] EXCEPT ![c] = less[b][c] + n]]
            t == MoveUnits(s, a, b, c, n)
<1>1. s.units \in [Addr -> [Asset -> Nat]] /\ s.units[a][c] - n \in Nat
  BY DEF State
<1>2. less \in [Addr -> [Asset -> Nat]]
  BY <1>1
<1>3. t.units = more
  BY DEF MoveUnits, AddUnits, SubUnits, State
<1>4. \A x \in Addr, y \in Asset :
        less[x][y] = IF x = a /\ y = c THEN s.units[x][y] - n ELSE s.units[x][y]
  BY <1>1
<1>5. \A x \in Addr, y \in Asset :
        more[x][y] = IF x = b /\ y = c THEN less[x][y] + n ELSE less[x][y]
  BY <1>2
<1>. HIDE DEF less, more, t
<1>. SUFFICES ASSUME NEW d \in Asset PROVE Sum(Column(t, d)) = Sum(Column(s, d))
  BY DEF t
<1>6. CASE d # c
  <2>1. Column(t, d) = Column(s, d)
    BY <1>3, <1>4, <1>5, <1>6 DEF Column
  <2>. QED  BY <2>1
<1>7. CASE d = c
  <2>. DEFINE f == Column(s, c)
              g == Column(t, c)
  <2>1. f \in [Addr -> Int] /\ g \in [Addr -> Int]
    BY <1>1, <1>3, <1>4, <1>5 DEF Column
  <2>2. /\ \A x \in Addr \ {a, b} : g[x] = f[x]
        /\ IF a = b THEN g[a] = f[a] ELSE g[a] + g[b] = f[a] + f[b]
    BY <1>1, <1>3, <1>4, <1>5 DEF Column
  <2>. HIDE DEF f, g
  <2>3. n \in Int /\ IsFiniteSet(Addr)
    BY LedgerAssumption DEF LedgerAssumption
  <2>4. Sum(g) = Sum(f)
    BY <2>1, <2>2, <2>3, SumOfMove
  <2>. QED  BY <1>7, <2>4 DEF f, g
<1>. QED  BY <1>6, <1>7

\* A transfer keeps the supply: what is closed has been emptied.
LEMMA TransferAssetSupply ==
  ASSUME NEW s, Sound(s), NEW tx \in Tx, TransferAsset(s, tx).ok
  PROVE  SameSupply(s, TransferAsset(s, tx).s)
<1>. DEFINE x == tx.from
            c == tx.asset
            opt == IF tx.amt = 0 /\ x = tx.to THEN OptInToASA(s, x, c, tx.type) ELSE Ok(s)
            s1 == opt.s
            s2 == MoveUnits(s1, x, tx.to, c, tx.amt)
            s3 == MoveUnits(s2, x, tx.close, c, s2.units[x][c])
            s4 == CloseAsset(s3, x, c)
            mayMove == /\ opt.ok
                       /\ Holds(s1, x, c) /\ Holds(s1, tx.to, c)
                       /\ tx.amt # 0 => Unfrozen(s1, x, c) /\ Unfrozen(s1, tx.to, c)
                       /\ s1.units[x][c] >= tx.amt
            mayClose == /\ tx.close \in Addr \ {x, NoAddr}
                        /\ x # s1.def[c].creator
                        /\ Unfrozen(s1, tx.close, c)
<1>1. x \in Addr /\ tx.to \in Addr /\ c \in Asset /\ tx.amt \in Nat
  BY DEF Tx
<1>2. Sound(s1) /\ s1.def = s.def /\ s1.units = s.units /\ s1.live = s.live
  <2>1. CASE tx.amt = 0 /\ x = tx.to
    <3>1. Sound(s1) /\ s1.def = s.def /\ s1.units = s.units
      BY <1>1, <2>1, OptInSound
    <3>2. s1.live = s.live
      BY <1>1, <2>1 DEF OptInToASA, Throw, Sound, State
    <3>. QED  BY <3>1, <3>2
  <2>2. CASE ~(tx.amt = 0 /\ x = tx.to)
    BY <2>2 DEF Ok
  <2>. QED  BY <2>1, <2>2
<1>3. TransferAsset(s, tx) = IF ~mayMove THEN Throw(s1)
                             ELSE IF tx.close = NoAddr THEN Ok(s2)
                             ELSE IF mayClose THEN Ok(s4) ELSE Throw(s2)
  BY DEF TransferAsset
<1>. HIDE DEF x, c, opt, s1
<1>4. mayMove
  BY <1>3 DEF Throw
<1>5. tx.amt <= s1.units[x][c] /\ s1 \in State /\ s1.live \subseteq Asset
  BY <1>1, <1>2, <1>4 DEF Sound, State
<1>6. Sound(s2) /\ s2.opted = s1.opted /\ s2.def = s1.def /\ s2.live = s1.live
  BY <1>1, <1>2, <1>4, <1>5, MoveUnitsSound
<1>7. \A d \in Asset : Sum(Column(s2, d)) = Sum(Column(s1, d))
  BY <1>1, <1>5, MoveConserves
<1>8. \A d \in Asset : Column(s1, d) = Column(s, d)
  BY <1>2 DEF Column
<1>. HIDE DEF s2
<1>9. CASE tx.close = NoAddr
  <2>1. TransferAsset(s, tx).s = s2
    BY <1>3, <1>4, <1>9 DEF Ok
  <2>. QED  BY <1>2, <1>5, <1>6, <1>7, <1>8, <2>1 DEF SameSupply
<1>10. CASE tx.close # NoAddr
  <2>1. mayClose /\ TransferAsset(s, tx).s = s4
    BY <1>3, <1>4, <1>10 DEF Ok, Throw
  <2>2. s2.units[x][c] \in Nat /\ s2.units[x][c] <= s2.units[x][c] /\ s2 \in State
    BY <1>1, <1>6 DEF Sound, State
  <2>3. Holds(s2, x, c) /\ Holds(s2, tx.close, c) /\ tx.close \in Addr /\ tx.close # x
    BY <1>4, <1>6, <2>1 DEF Holds, Unfrozen
  <2>4. Sound(s3) /\ s3.def = s2.def /\ s3.live = s2.live
    BY <1>1, <1>6, <2>2, <2>3, MoveUnitsSound
  <2>5. \A d \in Asset : Sum(Column(s3, d)) = Sum(Column(s2, d))
    BY <1>1, <2>2, <2>3, MoveConserves
  <2>6. s3.units[x][c] = 0
    BY <1>1, <2>2, <2>3 DEF MoveUnits, AddUnits, SubUnits, State
  <2>. HIDE DEF s3
  <2>7. s4.live = s3.live /\ s4.def = s3.def /\ s4.units = s3.units
    <3>1. s3 \in State
      BY <2>4 DEF Sound
    <3>2. s4.live = s3.live /\ s4.def = s3.def /\ s4.units = [s3.units EXCEPT ![x][c] = 0]
      BY <1>1, <3>1 DEF CloseAsset, State
    <3>3. [s3.units EXCEPT ![x][c] = 0] = s3.units
      BY <1>1, <2>6, <3>1 DEF State
    <3>. QED  BY <3>2, <3>3
  <2>8. \A d \in Asset : Column(s4, d) = Column(s3, d)
    BY <2>7 DEF Column
  <2>. HIDE DEF s4
  <2>. QED  BY <1>2, <1>5, <1>6, <1>7, <1>8, <2>1, <2>4, <2>5, <2>7, <2>8 DEF SameSupply
<1>. QED  BY <1>9, <1>10

\* So does a clawback.
LEMMA RevokeAssetSupply ==
  ASSUME NEW s, Sound(s), NEW tx \in Tx, RevokeAsset(s, tx).ok
  PROVE  SameSupply(s, RevokeAsset(s, tx).s)
<1>. DEFINE t == MoveUnits(s, tx.target, tx.to, tx.asset, tx.amt)
<1>1. /\ tx.target \in Addr /\ tx.to \in Addr /\ tx.asset \in Asset /\ tx.amt \in Nat
      /\ s \in State /\ s.live \subseteq Asset
  BY DEF Tx, Sound, State
<1>2. /\ RevokeAsset(s, tx).s = t
      /\ Holds(s, tx.target, tx.asset) /\ Holds(s, tx.to, tx.asset)
      /\ s.units[tx.target][tx.asset] >= tx.amt
  BY DEF RevokeAsset, Ok, Throw
<1>3. tx.amt <= s.units[tx.target][tx.asset]
  BY <1>1, <1>2 DEF State
<1>4. t.live = s.live /\ t.def = s.def
  BY <1>1, <1>2, <1>3, MoveUnitsSound
<1>5. \A d \in Asset : Sum(Column(t, d)) = Sum(Column(s, d))
  BY <1>1, <1>3, MoveConserves
<1>. QED  BY <1>1, <1>2, <1>4, <1>5 DEF SameSupply

\* Freezing moves nothing.
LEMMA FreezeAssetSupply ==
  ASSUME NEW s, Sound(s), NEW tx \in Tx
  PROVE  SameSupply(s, FreezeAsset(s, tx).s)
<1>. DEFINE t == FreezeAsset(s, tx).s
<1>1. t.units = s.units /\ t.def = s.def /\ t.live = s.live
  BY DEF FreezeAsset, Ok, Throw, Sound, State
<1>. QED  BY <1>1, SameUnitsSupply

\* A configuration leaves the supply of every asset that it does not end.
LEMMA ConfigAssetSupply ==
  ASSUME NEW s, Sound(s), NEW tx \in Tx
  PROVE  SameSupply(s, ConfigAsset(s, tx).s)
<1>. DEFINE c == tx.asset
<1>1. c \in Asset /\ s \in State
  BY DEF Tx, Sound
<1>2. SameSupply(s, s)
  BY SameUnitsSupply
<1>3. SameSupply(s, DestroyAsset(s, tx).s)
  <2>. DEFINE t == DestroyAsset(s, tx).s
  <2>1. CASE t = s
    BY <1>2, <2>1
  <2>2. CASE t # s
    <3>1. /\ t.units = [b \in Addr |-> [s.units[b] EXCEPT ![c] = 0]]
          /\ t.def = s.def /\ t.live = s.live \ {c}
      BY <1>1, <2>2 DEF DestroyAsset, Ok, Throw, State
    <3>. HIDE DEF t
    <3>2. ASSUME NEW d \in Asset, d # c PROVE Column(t, d) = Column(s, d)
      BY <1>1, <3>1, <3>2 DEF Column, State
    <3>3. s.live \subseteq Asset
      BY <1>1 DEF State
    <3>4. SameSupply(s, t)
      BY <3>1, <3>2, <3>3 DEF SameSupply
    <3>. QED  BY <3>4 DEF t
  <2>. QED  BY <2>1, <2>2
<1>4. SameSupply(s, ModifyAsset(s, tx).s)
  <2>. DEFINE t == ModifyAsset(s, tx).s
  <2>1. /\ t.units = s.units /\ t.live = s.live
        /\ \A d \in Asset : t.def[d].total = s.def[d].total
    BY <1>1 DEF ModifyAsset, State, Definition
  <2>2. s.live \subseteq Asset
    BY <1>1 DEF State
  <2>. HIDE DEF t
  <2>3. SameSupply(s, t)
    BY <2>1, <2>2, SameUnitsSupply
  <2>. QED  BY <2>3 DEF t
<1>5. ConfigAsset(s, tx).s \in {s, DestroyAsset(s, tx).s, ModifyAsset(s, tx).s}
  BY DEF ConfigAsset, Throw
<1>. QED  BY <1>2, <1>3, <1>4, <1>5

\* The whole supply of a new asset is with its creator, and nobody had any of it.
LEMMA DeployASASupply ==
  ASSUME NEW s, Sound(s), SupplyConserved(s), NEW tx \in Tx, s.ctr < MaxAsset,
         NEW o, o = DeployASA(s, tx.from, tx.amt, tx.flag, tx.roles, FALSE, tx.type), o.ok
  PROVE  SupplyConserved(o.s)
<1>. DEFINE id == s.ctr + 1
            x == tx.from
            t == o.s
<1>1. /\ x \in Addr /\ tx.amt \in Nat /\ s \in State
      /\ id \in Asset /\ s.ctr \in Nat /\ s.live \subseteq Asset
  <2>1. x \in Addr /\ tx.amt \in Nat /\ s \in State /\ s.live \subseteq Asset
    BY DEF Tx, Sound, State
  <2>2. MaxAsset \in Nat /\ s.ctr \in 0..MaxAsset
    BY <2>1, LedgerAssumption DEF State, LedgerAssumption
  <2>. QED  BY <2>1, <2>2 DEF Asset
<1>2. /\ t.units = [s.units EXCEPT ![x] = [s.units[x] EXCEPT ![id] = tx.amt]]
      /\ t.live = s.live \cup {id}
      /\ t.def[id].total = tx.amt
      /\ \A c \in Asset : c # id => t.def[c] = s.def[c]
  BY <1>1 DEF DeployASA, Ok, Throw, State
<1>3. id \notin s.live /\ \A a \in Addr : s.units[a][id] = 0
  <2>1. \A a \in Addr : id \notin s.opted[a]
    BY <1>1 DEF Sound, HoldingsWellFormed
  <2>2. \A a \in Addr : s.units[a][id] = 0
    BY <1>1, <2>1 DEF Sound, HoldingsWellFormed
  <2>3. \A c \in s.live : s.def[c].creator \in Addr
    BY <1>1 DEF State, Definition
  <2>. QED  BY <2>1, <2>2, <2>3 DEF Sound, CreatorHolds
<1>. HIDE DEF t
<1>4. \A a \in Addr, c \in Asset :
        t.units[a][c] = IF a = x /\ c = id THEN tx.amt ELSE s.units[a][c]
  BY <1>1, <1>2 DEF State
<1>5. ASSUME NEW c \in s.live PROVE Sum(Column(t, c)) = t.def[c].total
  <2>1. c \in Asset /\ c # id
    BY <1>1, <1>3
  <2>2. Column(t, c) = Column(s, c)
    BY <1>4, <2>1 DEF Column
  <2>. QED  BY <1>2, <2>1, <2>2 DEF SupplyConserved, Column
<1>6. Sum(Column(t, id)) = t.def[id].total
  <2>. DEFINE zero == [a \in Addr |-> 0]
              g == Column(t, id)
  <2>1. zero \in [Addr -> {0}] /\ zero \in [Addr -> Int]
    OBVIOUS
  <2>2. g = [zero EXCEPT ![x] = tx.amt]
    BY <1>1, <1>3, <1>4 DEF Column
  <2>3. zero[x] = 0 /\ tx.amt \in Int /\ IsFiniteSet(Addr)
    BY <1>1, LedgerAssumption DEF LedgerAssumption
  <2>. HIDE DEF zero, g
  <2>4. Sum(zero) = 0
    BY <2>1, <2>3, SumOfZeros
  <2>5. Sum([zero EXCEPT ![x] = tx.amt]) = Sum(zero) - zero[x] + tx.amt
    <3>. DEFINE v == tx.amt
    <3>1. IsFiniteSet(Addr) /\ zero \in [Addr -> Int] /\ x \in Addr /\ v \in Int
      BY <1>1, <2>1, <2>3
    <3>. HIDE DEF v
    <3>2. Sum([zero EXCEPT ![x] = v]) = Sum(zero) - zero[x] + v
      BY <3>1, SumUpdate
    <3>. QED  BY <3>2 DEF v
  <2>. QED  BY <1>2, <2>2, <2>3, <2>4, <2>5 DEF g
<1>7. SupplyConserved(t)
  BY <1>2, <1>5, <1>6 DEF SupplyConserved, Column
<1>. QED  BY <1>7 DEF t

\* One transaction that returns keeps the supply of every asset.
LEMMA ApplyTxSupply ==
  ASSUME NEW base, NEW s, Sound(s), SupplyConserved(s), NEW tx \in Tx,
         tx.type = "create" => s.ctr < MaxAsset,
         ApplyTx(base, s, tx).ok
  PROVE  SupplyConserved(ApplyTx(base, s, tx).s)
<1>. DEFINE p == DeductFee(s, tx).s
            done == Dispatch(p, tx)
            d == done.s
            r == Rekey(d, tx)
<1>1. s \in State /\ Sound(p) /\ p.ctr = s.ctr
  BY DeductFeeSound DEF Sound
<1>2. done.ok /\ ApplyTx(base, s, tx) = Ok(r)
  BY DEF ApplyTx, Throw
<1>3. SupplyConserved(p)
  <2>1. p.units = s.units /\ p.def = s.def /\ p.live = s.live
    BY <1>1 DEF DeductFee, Debit, Throw, State
  <2>. HIDE DEF p
  <2>. QED  BY <2>1, SameUnitsSupply, SameSupplyConserves
<1>. HIDE DEF p, r
<1>4. tx.type \in TxType /\ p \in State
  BY <1>1 DEF Tx, Sound
<1>5. SupplyConserved(d) /\ Sound(d)
  <2>1. CASE tx.type \in {"pay", "keyreg"}
    <3>1. done = TransferAlgo(p, tx) \/ done = Ok(p)
      BY <2>1 DEF Dispatch
    <3>2. /\ TransferAlgo(p, tx).s.units = p.units /\ TransferAlgo(p, tx).s.def = p.def
          /\ TransferAlgo(p, tx).s.live = p.live
      BY <1>4 DEF TransferAlgo, Debit, Credit, Throw, Ok, State
    <3>3. d.units = p.units /\ d.def = p.def /\ d.live = p.live
      BY <3>1, <3>2 DEF Ok
    <3>4. Sound(d)
      BY <1>1, <3>1, TransferAlgoSound DEF Ok
    <3>. HIDE DEF d, done
    <3>. QED  BY <1>3, <3>3, <3>4, SameUnitsSupply, SameSupplyConserves
  <2>2. CASE tx.type = "create"
    <3>1. done = DeployASA(p, tx.from, tx.amt, tx.flag, tx.roles, FALSE, tx.type)
      BY <2>2 DEF Dispatch
    <3>2. /\ tx.from \in Addr /\ tx.amt \in Nat /\ tx.flag \in BOOLEAN
          /\ tx.roles \in Roles /\ p.ctr < MaxAsset
      BY <1>1, <2>2 DEF Tx
    <3>3. Sound(d)
      BY <1>1, <3>1, <3>2, DeploySound
    <3>. QED  BY <1>1, <1>2, <1>3, <3>1, <3>2, <3>3, DeployASASupply
  <2>3. CASE tx.type = "config"
    <3>1. done = ConfigAsset(p, tx)
      BY <2>3 DEF Dispatch
    <3>. QED  BY <1>1, <1>3, <3>1, ConfigAssetSupply, ConfigAssetSound, SameSupplyConserves
  <2>4. CASE tx.type = "transfer"
    <3>1. done = TransferAsset(p, tx)
      BY <2>4 DEF Dispatch
    <3>. QED  BY <1>1, <1>2, <1>3, <3>1, TransferAssetSupply, TransferAssetSound,
                 SameSupplyConserves
  <2>5. CASE tx.type = "revoke"
    <3>1. done = RevokeAsset(p, tx)
      BY <2>5 DEF Dispatch
    <3>. QED  BY <1>1, <1>2, <1>3, <3>1, RevokeAssetSupply, RevokeAssetSound,
                 SameSupplyConserves
  <2>6. CASE tx.type = "freeze"
    <3>1. done = FreezeAsset(p, tx)
      BY <2>6 DEF Dispatch
    <3>. QED  BY <1>1, <1>3, <3>1, FreezeAssetSupply, FreezeAssetSound, SameSupplyConserves
  <2>. QED  BY <1>4, <2>1, <2>2, <2>3, <2>4, <2>5, <2>6 DEF TxType
<1>. HIDE DEF d, done
<1>6. r.units = d.units /\ r.def = d.def /\ r.live = d.live
  BY <1>5 DEF Rekey, r, Sound, State
<1>7. SupplyConserved(r)
  BY <1>5, <1>6, SameUnitsSupply, SameSupplyConserves
<1>. QED  BY <1>2, <1>7 DEF Ok

\* The supply is conserved in the store, and in the context of a group.
SupplyInv ==
  /\ TxInv
  /\ SupplyConserved(store)
  /\ idx > 0 => SupplyConserved(ctx)

\* At first there is no asset.
LEMMA InitSupply == Init => SupplyInv
<1>. SUFFICES ASSUME Init PROVE SupplyInv
  OBVIOUS
<1>1. TxInv /\ idx = 0 /\ store.live = {}
  BY InitTxInv DEF Init, Genesis
<1>. QED  BY <1>1 DEF SupplyInv, SupplyConserved

\* A logic signature without an account holds nothing, and created nothing.
LEMMA LoadSupply ==
  ASSUME SupplyInv, NEW a \in Lsigs \ store.acct, CreateLsigAccount(a)
  PROVE  SupplyConserved(store)'
<1>1. /\ store' = NewAccounts(store, {a}, 0) /\ a \in Addr
      /\ Sound(store) /\ store \in State /\ a \notin store.acct
  BY RuntimeAssumption
  DEF RuntimeAssumption, CreateLsigAccount, AddAccounts, SupplyInv, TxInv, IInv, Sound
<1>2. /\ store'.units = [b \in Addr |-> IF b \in {a} THEN [c \in Asset |-> 0] ELSE store.units[b]]
      /\ store'.live \subseteq store.live /\ store'.def = store.def
  BY <1>1 DEF NewAccounts, State
<1>3. \A c \in Asset : store.units[a][c] = 0
  <2>1. store.opted[a] = {}
    BY <1>1 DEF Sound, HoldingsWellFormed
  <2>. QED  BY <1>1, <2>1 DEF Sound, HoldingsWellFormed
<1>4. \A b \in Addr, c \in Asset : store'.units[b][c] = store.units[b][c]
  BY <1>1, <1>2, <1>3
<1>5. store.live \subseteq Asset
  BY <1>1 DEF State
<1>6. SameSupply(store, store')
  BY <1>2, <1>4, <1>5 DEF SameSupply, Column
<1>. QED  BY <1>6, SameSupplyConserves DEF SupplyInv, SupplyConserved

\* Every step keeps the supply.
LEMMA NextSupply == SupplyInv /\ [TxNext]_vars => SupplyInv'
<1>. SUFFICES ASSUME SupplyInv, [TxNext]_vars PROVE SupplyInv'
  OBVIOUS
<1>1. TxInv'
  BY TxStep DEF SupplyInv
<1>2. ASSUME NEW g \in Groups, ExecuteTx(g) PROVE SupplyInv'
  BY <1>1, <1>2 DEF ExecuteTx, SupplyInv, SupplyConserved
<1>3. CASE StepTx
  <2>. DEFINE o == ApplyTx(store, ctx, group[idx])
  <2>1. /\ group[idx] \in Tx /\ idx \in 1..Len(group) /\ Len(group) \in Nat
        /\ Sound(ctx) /\ ctx' = o.s /\ store' = store /\ (o.ok \/ idx' = 0)
    <3>1. group[idx] \in Tx /\ idx \in 1..Len(group) /\ ctx' = o.s
      BY <1>3, StepFacts DEF SupplyInv, TxInv
    <3>2. Sound(ctx) /\ Len(group) \in Nat
      BY DEF SupplyInv, TxInv, IInv, ControlOK
    <3>. QED  BY <1>3, <3>1, <3>2 DEF StepTx
  <2>2. group[idx].type = "create" => ctx.ctr < MaxAsset
    <3>1. RoomFor(group, idx, ctx.ctr) /\ idx \in idx..Len(group)
      BY <2>1 DEF SupplyInv, TxInv, IInv, Room
    <3>2. ctx.ctr \in Int /\ MaxAsset \in Nat
      BY <2>1, LedgerAssumption DEF Sound, State, LedgerAssumption
    <3>. QED  BY <2>1, <3>1, <3>2 DEF RoomFor
  <2>3. o.ok => SupplyConserved(o.s)
    BY <2>1, <2>2, ApplyTxSupply DEF SupplyInv
  <2>. HIDE DEF o
  <2>4. SupplyConserved(store)'
    BY <2>1 DEF SupplyInv
  <2>. QED  BY <1>1, <2>1, <2>3, <2>4 DEF SupplyInv
<1>4. CASE CommitGroup
  <2>1. idx > 0 /\ idx' = 0 /\ store' = ctx
    BY <1>4 DEF CommitGroup, SupplyInv, TxInv, IInv, ControlOK
  <2>. QED  BY <1>1, <2>1 DEF SupplyInv, SupplyConserved
<1>5. ASSUME NEW a \in Lsigs \ store.acct, CreateLsigAccount(a) PROVE SupplyInv'
  <2>1. idx' = 0
    BY <1>5 DEF CreateLsigAccount, AddAccounts, Idle
  <2>. QED  BY <1>1, <1>5, <2>1, LoadSupply DEF SupplyInv
<1>6. CASE UNCHANGED vars
  BY <1>1, <1>6 DEF vars, SupplyInv, SupplyConserved
<1>. QED  BY <1>2, <1>3, <1>4, <1>5, <1>6 DEF TxNext, Group

\* Transfers, closings, clawbacks and destructions, in any order and number and
\* half undone by exceptions, neither create nor lose units of an asset: what
\* all accounts of the store hold of it is its total.
THEOREM SupplyStaysConserved == TxSpec => []AssetsConserved
<1>1. TxSpec => []SupplyInv
  BY InitSupply, NextSupply, PTL DEF TxSpec
<1>2. SupplyInv => AssetsConserved
  BY DEF SupplyInv, AssetsConserved
<1>. QED  BY <1>1, <1>2, PTL
=============================================================================
