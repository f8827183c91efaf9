------------------------------ MODULE Runtime ------------------------------
(***************************************************************************)
(* The Runtime of @algo-builder/runtime (packages/runtime/src/runtime.ts)  *)
(* and the Context it executes transactions in (ctx.ts).                   *)
(*                                                                         *)
(* executeTx clones the store into a new context, applies the group there, *)
(* one transaction at a time, and makes the context's state the store when *)
(* the last one has succeeded.  An exception leaves the half-built state   *)
(* in runtime.ctx.  deployASA, deployASADef and optInToASA work on         *)
(* whatever state runtime.ctx holds when they are called and then make it  *)
(* the store.                                                              *)
(***************************************************************************)
EXTENDS Ledger

CONSTANTS
  InitialAccounts,  \* accounts given to the constructor, and the fee sink
  Funds,            \* their Algos
  Groups,           \* groups of transactions that callers may submit
  Deployments,      \* asset deployments that callers may ask for directly
  OptIns,           \* direct opt-ins: records of an address and an asset
  Lsigs,            \* addresses of logic signatures
  ConfigAccounts,   \* accounts of the configuration file
  ConfigBalance     \* the balance they are loaded with

Deployment ==
  [creator : Addr, total : Nat, defaultFrozen : BOOLEAN, roles : Roles,
   bad : BOOLEAN, optIns : Seq(Addr)]

ASSUME RuntimeAssumption ==
  /\ InitialAccounts \subseteq Addr /\ InitialAccounts # {}
  /\ Funds \in [InitialAccounts -> Nat]
  /\ \A g \in Groups : g \in Seq(Tx) /\ g # <<>>
  /\ \A d \in Deployments : d \in Deployment
  /\ OptIns \subseteq [acct : Addr, asset : Asset]
  /\ Lsigs \subseteq Addr
  /\ ConfigAccounts \subseteq Addr
  /\ ConfigBalance \in Nat

VARIABLES
  store,   \* runtime.store
  ctx,     \* runtime.ctx.state
  shared,  \* store and ctx.state are one object
  kind,    \* runtime.ctx.txnType, "none" when undefined
  group,   \* the group being processed, <<>> outside executeTx
  idx,     \* index in group of the next transaction, 0 outside executeTx
  optins   \* accounts that optInToASAMultiple has yet to opt in

vars == <<store, ctx, shared, kind, group, idx, optins>>

\* No call is on the JavaScript stack: the caller may make the next one.
Idle == idx = 0 /\ optins = <<>>

Init ==
  /\ store = Genesis(InitialAccounts, Funds)
  /\ ctx = store
  /\ shared = FALSE
  /\ kind = "none"
  /\ group = <<>>
  /\ idx = 0
  /\ optins = <<>>

-----------------------------------------------------------------------------
(* executeTx                                                               *)

\* The transactions of g from the i-th on do not exceed the bound on assets.
RoomFor(g, i, ctr) ==
  (\E j \in i..Len(g) : g[j].type = "create") => ctr + Len(g) - i + 1 <= MaxAsset

\* Mutant: the context is not a deep copy of the store.
ExecuteTxUncloned(g) ==
  /\ Idle
  /\ IsInjective(g)
  /\ RoomFor(g, 1, store.ctr)
  /\ ctx' = store
  /\ kind' = "none"
  /\ IF FeesCovered(g) THEN group' = g /\ idx' = 1
                       ELSE UNCHANGED <<group, idx>>
  /\ UNCHANGED <<store, shared, optins>>

\* A group with a repeated transaction throws before anything is written.
ExecuteTx(g) ==
  /\ Idle
  /\ IsInjective(g)
  /\ RoomFor(g, 1, store.ctr)
  /\ ctx' = store
  /\ shared' = FALSE
  /\ kind' = "none"
  /\ IF FeesCovered(g) THEN group' = g /\ idx' = 1
                       ELSE UNCHANGED <<group, idx>>
  /\ UNCHANGED <<store, optins>>

\* Mutant: what precedes the transaction that throws is kept.
StepTxKeepsPrefix ==
  /\ idx \in 1..Len(group)
  /\ LET o == ApplyTx(store, ctx, group[idx])
     IN  /\ ctx' = o.s
         /\ kind' = group[idx].type
         /\ IF o.ok THEN idx' = idx + 1 /\ UNCHANGED <<store, group>>
                    ELSE idx' = 0 /\ group' = <<>> /\ store' = ctx
  /\ UNCHANGED <<shared, optins>>

\* Mutant: the index survives the exception.
StepTxKeepsIndex ==
  /\ idx \in 1..Len(group)
  /\ LET o == ApplyTx(store, ctx, group[idx])
     IN  /\ ctx' = o.s
         /\ kind' = group[idx].type
         /\ IF o.ok THEN idx' = idx + 1 /\ UNCHANGED group
                    ELSE group' = <<>> /\ UNCHANGED idx
  /\ UNCHANGED <<store, shared, optins>>

\* One iteration of processTransactions.  The transaction that throws ends the
\* call and leaves in ctx what it and its predecessors have written.
StepTx ==
  /\ idx \in 1..Len(group)
  /\ LET o == ApplyTx(store, ctx, group[idx])
     IN  /\ ctx' = o.s
         /\ kind' = group[idx].type
         /\ IF o.ok THEN idx' = idx + 1 /\ UNCHANGED group
                    ELSE idx' = 0 /\ group' = <<>>
  /\ UNCHANGED <<store, shared, optins>>

CommitGroup ==
  /\ idx = Len(group) + 1 /\ idx # 1
  /\ store' = ctx
  /\ shared' = TRUE
  /\ idx' = 0
  /\ group' = <<>>
  /\ UNCHANGED <<ctx, kind, optins>>

-----------------------------------------------------------------------------
(* Calls that work on the current context                                  *)

\* An operation of the context with outcome o.  Its writes reach the store when
\* it returns, and at once when the two are the same object.
OnContext(o) ==
  /\ ctx' = o.s
  /\ store' = IF o.ok \/ shared THEN o.s ELSE store
  /\ shared' = (shared \/ o.ok)
  /\ UNCHANGED <<kind, group, idx>>

DirectOptIn(a, c) ==
  /\ Idle
  /\ OnContext(OptInToASA(ctx, a, c, kind))
  /\ UNCHANGED optins

DirectDeploy(d) ==
  LET o == DeployASA(ctx, d.creator, d.total, d.defaultFrozen, d.roles, d.bad, kind)
  IN  /\ Idle
      /\ ctx.ctr < MaxAsset
      /\ OnContext(o)
      /\ optins' = IF o.ok THEN d.optIns ELSE <<>>

\* One round of optInToASAMultiple for the asset that was just deployed; an
\* exception ends the loop.
OptInNext ==
  LET o == OptInToASA(ctx, Head(optins), store.ctr, kind)
  IN  /\ optins # <<>>
      /\ OnContext(o)
      /\ optins' = IF o.ok THEN Tail(optins) ELSE <<>>

-----------------------------------------------------------------------------
(* Calls that write accounts into the store alone                          *)

AddAccounts(addrs, balance) ==
  /\ Idle
  /\ store' = NewAccounts(store, addrs, balance)
  /\ ctx' = IF shared THEN store' ELSE ctx
  /\ UNCHANGED <<shared, kind, group, idx, optins>>

CreateLsigAccount(l) == AddAccounts({l}, 0)

LoadAccountsFromConfig == AddAccounts(ConfigAccounts, ConfigBalance)

-----------------------------------------------------------------------------

Group == (\E g \in Groups : ExecuteTx(g)) \/ StepTx \/ CommitGroup

Next ==
  \/ Group
  \/ \E o \in OptIns : DirectOptIn(o.acct, o.asset)
  \/ \E d \in Deployments : DirectDeploy(d)
  \/ OptInNext
  \/ \E l \in Lsigs : CreateLsigAccount(l)
  \/ LoadAccountsFromConfig

Spec == Init /\ [][Next]_vars

\* The disciplined use of the library: transactions go through executeTx, and
\* a logic signature is loaded before it has an account.
TxNext ==
  \/ Group
  \/ \E l \in Lsigs \ store.acct : CreateLsigAccount(l)

TxSpec == Init /\ [][TxNext]_vars

-----------------------------------------------------------------------------
(* Properties                                                              *)

\* Every variable has the type its comment gives it.
TypeOK ==
  /\ store \in State /\ ctx \in State
  /\ shared \in BOOLEAN
  /\ kind \in TxType \cup {"none"}
  /\ group \in Seq(Tx)
  /\ idx \in 0..(Len(group) + 1)
  /\ optins \in Seq(Addr)

\* Whatever callers do, and whatever an exception leaves behind, the minimum
\* balances that ctx.ts and account.ts raise and lower one handler at a time
\* still pay for every holding, holdings stay attached to accounts and to
\* assets that exist, and the creator of an asset keeps its holding.
LedgersSound ==
  \A s \in {store, ctx} :
    MinCoversHoldings(s) /\ HoldingsWellFormed(s) /\ CreatorHolds(s)

\* While transactions are processed the context is a private copy; whenever
\* store and context are one object they have one value.
ContextIsolated ==
  /\ shared => store = ctx
  /\ idx > 0 => ~shared

\* transferAlgo and deductFee subtract before they check, yet no account of
\* the store ever has a negative balance.
Solvent == NonNegative(store)

\* Transfers, closings, clawbacks and destructions, in any order and half
\* undone by exceptions, neither create nor lose units of an asset.
AssetsConserved == SupplyConserved(store)

\* Transaction i of the group carries the signature that the store, as it was
\* before the group, asks of its sender.
Signed(i) ==
  group[i].signer = store.auth[group[i].from] /\ group[i].approved

\* No check of processTransactions refuses transaction i: it carries the right
\* signature, or none at all.
Unrefused(i) == Signed(i) \/ Unsigned(group[i])

\* The balance of an account falls, and its signing authority changes, only
\* through a group with a transaction of that account that its authority, as it
\* was before the group, has signed, or that bears no signature at all (which
\* ctx.ts:848-858 lets pass).  With the key of another account, with one that was
\* good before a rekeying, or was made good earlier in the same group, or with a
\* program that rejects, nobody takes anything.
DebitsAreAuthorised ==
  [][\A a \in store.acct :
       store'.amt[a] < store.amt[a] \/ store'.auth[a] # store.auth[a] =>
         \E i \in DOMAIN group : group[i].from = a /\ Unrefused(i)]_vars

\* A frozen holding loses units only to the clawback address, to the destruction
\* of the asset, to a transaction that unfreezes it first, or to the one way out
\* that transferAsset leaves: closing it with a transfer of nothing.
FrozenUnitsStay ==
  [][\A a \in Addr, c \in Asset :
       c \in store.frozen[a] /\ store'.units[a][c] < store.units[a][c] =>
         \E i \in DOMAIN group :
           /\ group[i].asset = c
           /\ \/ group[i].type = "revoke" /\ group[i].target = a
              \/ group[i].type = "config"
              \/ group[i].type = "freeze" /\ group[i].target = a /\ ~group[i].flag
              \/ /\ group[i].type = "transfer" /\ group[i].from = a
                 /\ group[i].amt = 0 /\ group[i].close # NoAddr]_vars

\* An account loses units of an asset only through a transaction on that asset
\* of its own, of the clawback address or of the manager, as they were before the
\* group, and never through one that is signed by anybody else.  (Whether it has
\* to be signed at all is another matter: see DebitsAreAuthorised.)
UnitsTakenByRight ==
  [][\A a \in Addr, c \in Asset :
       store'.units[a][c] < store.units[a][c] =>
         \E i \in DOMAIN group :
           /\ group[i].asset = c /\ Unrefused(i)
           /\ group[i].from \in {a, store.def[c].roles["clawback"],
                                   store.def[c].roles["manager"]}]_vars
=============================================================================
