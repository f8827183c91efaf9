# A TLA+ development for algo-builder

[Algo Builder](../src/README.md) is a framework for building Algorand applications. Three of
its parts decide whether what a developer sees is true:

* `@algo-builder/runtime` executes transactions and TEAL programs against a ledger **in memory**,
  so that applications can be tested without a network. If it accepts a group that the network
  would reject, or half-applies one, the tests of its users are worth nothing.
* `@algo-builder/algob` deploys assets and applications to a network from **scripts**, and
  keeps what it deployed in checkpoint files, so that running the deployment again continues
  instead of deploying twice. It also signs logic signatures and transactions in files.
* `@algo-builder/web` builds transactions, has **wallets** sign them, sends the group and waits.

This directory models these three, checks the models with TLC, and proves what matters most of
the ledger, the applications, the deployments, the clients and the signatures with TLAPS. `PROJECT.json` is the index: components, runs, the
line ranges each definition translates (`map`), hazards, findings and theorems.

1. [The system](#1-the-system)
2. [The modules, and how they correspond to the code](#2-the-modules)
3. [The runs](#3-the-runs)
4. [Disagreements between the code and its documentation](#4-disagreements)
5. [Proofs](#5-proofs)
6. [What is not modelled](#6-what-is-not-modelled)
7. [What could come next](#7-what-could-come-next)

Paths below are relative to `src/packages`.

## 1. The system

### 1.1 Inventory

| Component | State it keeps | Operations | What makes it correct |
|---|---|---|---|
| **Ledger** (`runtime/src/ctx.ts`, `account.ts`, `lib/asa.ts`, `lib/txn.ts`) | accounts (balance, minimum balance, spending key, created assets, holdings, created and opted-in applications), `assetDefs`, counters | `transferAlgo`, `deductFee`, `deployASA(Def)`, `optInToASA`, `transferAsset`, `modifyAsset`, `freezeAsset`, `revokeAsset`, `destroyAsset`, `rekeyTo` | Algos and units are conserved; a balance or key changes only by right; minimum balances pay for what an account holds; frozen units stay |
| **Runtime** (`runtime/src/runtime.ts`) | `store`, `ctx` (a working copy of the store), rounds and blocks | `executeTx`, `deployASA`, `optInToASA`, `createLsigAccount`, `loadAccountsFromConfig` | a group of transactions takes effect as a whole or not at all |
| **Applications** (`ctx.ts`, `account.ts`) | schemas, global and local state, programs | create, opt in, call, update, close out, clear, delete | the minimum balance follows the schemas; a rejected call leaves nothing; an account gets out |
| **Inner transactions** (`lib/itxn.ts`, `interpreter/opcode-list.ts`, `ctx.ts`) | `innerTxAppIDCallStack`, `remainingTxns`, `pooledOpCodeCost`, `isInnerTx`, fee credit | `itxn_begin`, `itxn_next`, `itxn_field`, `itxn_submit` | depth, number and budget are bounded, fees are paid, no re-entrancy |
| **TEAL interpreter and parser** (`interpreter/`, `parser/`) | stack, scratch space, call stack, cost, program counter | some 170 opcodes | programs end, or the budget throws; results are exact; a program sees and changes only what it may |
| **Signatures** (`logicsig.ts`, `runtime.ts`, `algob/src/lib/msig.ts`, `lsig.ts`, tasks `sign-lsig`, `sign-multisig`) | signatures in logic signatures and files | `sign`, `signMultisig`, `appendToMultisig`, `verify`, loading and writing | what is accepted was agreed to; nobody's signature gets lost |
| **Checkpoints** (`algob/src/lib/script-checkpoints.ts`) | one YAML file per script; in memory the repository with the stripped, preceding and all-scripts views and the map from names to scripts | `merge`, `mergeToGlobal`, `registerASA/SSC/Lsig`, `putMetadata`, `persistCheckpoint`, `loadCheckpointsRecursive` | a name belongs to one script; what a file says is true |
| **Deploy and run tasks, deployer** (`algob/src/builtin-tasks`, `internal/deployer.ts`, `lib/tx.ts`) | the list of scripts to run; the chain, which is not ours | `deploy`, `run`; `deployASA`, `deployApp`, `mkContractLsig`, `addCheckpointKV`, `updateApp`, `executeTx`, ... | nothing is deployed twice, nothing is forgotten, an interrupted deployment can be completed |
| **Clients** (`web/src/lib`: three kinds of session; algob's `executeTx`) | a connection, a call in progress; the wallet and the node, which are not ours | `executeTx`, `makeAndSignTx`, `sendAndWait`, connection events | the group sent is the group asked for; a receipt means confirmation |
| **Compile cache** (`algob/src/lib/compile.ts`) | artifact files with a hash of their source | `ensureCompiled` | a cached artifact is that of the current source |
| Rounds and blocks, CLI, configuration, plugins, templates | see section 6 | | |

### 1.2 How they interact

`Runtime.executeTx` clones `store` into a new `Context` and lets it process the group one
transaction at a time. The context calls the account methods, the asset helpers and, for
application calls and logic signatures, the interpreter, which may call back into the context
with inner transactions. When the last transaction has succeeded the context's state **becomes**
`store` (the same object, no copy). If one throws, `runtime.ctx` keeps the half-built state.
`Runtime.deployASA`, `deployASADef` and `optInToASA` do not clone: they work on
whatever `runtime.ctx` holds and make it the store; `deployApp`, `optInToApp` and `updateApp` run
programs on it. `createLsigAccount` and `loadAccountsFromConfig` write to the store and do not touch
the context. This triangle is where the interesting states of the Runtime come from.

A program that submits inner transactions changes fields of the context (`tx`, `gtxs`,
`isInnerTx`, the fee credit, the call stack) for the nested group, and restores them when it
returns; the budget and the counter of transactions are shared by all levels.

A deploy task loads every checkpoint file (for the map from names to scripts), then for each
script merges the files of the scripts up to it, skips the script if its own file has a
checkpoint for the network, and otherwise calls its `default` function with a deployer. Each
call of the deployer asks the repository whether the name is free, sends transactions, waits for
their confirmation, and registers the result in memory. The file is written when the
script returns, **and** when a call of the deployer fails. Files and chain survive the
process; the repository does not.

A client's call asks the node for suggested parameters, makes SDK transactions of execution
parameters, groups them, lets logic signatures sign theirs and the wallet (or the keys at hand)
the rest, puts the two together in order, sends, and polls until the group is confirmed, rejected
or too old. The connection may be closed or replaced while it waits.

### 1.3 What is hard about them

Nothing runs in parallel inside the Runtime. What is hard is *partial failure* (a handler that
throws after writing; a group that throws in the middle; a transaction that is confirmed after the
deployer gave up), *stale state* (contexts cloned before a change, signatures checked against
another ledger than the one that is changed, records of earlier or later scripts, signatures over a
program that was edited), *crash and retry* (the process stops between a deployment and the save, and
the task is run again), *shared objects* (byte arrays that the stack, the scratch space and
the state have in common), *ordering* (two lists of signatures merged into one group), *limits*
(budget, cost, transactions, depth, schemas), and *long sequences of legal calls* (create, freeze, close, claw back,
destroy; opt in, close, clear, delete; scripts repeated, forced, reordered, on two networks).
`PROJECT.json` lists each such hazard at its line with the properties that cover it, or with the
reason why none does.

## 2. The modules

```
 Ledger ──────────┬─ Runtime ── RuntimeRefinement ── MCRuntime
 (handlers as     │     │              │ INSTANCE
  operators)      │     │         AtomicLedger  (what callers may rely on)
    │             │     │
    ├─ LedgerProofs ──────────┬── RuntimeProofs
    │    │ INSTANCE           │    (extends RuntimeRefinement)
    │  Recursion  (folds)     │
    │                         │
 AppLedger ── AppCalls ─┬─ AppProofs
 (applications)         └─ MCAppCalls
            (groups, programs, inner groups as a stack of frames)

 TealValues ── TealData ─┬─ TealLibrary ───────────────┬─ TealInner ── Teal ─┬─ MCTeal
 (values)  (computing)   └─ TealFields ── TealLedger ──┘  (building)    │     └─ TealProofs
                                                        (parser, loop, jumps, cost)

 Checkpoints ── Deploy ─┬─ MCDeploy          Transactions ── Clients ─┬─ MCClients
 (merging and  (tasks,  └─ DeployProofs      (building,     (sessions, └─ ClientsProofs
  looking up)   scripts,                      reading)       wallets,
                faults)                                      node)

 Signatures ─┬─ MCSignatures
             └─ SignaturesProofs
```

### 2.1 `Ledger`

The state of `State` in the code, restricted to Algos and assets, as one record (`State`), and
each handler as an operator from a ledger to `[ok, s]`: `ok` is false when the handler throws, and
`s` is then what it had **already written**. That pair is the point of the module: in JavaScript
an exception does not roll anything back, and several handlers write before they check
(`transferAlgo` subtracts before the balance is looked at, `deployASADef` adds the holding and
raises the counter before its checks, `modifyAsset` overwrites fields until it meets a blank one,
`deductFee` charges before the signature is verified).

| Operator | Code |
|---|---|
| `DeductFee`, `ChargedFee`, `FeeKnown`, `FeesCovered` | `deductFee` (a fee per byte that is not given is `NaN`, which throws), `calculateFeeCredit` |
| `Authorised` | `validateLsigAndRun` and the checks of keys: against the **store**, not the context |
| `Unsigned` | none of them looks at a `SignedTransaction` that bears no signature, and it is applied |
| `TransferAlgo` | `transferAlgo` with the receiver registered on the fly and `closeRemainderTo` |
| `DeployASA`, `OptInToASA`, `CloseAsset` | `addASADef`/`addAsset`, `optInToASA`, `account.closeAsset` |
| `TransferAsset`, `RevokeAsset`, `FreezeAsset`, `ConfigAsset` = `ModifyAsset` or `DestroyAsset` | the handlers of the same names |
| `Dispatch`, `Rekey`, `ApplyTx` | one round of `processTransactions` |
| `NewAccounts`, `Genesis` | a new `AccountStore` over an old one; the constructor |

Abstractions: names, URLs, metadata hashes and decimals of assets are left out; a
signature is the pair (`signer`, `approved`), the address whose key or program signed and the
verdict of the program or the threshold; integers are unbounded, as the code's `bigint`s are
(amounts stay far below 2^64 in the instances); `live` stands for an entry of `assetDefs` that
leads to an account that still has the definition. Transactions in `ExecParams` form with a secret key
appear as signed by the key they carry; a `SignedTransaction` with neither a logic signature nor `sig`,
`sgnr` or `msig` has the signer `NoAddr` (`Unsigned`; `ctx.ts:848-858`). What makes a key or a
multisignature valid is in `Signatures`.

### 2.2 `Runtime`

| Variable | Code |
|---|---|
| `store`, `ctx` | `runtime.store`, `runtime.ctx.state` |
| `shared` | the two are one object (after a commit, until the next clone) |
| `kind` | `runtime.ctx.txnType`, which `assertAccBalAboveMin` reads |
| `group`, `idx` | the transactions `executeTx` is processing and how far it is |
| `optins` | what is left of the loop of `optInToASAMultiple` |

One action per step that can throw: `ExecuteTx` (checks before the first write, clone),
`StepTx` (one transaction), `CommitGroup`, `DirectDeploy`, `OptInNext`, `DirectOptIn`,
`CreateLsigAccount`, `LoadAccountsFromConfig`. `executeTx` is synchronous, so no direct call
comes between its steps; the steps are separate actions because the intermediate states, where an
exception strikes, are what the properties are about. `OnContext` is the aliasing of store and
context: what a failing direct call wrote is in the store at once if the two are one object.

`Spec` lets callers mix everything. `TxSpec` is disciplined use: transactions go
through `executeTx`, and a logic signature is loaded before its address has an account.
Conservation, authority and atomicity are properties of `TxSpec`; soundness of the
ledgers and isolation of the context hold of `Spec`.

### 2.3 `AtomicLedger` and `RuntimeRefinement`

The abstract specification has one variable and one action per call: a group is applied as a whole
or not at all, each transaction sees its predecessors, and authority is that of the ledger
before the group. `Atomicity == Atomic!Spec` with `ledger <- store` says that `store` implements
it: `ExecuteTx` and `StepTx` are stutters, `CommitGroup` is `Submit`.

### 2.4 `Checkpoints`

The repository as a record of three views and the map `owner`, and its operations as operators:
`MergeToGlobal`, `Merge`, `LoadAll`, `LoadRange`, `Register`, `PutMetadata`, `IsDefined`,
`Visible`. `Clash` is `appendToCheckpoint`'s test for equal entries. Note what the code does and the operators keep:
`registerASA` and its kin do not touch `owner`; `isDefined` looks at *all* scripts while the getters
see the *preceding* ones; the file that is merged last is the current one.

### 2.5 `Deploy`

| Variable | Code |
|---|---|
| `chain` | the assets and applications on each network, which the code only sees through `algosdk` |
| `files` | `artifacts/scripts/*.cp.yaml` |
| `task` | arguments of `runScripts`: network, `--force`, and whether it may write (deploy) or not (run) |
| `todo`, `at` | the rest of the script list; what `splitAfter` has left of the sorted directory |
| `repo` | the `CheckpointRepo` in memory |
| `op` | how far the current script is |
| `faults` | a counter that bounds what goes wrong |

Actions: `StartDeploy`, `StartRun`; `Load` (the start of `runScripts` and of every new
partition), `Enter` (merge, then skip or start the script), `DeployEntity`, `MakeLsig`,
`AddCheckpointKV`, `UpdateApp`, `DeleteEntity` (the deployer's calls with each of their ends:
refused in run mode, refused because of the name, success, failure), `Finish` (the save) and
`Stop` (the script throws an exception of its own, or the process is killed). Faults:
`"network"`, the call fails and had no effect; `"answer"`, it took effect and the deployer does
not learn it; `"optin"`, an asset is created and registered but an account's opt-in fails;
`"stop"`.

Where the code keeps and where it saves is modelled call by call: `Fail` is `persistCP` followed by
a rethrow, `Throw` is an exception that leaves the files as they are. `Continue` is the step to the
next script, with the reload when the next one sorts before the current one. The
non-determinism `same` in `Enter` is the deep comparison of a record in memory with what the YAML
file gives back, which matters only for a script that is twice in one partition: entries with an
empty optional field come back different.

Abstractions: scripts are straight-line lists of calls; the list of a task is not empty; keys and
values are not empty strings; a file is written in one step; one task runs at a time; of the
versions of an application only the last is kept; groups of several transactions in the deployer's
`executeTx`, and transactions that leave no record (payments, opt-ins, calls), are left out.

### 2.6 `AppLedger` and `AppCalls`

`AppLedger` adds applications to the ledger: who made them, who joined, keys of the global and
local states, their schemas, and the minimum balance each costs. As in `Ledger`, handlers are
operators to `[ok, s]`, since `setGlobalState` and `setLocalState` write before they compare with the
schema, and `deployApp` and `optInToApp` write before the program runs. Values are left out: what
the code does to a state depends on its keys.

`AppCalls` makes the JavaScript stack explicit. `frames` is a sequence in which group
frames (`processTransactions`) and program frames (`run`) alternate:

| Variable | Code |
|---|---|
| `store`, `ctx`, `shared` | as in `Runtime` |
| `frames` | calls in progress: a group with its place, or a program with its application, its place, what was to follow (`after`: join, close, clear, delete, ...) and the inner group it builds |
| `net` | `isInnerTx`, `innerTxAppIDCallStack`, `remainingTxns`, `remainingFee`, `pooledApplCost`, `budget`, `txnType` |

A program is a sequence of steps: opcodes that matter to the ledger (`AppGlobalPut`, `AppLocalPut`,
their deletions, the `itxn` family, `Err`, `Approve`) and steps that only take from the budget
(`Take`). `Unwind` is the way of an exception through the frames: it ends at the clear-state
program that catches it (`ctx.ts:935`), or at the direct opt-in that takes the local state back, or
leaves everything. What an exception leaves in `net` stays too: in particular the cost, which is added
before it is compared, so that a clear-state program that went over the budget is
caught with the pooled cost above it, and the next program fails at its first opcode
(`BudgetPooled` therefore speaks of a program that has got past its first step). `ITxnReturn` is the end of `itxn_submit` with what it restores and what it does
not.

### 2.7 `TealValues`, `TealData`, `TealLibrary`, `TealFields`, `TealLedger`, `TealInner`, `Teal`

The interpreter as a machine that runs one program. A value is an integer `[u |-> n]` or a
reference `[b |-> r]` to a byte array in `heap`: `dup`, `load`, `bytec`, `args`, stored state and
logs share one JavaScript object, and `setbyte` and `setbit` write into it. Integers have `WordBytes`
bytes of `ByteBits` bits (8 of 8 in the code); every limit is a constant.

| Module | Code |
|---|---|
| `TealValues` | conversions of `lib/parsing.ts`, the square root of `lib/math.ts`, the stack |
| `TealData` | the opcodes that compute on integers, bytes and byte-integers, and those that shuffle the stack |
| `TealLibrary` | hashes, signatures, curves, base64, JSON, random functions: the libraries are constants (a function that is given), what the opcode demands of its operands and what it costs is modelled |
| `TealFields` | `txn`, `gtxn`, `itxn`, `gitxn` and their families, `global`, `gload`, `gaid`, `block`, over the fields of `lib/constants.ts` |
| `TealLedger` | accounts, assets, applications, local and global state, `log`, with the resolution of references in `interpreter.ts` |
| `TealInner` | `itxn_begin`, `itxn_next`, `itxn_field` and the conversions of `lib/itxn.ts`; `itxn_submit` is in `AppCalls` |
| `Teal` | what the parser refuses (version, mode, static cost, ranges), the loop of `executeWithResult`, labels, branches, subroutines, `switch`, cost and budget |

What a program is given (`ProgramsAssumption`): references lead to arrays, the states of accounts and
applications fit their schemas, and the parameters of instructions are what the parser lets through.
The order of the checks inside one opcode is left out when all of them throw: nothing of the
interpreter is used after an exception. How a line of text is split into words is left out.

### 2.8 `Transactions` and `Clients`

`Transactions` has `mkTransaction` (execution parameters to SDK transactions, which drop whatever is zero
or empty; a field that is missing or `None` is undefined), the predicates by which the runtime recognises the kind of a transaction, and
`encTxToExecParams`, the way back. `Clients` is a call of a session:

| Variable | Code |
|---|---|
| `pc` | where the call stands: `idle`, building, signing, `sending`, waiting, `returned`, `threw` |
| `call` | the kind of session, the parameters, what was built and signed, the round the wait began, the receipt or why it threw |
| `wc` | the WalletConnect connection: `connected`, `accounts` |
| `node` | the network: round, the group it holds, when it confirmed it, its pool error |

Actions are the awaits of `executeTx` and of `makeAndSignTx` with `sendTxAndWait`, the connection's
events, and the external ones: the wallet answers, the round passes, the pool gives up. Every request
to the node may fail: for the suggested parameters (`BuildTx`), for sending, before or after the node took the
group (`Send`), and for what is pending or the next round (`Poll`, `WaitForBlock`).

### 2.9 `Signatures`

| Variable | Code |
|---|---|
| `teal` | the program in the assets directory, which may be edited |
| `lsig`, `sigkey` | a `LogicSigAccount` in memory |
| `files` | logic signatures (`.blsig`), multisignatures (`.lsig`), transactions and groups (`.tx`) |
| `auth` | `getSpendAddress` of every account |
| `gave` | history: who ever signed what |

A signature is the fact that a key signed something; addresses of programs and of multisignatures,
which are hashes in the code, are the program or the parameters themselves. Actions: `MakeLsig`,
`LoadBinary`, `LoadMultiSig`, `Sign`, `SignMultisig`, `AppendToMultisig`, `SignLogicSigMultiSig`, the
tasks `SignLsigFile` and `SignTxFile` with or without `--force`, `EditTeal` and `Rekey`.
`LsigAccepted` and `TxAccepted` are the runtime's verdicts; the latter lets a transaction without any
signature pass. The runtime does not verify the signature
of a single key, only that there is one and whose it is (`validateSecretKeySignature`); so the model
says what holds when signatures in files were made by the keys they name, which is
`BeginningsAssumption` at first and is then proved to stay so.

## 3. The runs

With two workers every run ends within three minutes; most take some seconds. Bounds are constants of
the cfg or of the `MC` module.

| Run | Question | Instance, and why it is enough |
|---|---|---|
| `payments` | Does the store implement `AtomicLedger`? Are committed balances never negative, debits and rekeyings signed by the right key, or not at all? | two users, a logic signature, the sink; 15 payments, some without a signature or signed with another account's key, chosen so that each guard of `transferAlgo`, `deductFee`, `rekeyTo` passes and fails, alone and in pairs of which the first matters to the second; 11 groups of up to three that fail at the first, second or third transaction, some only because of what an earlier one of the same group did. Funds of 9 and 6 with a fee of 2 let the balance run out on every path; offers below the fee are raised or throw |
| `assets` | Is the supply conserved, are units taken only by right, do frozen units stay? | one supply of 2, up to three creations (`MaxAsset = 3`), 19 asset transactions (three without or with a wrong signature) and pairs of them. `MinFee = 0`, so that the run does not end because fees used up the Algos |
| `direct` | Do types, soundness and isolation survive `Spec`'s mix of group and direct calls, after exceptions? | both deployments (one rejected half-way), opt-ins, reloading of `bob`'s account, one group that throws half-way |
| `names` | Is a name deployed once and known to one script only, is whatever exists recorded, and does no script see the records of a later one? | three scripts that share names in all three kinds and differ between two networks, unsorted lists, two faults of the kinds `network` and `optin` |
| `files` | Are the files true of the chain, does a task change only its own records, and what leaves a checkpoint incomplete? | updates and deletions across scripts, repeated and unsorted lists, `--force`, run mode, two faults of every kind |
| `restarts` | Is an interrupted deployment completed in the end? | two networks, three stops, under `FairSpec` |
| `teal` | Do programs end, compute exactly, keep to limits, jump to labels, and see and change only what they may? | bytes of two bits, integers of two bytes, a stack of five: small enough to run every computing opcode on **all** operands, large enough for carries, padding and overflow. `ExactSqrt = 32` stands for 2^52, below which the code's root is exact, and `bsqrt` is run on operands on both sides of the first that it gets wrong. Besides, every filling of a few shapes of control flow (loops, subroutines, labels behind one another), and every opcode that reads or writes transactions or the ledger, with all references by index and by value, in all versions that matter |
| `apps` | Is the register of applications sound, are minimum balances exact and schemas kept, are Algos conserved, and can an account always get out? | one application (every opt-in, close, clear, update and deletion refers to it), programs that write one key, two keys (one too many), nothing, or reject, in groups that fail at every place; an address that was funded before its application exists |
| `inner` | Is the budget pooled, are fees paid for inner transactions, is a rejected opt-in taken back, does every call return? | three applications that pay and call one another alone, twice and in one inner group; `MaxTxns = 4`, `MaxDepth = 3`, `MaxCost` of a few steps: every limit is met; three direct calls in between |
| `clients` | Is what a session sends what was asked for? Does a receipt mean confirmation? Does every call end? | four kinds of session; every kind of transaction alone, every group of up to three with every kind of signature (in those of three no logic signature is of an account of the wallet); wallets that refuse or answer with holes, requests to the node that fail, `WAIT_ROUNDS` short enough for time to run out |
| `signatures` | Is a signature accepted only by consent, and is nobody's signature lost? | two members, a third key, two programs, two transactions; parameters that need both members, that name one twice, that nobody can satisfy; six beginnings (a stored multisignature, logic signatures and transactions unsigned, signed by one, groups with both); two rekeyings; four signings, enough for a threshold of two, a restart in between and one more |

`Name` lists the programs, files and applications that the groups of a run mention (`MCNames`).
`MaxAsset`, `MaxApp` bound counters; `MaxMin` the minimum balance, which failing direct deployments
raise; `MaxFault` the number of faults; `MaxChain` keeps `--force` and `run`, which deploy anew each
time, from growing the chain for ever, and is never reached without them; `EarlyRounds` the
rounds before a group is sent; `MaxSignings` the signatures given. Deadlock is checked where the system never
stops; programs, groups of frames and calls of clients do (`CHECK_DEADLOCK FALSE`).

`AtMostOnce` and `NothingOrphaned` are checked where network and opt-in faults occur, and
not with `"stop"` or `"answer"`: a process that dies, a script that throws, or a confirmation
that is not seen between creation and save leaves an entity nobody recorded.
`GapsOnlyByFailure` is checked with every fault: it says which steps leave an incomplete checkpoint, and
in the run they do. `NamesUnambiguous` is checked on programs whose scripts do not update or delete what others
deployed, and `PrecedingOnly` on lists without repetition. Section 4 tells what happens otherwise.
`StoreSound` is checked with clear-state programs that do not write (`ClearsTidy`): one whose write
exceeds the schema is caught, and leaves the key.

Some properties are promised only of part of what may happen, and name the rest:

* `DebitsAreAuthorised`, `UnitsTakenByRight`: what is taken from an account was signed with the right key,
  or comes from a transaction without any signature. `OnlyByConsent` is about what bears a signature.
* `ComputesRight`: integers are in range but for the values that `~`, `intcblock` and `json_ref` let through
  (`LetThrough`), and `bsqrt` is exact but for the squares where the code's start of the iteration is
  rounded; there it says by how much it is wrong, and that it is wrong nowhere else.
* `JumpsLand`: a jump lands behind the labels at its target; where nothing but labels follows there, from
  version 4 on, it may go on with the next instruction. The property has no other exception.
* `SentAsAsked`: order and signers are promised of groups without `Enclosed` logic signatures; that transactions
  read back alike is promised of what `ReadsWhole` names. Nothing is claimed of the others.
* `ReceiptsTrue`: after an error other than the pool's, a timeout or a failing request the network has nothing
  of the group. After those three it may have it.

Each property of a passing run has a mutant in the module it speaks about (operators marked
"Mutant"), a plausible slip in the same code, under which TLC finds the property violated.

### Fairness

`Recovers` uses `FairSpec` of `Deploy`:

* `WF_vars(TaskStep)`: a task that has begun goes on. The task is a sequential program that
  awaits calls which return or throw; `waitForConfirmation` has a bound on its rounds.
* `SF_vars(StartDeploy(n, AllScripts, FALSE))` for each network `n`: whoever wants the deployment
  keeps running `algob deploy` without `--force`. This is an assumption about the user, not
  about the code; strong, because between two runs on one network the user may be running the
  task on another.

The number of stops is finite (`MaxFault`); with infinitely many no deployment ever ends.

`Terminates` (`Teal`) and `Returns` (`AppCalls`) need only that synchronous code goes on:
`WF_vars(Next)` of the loop, and weak fairness of a step while a call is in progress, not of new calls.
`Ends` (`Clients`) has weak fairness for each step of the call and for the rounds: the node and the
wallet answer in the end, if only by an error, and the network makes blocks. None is assumed for
the connection's events or for confirmation.

## 4. Disagreements

One run is expected to violate its property:

| Run | What TLC shows |
|---|---|
| `self_call` | an application that pays by an inner transaction and then calls itself is entered a second time, although `runtime/test/integration/c2c-call/c2c-call.ts:191` says that it "should fail: inner tx app self-call" |

What follows was met while modelling. Each is what the definitions named say, and can be seen by
asking TLC for the negation.

Runtime and ledger:

* Direct calls commit the half-built context of a group that threw (`OnContext`; `runtime.ts:540`),
  against `runtime.ts:997` "update store only if all the transactions are passed" and
  `ctx.ts:827`. `Atomicity` is violated by `Deployments` with one member and a group of two payments of
  which the second cannot be paid.
* The account that `createLsigAccount` made is gone after a direct call on an older context
  (`runtime.ts:832`), and the first context is cloned before the initial blocks (`runtime.ts:103`).
* `deductFee` (`ctx.ts:596`) credits no account, although `runtime.ts:422` adds a fee
  sink in which "fees + rewards collected are accumulated"; `AlgosConserved` states what the code does.
* A `SignedTransaction` without any signature is not looked at and is applied (`Unsigned`): the chain of
  conditions in `ctx.ts:848-858` has no last `else`. `DebitsAreAuthorised`, `UnitsTakenByRight` and
  `OnlyByConsent` name it.
* A fee that is neither flat nor given makes `deductFee` throw instead of charging the minimum (`ctx.ts:586`:
  `BigInt(NaN)`; `FeeKnown`).
* `deployApp` (`ctx.ts:442`) overwrites an address that was funded before (`AlgosConserved` has the
  exception); a direct deployment that is rejected leaves application 0 and a raised minimum balance;
  local state of a deleted application can never be closed.

Deploy:

* A failed call saves a checkpoint, and the rest of the script is skipped from then on
  (`lib/tx.ts:325`), against `docs/guide/execution-checkpoints.md:47` and `user-script-execution.md:33`,
  which say that nothing is saved then. `GapsOnlyByFailure` says that nothing else leaves such a checkpoint.
* `updateApp` in a later script puts the application's name into a second file, and later tasks
  cannot load the files (`deployer.ts:969`; the same guide, line 14); nor can they load names that
  different scripts use on two networks (`script-checkpoints.ts:122`; line 59).
* A creation that is confirmed after the timeout is made again (`algo-operator.ts:164`;
  `docs/guide/deployer.md:13`).
* `splitAfter` (`run.ts:44`) does not find a script that its sorted part has
  already taken and returns all that are left: a script that is listed twice in a row sees the
  records of all later scripts the second time (`LastToMerge`), against line 25 of the guide.
* `addCheckpointKV` (`deployer.ts:609`) of a pair that an earlier script has kept
  writes nothing (`AddCheckpointKV`, second disjunct), so the script gets no checkpoint and is executed by
  every task, against line 45.

TEAL:

* A jump to a label behind which only labels follow does not jump from version 4 on, and `callsub` has left
  a frame by then (`interpreter.ts:426-443`, against its comment and those at lines 397 and 422;
  `JumpToLabel`, second alternative of `JumpsLand`).
* `bsqrt` of (2^52 - 1)^2 is 2^52 - 2: the iteration starts from `Math.sqrt` of a rounded number and ends at once
  (`math.ts:16-24`; `ArithmeticExact`, with 2^52 scaled down to `ExactSqrt`).
* `setbyte` and `setbit` write into an array that may be shared with the scratch space, constants,
  stored state and logs (`opcode-list.ts:2798`; `ArraysStay` says where).
* `log` counts the decimal text of bytes (`opcode-list.ts:4684` against `errors-list.ts:364`);
  `switch` throws when the index equals the number of labels; `~` yields a negative number; `intcblock`
  and `json_ref` let integers out of range in; `getbit` of an integer throws above its highest bit.
* `app_params_get` takes any application, `acct_params_get` may add an account, and `createFlag`'s comment is
  inverted (`interpreter.ts:137`); `MAX_INNER_TRANSACTIONS` bounds the groups submitted, not their size.

Clients:

* In the AlgoSigner and WalletConnect sessions, logic signatures that enclose a transaction the wallet
  signs may be sent in the wrong order (`web-mode.ts:319`; `Enclosed`); an all-multisignature group is never signed by the first, and a multisignature
  beside a logic signature is dropped.
* `makeAndSignTx` and `sendTxAndWait` cannot work together in the AlgoSigner session, and assign no group;
  the default fee is the minimum fee *per byte* (`api.ts`); `payFlags.lease` is never used.
* `waitForConfirmation` does not look after its last wait: a call may time out although its group is
  confirmed (`ReceiptsTrue`, second conjunct).
* A request that fails after the node took the group makes the call throw although the group is, or will be,
  confirmed (`web-mode.ts:43-108`, `algo-operator.ts:138-170`; `algob` makes more requests after the
  confirmation, `tx.ts:314-328`). The error does not tell, and whoever calls again may send twice.
* `transactionAndSignToExecParams`, "ExecParams object equivalent with txAndSign" (`lib/txn.ts:429`),
  turns opt-ins, closes, clears, updates and deletions into plain calls and drops the accounts of a call
  (`EncTxToExecParams`; `ReadsWhole` is what is left of the comment).

Signatures:

* `LogicSig.sign` begins a multisignature anew, and has cleared it when it finds that the key is not a
  member (`SignMultisig`, ELSE branch). A member who is named twice can sign only the first place
  (`PlaceOf`): a threshold that needs both is out of reach.
* A delegated logic signature of an account that was rekeyed is refused, since the signer is taken to
  be the sender (`runtime.ts:876`), while a multisignature of its new authority is accepted for transactions.
* `loadMultiSig` puts the stored multisignature on today's program (`deployer.ts:265`), and one of
  nobody if the file is missing; the verdict refuses both.
* The default of `--groupIndex` is `NaN` (`sign-multisig.ts:38`: `Number(undefined) ?? 0`), although
  line 91 says "Defaults to 0": for a group the index has to be given.

## 5. Proofs

The theorems are about every value of the constants under the named assumptions
(`LedgerAssumption`, `RuntimeAssumption`, `AppLedgerAssumption`, `AppCallsAssumption`,
`ScriptAssumption`, `ProgramAssumption`, `TaskAssumption`, `SignaturesAssumption`,
`BeginningsAssumption`, `TealValuesAssumption`, `ProgramsAssumption`, `ClientsAssumption`,
`AsksAssumption`, `NoneAssumption`), which TLC evaluates in the runs. Besides the types of the constants they say that
there are finitely many accounts (a sum over infinitely many means nothing) and keys, that the addresses of
applications differ from each other (they are hashes in the code), that nobody has the key of such an
address and that no unsigned transaction is sent in its name (`Submittable`), that groups are not empty, that programs consist of steps the model has (`IsStep`),
that the parameters of a client's call have the types of `types.ts` (`IsParams`), that a transaction of the SDK
is one that `mkTransaction` makes and, where it reconfigures an asset, gives all four addresses (`IsMade`), and
that undefined is none of the values that are given.

`LedgerProofs` proves, handler by handler, that a sound ledger stays sound: `Sound(s)` is `s \in
State` with `MinCoversHoldings`, `HoldingsWellFormed` and `CreatorHolds`. Each lemma covers both
ends, also the ledger left behind by an exception. The arithmetic on the size of holdings rests on
`HoldingsFinite` and the library's facts on cardinalities (`AddHoldingSound`, `CloseAssetSound`);
`ApplyTxSound` composes them along `ApplyTx`.

| Module | Theorem | Statement |
|---|---|---|
| `RuntimeProofs` | `TypeCorrect` | `Spec => []TypeOK` |
| | `LedgersStaySound` | `Spec => []LedgersSound` |
| | `ContextStaysIsolated` | `Spec => []ContextIsolated` |
| | `StoreStaysSolvent` | `TxSpec => []Solvent` |
| | `DebitsStayAuthorised` | `TxSpec => DebitsAreAuthorised` |
| | `GroupsAreAtomic` | `TxSpec => Atomicity` |
| | `UnitsStayUnlessByRight` | `TxSpec => UnitsTakenByRight` |
| | `FrozenUnitsStayFrozen` | `TxSpec => FrozenUnitsStay` |
| | `SupplyStaysConserved` | `TxSpec => []AssetsConserved` |
| `AppProofs` | `FieldsAreTyped` | `Spec => []TypeOK` |
| | `OptOutSucceeds` | `Spec => ClearStateWorks` |
| | `RejectedOptInsLeave` | `Spec => OptInTakenBack` |
| | `AlgosStayConserved` | `Spec => AlgosConserved` |
| | `BudgetIsPooled` | `Spec => []BudgetPooled` |
| | `FeesArePaid` | `Spec => []FeesPaid` |
| | `MinimumsStayExact` | `DirectCalls = {}` gives `Spec => []MinBalanceExact` |
| | `MinimumsSuffice` | `Spec => [](store.min[a] >= AccountMin + AppCosts(store, a))`, for every `a` |
| | `StoreStaysSound` | `DirectCalls = {}` and `ClearsTidy` give `Spec => []StoreSound` |
| `Recursion` | `FoldOverNothing`, `FoldOverStep` | the two equations of a fold over a finite set |
| | `Induction` | what holds of nothing, and of `T` if it holds of `T` without the element picked, holds of every set a fold may go through |
| | `MinimalSubset`, `FiniteDescends`, `Positions` | which sets these are: finite ones, and among them the positions of a sequence, the last one first |
| | `SumInt`, `SumWithout`, `SumPart` | a fold that adds: it is an integer, any element may be taken out first, and a part of what is not negative adds up to no more than all of it |
| `DeployProofs` | `MemoryExtendsFile` | `Spec => []IInv` |
| | `OwnRecordsOnly` | `Spec => OnlyOwnRecordsChange` |
| | `RecordsStay` | `Spec => RecordsKept` |
| | `FilesFaithful` | `Spec => []CheckpointsFaithful` |
| | `MemoryCoversFiles` | `Spec => []Memory` |
| | `NamesApart` | `OwnWork` gives `Spec => []NamesUnambiguous` |
| | `LaterUnseen` | `OwnWork` and `NoScriptTwice` give `Spec => []PrecedingOnly` |
| | `DeployedOnce` | `Undisturbed`, `TidyWork` and `OneValue` give `Spec => []AtMostOnce` |
| | `NothingForgotten` | the same give `Spec => []NothingOrphaned` |
| | `OnlyTheLostIsRepeated` | `Spec => ([]Accounted => []AtMostOnce)` |
| | `OnlyFailingCallsLeaveGaps` | `Spec => GapsOnlyByFailure` |
| `TealProofs` | `InductiveInvariant` | `Spec => []IInv` |
| | `References` | `Spec => [](Sound(vm) /\ CodeSound(vm.code) /\ CallsSound(vm) /\ vm.pc \in Nat \ {0})` |
| | `Resources` | `Spec => []ResourcesHeld` |
| | `ArraysShared` | `Spec => ArraysStay` |
| | `OwnState` | `Spec => OwnStateOnly` |
| | `Jumps` | `Spec => JumpsLand` |
| `ClientsProofs` | `ReceiptsAreTrue` | `Spec => []ReceiptsTrue` |
| | `SentIsAsked` | `Spec => []SentAsAsked` |
| `SignaturesProofs` | `SignaturesGiven` | `Spec => [](TypeOK /\ Given)` |
| | `AcceptedByConsent` | `Spec => []OnlyByConsent` |
| | `SignaturesStay` | `Spec => SignaturesKept` |

In `RuntimeProofs` the first three follow from one inductive invariant, `IInv`: the types of the control
variables, `Sound(store)` and `Sound(ctx)`, `ContextIsolated`, and two parts the
properties do not mention. `Room` says that what is left of the group fits under the bound on
assets; without it a creation in the middle of a group could leave the type of `assetCounter`.
`Turns` says that a group and a series of opt-ins are never in progress together.
`LedgersSound` alone is not inductive: whether a creation keeps `HoldingsWellFormed`
depends on the context's counter, and whether a commit keeps `store` sound depends on `ctx`.

`StoreStaysSolvent` and `DebitsStayAuthorised` need `TxInv = IInv /\ Funded /\ Backed`. `Funded`: while a group is processed and
between groups, balances in the store are not negative, and those in the context are not either as
long as the call has not thrown. A context that an exception left may be overdrawn, since
`transferAlgo` subtracts first: the store is solvent because that context is never
committed under `TxSpec`. `Backed`: whenever an account of the store has less in the context
than in the store, or another key, some transaction of the group before `idx` is sent by it and signed
with the key of the **store**, or bears no signature (`Unrefused`). `Backed` is what the action property `DebitsAreAuthorised` needs at
the moment of the commit, when all of the group's effect reaches the store in one step.

`GroupsAreAtomic` is the refinement: `ExecuteTx` and `StepTx` leave the store as it is and are
stutters of `AtomicLedger`, and `CommitGroup` is its `Submit`. For that step the invariant
`Halfway` says what `ctx` is while a group is processed: the result of the abstract
specification's fold over the transactions before `idx`, none of which failed. `AtomicLedger` applies a
group by a fold, `Runtime` by one step at a time, and `PrefixNext` (an instance of
`FoldOverStep`) is what joins the two.

`UnitsStayUnlessByRight` and `FrozenUnitsStayFrozen` do for units of assets what `Backed` does for Algos. A right may be handed on
within a group: the manager appoints a clawback address, which takes the units two transactions
later. `TakenByRight` alone is therefore not inductive. The invariant follows the roles beside it:
where the context names others than the store, a transaction of the manager the *store* knew, signed or
without signature, is among those processed (`AppointedByRight`), and likewise for the flags of frozen holdings
(`FrozenExcused`). `ApplyTxProper` says of one transaction what it may take, end, or appoint; the
invariant accumulates this over the group, and `CommitGroup` makes it the step of the store.
`SupplyStaysConserved` is about sums instead: every handler either leaves the sum of an asset's units,
or moves as much from one account as to another (`SumOfMove`), or makes or ends the asset with all of
them. Destroying is where it takes the soundness of the ledger: the creator must hold the total, and
then nobody else holds anything, because units are not negative.

`Recursion` is what the sums rest on. `Sum`, `FoldLeft` and their kin are defined by `CHOOSE` as *the* function
that obeys a recursion equation on the subsets of a set, and nothing can be said of them before it is
known that there is one. The library's induction takes an operator as a parameter, which these
provers cannot instantiate; the module gets existence from a *smallest counterexample* instead: among the
subsets without a solution a minimal one would get it from the solutions of its own subsets.
That finite sets have minimal subsets is a fact about cardinalities (`MinimalSubset`). A
module instantiates `Recursion` with the step of its fold; the definitions of the community modules then
unfold to `FoldOver`. `Induction` is the same argument once more, for what a fold preserves: it speaks of a
*set* of subsets, where an induction theorem of the library has an operator. `LedgerProofs` derives from this what a sum gains when one term changes, and that sums of the
same terms are the same.

`AppProofs` rests on one inductive invariant, `CallInv`, of the two ledgers and the stack of calls:
which frames may lie on which (`FrameFits`, `Linked`: an inner group was submitted by the
program below it, a program belongs to the call its group has come to), that the store is private to the
caller while an outermost group runs, and that application numbers still to be given out suffice for the
deployments ahead (`RoomFor`). The least obvious part is `Unborn`: the
addresses of applications that do not exist yet. Anyone may pay to such an address, but nobody can act for it, so it
owns, holds and has joined nothing when `EndDeploy` overwrites its account; without that part neither
conservation of Algos nor the register survives a creation.

An exception may end a call anywhere on the stack, so a step of a program has many ends. They are
classified once: `ProgramShape` and `NextTxIs` say what a step of a program, and one iteration of
`processTransactions`, do to ledger, stack and counters, and `Moves` says what this means for the stack: it
grows by one frame, its innermost frame advances, or it is cut down to a clear-state caller or to nothing.
`ClearStateWorks` and `OptInTakenBack` follow from where `Unwind` goes, `AlgosConserved` from
`ProgramShape` and the sums. `BudgetPooled` has the budget on one side and the transactions submitted so far on
the other, while what the code adds at `itxn_submit` is for transactions that are still to come:
`BudgetInv` counts the transactions ahead on the whole stack (`ToCome`), and `Moves` says of every step how that
number and the counter of transactions change together; an exception drops what was ahead together with the
frames, and only a group that a clear-state program leaves behind goes on.

`FeesArePaid` is the same kind of argument with money. A group is asked for the fees of all its
transactions when it is submitted, and an inner group may pay with the credit that others left.
`PaidInv` says at every moment that what the accounts have paid, together with the fees offered by transactions still
to come, covers the minimum fee of those counted and of those to come, and the credit that may yet be spent. The one step
that might add to what the accounts have is the creation of an application, which makes the account of its address
anew: `FundedInv` says that the address of an application to come is never overdrawn.

`MinimumsStayExact` and `MinimumsSuffice` are about `Surplus`, what a minimum balance has beyond the
applications that the account made and joined. A creation raises the minimum first, and the application is registered
by `EndDeploy` only when its program has approved; in between the minimum is ahead by what the program that creates it
owes (`Owed`), and an exception discards the context together with that program (`ExactInv`). Direct calls write to
the store itself, and one that fails leaves the minimum balance raised: then it is only a lower bound (`FloorInv`),
and `MinimumsStayExact` has the hypothesis that callers only submit groups.

`StoreStaysSound` adds the schemas (`FitInv`): `put` writes first and counts then, so that an exception leaves one key
too many in the context. That is harmless while the exception ends the outermost call, whose context is
thrown away, and it does if no clear-state program puts anything (`WritesEnd`). `ClearsTidy` says so, and `MCAppCalls`
assumes it of its programs, where TLC evaluates it. The second hypothesis, `DirectCalls = {}`, is needed because a
direct call that fails leaves what it wrote. Both say under what use of the runtime the property is promised, not
what the code guarantees; the run `apps` is under both.

In `DeployProofs` the files change in one step each, as a whole, from memory. Whether such a step
touches one record only depends on what has been in memory since the script began: the invariant
`Extends` says that it is the script's file as it stands, with additions on the network of the task.
`Merged` establishes it, since the file of the current script is merged last (`MergedExtends`),
`Record` keeps it, and both ends that write, the regular save and the partial one of a
failing call, may rely on it (`SaveCareful`). What the other files put into memory does not matter to it.

It matters to everything else one wants to know of a deployment. `LoadAll` and `LoadRange` are folds
over the list of scripts; `LoadAllIsFold` and `LoadRangeIsFold` show them to be instances of `Recursion`,
and what they preserve is proved by `Induction` over the positions of the list. On this rest five more
invariants:

* `Truth`: what the files and the two views that hold values say is true of the network. Entities are
  only added to the network and marked as gone there (`Later`), so what was true stays true; every call
  changes network and memory together, and an end saves what is in memory or nothing.
  `FilesFaithful` needs no hypothesis: neither failures nor `--force` make a file lie.
* `Memory`: while a script runs, the view that `isDefined` looks into covers the files and the current
  script's own checkpoint, and what the script has deployed so far is in the latter.
* `Apart`: names of different files are different, and those of the current script in memory differ from
  those of the other files. `Memory` is what it takes: a deployment goes ahead only if no view has the name.
* `Behind`: scripts have been merged up to the current one, and what a script sees is in the
  file of one of them, or is its own.
* `Accounted`, with `Orderly`: every entity is recorded in a file or by the script that is running. A step may
  break it only by ending a task without a save after something was created. `Orderly` shows that this does
  not happen: a script that runs has no checkpoint yet (`Steady`), and none of its calls throws an
  exception outside the deployments that save first, because what it updates or deletes is there, is of
  that kind, and is not marked as deleted (`Alive`).

`Accounted` alone carries `OnlyTheLostIsRepeated`: where nothing goes unrecorded, nothing is deployed
twice, whatever scripts, `--force` and failures do.

`OnlyFailingCallsLeaveGaps` has no hypothesis either. Two kinds of steps write a checkpoint, and `SaveGaps` says
that a write leaves out only what memory does not hold. At the end of the script memory holds all
that it deploys (`Memory`, `FinishGaps`); a call that fails saves what the calls before it put there, so the gap is
what that call and those after it were to deploy (`FailGaps`, `CallGaps`). Stops, exceptions of the
script, `--force`, run mode and the order of the lists change nothing.

The hypotheses of the other four are about scripts, lists and the user; the code does not see to them, and
without them the properties are false of it:

| Hypothesis | What it says | Without it |
|---|---|---|
| `OwnWork` | a script updates and deletes only what it deployed itself | registering the update of another script's application puts the name into a second file |
| `NoScriptTwice` | no list names a script twice in a row | `splitAfter` returns all scripts that are left, and their files are merged |
| `TidyWork` | it does so after it deployed the entity, as what it is, and before it deleted it | the call throws, and what the script created before is not saved |
| `OneValue` | the scripts keep one value for a key | `addCheckpointKV` throws, likewise |
| `Undisturbed` | no `--force`, no run mode, no stop, no lost answer | each of these leaves an entity that no file records |

The instance of the run `names` satisfies all of them: `MCDeploy` assumes so
(`SharedNamesAreTidy`, `AnyOrderHasNoScriptTwice`), and TLC evaluates it.

`TealProofs` goes through some 170 opcodes. What one of them may do is said by a ladder of relations between the
machine before and after: `Computes` (a stack and new arrays, nothing else), `Rewrites` (an array that
was popped changes, in its length), `Manages` (the state of the own application), `Builds` (inner
transactions), and `Leads`, which covers all four and the jumps. Each opcode is put on its rung once;
`WorkLeads` and `LandsLeads` carry it up, and `NextSteps` says that every step is the parser's, the
end of the program, or an instruction that leads somewhere. The theorems about steps read off `Leads`
what they say.

They need the invariant `IInv` because an opcode does what it says only on a machine that is sound: `Sound`
says that a reference leads to an array wherever it is kept, on the stack, in the scratch space, in
constants, arguments, state, logs and what other programs of the group stored. An array is never
removed and never changes its length, so a reference once good stays good (`Grown`); it also means that a value
that fits its schema still fits when the array is changed in place later, which is why `SchemasKept` survives
`setbyte` (`CtxStays`). `CallsSound` says that a caller is an instruction `callsub`, which `retsub` needs to
land inside the program. `BuildsSound` follows whom the inner transactions name.

`StaticGasCovers` compares a sum over all lines with what was paid on one way through them. Up to version 3
a program only goes forward: `IInv` says that what was paid is at most the cost of the lines *before* the
pointer (`Before`), `PaidGoesOn` that a step forward keeps this, and `SumPart` of `Recursion` that the
lines before the pointer cost no more than all. That no opcode of these versions goes back, keeps a
changed parameter or has a cost that depends on its operands is `LateOps`.

`Jumps` is about the five instructions that may jump and when each of them does (`JumpsTo`). `JumpActions`
says that no other action runs them; `JumpGoes` says of the two ways the code looks for a label that
the pointer comes to rest on the last of the labels at the definition that counts, the next one up to version 3 and
the last one from version 4, or stays where it is if only labels follow; `JumpsGo` carries this through the four
actions, with the operands they pop and the frame that `callsub` leaves.

In `ClientsProofs`, `Held` says that the network holds something of the session only after it was
sent, and then what was built; `Receipt` and `Failure` are the property's own conjuncts, and hold at
every interleaving of the rounds, the connection's events and failing requests with the call.

`SentAsAsked` needs more: what is sent was put together over several awaits, by four kinds of sessions, and
`SInv` follows it from the question to the answer. `Asked` says that a call under way is one that was
asked, with parameters of their types; `BuiltWell` that everything built so far is `Good`, it means what
was asked and reads like it. The work is in three sets of lemmas:

* What a transaction means. `EffectMeans` goes through the types of parameters: the operation that
  `processTransactions` picks for the transaction, from fields that are gone when they are zero or
  empty, is the one that was asked, with its arguments. That the kinds do not take each other's place
  (a revocation for a transfer, a deletion for a reconfiguration) is where this could fail.
* The way back. `ReadsAlike`: for the kinds that `ReadsWhole` names, the parameters `encTxToExecParams` makes of
  the transaction mean the same once more.
  `CompletedSame` adds that the addresses the deployer fills in leave everything else alone.
* Who signs. Splicing the session's own signatures into the answer of a wallet is two folds, which
  `Recursion` turns into steps: `PresentIsSigned` and `PresentIsWhole` (what a wallet signed, without the holes,
  and when that is all of a group), `SplicingFills` (an answer without its holes is filled up to the whole group),
  `SplicingMakes` (so is no answer at all, if every transaction has a logic signature) and `WholeUnlessEnclosed`
  (an answer with holes is filled up too if no two logic signatures have a transaction between them that the wallet
  signs; of other groups nothing is said). `SignGroupSigns` and `SignWithKeysSigns` carry it to the two ways of
  signing.

In `SignaturesProofs` the invariant `Given` says that every signature in memory or in any file was
given by the key at its place: `OnlyByConsent` speaks only of what is accepted now and bears a signature, and whether the
next verdict is right depends on signatures that no verdict has looked at. It is preserved
because what was given stays given (`LsigMonotone`, `TxMonotone`, `ContentMonotone`) and because
who signs does so at a place of its own (`PlaceIsMembers`). That a first place exists (`FirstExists`)
is proved from the well-foundedness of strict inclusion on finite sets, since the library's
induction takes an operator as a parameter. `VerifiedAgrees` is the counting argument: the places whose
signatures verify are among those whose members gave one, so the threshold carries over.

Only model-checked:

* `TypeOK` and `ComputesRight` of `Teal`: what its integers and conversions compute rests on exponentiation, of
  which the provers know nothing (not even that `2^n` is positive), and so does whether bytes stay bytes. What
  `TypeOK` says of references, callers, instructions and the ledger is `References`.
* `ReadsWithinReach` compares what a program holds with the secrets of the accounts it was not given: a
  property of the instance, whose secrets are numbers that nothing else yields.
* `Recovers`, `Terminates`, `Returns`, `Ends`: liveness under fairness, which stays with TLC.

## 6. What is not modelled

* **Rounds and blocks**: the runtime keeps only the current round, and nothing changes with it but the
  verdict on a transaction's first and last valid round, one more reason for a group to throw.
* **Compile cache**: whether an artifact is current is one comparison of hashes; what is left is the
  external compiler.
* **Inner asset transactions**: built by `TealInner`, not applied by `AppCalls`. They go through the handlers of
  `Ledger`.
* The cryptographic functions, JSON and base64 themselves: functions that are given.
* How the parser splits a line, and messages of errors.
* The modes' calls that only read (status of the node, information on accounts), and the signing of a
  single transaction outside `executeTx`.
* A torn write of a checkpoint file, and two `algob` processes on one project. `writeToFile` of the
  signing tasks looks and then writes in two awaits; the model writes in one step.
* CLI, configuration, plugins, templates, examples: glue without state between calls.

## 7. What could come next

1. Proofs: what the arithmetic of `Teal` computes, once the provers know of exponentiation.
2. `Deploy` with a second process, and with files that are written in two steps.
3. Rounds with the valid rounds of transactions; the compile cache.
