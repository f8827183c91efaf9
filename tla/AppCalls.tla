------------------------------ MODULE AppCalls ------------------------------
(***************************************************************************)
(* Application calls of @algo-builder/runtime: groups with payments and    *)
(* calls, the programs they run, the inner transactions that programs      *)
(* submit, and direct deployments and opt-ins (packages/runtime/src/       *)
(* runtime.ts, ctx.ts, interpreter/opcode-list.ts, lib/itxn.ts).           *)
(*                                                                         *)
(* The JavaScript stack is a sequence of frames.  A group frame is a call  *)
(* of processTransactions; a program frame is a call of runtime.run.  A    *)
(* program is a sequence of steps, each one opcode, or several that are of *)
(* no concern ("take") or belong together ("field"); Teal has the others.  *)
(***************************************************************************)
EXTENDS AppLedger

CONSTANTS
  InitialAccounts, Funds,  \* accounts given to the constructor, their Algos
  Body,                    \* the steps of every program
  Groups,                  \* groups that callers may submit
  DirectCalls,             \* calls that may be made without a group
  MaxCost,                 \* MAX_APP_PROGRAM_COST
  MaxTxns,                 \* transactions of a group with inner ones, 256
  MaxDepth,                \* applications that call one another, 8
  MaxInnerGroups,          \* MAX_INNER_TRANSACTIONS
  MaxMin                   \* bound: direct deployments that fail raise the minimum balance

Then == {"none", "call", "create", "join", "close", "clear", "delete", "update"}

\* then is what an application call is for, code what it deploys.
AppTx ==
  [type : {"unknown", "pay", "appl"}, from : Addr, to : Addr, amt : Nat,
   close : Addr \cup {NoAddr}, rekey : Addr \cup {NoAddr}, signer : Addr \cup {NoAddr},
   approved : BOOLEAN, fee : Nat, flat : BOOLEAN, app : App, then : Then, code : Code]

IsCall(tx) == tx.type = "appl"

\* What a program may set in an inner transaction: it stays a plain call.
Settable ==
  [type |-> {"pay", "appl"}, from |-> Addr, to |-> Addr, amt |-> Nat, close |-> Addr,
   rekey |-> Addr, fee |-> Nat, app |-> App]

IsStep(step) ==
  /\ step.op = "take" => step.n \in Nat
  /\ step.op \in {"put", "del", "lput", "ldel"} => step.key \in Key
  /\ step.op = "field" =>
       \A x \in DOMAIN step.set : x \in DOMAIN Settable /\ step.set[x] \in Settable[x]

\* What callers may submit.  Nobody has the key of an application's address, and
\* nobody submits a transaction of one without a signature.
Submittable(tx) ==
  /\ tx \in AppTx /\ tx.type # "unknown"
  /\ tx.signer \notin Range(AppAddress)
  /\ Unsigned(tx) => tx.from \notin Range(AppAddress)
  /\ IsCall(tx) => (tx.then = "create" <=> tx.app = 0)
  /\ tx.code.valid => {tx.code.approval, tx.code.clear} \subseteq DOMAIN Body

ASSUME AppCallsAssumption ==
  /\ InitialAccounts \subseteq Addr /\ InitialAccounts # {}
  /\ Funds \in [InitialAccounts -> Nat]
  /\ IsFiniteSet(Key)
  /\ \A name \in DOMAIN Body :
       Len(Body[name]) \in Nat /\ \A i \in 1..Len(Body[name]) : IsStep(Body[name][i])
  /\ \A g \in Groups :
       g \in Seq(AppTx) /\ g # <<>> /\ \A i \in DOMAIN g : Submittable(g[i])
  /\ \A tx \in DirectCalls :
       /\ Submittable(tx) /\ IsCall(tx) /\ tx.then \in {"create", "join", "update"}
       /\ tx.from \notin Range(AppAddress)
  /\ MaxCost \in Nat /\ MaxTxns \in Nat

VARIABLES
  store,   \* runtime.store
  ctx,     \* runtime.ctx.state
  shared,  \* the two are one object
  frames,  \* calls in progress, the innermost last
  net      \* other fields of the context

vars == <<store, ctx, shared, frames, net>>

\* inner is isInnerTx, callers innerTxAppIDCallStack, left remainingTxns,
\* credit remainingFee, cost pooledApplCost, kind txnType.
NewNet(first) ==
  [inner |-> FALSE, callers |-> <<first>>, left |-> MaxTxns, credit |-> 0, cost |-> 0,
   budget |-> MaxCost, kind |-> "none"]

Init ==
  /\ store = WithApps(Genesis(InitialAccounts, Funds))
  /\ ctx = store
  /\ shared = FALSE
  /\ frames = <<>>
  /\ net = NewNet(0)

-----------------------------------------------------------------------------
(* Frames                                                                  *)

GroupFrame(txs) == [form |-> "group", txs |-> txs, at |-> 1]

\* after is what happens when the program approves; who and app are the sender
\* and the application of the transaction, code its new programs.
ProgramFrame(name, app, who, after, code) ==
  [form |-> "program", steps |-> Body[name], pc |-> 1, app |-> app, who |-> who,
   after |-> after, code |-> code, inner |-> <<>>, submitted |-> 0]

Depth == Len(frames)
Current == frames[Depth]
Below == SubSeq(frames, 1, Depth - 1)
InGroup == frames # <<>> /\ Current.form = "group"
InProgram == frames # <<>> /\ Current.form = "program" /\ Current.pc <= Len(Current.steps)
Step == Current.steps[Current.pc]

Fees(txs) == Sum([i \in DOMAIN txs |-> txs[i].fee])

\* The context's state becomes s while a call is in progress.
Write(s) == ctx' = s /\ store' = (IF shared THEN s ELSE store) /\ UNCHANGED shared

\* The rest of an iteration of processTransactions, with the frames fs of which
\* the last is the group's.  An inner transaction pops a caller, and the last
\* one but one with it.
FinishTx(s, fs, n) ==
  LET g == fs[Len(fs)]
      tx == g.txs[g.at]
      popped == IF n.callers = <<>> THEN <<>> ELSE SubSeq(n.callers, 1, Len(n.callers) - 1)
      callers == IF Len(popped) = 1 THEN <<>> ELSE popped
  IN  /\ Write(Rekey(s, tx))
      /\ frames' = [fs EXCEPT ![Len(fs)].at = @ + 1]
      /\ net' = IF n.inner THEN [n EXCEPT !.callers = callers] ELSE n

Clears == {k \in DOMAIN frames : frames[k].form = "program" /\ frames[k].after = "clear"}
Joins == {k \in DOMAIN frames : frames[k].form = "program" /\ frames[k].after = "join"}

\* What is left when an exception reaches the caller.
Thrown(s, n) ==
  /\ ctx' = s
  /\ store' = IF shared THEN s ELSE store
  /\ frames' = <<>>
  /\ net' = [n EXCEPT !.inner = FALSE]
  /\ UNCHANGED shared

\* Mutant: a clear-state program may throw.
UnwindClear(s, n) ==
  IF Joins # {}
  THEN LET f == frames[CHOOSE k \in Joins : TRUE]
       IN  Thrown(LeaveApp(s, f.who, f.app).s, n)
  ELSE Thrown(s, n)

\* Mutant: an opt-in that is rejected stays.
UnwindKeepsOptIn(s, n) == Thrown(s, n)

\* An exception.  A clear-state program catches it, and then the local state
\* goes; an opt-in takes it back and throws on.  What was written stays.
Unwind(s, n) ==
  IF Clears # {}
  THEN LET k == CHOOSE k \in Clears : TRUE
           closed == CloseApp(s, frames[k].who, frames[k].app)
       IN  IF closed.ok
           THEN FinishTx(closed.s, SubSeq(frames, 1, k - 1), n)
           ELSE Thrown(closed.s, n)
  ELSE IF Joins # {}
  THEN LET f == frames[CHOOSE k \in Joins : TRUE]
       IN  Thrown(LeaveApp(s, f.who, f.app).s, n)
  ELSE Thrown(s, n)

-----------------------------------------------------------------------------
(* Transactions                                                            *)

Submit(g) ==
  /\ frames = <<>>
  /\ IsInjective(g)
  /\ store.apps + Cardinality({i \in DOMAIN g : g[i].then = "create"}) <= MaxApp
  /\ ctx' = store
  /\ shared' = FALSE
  /\ frames' = IF FeesCovered(g) THEN <<GroupFrame(g)>> ELSE <<>>
  /\ net' = [NewNet(g[1].app) EXCEPT
               !.credit = Fees(g) - MinFee * Len(g),
               !.budget = MaxCost * Cardinality({i \in DOMAIN g : IsCall(g[i])})]
  /\ UNCHANGED store

\* What a call does before its program runs.
Prepare(s, tx) ==
  IF tx.then = "create" THEN BeginDeploy(s, tx.from, tx.code, tx.type)
  ELSE IF tx.then = "join" THEN JoinApp(s, tx.from, tx.app, tx.type)
  ELSE [ok |-> AppExists(s, tx.app) /\ (tx.then = "update" => tx.code.valid), s |-> s]

\* The program that it runs.
ProgramOf(s, tx) ==
  LET d == s.app[tx.app]
  IN  ProgramFrame(IF tx.then = "clear" THEN d.clear ELSE d.approval,
                   tx.app, tx.from, tx.then, tx.code)

\* Mutant: the counter of transactions may go below zero.
TxnsRemain(n) == n.left >= 0

\* The counter remainingTxns is not at zero.
MayTakeTx(n) == n.left > 0

\* One iteration of processTransactions up to the end of a payment, or to the
\* program of a call.
NextTx ==
  /\ InGroup /\ Current.at <= Len(Current.txs)
  /\ LET tx == Current.txs[Current.at]
         typed == [net EXCEPT !.kind = tx.type]
         n == [typed EXCEPT !.left = @ - 1]
         paid == DeductFee(ctx, tx)
         sent == TransferAlgo(paid.s, tx)
         p == Prepare(paid.s, tx)
     IN  IF ~(paid.ok /\ Authorised(store, tx) /\ MayTakeTx(net)) THEN Unwind(paid.s, typed)
         ELSE IF ~IsCall(tx)
         THEN IF sent.ok THEN FinishTx(sent.s, frames, n) ELSE Unwind(sent.s, n)
         ELSE IF ~p.ok THEN Unwind(p.s, n)
         ELSE /\ Write(p.s)
              /\ net' = IF Depth = 1 /\ Len(Current.txs) = 1 THEN [n EXCEPT !.cost = 0] ELSE n
              /\ frames' = Append(frames, ProgramOf(p.s, tx))

\* The last transaction of the outermost group is done.
Commit ==
  /\ InGroup /\ Current.at > Len(Current.txs) /\ Depth = 1
  /\ store' = ctx /\ shared' = TRUE /\ frames' = <<>>
  /\ UNCHANGED <<ctx, net>>

\* runtime.deployApp, optInToApp and updateApp work on the context there is, with
\* the transaction type that it saw last.
DirectCall(tx) ==
  LET p == Prepare(ctx, [tx EXCEPT !.type = net.kind])
  IN  /\ frames = <<>>
      /\ tx.then = "create" => ctx.apps < MaxApp /\ ctx.min[tx.from] <= MaxMin
      /\ Write(p.s)
      /\ net' = [net EXCEPT !.cost = IF p.ok THEN 0 ELSE @, !.budget = MaxCost]
      /\ frames' = IF p.ok THEN <<ProgramOf(p.s, tx)>> ELSE <<>>

-----------------------------------------------------------------------------
(* Steps of a program                                                      *)

\* pooledApplCost after an opcode; it is counted before it is compared.
Spent(n) == [net EXCEPT !.cost = @ + n]

\* Mutant: the budget of one program is not shared.
ContinueUnpooled(s, f, n) ==
  /\ Write(s)
  /\ frames' = Append(Below, [f EXCEPT !.pc = @ + 1])
  /\ net' = [net EXCEPT !.cost = @ + n]

\* The step has led to the ledger s and the frame f; it costs n.
Continue(s, f, n) ==
  IF net.cost + n > net.budget THEN Unwind(s, Spent(n))
  ELSE /\ Write(s)
       /\ frames' = Append(Below, [f EXCEPT !.pc = @ + 1])
       /\ net' = Spent(n)

\* A step with outcome o.
StepTo(o, n) == IF o.ok THEN Continue(o.s, Current, n) ELSE Unwind(o.s, net)

Take == InProgram /\ Step.op = "take" /\ Continue(ctx, Current, Step.n)

AppGlobalPut == InProgram /\ Step.op = "put" /\ StepTo(SetGlobal(ctx, Current.app, Step.key), 1)
AppGlobalDel == InProgram /\ Step.op = "del" /\ StepTo(DelGlobal(ctx, Current.app, Step.key), 1)
AppLocalPut ==
  InProgram /\ Step.op = "lput" /\ StepTo(SetLocal(ctx, Current.who, Current.app, Step.key), 1)
AppLocalDel ==
  InProgram /\ Step.op = "ldel" /\ StepTo(DelLocal(ctx, Current.who, Current.app, Step.key), 1)

\* A program goes to its end when it is run to create its application: the
\* transaction has no ApplicationID (txn, bz).
IfNew ==
  /\ InProgram /\ Step.op = "ifnew"
  /\ Continue(ctx, IF Current.app = 0 THEN [Current EXCEPT !.pc = Len(Current.steps) - 1]
                   ELSE Current, 2)

\* calculateInnerTxCredit: what the fees of the inner group leave over.
InnerCredit(txs) == Fees(txs) + net.credit - MinFee * Len(txs)

\* addInnerTransaction: pays no fee if the credit covers it.
NewInnerTx(f) ==
  [type |-> "unknown", from |-> AppAddress[f.app], signer |-> AppAddress[f.app],
   to |-> AppAddress[f.app], amt |-> 0, close |-> NoAddr, rekey |-> NoAddr,
   approved |-> TRUE, fee |-> IF InnerCredit(f.inner) >= MinFee THEN 0 ELSE MinFee,
   flat |-> TRUE, app |-> 0, then |-> "call", code |-> NoApp]

CanAddInner(f) ==
  /\ f.submitted < MaxInnerGroups
  /\ f.app # 0 /\ AppExists(ctx, f.app) /\ AppAddress[f.app] \in ctx.acct

ITxnBegin ==
  /\ InProgram /\ Step.op = "begin"
  /\ IF Current.inner = <<>> /\ CanAddInner(Current) /\ Current.after # "clear"
     THEN Continue(ctx, [Current EXCEPT !.inner = <<NewInnerTx(Current)>>], 1)
     ELSE Unwind(ctx, net)

ITxnNext ==
  /\ InProgram /\ Step.op = "next"
  /\ IF Current.inner # <<>> /\ CanAddInner(Current)
     THEN Continue(ctx, [Current EXCEPT !.inner = Append(@, NewInnerTx(Current))], 1)
     ELSE Unwind(ctx, net)

\* Sets fields of the last inner transaction.
ITxnField ==
  /\ InProgram /\ Step.op = "field"
  /\ IF Current.inner = <<>> THEN Unwind(ctx, net)
     ELSE Continue(ctx, [Current EXCEPT !.inner[Len(Current.inner)] = Extended(@, Step.set)],
                   Cardinality(DOMAIN Step.set))

\* verifyAndUpdateInnerAppCallStack, for the first transaction of the group.
MayEnter(txs) ==
  /\ Len(net.callers) < MaxDepth
  /\ txs[1].app = 0 \/ txs[1].app \notin Range(net.callers)

\* Mutant: the fees of the inner group are not compared with what they have to be.
FeesLeft(txs) == InnerCredit(txs) >= -Len(txs)

\* The fees of the inner group and what is left over are enough.
FeesEnough(txs) == InnerCredit(txs) >= 0

\* encTxToExecParams throws at a transaction without a type.
HaveTypes(txs) == \A i \in DOMAIN txs : txs[i].type # "unknown"

\* Nothing happens to a group with a call of no application; it is not taken
\* back either.
ITxnSubmit ==
  /\ InProgram /\ Step.op = "submit"
  /\ LET txs == Current.inner
         calls == {i \in DOMAIN txs : IsCall(txs[i])}
     IN  IF txs = <<>> \/ ~FeesEnough(txs) \/ AppAddress[Current.app] \notin store.acct
         THEN Unwind(ctx, net)
         ELSE IF \E i \in calls : txs[i].app = 0 THEN Continue(ctx, Current, 1)
         ELSE IF ~(HaveTypes(txs) /\ MayEnter(txs)) THEN Unwind(ctx, net)
         ELSE /\ frames' = Append(frames, GroupFrame(txs))
              /\ net' = [net EXCEPT
                   !.credit = InnerCredit(txs), !.inner = TRUE,
                   !.budget = @ + MaxCost * Cardinality(calls),
                   !.callers = IF txs[1].app = 0 THEN @ ELSE Append(@, txs[1].app)]
              /\ UNCHANGED <<store, ctx, shared>>

\* Mutant: a group returns only while isInnerTx is true.
ITxnReturnInner ==
  /\ InGroup /\ Current.at > Len(Current.txs) /\ Depth > 1 /\ net.inner
  /\ LET caller == [frames[Depth - 1] EXCEPT !.inner = <<>>, !.submitted = @ + 1, !.pc = @ + 1]
     IN  IF net.cost + 1 > net.budget THEN Unwind(ctx, Spent(1))
         ELSE /\ frames' = Append(SubSeq(frames, 1, Depth - 2), caller)
              /\ net' = [Spent(1) EXCEPT !.inner = FALSE]
              /\ UNCHANGED <<store, ctx, shared>>

\* The inner group is done; isInnerTx is false from here on, also in a program
\* that was itself called by an inner transaction.
ITxnReturn ==
  /\ InGroup /\ Current.at > Len(Current.txs) /\ Depth > 1
  /\ LET caller == [frames[Depth - 1] EXCEPT !.inner = <<>>, !.submitted = @ + 1, !.pc = @ + 1]
     IN  IF net.cost + 1 > net.budget THEN Unwind(ctx, Spent(1))
         ELSE /\ frames' = Append(SubSeq(frames, 1, Depth - 2), caller)
              /\ net' = [Spent(1) EXCEPT !.inner = FALSE]
              /\ UNCHANGED <<store, ctx, shared>>

Err == InProgram /\ Step.op = "reject" /\ Unwind(ctx, net)

\* What the handler does when the program has approved.
Completed(s, f) ==
  CASE f.after = "create" -> EndDeploy(s, f.who)
    [] f.after \in {"close", "clear"} -> CloseApp(s, f.who, f.app)
    [] f.after = "delete" -> DeleteApp(s, f.app)
    [] f.after = "update" -> ReplacePrograms(s, f.app, f.code)
    [] OTHER -> Ok(s)

\* The program approves: the handler completes, and with it the transaction, or
\* the direct call.
Approve ==
  /\ InProgram /\ Step.op = "accept"
  /\ LET o == Completed(ctx, Current)
     IN  IF net.cost + 1 > net.budget THEN Unwind(ctx, Spent(1))
         ELSE IF Depth = 1
         THEN /\ ctx' = o.s /\ frames' = <<>>
              /\ store' = IF o.ok \/ shared THEN o.s ELSE store
              /\ shared' = (shared \/ o.ok)
              /\ net' = Spent(1)
         ELSE IF ~o.ok THEN Thrown(o.s, Spent(1))
         ELSE FinishTx(o.s, Below, Spent(1))

Next ==
  \/ \E g \in Groups : Submit(g)
  \/ \E tx \in DirectCalls : DirectCall(tx)
  \/ NextTx \/ Commit \/ Take \/ IfNew
  \/ AppGlobalPut \/ AppGlobalDel \/ AppLocalPut \/ AppLocalDel
  \/ ITxnBegin \/ ITxnNext \/ ITxnField \/ ITxnSubmit \/ ITxnReturn \/ Err \/ Approve

\* Calls are synchronous: one that has begun goes on.
Working == frames # <<>> /\ Next
Spec == Init /\ [][Next]_vars /\ WF_vars(Working)

-----------------------------------------------------------------------------
(* Properties                                                              *)

Programs == {k \in DOMAIN frames : frames[k].form = "program"}

\* Fields have their types; group and program frames alternate.
TypeOK ==
  /\ shared \in BOOLEAN
  /\ net.left \in Nat /\ net.cost \in Nat /\ net.budget \in Nat
  /\ net.callers \in Seq(App)
  /\ \A k \in DOMAIN frames : frames[k].form \in {"group", "program"}
  /\ \A k \in 1..(Depth - 1) : frames[k].form # frames[k + 1].form
  /\ ctx.apps \in 0..MaxApp /\ store.apps \in 0..MaxApp

\* A program without app_global_put and app_local_put.
NoPuts(steps) == \A i \in 1..Len(steps) : steps[i].op \notin {"put", "lput"}

\* What callers deploy has clear-state programs that put nothing.
ClearsTidy ==
  \A g \in Groups \cup {<<tx>> : tx \in DirectCalls} : \A i \in DOMAIN g :
    g[i].code.valid => NoPuts(Body[g[i].code.clear])

\* What the callers see between their calls is sound: creators and applications
\* name each other, nobody is overdrawn, and no application has more keys than
\* it paid for.  A clear-state program whose put fails is not taken back, and
\* leaves the key: the programs of the runs do not put there (ClearsTidy).
StoreSound ==
  /\ AppsRegistered(store) /\ WithinSchemas(store)
  /\ \A a \in Addr : store.amt[a] >= 0

\* The minimum balance of an account is what its applications cost, however
\* they came and went by groups.
MinBalanceExact == MinMatchesApps(store)

\* Transactions of the groups in progress that are still to come.
Pending ==
  Sum([k \in DOMAIN frames |->
         IF frames[k].form = "group"
         THEN Len(frames[k].txs) - frames[k].at + (IF k = Depth THEN 1 ELSE 0) ELSE 0])

\* The opcode budget is shared by the calls of a group and those they make: 700
\* for each that was submitted (for a direct call, 700 and those), and no program
\* goes on beyond it.  (A clear-state program that does leaves the cost beyond
\* it: the programs of the group that follow it fail at their first opcode.)
BudgetPooled ==
  frames # <<>> =>
    /\ (\E k \in Programs : frames[k].pc > 1) => net.cost <= net.budget
    /\ net.budget <= MaxCost * (MaxTxns - net.left + Pending
                                + IF frames[1].form = "group" THEN 0 ELSE 1)

\* A group is applied only if it has paid the minimum fee for each of its
\* transactions and for each inner one.
FeesPaid ==
  InGroup /\ Depth = 1 /\ Current.at > Len(Current.txs)
  => Sum(store.amt) - Sum(ctx.amt) >= MinFee * (MaxTxns - net.left)

\* Algos move between accounts; only fees leave them, and what the address of a
\* new application had before (unless its deployment is refused for its name).
AlgosConserved ==
  [][ frames # <<>> =>
        LET lost == Sum(ctx.amt) - Sum(ctx'.amt)
        IN  IF ctx'.apps > ctx.apps
            THEN \/ lost = ctx.amt[AppAddress[ctx'.apps]]
                 \/ lost = 0 /\ frames' = <<>>
            ELSE IF InGroup /\ Current.at <= Len(Current.txs)
            THEN \/ lost = ChargedFee(Current.txs[Current.at])
                 \/ lost = 0 /\ frames' = <<>>
            ELSE lost = 0 ]_vars

\* An account that is in can always opt out with a clear-state call, whatever
\* the program of the application does.
ClearStateWorks ==
  [][ (InProgram /\ Current.after = "clear" /\ Len(frames') < Depth
       /\ AppExists(ctx, Current.app) /\ Current.app \in ctx.joined[Current.who])
      => frames' # <<>> /\ Current.app \notin ctx'.joined[Current.who] ]_vars

\* An opt-in that the program rejects leaves no local state, also in the store.
OptInTakenBack ==
  [][ (frames # <<>> /\ frames[1].form = "program" /\ frames[1].after = "join"
       /\ frames' = <<>> /\ ~(InProgram /\ Step.op = "accept"))
      => frames[1].app \notin ctx'.joined[frames[1].who] ]_vars

\* "Inner transaction appl self-call": an application is not called while it
\* waits for the end of a call it made.
NoReentry ==
  \A j, k \in Programs : j # k /\ frames[j].app # 0 => frames[j].app # frames[k].app

\* Every call of the runtime returns.
Returns == []<>(frames = <<>>)
=============================================================================
