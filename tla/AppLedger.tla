----------------------------- MODULE AppLedger ------------------------------
(***************************************************************************)
(* Applications on the ledger of @algo-builder/runtime: who created them,  *)
(* who opted in, their key-value states and what they add to minimum       *)
(* balances (packages/runtime/src/ctx.ts, account.ts, lib/stateful.ts).    *)
(*                                                                         *)
(* The ledger is that of module Ledger with more fields (AppFields).       *)
(* Handlers are operators from a ledger to an outcome, as there, and one   *)
(* that throws leaves what it has written.  Values of keys are left out:   *)
(* what the code does to a state depends on its keys and their number.     *)
(***************************************************************************)
EXTENDS Ledger

CONSTANTS
  MaxApp,      \* bound: how many applications can ever be created
  AppAddress,  \* getApplicationAddress, a function from 1..MaxApp
  Key,         \* keys of local and global states
  Name,        \* names of programs, files and applications
  AppFee,      \* APPLICATION_BASE_FEE
  KeyFee       \* SSC_VALUE_UINT, what a key of the schema costs

ASSUME AppLedgerAssumption ==
  /\ MaxApp \in Nat
  /\ AppAddress \in [1..MaxApp -> Addr] /\ IsInjective(AppAddress)
  /\ AppFee \in Nat /\ KeyFee \in Nat
  /\ "none" \in Name

\* Number 0 is the application whose program runs for the first time.
App == 0..MaxApp

\* The record r with the fields of f in addition or instead.
Extended(r, f) ==
  [x \in DOMAIN r \cup DOMAIN f |-> IF x \in DOMAIN f THEN f[x] ELSE r[x]]

\* What is deployed: two programs, sizes of the states, the name in the code,
\* the name made of the two files, and whether the checks of programs and
\* sizes pass.
NoApp ==
  [approval |-> "none", clear |-> "none", globals |-> 0, locals |-> 0, name |-> "none",
   files |-> "none", valid |-> FALSE]

Code ==
  [approval : Name, clear : Name, globals : Nat, locals : Nat, name : Name, files : Name,
   valid : BOOLEAN]

\* owner is globalApps, made the keys of createdApps, app the attributes, keys
\* the global state, joined the keys of appsLocalState, local the local states.
WithApps(s) ==
  Extended(s, [owner  |-> [n \in App |-> NoAddr],
               made   |-> [a \in Addr |-> {}],
               app    |-> [n \in App |-> NoApp],
               keys   |-> [n \in App |-> {}],
               joined |-> [a \in Addr |-> {}],
               local  |-> [a \in Addr |-> [n \in App |-> {}]],
               apps   |-> 0,
               names  |-> {}])

CreatorCost(d) == AppFee + KeyFee * d.globals
HolderCost(d) == AppFee + KeyFee * d.locals

\* getApp: globalApps leads to an account that has the application.
AppExists(s, n) == s.owner[n] # NoAddr /\ n \in s.made[s.owner[n]]

-----------------------------------------------------------------------------
(* Creation                                                                *)

\* deployApp up to the run of the program.
BeginDeploy(s, a, d, kind) ==
  LET added == [s EXCEPT !.min[a]  = @ + CreatorCost(d),
                         !.made[a] = @ \cup {0},
                         !.app[0]  = d,
                         !.keys[0] = {}]
  IN  IF a \notin s.acct \/ ~d.valid THEN Throw(s)
      ELSE IF AboveMin(added, a, kind) THEN Ok([added EXCEPT !.owner[0] = a])
      ELSE Throw(added)

\* A new AccountStore for the address of an application.
NewAppAccount(s, a) ==
  [NewAccounts(s, {a}, 0) EXCEPT !.made[a] = {}, !.joined[a] = {},
                                 !.local[a] = [n \in App |-> {}]]

\* The rest: application 0 gets its number.  A name that is taken is noticed
\* when it has it; the account of its address is new, whatever was there.
EndDeploy(s, a) ==
  LET n == s.apps + 1
      d == s.app[0]
      moved == [s EXCEPT !.apps    = n,
                         !.owner   = [s.owner EXCEPT ![n] = a, ![0] = NoAddr],
                         !.made[a] = (@ \ {0}) \cup {n},
                         !.app[n]  = d,
                         !.keys    = [s.keys EXCEPT ![n] = s.keys[0], ![0] = {}],
                         !.names   = @ \cup {d.files}]
  IN  IF d.files # d.name /\ d.name \in moved.names THEN Throw(moved)
      ELSE Ok(NewAppAccount([moved EXCEPT !.names = @ \cup {d.name}], AppAddress[n]))

-----------------------------------------------------------------------------
(* Opting in and out, deletion, update                                     *)

\* ctx.optInToApp up to the run of the program.
JoinApp(s, a, n, kind) ==
  LET joined == [s EXCEPT !.min[a]      = @ + HolderCost(s.app[n]),
                          !.joined[a]   = @ \cup {n},
                          !.local[a][n] = {}]
  IN  IF ~AppExists(s, n) \/ a \notin s.acct \/ n \in s.joined[a] THEN Throw(s)
      ELSE [ok |-> AboveMin(joined, a, kind), s |-> joined]

\* Mutant: the minimum balance stays.
LeaveAppKeepsMin(s, a, n) ==
  IF n \notin s.joined[a] THEN Throw(s)
  ELSE Ok([s EXCEPT !.joined[a] = @ \ {n}, !.local[a][n] = {}])

\* account.closeApp.
LeaveApp(s, a, n) ==
  IF n \notin s.joined[a] THEN Throw(s)
  ELSE Ok([s EXCEPT !.min[a]      = @ - HolderCost(s.app[n]),
                    !.joined[a]   = @ \ {n},
                    !.local[a][n] = {}])

\* ctx.closeApp: of an application that was deleted the local state stays.
CloseApp(s, a, n) == IF AppExists(s, n) THEN LeaveApp(s, a, n) ELSE Throw(s)

\* Mutant: the application stays in globalApps.
DeleteAppKeepsOwner(s, n) ==
  IF AppExists(s, n)
  THEN Ok([s EXCEPT !.min[s.owner[n]] = @ - CreatorCost(s.app[n]),
                    !.made[s.owner[n]] = @ \ {n}])
  ELSE Throw(s)

DeleteApp(s, n) ==
  IF AppExists(s, n)
  THEN Ok([s EXCEPT !.min[s.owner[n]]  = @ - CreatorCost(s.app[n]),
                    !.made[s.owner[n]] = @ \ {n},
                    !.owner[n]         = NoAddr])
  ELSE Throw(s)

\* updateApp after the run of the old program; sizes and names stay.
ReplacePrograms(s, n, d) ==
  IF AppExists(s, n)
  THEN Ok([s EXCEPT !.app[n].approval = d.approval, !.app[n].clear = d.clear])
  ELSE Throw(s)

-----------------------------------------------------------------------------
(* States: app_global_put and app_global_del, app_local_put, app_local_del *)

\* Written first, then compared with the schema.
SetGlobal(s, n, k) ==
  LET put == [s EXCEPT !.keys[n] = @ \cup {k}]
  IN  IF ~AppExists(s, n) THEN Throw(s)
      ELSE [ok |-> Cardinality(put.keys[n]) <= s.app[n].globals, s |-> put]

SetLocal(s, a, n, k) ==
  LET put == [s EXCEPT !.local[a][n] = @ \cup {k}]
  IN  IF n \notin s.joined[a] THEN Throw(s)
      ELSE [ok |-> Cardinality(put.local[a][n]) <= s.app[n].locals, s |-> put]

DelGlobal(s, n, k) ==
  IF AppExists(s, n) THEN Ok([s EXCEPT !.keys[n] = @ \ {k}]) ELSE Throw(s)

DelLocal(s, a, n, k) == Ok([s EXCEPT !.local[a][n] = @ \ {k}])

-----------------------------------------------------------------------------
(* Properties of one ledger                                                *)

AppCosts(s, a) ==
  Sum([n \in s.made[a] \ {0} |-> CreatorCost(s.app[n])])
    + Sum([n \in s.joined[a] |-> HolderCost(s.app[n])])

\* The minimum balance is what the account's applications add up to.
MinMatchesApps(s) == \A a \in Addr : s.min[a] = AccountMin + AppCosts(s, a)

\* The two directions of the register of applications agree, and numbers that
\* were not given out are free.
AppsRegistered(s) ==
  /\ \A n \in App \ {0} : \A a \in Addr : n \in s.made[a] <=> s.owner[n] = a
  /\ \A n \in App : s.owner[n] # NoAddr => n <= s.apps

\* No state holds more keys than its schema.
WithinSchemas(s) ==
  /\ \A n \in App : AppExists(s, n) => Cardinality(s.keys[n]) <= s.app[n].globals
  /\ \A a \in Addr : \A n \in s.joined[a] : Cardinality(s.local[a][n]) <= s.app[n].locals
=============================================================================
