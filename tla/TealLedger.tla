----------------------------- MODULE TealLedger -----------------------------
(***************************************************************************)
(* The opcodes that read and write the ledger: accounts, assets,           *)
(* applications, their state and logs                                      *)
(* (packages/runtime/src/interpreter/opcode-list.ts), with the references  *)
(* that Interpreter resolves (interpreter.ts).                             *)
(*                                                                         *)
(* m.ctx.accounts is a function from addresses to [balance, min, auth,     *)
(* local, hold], m.ctx.apps and m.ctx.assets are functions from their      *)
(* numbers.  A state is a function from keys to values, and the arrays     *)
(* among these are places of the heap: what the program reads is the array *)
(* that is stored.                                                         *)
(***************************************************************************)
EXTENDS TealFields

CONSTANTS
  AccountMin,       \* minimum balance of a new account
  MaxLogs,          \* ALGORAND_MAX_LOGS_COUNT
  MaxLogBytes,      \* ALGORAND_MAX_LOGS_LENGTH
  MaxKeyBytes,      \* MAX_KEY_BYTES
  MaxKeyVal,        \* MAX_KEY_VAL_BYTES
  MaxAppArgs, MaxTxAccounts, MaxReferences  \* of a transaction: 16, 4 and 8

Accounts(m) == Get(Self(m).f, "Accounts", <<>>)
ForeignApps(m) == Get(Self(m).f, "Applications", <<>>)
ForeignAssets(m) == Get(Self(m).f, "Assets", <<>>)
Elements(list) == {list[k] : k \in DOMAIN list}

-----------------------------------------------------------------------------
(* References                                                              *)

\* Addresses that a program may pass as such; without those of the foreign
\* applications if it is to change the account.
Named(m, v, immutable) ==
  Elements(Accounts(m)) \cup {Self(m).f["Sender"], AppAddress(AppID(m))}
  \cup (IF v >= 7 /\ immutable THEN {AppAddress(a) : a \in Elements(ForeignApps(m))} ELSE {})

\* Mutant: any address will do.
ByAddressUnchecked(m, v, bytes, immutable) ==
  IF v >= 4 /\ Len(bytes) = AddressLength THEN {bytes} ELSE {}

\* _getAccountFromAddr.
ByAddress(m, v, bytes, immutable) ==
  IF v >= 4 /\ Len(bytes) = AddressLength THEN {bytes} \cap Named(m, v, immutable) ELSE {}

\* _getAccountFromReference: the number of a foreign application, or else a place
\* in the accounts.
ByReference(m, n) ==
  IF n \in Elements(ForeignApps(m)) THEN {AppAddress(n)}
  ELSE IF n \in DOMAIN Accounts(m) THEN {Accounts(m)[n]} ELSE {}

\* getAccount: the address that the k-th element from the top refers to, none
\* if it may not.
AccountAt(m, v, k, immutable) ==
  IF UintAt(m, k)
  THEN IF U(m, k) = 0 THEN {Self(m).f["Sender"]} ELSE ByReference(m, U(m, k))
  ELSE IF BytesAt(m, k) THEN ByAddress(m, v, B(m, k), immutable) ELSE {}

\* The address is known, and its account exists.
Known(m, addrs) == addrs # {} /\ addrs \subseteq DOMAIN m.ctx.accounts
Only(addrs) == CHOOSE a \in addrs : TRUE

\* getAppIDByReference, as a set of at most one number.
AppByReference(m, v, n, foreign) ==
  LET apps == ForeignApps(m)
  IN  CASE v < 4 /\ ~foreign -> {n}
        [] n = 0 /\ (v >= 4 \/ foreign) -> {AppID(m)}
        [] n > 0 /\ (v >= 4 \/ foreign) ->
             IF n \in DOMAIN apps THEN {apps[n]}
             ELSE IF v >= 4 THEN {n} \cap (Elements(apps) \cup {Get(Self(m).f, "ApplicationID", -1)})
             ELSE {}

\* getAssetIDByReference: here the places start at zero.
AssetByReference(m, v, n, foreign) ==
  LET assets == ForeignAssets(m)
  IN  IF v < 4 /\ ~foreign THEN {n}
      ELSE IF n + 1 \in DOMAIN assets THEN {assets[n + 1]}
      ELSE IF v >= 4 THEN {n} \cap Elements(assets) ELSE {}

-----------------------------------------------------------------------------
(* Accounts, assets and parameters                                         *)

\* balance and min_balance.
Balance(m, v, i) ==
  LET at == AccountAt(m, v, 0, TRUE)
      account == m.ctx.accounts[Only(at)]
  IN  When(Known(m, at), m, 1,
           <<Uint(IF i.op = "balance" THEN account.balance ELSE account.min)>>)

\* Pops n values and pushes zero and "no".
Missing(m, n) == Put(m, n, <<Uint(0), Uint(0)>>)

GetAssetHolding(m, v, i) ==
  LET at == AccountAt(m, v, 1, TRUE)
      asset == AssetByReference(m, v, U(m, 0), FALSE)
      hold == m.ctx.accounts[Only(at)].hold
  IN  IF ~(UintAt(m, 0) /\ Known(m, at) /\ asset # {}) THEN Fail(m)
      ELSE IF Only(asset) \notin DOMAIN hold THEN Missing(m, 2)
      ELSE When(i.field \in {"AssetBalance", "AssetFrozen"}, m, 2,
                <<Uint(hold[Only(asset)][i.field]), Uint(1)>>)

AssetNumbers == {"AssetTotal", "AssetDecimals", "AssetDefaultFrozen"}

\* A function from names to numbers and byte strings, those it lacks empty.
GetAssetDef(m, v, i) ==
  LET asset == AssetByReference(m, v, U(m, 0), TRUE)
      def == m.ctx.assets[Only(asset)]
  IN  IF ~(UintAt(m, 0) /\ asset # {}) THEN Fail(m)
      ELSE IF Only(asset) \notin DOMAIN m.ctx.assets THEN Missing(m, 1)
      ELSE IF i.field \in AssetNumbers THEN Put(m, 1, <<Uint(def[i.field]), Uint(1)>>)
      ELSE Put([m EXCEPT !.heap = Append(@, Get(def, i.field, <<>>))], 1,
               <<Ref(Len(m.heap) + 1), Uint(1)>>)

AppNumbers ==
  {"AppGlobalNumUint", "AppGlobalNumByteSlice", "AppLocalNumUint", "AppLocalNumByteSlice"}

\* Any application of the ledger, whether the transaction names it or not.
AppParamsGet(m, i) ==
  LET n == U(m, 0)
      app == m.ctx.apps[n]
      bytes == CASE i.field = "AppCreator" -> app.creator
                 [] i.field = "AppAddress" -> AppAddress(n)
                 [] OTHER -> app.programs[i.field]
  IN  IF ~UintAt(m, 0) THEN Fail(m)
      ELSE IF n \notin DOMAIN m.ctx.apps THEN Missing(m, 1)
      ELSE IF i.field \in AppNumbers THEN Put(m, 1, <<Uint(app.schema[i.field]), Uint(1)>>)
      ELSE IF i.field = "AppExtraProgramPages" THEN Put(m, 1, <<Uint(1), Uint(1)>>)
      ELSE Put([m EXCEPT !.heap = Append(@, bytes)], 1, <<Ref(Len(m.heap) + 1), Uint(1)>>)

NewAccount(a) == [balance |-> 0, min |-> AccountMin, auth |-> a, local |-> <<>>, hold |-> <<>>]

\* createAccountIfAbsent.
WithAccount(m, a) ==
  IF a \in DOMAIN m.ctx.accounts THEN m
  ELSE [m EXCEPT !.ctx.accounts = [b \in DOMAIN @ \cup {a} |->
                                     IF b = a THEN NewAccount(a) ELSE @[b]]]

\* Adds the account to the ledger if there is none.
AcctParamsGet(m, v, i) ==
  LET at == IF BytesAt(m, 0) THEN ByAddress(m, v, B(m, 0), TRUE) ELSE {}
      n == WithAccount(m, Only(at))
      account == n.ctx.accounts[Only(at)]
      exists == Bool(account.balance > 0)
  IN  IF at = {} THEN Fail(m)
      ELSE CASE i.field = "AcctBalance" -> Put(n, 1, <<Uint(account.balance), exists>>)
             [] i.field = "AcctMinBalance" -> Put(n, 1, <<Uint(account.min), exists>>)
             [] i.field = "AcctAuthAddr" ->
                  IF account.auth = Only(at) THEN Put(n, 1, <<n.ctx.zero, exists>>)
                  ELSE Put([n EXCEPT !.heap = Append(@, account.auth)], 1,
                           <<Ref(Len(n.heap) + 1), exists>>)

-----------------------------------------------------------------------------
(* State of applications                                                   *)

\* What the getters find: a number zero counts as missing.
Found(kv, key) == key \in DOMAIN kv /\ kv[key] # Uint(0)
Value(kv, key) == IF Found(kv, key) THEN <<kv[key]>> ELSE <<Uint(0)>>

\* The local state of application n in an account, empty if it is not there.
LocalState(m, a, n) ==
  LET local == m.ctx.accounts[a].local
  IN  IF n \in DOMAIN local THEN local[n].kv ELSE <<>>

AppOptedIn(m, v) ==
  LET at == AccountAt(m, v, 1, TRUE)
      app == AppByReference(m, v, U(m, 0), FALSE)
  IN  IF ~(UintAt(m, 0) /\ Known(m, at) /\ app # {}) THEN Fail(m)
      ELSE Put(m, 2, <<Bool(Only(app) \in DOMAIN m.ctx.accounts[Only(at)].local)>>)

AppLocalGet(m, v) ==
  LET at == AccountAt(m, v, 1, TRUE)
  IN  When(BytesAt(m, 0) /\ Known(m, at), m, 2, Value(LocalState(m, Only(at), AppID(m)), B(m, 0)))
AppLocalGetEx(m, v) ==
  LET at == AccountAt(m, v, 2, TRUE)
      app == AppByReference(m, v, U(m, 1), FALSE)
      kv == LocalState(m, Only(at), Only(app))
  IN  When(BytesAt(m, 0) /\ UintAt(m, 1) /\ app # {} /\ Known(m, at), m, 3,
           Value(kv, B(m, 0)) \o <<Bool(Found(kv, B(m, 0)))>>)
AppGlobalGet(m) ==
  When(BytesAt(m, 0) /\ AppID(m) \in DOMAIN m.ctx.apps, m, 1,
       Value(m.ctx.apps[AppID(m)].kv, B(m, 0)))
AppGlobalGetEx(m, v) ==
  LET app == AppByReference(m, v, U(m, 1), TRUE)
      kv == m.ctx.apps[Only(app)].kv
  IN  When(BytesAt(m, 0) /\ UintAt(m, 1) /\ app # {} /\ app \subseteq DOMAIN m.ctx.apps, m, 2,
           Value(kv, B(m, 0)) \o <<Bool(Found(kv, B(m, 0)))>>)

\* assertValidSchema, of every key of the state; an empty key counts as one byte.
StoredLength(key) == Max({1, Len(key)})
ValidSchema(m, kv, uints, slices) ==
  LET arrays == {key \in DOMAIN kv : IsBytes(kv[key])}
  IN  /\ \A key \in DOMAIN kv : StoredLength(key) <= MaxKeyBytes
      /\ \A key \in arrays : StoredLength(key) + Len(m.heap[kv[key].b]) <= MaxKeyVal
      /\ Cardinality(arrays) <= slices
      /\ Cardinality(DOMAIN kv \ arrays) <= uints

With(kv, key, value) ==
  [k \in DOMAIN kv \cup {key} |-> IF k = key THEN value ELSE kv[k]]
Without(kv, key) == [k \in DOMAIN kv \ {key} |-> kv[k]]

AppLocalPut(m, v) ==
  LET at == AccountAt(m, v, 2, FALSE)
      a == Only(at)
      local == m.ctx.accounts[a].local
      state == local[AppID(m)]
      kv == With(state.kv, B(m, 1), Top(m, 0))
  IN  IF BytesAt(m, 1) /\ Known(m, at) /\ AppID(m) \in DOMAIN local
         /\ ValidSchema(m, kv, state.uints, state.slices)
      THEN Put([m EXCEPT !.ctx.accounts[a].local[AppID(m)].kv = kv], 3, <<>>)
      ELSE Fail(m)

\* The account may be that of a foreign application here.
AppLocalDel(m, v) ==
  LET at == AccountAt(m, v, 1, TRUE)
      a == Only(at)
      n == AppID(m)
  IN  IF ~(BytesAt(m, 0) /\ Known(m, at)) THEN Fail(m)
      ELSE IF n \notin DOMAIN m.ctx.accounts[a].local THEN Put(m, 2, <<>>)
      ELSE Put([m EXCEPT !.ctx.accounts[a].local[n].kv = Without(@, B(m, 0))], 2, <<>>)

AppGlobalPut(m) ==
  LET n == AppID(m)
      app == m.ctx.apps[n]
      kv == With(app.kv, B(m, 1), Top(m, 0))
  IN  IF BytesAt(m, 1) /\ n \in DOMAIN m.ctx.apps
         /\ ValidSchema(m, kv, app.schema["AppGlobalNumUint"], app.schema["AppGlobalNumByteSlice"])
      THEN Put([m EXCEPT !.ctx.apps[n].kv = kv], 2, <<>>)
      ELSE Fail(m)

\* Mutant: the key goes from the first foreign application.
AppGlobalDelForeign(m) ==
  LET n == IF ForeignApps(m) # <<>> THEN ForeignApps(m)[1] ELSE AppID(m)
  IN  IF BytesAt(m, 0) /\ n \in DOMAIN m.ctx.apps
      THEN Put([m EXCEPT !.ctx.apps[n].kv = Without(@, B(m, 0))], 1, <<>>)
      ELSE Fail(m)

AppGlobalDel(m) ==
  LET n == AppID(m)
  IN  IF BytesAt(m, 0) /\ n \in DOMAIN m.ctx.apps
      THEN Put([m EXCEPT !.ctx.apps[n].kv = Without(@, B(m, 0))], 1, <<>>)
      ELSE Fail(m)

-----------------------------------------------------------------------------
(* Logs                                                                    *)

\* Digits and commas of the text of an array.
Digits(byte) == IF byte < 10 THEN 1 ELSE IF byte < 100 THEN 2 ELSE 3
TextLength(bytes) ==
  MapThenSumSet(LAMBDA k : Digits(bytes[k]), DOMAIN bytes)
    + (IF bytes = <<>> THEN 0 ELSE Len(bytes) - 1)

LogBytes(m, logs) == MapThenSumSet(LAMBDA k : Len(m.heap[logs[k].b]), DOMAIN logs)

\* The length of the logs before is the one of their text.  Nothing is kept for
\* a transaction without a receipt.
Log(m) ==
  LET id == Self(m).id
      logs == Logs(m, Self(m))
      length == MapThenSumSet(LAMBDA k : TextLength(m.heap[logs[k].b]), DOMAIN logs)
      n == [m EXCEPT !.ctx.lastLog = Top(m, 0)]
  IN  IF ~BytesAt(m, 0) THEN Fail(m)
      ELSE IF id \notin DOMAIN m.ctx.receipts THEN Put(n, 1, <<>>)
      ELSE IF Len(logs) = MaxLogs \/ length + Len(B(m, 0)) > MaxLogBytes THEN Fail(m)
      ELSE Put([n EXCEPT !.ctx.receipts[id] = With(@, "logs", Append(logs, Top(m, 0)))], 1, <<>>)

-----------------------------------------------------------------------------
(* By name                                                                 *)

LedgerOps ==
  {"balance", "min_balance", "asset_holding_get", "asset_params_get", "app_params_get",
   "acct_params_get", "app_opted_in", "app_local_get", "app_local_get_ex",
   "app_global_get", "app_global_get_ex", "app_local_put", "app_local_del",
   "app_global_put", "app_global_del", "log"}
UseLedger(m, v, i) ==
  CASE i.op \in {"balance", "min_balance"} -> Balance(m, v, i)
    [] i.op = "asset_holding_get" -> GetAssetHolding(m, v, i)
    [] i.op = "asset_params_get" -> GetAssetDef(m, v, i)
    [] i.op = "app_params_get" -> AppParamsGet(m, i)
    [] i.op = "acct_params_get" -> AcctParamsGet(m, v, i)
    [] i.op = "app_opted_in" -> AppOptedIn(m, v)
    [] i.op = "app_local_get" -> AppLocalGet(m, v)
    [] i.op = "app_local_get_ex" -> AppLocalGetEx(m, v)
    [] i.op = "app_global_get" -> AppGlobalGet(m)
    [] i.op = "app_global_get_ex" -> AppGlobalGetEx(m, v)
    [] i.op = "app_local_put" -> AppLocalPut(m, v)
    [] i.op = "app_local_del" -> AppLocalDel(m, v)
    [] i.op = "app_global_put" -> AppGlobalPut(m)
    [] i.op = "app_global_del" -> AppGlobalDel(m)
    [] i.op = "log" -> Log(m)

\* What the parser asks of the parameters of assets, applications and accounts.
ParamAllowed(v, i) ==
  /\ i.op = "asset_params_get" /\ i.field = "AssetCreator" => v >= 5
  /\ i.op = "app_params_get" => v >= 5
  /\ i.op = "acct_params_get" => v >= 6

\* assertValidTxArray.
TxArraysValid(m) ==
  /\ Len(Get(Self(m).f, "ApplicationArgs", <<>>)) <= MaxAppArgs
  /\ Len(Accounts(m)) <= MaxTxAccounts
  /\ Len(Accounts(m)) + Len(ForeignApps(m)) + Len(ForeignAssets(m)) <= MaxReferences
=============================================================================
