----------------------------- MODULE TealFields -----------------------------
(***************************************************************************)
(* The opcodes that read transactions and globals: txn, gtxn, itxn and     *)
(* their families, global, gload, gaid and block                           *)
(* (packages/runtime/src/interpreter/opcode-list.ts), over the fields of   *)
(* lib/constants.ts and the lookups of lib/txn.ts.                         *)
(*                                                                         *)
(* m.ctx is runtime.ctx as the program sees it.  A transaction is a record *)
(* [type, id, f]; f is a function from the names of the fields it has to   *)
(* numbers, byte strings, or sequences of them.  Arrays that the program   *)
(* can get hold of, as the logs, are places of m.heap.                     *)
(***************************************************************************)
EXTENDS TealData

CONSTANTS
  AddressLength,    \* bytes of an address
  AppAddress(_),    \* getApplicationAddress
  MaxString,        \* maxStringSize, also the length of a page of a program
  MaxProgram,       \* MaxAppProgramLen
  MaxTxnLife,
  GlobalValues      \* MinTxnFee, MinBalance, MaxTxnLife and LogicSigVersion

Zeros == [k \in 1..AddressLength |-> 0]
Get(f, x, default) == IF x \in DOMAIN f THEN f[x] ELSE default
Has(tx, field) == field \in DOMAIN tx.f

-----------------------------------------------------------------------------
(* Fields                                                                  *)

\* What version v adds to the fields of transactions.
NewTxnFields ==
  << {"Sender", "Fee", "FirstValid", "LastValid", "Note", "Lease", "Receiver", "Amount",
      "CloseRemainderTo", "VotePK", "SelectionPK", "VoteFirst", "VoteLast",
      "VoteKeyDilution", "Type", "TypeEnum", "XferAsset", "AssetAmount", "AssetSender",
      "AssetReceiver", "AssetCloseTo", "GroupIndex", "TxID"},
     {"ApplicationID", "OnCompletion", "ApplicationArgs", "NumAppArgs", "Accounts",
      "NumAccounts", "ApprovalProgram", "ClearStateProgram", "RekeyTo", "ConfigAsset",
      "ConfigAssetTotal", "ConfigAssetDecimals", "ConfigAssetDefaultFrozen",
      "ConfigAssetUnitName", "ConfigAssetName", "ConfigAssetURL", "ConfigAssetMetadataHash",
      "ConfigAssetManager", "ConfigAssetReserve", "ConfigAssetFreeze",
      "ConfigAssetClawback", "FreezeAsset", "FreezeAssetAccount", "FreezeAssetFrozen"},
     {"Assets", "NumAssets", "Applications", "NumApplications", "GlobalNumUint",
      "GlobalNumByteSlice", "LocalNumUint", "LocalNumByteSlice"},
     {"ExtraProgramPages"},
     {"CreatedAssetID", "CreatedApplicationID", "Nonparticipation"},
     {"LastLog", "StateProofPK"},
     {"ApprovalProgramPages", "ClearStateProgramPages", "NumApprovalProgramPages",
      "NumClearStateProgramPages", "FirstValidTime"},
     {} >>

TxnFields(v) == UNION {NewTxnFields[n] : n \in 1..v}
ITxnFields(v) ==
  IF v >= 5 THEN {"Logs", "NumLogs", "CreatedAssetID", "CreatedApplicationID"} ELSE {}

TxArrFields(v) ==
  (IF v >= 2 THEN {"Accounts", "ApplicationArgs"} ELSE {})
  \cup (IF v >= 3 THEN {"Assets", "Applications"} ELSE {})
  \cup (IF v >= 5 THEN {"Logs"} ELSE {})
  \cup (IF v >= 7 THEN {"ApprovalProgramPages", "ClearStateProgramPages"} ELSE {})
ITxArrFields(v) == IF v >= 5 THEN {"Logs"} ELSE {}

AddressFields ==
  {"Sender", "Receiver", "CloseRemainderTo", "VotePK", "SelectionPK", "AssetSender",
   "AssetReceiver", "AssetCloseTo", "RekeyTo", "ConfigAssetManager", "ConfigAssetReserve",
   "ConfigAssetFreeze", "ConfigAssetClawback", "FreezeAssetAccount"}
ByteFields ==
  AddressFields \cup
  {"Note", "Lease", "Type", "ApplicationArgs", "Accounts", "ApprovalProgram",
   "ClearStateProgram", "ConfigAssetUnitName", "ConfigAssetName", "ConfigAssetURL",
   "ConfigAssetMetadataHash", "ApprovalProgramPages", "ClearStateProgramPages"}
ArrayFields == {"Accounts", "ApplicationArgs", "Assets", "Applications"}
ProgramFields == {"ApprovalProgram", "ClearStateProgram"}

\* parseToStackElem, of a value a field has: pops n values and pushes it.
PutField(m, n, field, raw) ==
  IF field \in ByteFields
  THEN WhenNew(Len(raw) <= MaxString /\ (field \in ProgramFields => Len(raw) <= MaxProgram),
               m, n, raw)
  ELSE Put(m, n, <<Uint(raw)>>)

\* parseToStackElem, of undefined: addresses are the one constant of zeros.
PutDefault(m, n, field) ==
  IF field \in AddressFields THEN Put(m, n, <<m.ctx.zero>>)
  ELSE IF field \in ByteFields \cup ArrayFields THEN PutNew(m, n, <<>>)
  ELSE Put(m, n, <<Uint(0)>>)

NumOf ==
  [NumAppArgs |-> "ApplicationArgs", NumAccounts |-> "Accounts", NumAssets |-> "Assets",
   NumApplications |-> "Applications"]
PagesOf ==
  [ApprovalProgramPages |-> "ApprovalProgram", ClearStateProgramPages |-> "ClearStateProgram",
   NumApprovalProgramPages |-> "ApprovalProgram", NumClearStateProgramPages |-> "ClearStateProgram"]
PageFields == {"ApprovalProgramPages", "ClearStateProgramPages"}
PageCount(program) == (Len(program) + MaxString - 1) \div MaxString

TypeEnum ==
  [pay |-> 1, keyreg |-> 2, acfg |-> 3, axfer |-> 4, afrz |-> 5, appl |-> 6]

IsAppCreate(tx) ==
  tx.type = "appl" /\ Get(tx.f, "OnCompletion", 0) = 0 /\ ~Has(tx, "ApplicationID")

-----------------------------------------------------------------------------
(* Rounds                                                                  *)

Self(m) == m.ctx.group[m.ctx.self]
AppID(m) == Get(Self(m).f, "ApplicationID", 0)

\* assertRoundIsAvailable and getBlock: the rounds of a transaction's life
\* before its first valid one.
RoundAvailable(m, r) ==
  LET first == Get(Self(m).f, "LastValid", 0) - MaxTxnLife - 1
  IN  /\ Has(Self(m), "FirstValid") /\ r # 0
      /\ (IF first = 0 THEN 1 ELSE first) <= r /\ r <= Self(m).f["FirstValid"] - 1
      /\ r \in DOMAIN m.ctx.blocks

Block(m, i) ==
  LET block == m.ctx.blocks[U(m, 0)]
  IN  IF ~(UintAt(m, 0) /\ RoundAvailable(m, U(m, 0))) THEN Fail(m)
      ELSE IF i.field = "BlkSeed" THEN PutNew(m, 1, block.seed)
      ELSE Put(m, 1, <<Uint(block.timestamp)>>)

-----------------------------------------------------------------------------
(* One field of a transaction                                              *)

Receipt(m, tx) == Get(m.ctx.receipts, tx.id, <<>>)
Logs(m, tx) == Get(Receipt(m, tx), "logs", <<>>)

\* txnSpecByField, of the transaction tx at place pos of its group; pops n.
\* A receipt without an asset is turned into a bigint, which throws, and so does
\* asking for the application of a transaction without a receipt.
TxnSpecByField(m, n, tx, pos, field) ==
  CASE field = "FirstValidTime" ->
         LET r == Get(tx.f, "FirstValid", 0) - 1
         IN  IF RoundAvailable(m, r) THEN Put(m, n, <<Uint(m.ctx.blocks[r].timestamp)>>)
             ELSE Fail(m)
    [] field = "TypeEnum" -> Put(m, n, <<Uint(TypeEnum[tx.type])>>)
    [] field = "TxID" -> PutNew(m, n, tx.id)
    [] field = "GroupIndex" -> Put(m, n, <<Uint(pos - 1)>>)
    [] field \in DOMAIN NumOf -> Put(m, n, <<Uint(Len(Get(tx.f, NumOf[field], <<>>)))>>)
    [] field = "AssetSender" ->
         IF tx.type = "axfer" THEN PutNew(m, n, Get(tx.f, field, Zeros))
         ELSE PutDefault(m, n, field)
    [] field = "CreatedAssetID" ->
         When(tx.id \in DOMAIN m.ctx.receipts => "assetIndex" \in DOMAIN Receipt(m, tx), m, n,
              <<Uint(Get(Receipt(m, tx), "assetIndex", 0))>>)
    [] field = "CreatedApplicationID" ->
         When(tx.id \in DOMAIN m.ctx.receipts, m, n,
              <<Uint(Get(Receipt(m, tx), "appID",
                         IF IsAppCreate(tx) THEN m.ctx.appCounter + 1 ELSE 0))>>)
    [] field = "LastLog" -> Put(m, n, <<m.ctx.lastLog>>)
    [] field = "StateProofPK" -> PutNew(m, n, [k \in 1..(2 * AddressLength) |-> 0])
    [] field \in {"NumApprovalProgramPages", "NumClearStateProgramPages"} ->
         Put(m, n, <<Uint(PageCount(Get(tx.f, PagesOf[field], <<>>)))>>)
    [] OTHER ->
         IF Has(tx, field) THEN PutField(m, n, field, tx.f[field]) ELSE PutDefault(m, n, field)

\* txAppArg: element k of a field that is an array.  Element 0 of the accounts
\* and the applications are the sender and the application called, but only if
\* the transaction has such a field.
TxAppArg(m, n, tx, field, k) ==
  LET list == Get(tx.f, field, <<>>)
      shift == IF field \in {"Accounts", "Applications"} THEN 0 ELSE 1
  IN  CASE field \in {"TxID", "LastLog"} -> Put(m, n, <<Other("undefined")>>)
        [] field = "Logs" ->
             When(k + 1 \in DOMAIN Logs(m, tx), m, n, <<Logs(m, tx)[k + 1]>>)
        [] field \in PageFields ->
             IF ~Has(tx, PagesOf[field]) THEN Put(m, n, <<Other("undefined")>>)
             ELSE LET program == tx.f[PagesOf[field]]
                  IN  WhenNew(k <= PageCount(program), m, n,
                              SubSeq(program, k * MaxString + 1,
                                     Min({(k + 1) * MaxString, Len(program)})))
        [] field \notin PageFields \cup {"Logs", "TxID", "LastLog"} /\ ~Has(tx, field) ->
             PutDefault(m, n, field)
        [] field = "Accounts" /\ Has(tx, field) /\ k = 0 ->
             PutField(m, n, field, tx.f["Sender"])
        [] field = "Applications" /\ Has(tx, field) /\ k = 0 ->
             Put(m, n, <<Uint(Get(tx.f, "ApplicationID", 0))>>)
        [] OTHER ->
             IF k + shift \in DOMAIN list THEN PutField(m, n, field, list[k + shift])
             ELSE Fail(m)

-----------------------------------------------------------------------------
(* txn, gtxn and their families                                            *)

\* Field i.field, or element k of it, of transaction t of a group; pops n.
ReadTx(m, v, n, group, t, i, k) ==
  IF t + 1 \notin DOMAIN group THEN Fail(m)
  ELSE IF i.field \in TxArrFields(v) THEN TxAppArg(m, n, group[t + 1], i.field, k)
  ELSE TxnSpecByField(m, n, group[t + 1], t + 1, i.field)

LastInner(m) == IF m.ctx.inner = <<>> THEN <<>> ELSE m.ctx.inner[Len(m.ctx.inner)]

\* What txnSpecByField returns is an array of length zero, or none: what the
\* fields that are arrays of values give too.
NoLength(m, tx, field) ==
  \/ field \in ArrayFields \cup PageFields
  \/ field \in ByteFields \ AddressFields /\ Get(tx.f, field, <<>>) = <<>>
  \/ field = "TxID" /\ tx.id = <<>>
  \/ field = "LastLog" /\ m.heap[m.ctx.lastLog.b] = <<>>

\* executeITxn: the last inner transaction, alone in its group.  A value of no
\* length is looked up again as an element of an array.
ReadInner(m, n, i, k) ==
  LET group == LastInner(m)
      tx == group[Len(group)]
  IN  IF m.ctx.inner = <<>> THEN Fail(m)
      ELSE IF i.field = "Logs" THEN TxAppArg(m, n, tx, i.field, k)
      ELSE IF i.field = "NumLogs" THEN Put(m, n, <<Uint(Len(Logs(m, tx)))>>)
      ELSE IF NoLength(m, tx, i.field) THEN TxAppArg(m, n, tx, i.field, k)
      ELSE TxnSpecByField(m, n, tx, 1, i.field)

\* i.t and i.x are the transaction and the element, unless they are popped.
Txn(m, v, i) == ReadTx(m, v, 0, m.ctx.group, m.ctx.self - 1, i, i.x)
Txnas(m, v, i) ==
  IF UintAt(m, 0) THEN ReadTx(m, v, 1, m.ctx.group, m.ctx.self - 1, i, U(m, 0)) ELSE Fail(m)
Gtxn(m, v, i) == ReadTx(m, v, 0, m.ctx.group, i.t, i, i.x)
Gtxnas(m, v, i) ==
  IF UintAt(m, 0) THEN ReadTx(m, v, 1, m.ctx.group, i.t, i, U(m, 0)) ELSE Fail(m)
Gtxns(m, v, i) ==
  IF UintAt(m, 0) THEN ReadTx(m, v, 1, m.ctx.group, U(m, 0), i, i.x) ELSE Fail(m)
Gtxnsas(m, v, i) ==
  IF Uints(m, 2) THEN ReadTx(m, v, 2, m.ctx.group, U(m, 1), i, U(m, 0)) ELSE Fail(m)
Gitxn(m, v, i) == ReadTx(m, v, 0, LastInner(m), i.t, i, i.x)
Gitxnas(m, v, i) ==
  IF UintAt(m, 0) THEN ReadTx(m, v, 1, LastInner(m), i.t, i, U(m, 0)) ELSE Fail(m)
ITxn(m, i) == ReadInner(m, 0, i, i.x)
ITxnas(m, i) == IF UintAt(m, 0) THEN ReadInner(m, 1, i, U(m, 0)) ELSE Fail(m)

\* The opcodes that name an array and an element read as the others do.
TxnOps ==
  {"txn", "txna", "txnas", "gtxn", "gtxna", "gtxnas", "gtxns", "gtxnsa", "gtxnsas",
   "gitxn", "gitxna", "gitxnas", "itxn", "itxna", "itxnas"}
ReadTxn(m, v, i) ==
  CASE i.op \in {"txn", "txna"} -> Txn(m, v, i)
    [] i.op = "txnas" -> Txnas(m, v, i)
    [] i.op \in {"gtxn", "gtxna"} -> Gtxn(m, v, i)
    [] i.op = "gtxnas" -> Gtxnas(m, v, i)
    [] i.op \in {"gtxns", "gtxnsa"} -> Gtxns(m, v, i)
    [] i.op = "gtxnsas" -> Gtxnsas(m, v, i)
    [] i.op \in {"gitxn", "gitxna"} -> Gitxn(m, v, i)
    [] i.op = "gitxnas" -> Gitxnas(m, v, i)
    [] i.op \in {"itxn", "itxna"} -> ITxn(m, i)
    [] i.op = "itxnas" -> ITxnas(m, i)

-----------------------------------------------------------------------------
(* Globals, scratch spaces and identifiers of the group                    *)

NewGlobalFields ==
  << {"MinTxnFee", "MinBalance", "MaxTxnLife", "ZeroAddress", "GroupSize"},
     {"LogicSigVersion", "Round", "LatestTimestamp", "CurrentApplicationID"},
     {"CreatorAddress"}, {},
     {"GroupID", "CurrentApplicationAddress"},
     {"OpcodeBudget", "CallerApplicationID", "CallerApplicationAddress"}, {}, {} >>
GlobalFields(v) == UNION {NewGlobalFields[n] : n \in 1..v}

\* The application above the one that runs in innerTxAppIDCallStack.
Caller(m) ==
  LET calls == m.ctx.calls
  IN  IF Len(calls) > 1 THEN calls[Len(calls) - 1] ELSE 0

\* Other than OpcodeBudget.
Global(m, field) ==
  CASE field = "GroupSize" -> Put(m, 0, <<Uint(Len(m.ctx.group))>>)
    [] field = "CurrentApplicationID" ->
         When(AppID(m) \in DOMAIN m.ctx.apps, m, 0, <<Uint(AppID(m))>>)
    [] field = "Round" -> Put(m, 0, <<Uint(m.ctx.round)>>)
    [] field = "LatestTimestamp" -> Put(m, 0, <<Uint(m.ctx.timestamp)>>)
    [] field = "CreatorAddress" ->
         IF AppID(m) \in DOMAIN m.ctx.apps THEN PutNew(m, 0, m.ctx.apps[AppID(m)].creator)
         ELSE Fail(m)
    [] field = "GroupID" -> PutNew(m, 0, m.ctx.groupID)
    [] field = "CurrentApplicationAddress" -> PutNew(m, 0, AppAddress(AppID(m)))
    [] field = "CallerApplicationID" -> Put(m, 0, <<Uint(Caller(m))>>)
    [] field = "CallerApplicationAddress" ->
         PutNew(m, 0, IF Caller(m) = 0 THEN Zeros ELSE AppAddress(Caller(m)))
    [] field = "ZeroAddress" -> Put(m, 0, <<m.ctx.zero>>)
    [] OTHER -> Put(m, 0, <<Uint(GlobalValues[field])>>)

\* gload, gloads and gloadss, with transaction t and slot s; pops n.
GloadFrom(m, n, t, s) ==
  IF t \in DOMAIN m.ctx.shared /\ s \in DOMAIN m.ctx.shared[t]
  THEN Put(m, n, <<m.ctx.shared[t][s]>>) ELSE Fail(m)
Gload(m, i) == GloadFrom(m, 0, i.t, i.x)
Gloads(m, i) == IF UintAt(m, 0) THEN GloadFrom(m, 1, U(m, 0), i.x) ELSE Fail(m)
Gloadss(m) == IF Uints(m, 2) THEN GloadFrom(m, 2, U(m, 1), U(m, 0)) ELSE Fail(m)

\* gaid and gaids.
GaidOf(m, n, t) ==
  IF t \in DOMAIN m.ctx.knowableID THEN Put(m, n, <<Uint(m.ctx.knowableID[t])>>) ELSE Fail(m)
Gaid(m, i) == GaidOf(m, 0, i.t)
Gaids(m) == IF UintAt(m, 0) THEN GaidOf(m, 1, U(m, 0)) ELSE Fail(m)

\* What the parser asks of the fields of an instruction.
FieldAllowed(v, i) ==
  /\ i.op \in {"txn", "gtxn", "gtxns", "gitxn", "itxn_field"} => i.field \in TxnFields(v)
  /\ i.op \in {"txna", "txnas", "gtxna", "gtxnas", "gtxnsa", "gtxnsas", "gitxna", "gitxnas"} =>
       i.field \in TxArrFields(v)
  /\ i.op = "itxn" => i.field \in TxnFields(v) \cup ITxnFields(v)
  /\ i.op \in {"itxna", "itxnas"} => i.field \in TxArrFields(v) \cup ITxArrFields(v)
  /\ i.op = "global" => i.field \in GlobalFields(v)
  /\ i.op = "block" => i.field \in {"BlkSeed", "BlkTimestamp"}
=============================================================================
