----------------------------- MODULE TealInner -----------------------------
(***************************************************************************)
(* The opcodes that build inner transactions: itxn_begin, itxn_next and    *)
(* itxn_field (packages/runtime/src/interpreter/opcode-list.ts), with the  *)
(* fields and conversions of lib/itxn.ts.  AppCalls has what becomes of    *)
(* the group when it is submitted.                                         *)
(*                                                                         *)
(* m.ctx.building is currentInnerTxnGroup, a sequence of transactions      *)
(* whose fields hold numbers, addresses, texts, or places of m.heap: an    *)
(* array that is set is the one the program had on its stack.              *)
(***************************************************************************)
EXTENDS TealLibrary, TealLedger

CONSTANTS
  MaxInner,         \* MAX_INNER_TRANSACTIONS
  TypeNames,        \* function from texts to the types of transactions
  MaxDecimals,      \* decimals of an asset
  ExactLength,      \* function from fields to the length that they must have
  MaxLength         \* function from fields to the length that they may have

-----------------------------------------------------------------------------
(* The fields, by the values they take                                     *)

IntegerFields(v) ==
  {"Amount", "AssetAmount", "TypeEnum", "ConfigAssetTotal", "Fee", "FreezeAssetFrozen",
   "ConfigAssetDecimals", "ConfigAssetDefaultFrozen"}
  \cup (IF v >= 6 THEN {"VoteFirst", "VoteLast", "VoteKeyDilution", "Nonparticipation",
                        "ApplicationID"} ELSE {})
AssetFields == {"XferAsset", "FreezeAsset", "ConfigAsset"}
TextFields == {"Type", "ConfigAssetName", "ConfigAssetUnitName", "ConfigAssetURL"}
BytesFields(v) ==
  {"ConfigAssetMetadataHash"}
  \cup (IF v >= 6 THEN {"VotePK", "SelectionPK", "Note", "ApplicationArgs"} \cup ProgramFields
        ELSE {})
  \cup (IF v >= 7 THEN PageFields ELSE {})
AccountFields(v) ==
  {"Sender", "Receiver", "CloseRemainderTo", "AssetSender", "AssetCloseTo", "AssetReceiver",
   "FreezeAssetAccount"}
  \cup (IF v >= 6 THEN {"RekeyTo"} ELSE {})
RoleFields ==
  {"ConfigAssetManager", "ConfigAssetReserve", "ConfigAssetFreeze", "ConfigAssetClawback"}

InnerTypes(v) ==
  {"pay", "axfer", "acfg", "afrz"} \cup (IF v >= 6 THEN {"keyreg", "appl"} ELSE {})

-----------------------------------------------------------------------------
(* itxn_begin and itxn_next                                                *)

\* calculateInnerTxCredit.
Credit(m) ==
  LET txs == m.ctx.building
  IN  m.ctx.credit + MapThenSumSet(LAMBDA k : Get(txs[k].f, "Fee", 0), DOMAIN txs)
        - Len(txs) * GlobalValues["MinTxnFee"]

\* addInnerTransaction: no fee if what is left over pays for it.
NewInner(m) ==
  [type |-> "unknown", id |-> <<>>,
   f |-> [Sender |-> AppAddress(AppID(m)),
          Fee |-> IF Credit(m) >= GlobalValues["MinTxnFee"] THEN 0 ELSE GlobalValues["MinTxnFee"],
          FirstValid |-> Get(Self(m).f, "FirstValid", 0),
          LastValid |-> Get(Self(m).f, "LastValid", 0)]]

\* The limit is one of groups: a group may have any number of transactions.
MayAdd(m) ==
  /\ Len(m.ctx.inner) < MaxInner
  /\ AppID(m) \in DOMAIN m.ctx.apps /\ AppAddress(AppID(m)) \in DOMAIN m.ctx.accounts
AddInner(m) == [m EXCEPT !.ctx.building = Append(@, NewInner(m))]

ITxnBegin(m) ==
  IF m.ctx.building = <<>> /\ MayAdd(m) /\ Get(Self(m).f, "OnCompletion", 0) # 3
  THEN AddInner(m) ELSE Fail(m)
ITxnNext(m) == IF m.ctx.building # <<>> /\ MayAdd(m) THEN AddInner(m) ELSE Fail(m)

-----------------------------------------------------------------------------
(* itxn_field                                                              *)

\* What a field is set to, empty if the value on the stack will not do.
FieldValue(m, v, field) ==
  CASE field \in IntegerFields(v) /\ UintAt(m, 0) -> {U(m, 0)}
    [] field \in AssetFields /\ UintAt(m, 0) -> AssetByReference(m, v, U(m, 0), FALSE)
    [] field \in TextFields /\ BytesAt(m, 0) -> {Text(B(m, 0))}
    [] field \in BytesFields(v) /\ BytesAt(m, 0) -> {Top(m, 0)}
    [] field \in AccountFields(v) /\ BytesAt(m, 0) ->
         AccountAt(m, v, 0, TRUE) \cap DOMAIN m.ctx.accounts
    [] field \in RoleFields /\ BytesAt(m, 0) ->
         IF Len(B(m, 0)) = AddressLength THEN {Top(m, 0)} ELSE {}
    [] OTHER -> {}

\* The pages of a program are put together, in an array of their own from the
\* second one on.
WithPages(m, tx, field) ==
  IF field \in PageFields /\ Has(tx, PagesOf[field])
  THEN m.heap[tx.f[PagesOf[field]].b] \o B(m, 0) ELSE B(m, 0)

FieldFits(m, v, tx, field, x) ==
  LET length == IF field \in TextFields THEN Len(x) ELSE Len(WithPages(m, tx, field))
  IN  /\ field = "Type" => x \in DOMAIN TypeNames /\ TypeNames[x] \in InnerTypes(v)
      /\ field = "TypeEnum" => x \in {TypeEnum[t] : t \in InnerTypes(v)}
      /\ field = "ConfigAssetDecimals" => x <= MaxDecimals
      /\ field \in DOMAIN ExactLength => length = ExactLength[field]
      /\ field \in DOMAIN MaxLength => length <= MaxLength[field]

\* The transaction with the field set to x; arguments are added.
WithField(tx, field, x) ==
  CASE field = "Type" -> [tx EXCEPT !.type = TypeNames[x]]
    [] field = "TypeEnum" -> [tx EXCEPT !.type = CHOOSE t \in DOMAIN TypeEnum : TypeEnum[t] = x]
    [] field = "ApplicationArgs" ->
         [tx EXCEPT !.f = With(@, field, Append(Get(@, field, <<>>), x))]
    [] field \in PageFields -> [tx EXCEPT !.f = With(@, PagesOf[field], x)]
    [] OTHER -> [tx EXCEPT !.f = With(@, field, x)]

ITxnField(m, v, field) ==
  LET n == Len(m.ctx.building)
      tx == m.ctx.building[n]
      value == FieldValue(m, v, field)
      x == Only(value)
      longer == field \in PageFields /\ Has(tx, PagesOf[field])
  IN  IF n = 0 \/ value = {} THEN Fail(m)
      ELSE IF ~FieldFits(m, v, tx, field, x) THEN Fail(m)
      ELSE IF longer
      THEN Put([m EXCEPT !.heap = Append(@, WithPages(m, tx, field)),
                         !.ctx.building[n] = WithField(tx, field, Ref(Len(m.heap) + 1))], 1, <<>>)
      ELSE Put([m EXCEPT !.ctx.building[n] = WithField(tx, field, x)], 1, <<>>)

-----------------------------------------------------------------------------
(* By name                                                                 *)

InnerOps == {"itxn_begin", "itxn_next", "itxn_field"}
BuildInner(m, v, i) ==
  CASE i.op = "itxn_begin" -> ITxnBegin(m)
    [] i.op = "itxn_next" -> ITxnNext(m)
    [] i.op = "itxn_field" -> ITxnField(m, v, i.field)
=============================================================================
