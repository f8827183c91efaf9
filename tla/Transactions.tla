---------------------------- MODULE Transactions ----------------------------
(***************************************************************************)
(* How execution parameters become transactions of the SDK                 *)
(* (packages/web/src/lib/txn.ts), and how the runtime reads a transaction  *)
(* (packages/runtime/src/lib/txn.ts, processTransactions of ctx.ts).       *)
(*                                                                         *)
(* Parameters and transactions are records: a field that is missing, or    *)
(* None, is undefined; one with a record or a list is there or missing.  A *)
(* transaction is the object that the SDK encodes, of which a field is     *)
(* undefined whose value is zero or empty.                                 *)
(***************************************************************************)
EXTENDS Integers, Sequences, FiniteSetsExt

CONSTANTS
  None,             \* undefined
  Blank,            \* "", which clears an address of an asset
  ZeroAddress,      \* ZERO_ADDRESS_STR
  MinTxFee,         \* ALGORAND_MIN_TX_FEE
  Size,             \* bytes of a transaction, by which a fee per byte counts
  Radix,            \* bound: a number of an argument has two digits
  Decoded(_, _)     \* the bytes that a text stands for: "str", "addr" or "b64"

Of(r, f) == IF f \in DOMAIN r THEN r[f] ELSE None
Default(v, d) == IF v = None THEN d ELSE v
NonZero(n) == IF n = 0 THEN None ELSE n
NonEmpty(s) == IF s = <<>> THEN None ELSE s
Set(b) == IF b THEN TRUE ELSE None

\* The fields of f, and those of g that f has not.
f ++ g == [x \in DOMAIN f \cup DOMAIN g |-> IF x \in DOMAIN f THEN f[x] ELSE g[x]]

-----------------------------------------------------------------------------
(* Parts of a transaction                                                  *)

\* parseAppArgs: formats are those of goal; bytes are taken as they are.
ArgParses(arg) ==
  \/ arg.kind \in {"bytes", "str", "addr", "b64"}
  \/ arg.kind = "int" /\ arg.value \in 0..(Radix * Radix - 1)

ParseArg(arg) ==
  CASE arg.kind = "bytes" -> arg.value
    [] arg.kind = "int" -> <<arg.value \div Radix, arg.value % Radix>>
    [] OTHER -> Decoded(arg.kind, arg.value)

ParseAppArgs(args) == [k \in DOMAIN args |-> ParseArg(args[k])]
ArgsOf(d) == IF "appArgs" \in DOMAIN d THEN ParseAppArgs(d.appArgs) ELSE <<>>

\* encodeNote: base64 is decoded, text is taken by its bytes.
NotesClash(flags) ==
  /\ Of(flags, "note") # None /\ Of(flags, "noteb64") # None
  /\ flags.note # <<>> /\ flags.noteb64 # <<>>

EncodeNote(flags) ==
  IF Of(flags, "noteb64") # None /\ flags.noteb64 # <<>>
  THEN Decoded("b64", flags.noteb64)
  ELSE Of(flags, "note")

\* A secret key may sign for an account that was rekeyed to it.
GetFromAddress(p) ==
  IF p.sign = "SecretKey" /\ Of(p, "fromAccountAddr") = None
  THEN p.fromAccount
  ELSE p.fromAccountAddr

\* The SDK takes the suggested fee for a fee per byte, unless it is flat;
\* updateTxFee puts the total fee of the parameters in its place.
Fee(p, s) ==
  LET suggested == IF s.flatFee THEN s.fee ELSE Max({s.fee * Size, MinTxFee})
  IN  Default(Of(p.payFlags, "totalFee"), suggested)

Common(p, s, kind) ==
  [type |-> kind, snd |-> GetFromAddress(p), fv |-> s.firstRound, lv |-> s.lastRound,
   fee |-> NonZero(Fee(p, s)), note |-> NonEmpty(EncodeNote(p.payFlags)),
   rekey |-> Of(p.payFlags, "rekeyTo")]

AssetTransfer(p, to, amount, close, from) ==
  [arcv |-> to, aamt |-> NonZero(amount), aclose |-> close, asnd |-> from,
   xaid |-> NonZero(p.assetID)]

\* The four addresses of an asset; a blank one is undefined.
AssetRoles == [m |-> "manager", r |-> "reserve", f |-> "freeze", c |-> "clawback"]
RoleParams(d) ==
  [a \in {b \in DOMAIN AssetRoles : Of(d, AssetRoles[b]) \notin {None, Blank}} |->
     d[AssetRoles[a]]]

CreationParams(name, d) ==
  RoleParams(d)
  ++ [t |-> NonZero(Of(d, "total")), dc |-> NonZero(Of(d, "decimals")),
      df |-> Set(Of(d, "defaultFrozen") = TRUE), an |-> name, un |-> Of(d, "unitName")]

Config(asset, apar) ==
  IF DOMAIN apar = {} THEN [caid |-> NonZero(asset)] ELSE [caid |-> NonZero(asset), apar |-> apar]

OnCompletion ==
  [CallApp |-> 0, DeployApp |-> 0, OptInToApp |-> 1, CloseApp |-> 2, ClearApp |-> 3,
   UpdateApp |-> 4, DeleteApp |-> 5]

AppFields(p, d) ==
  [apid |-> NonZero(Of(p, "appID")), apan |-> NonZero(OnCompletion[p.type]),
   apaa |-> NonEmpty(ArgsOf(d)), apat |-> NonEmpty(Of(d, "accounts")),
   apfa |-> NonEmpty(Of(d, "foreignApps")), apas |-> NonEmpty(Of(d, "foreignAssets")),
   lx |-> NonEmpty(Of(d, "lease"))]

Programs(d) ==
  [apap |-> d.approvalProgramBytes, apsu |-> d.clearProgramBytes]

SchemaFields(d) ==
  LET Counts(ints, bytes) ==
        [nui |-> NonZero(Of(d, ints)), nbs |-> NonZero(Of(d, bytes))]
  IN  [apls |-> Counts("localInts", "localBytes"), apgs |-> Counts("globalInts", "globalBytes"),
       apep |-> NonZero(Of(d, "extraPages"))]

Participation(p) ==
  [votekey |-> Of(p, "voteKey"), selkey |-> Of(p, "selectionKey"),
   votefst |-> NonZero(Of(p, "voteFirst")), votelst |-> NonZero(Of(p, "voteLast")),
   votekd |-> NonZero(Of(p, "voteKeyDilution"))]

-----------------------------------------------------------------------------
(* mkTransaction                                                           *)

PaymentType == {"TransferAlgo"}
TransferType == {"TransferAsset", "RevokeAsset", "OptInASA"}
ConfigType == {"DeployASA", "ModifyAsset", "DestroyAsset"}
AppType == DOMAIN OnCompletion

Kind(p) ==
  CASE p.type \in PaymentType -> "pay"
    [] p.type \in TransferType -> "axfer"
    [] p.type \in ConfigType -> "acfg"
    [] p.type \in AppType -> "appl"
    [] p.type = "FreezeAsset" -> "afrz"
    [] p.type = "KeyRegistration" -> "keyreg"

\* What the type of the parameters requires (types.ts); assets and applications
\* are counted from 1.
Signs == {"SecretKey", "LogicSignature", "MultiSignature"}
ParamTypes ==
  PaymentType \cup TransferType \cup ConfigType \cup AppType \cup {"FreezeAsset", "KeyRegistration"}
Required(type) ==
  CASE type = "TransferAlgo" -> {"toAccountAddr", "amountMicroAlgos"}
    [] type = "TransferAsset" -> {"toAccountAddr", "amount", "assetID"}
    [] type = "RevokeAsset" -> {"recipient", "revocationTarget", "amount", "assetID"}
    [] type = "FreezeAsset" -> {"freezeTarget", "assetID"}
    [] type \in {"OptInASA", "ModifyAsset", "DestroyAsset"} -> {"assetID"}
    [] type = "DeployASA" -> {"asaName"}
    [] type \in AppType \ {"DeployApp"} -> {"appID"}
    [] OTHER -> {}

IsParams(p) ==
  /\ {"type", "sign", "payFlags"} \subseteq DOMAIN p
  /\ p.type \in ParamTypes /\ p.sign \in Signs
  /\ Of(p, IF p.sign = "SecretKey" THEN "fromAccount" ELSE "fromAccountAddr") # None
  /\ \A f \in Required(p.type) : Of(p, f) # None
  /\ Of(p, "assetID") # 0 /\ Of(p, "appID") # 0
  /\ p.type = "FreezeAsset" => p.freezeState \in BOOLEAN
  /\ p.type = "ModifyAsset" => "fields" \in DOMAIN p
  /\ p.type = "DeployASA" /\ "asaDef" \in DOMAIN p => Of(p.asaDef, "total") # None
  /\ p.type = "DeployApp" => "appID" \notin DOMAIN p

Body(p) ==
  CASE p.type = "TransferAlgo" ->
         [rcv |-> p.toAccountAddr, amt |-> NonZero(p.amountMicroAlgos),
          close |-> Of(p.payFlags, "closeRemainderTo")]
    [] p.type = "TransferAsset" ->
         AssetTransfer(p, p.toAccountAddr, p.amount, Of(p.payFlags, "closeRemainderTo"), None)
    [] p.type = "RevokeAsset" ->
         AssetTransfer(p, p.recipient, p.amount, Of(p.payFlags, "closeRemainderTo"),
                       p.revocationTarget)
    [] p.type = "OptInASA" ->
         AssetTransfer(p, GetFromAddress(p), 0, None, None)
    [] p.type = "ModifyAsset" ->
         Config(p.assetID, RoleParams(p.fields))
    [] p.type = "DestroyAsset" ->
         Config(p.assetID, <<>>)
    [] p.type = "DeployASA" ->
         Config(0, CreationParams(p.asaName, p.asaDef))
    [] p.type = "FreezeAsset" ->
         [fadd |-> p.freezeTarget, faid |-> NonZero(p.assetID), afrz |-> Set(p.freezeState)]
    [] p.type = "DeployApp" ->
         AppFields(p, p.appDefinition) ++ (Programs(p.appDefinition) ++ SchemaFields(p.appDefinition))
    [] p.type = "UpdateApp" ->
         AppFields(p, p) ++ Programs(p.newAppCode)
    [] p.type = "KeyRegistration" -> Participation(p)
    [] OTHER -> AppFields(p, p)

\* Where mkTransaction throws: both notes, an argument in no format, an asset
\* without a definition, programs that are not compiled.
CanMake(p) ==
  LET d == IF p.type = "DeployApp" THEN p.appDefinition ELSE p
  IN  /\ ~NotesClash(p.payFlags)
      /\ p.type \in AppType /\ "appArgs" \in DOMAIN d =>
           \A k \in DOMAIN d.appArgs : ArgParses(d.appArgs[k])
      /\ p.type = "DeployASA" => "asaDef" \in DOMAIN p
      /\ p.type = "DeployApp" => p.appDefinition.metaType = "BYTES"
      /\ p.type = "UpdateApp" => p.newAppCode.metaType = "BYTES"

MkTransaction(p, s) == Common(p, s, Kind(p)) ++ Body(p)

-----------------------------------------------------------------------------
(* How the runtime reads a transaction                                     *)

ConfigOf(tx) == IF "apar" \in DOMAIN tx THEN tx.apar ELSE <<>>
HasAsset(tx) == Of(tx, "caid") # None /\ tx.caid # 0
SetRoles(tx) == DOMAIN ConfigOf(tx) \cap DOMAIN AssetRoles

IsEncTxAssetDeletion(tx) == tx.type = "acfg" /\ HasAsset(tx) /\ SetRoles(tx) = {}
IsEncTxAssetConfig(tx) == tx.type = "acfg" /\ HasAsset(tx) /\ ~IsEncTxAssetDeletion(tx)
IsEncTxAssetCreate(tx) ==
  tx.type = "acfg" /\ Of(tx, "caid") = None /\ "apar" \in DOMAIN tx
IsEncTxAssetReconfigure(tx) ==
  tx.type = "acfg" /\ Of(tx, "caid") # None /\ SetRoles(tx) # {}
IsEncTxAssetRevoke(tx) == Of(tx, "asnd") # None
IsEncTxAssetTransfer(tx) == Of(tx, "arcv") # None /\ Of(tx, "asnd") = None
IsEncTxAssetOptIn(tx) == Of(tx, "arcv") # None /\ tx.arcv = tx.snd
IsEncTxApplicationCreate(tx) ==
  tx.type = "appl" /\ Default(Of(tx, "apan"), 0) = 0 /\ Of(tx, "apid") = None
IsEncTxApplicationCall(tx) == tx.type = "appl" /\ Of(tx, "apid") # None

\* getTxASADefinition, getAssetReconfigureFields: an address that a
\* reconfiguration does not give is blank.
RolesOf(tx, missing) ==
  [r \in {AssetRoles[a] : a \in DOMAIN AssetRoles} |->
     Default(Of(ConfigOf(tx), CHOOSE a \in DOMAIN AssetRoles : AssetRoles[a] = r), missing)]
GetTxASADefinition(tx) ==
  RolesOf(tx, None)
  ++ [total |-> Default(Of(tx.apar, "t"), 0), asaName |-> Of(tx.apar, "an"),
      defaultFrozen |-> Of(tx.apar, "df") = TRUE]
GetAssetReconfigureFields(tx) == RolesOf(tx, Blank)

\* Whom processTransactions rekeys the sender to: an account that is closed
\* has its own key again.
RekeyOf(tx) ==
  IF Of(tx, "close") # None \/ Of(tx, "aclose") # None THEN tx.snd ELSE Of(tx, "rekey")

AppOperation == <<"optInToApp", "closeOut", "clearState", "updateApp", "deleteApp">>

\* The operation that processTransactions carries out, with its arguments.
Effect(tx) ==
  CASE tx.type = "pay" ->
         [op |-> "transferAlgo", to |-> tx.rcv, amount |-> Default(Of(tx, "amt"), 0),
          close |-> Of(tx, "close")]
    [] tx.type = "axfer" /\ IsEncTxAssetTransfer(tx) ->
         [op |-> IF IsEncTxAssetOptIn(tx) /\ Of(tx, "aamt") = None
                 THEN "optInToASA" ELSE "transferAsset",
          asset |-> tx.xaid, to |-> tx.arcv, amount |-> Default(Of(tx, "aamt"), 0),
          close |-> Of(tx, "aclose")]
    [] tx.type = "axfer" /\ IsEncTxAssetRevoke(tx) ->
         [op |-> IF Of(tx, "aclose") # None THEN "throw" ELSE "revokeAsset",
          asset |-> tx.xaid, to |-> tx.arcv, amount |-> Default(Of(tx, "aamt"), 0),
          target |-> tx.asnd]
    [] tx.type = "afrz" ->
         [op |-> "freezeAsset", asset |-> tx.faid, target |-> tx.fadd,
          state |-> Of(tx, "afrz") = TRUE]
    [] IsEncTxAssetCreate(tx) -> [op |-> "deployASA", def |-> GetTxASADefinition(tx)]
    [] IsEncTxAssetReconfigure(tx) ->
         [op |-> "modifyAsset", asset |-> tx.caid, fields |-> GetAssetReconfigureFields(tx)]
    [] IsEncTxAssetDeletion(tx) -> [op |-> "destroyAsset", asset |-> tx.caid]
    [] IsEncTxApplicationCreate(tx) -> [op |-> "deployApp", args |-> Of(tx, "apaa")]
    [] tx.type = "appl" /\ ~IsEncTxApplicationCreate(tx) ->
         [op |-> IF Of(tx, "apan") = None THEN "callApp" ELSE AppOperation[tx.apan],
          app |-> Of(tx, "apid"), args |-> Of(tx, "apaa"), accounts |-> Of(tx, "apat")]
    [] OTHER -> [op |-> "nothing"]

-----------------------------------------------------------------------------
(* encTxToExecParams: parameters for a transaction of the SDK, and for one *)
(* that a program builds                                                   *)

Converted(tx) ==
  CASE tx.type = "pay" ->
         [type |-> "TransferAlgo", fromAccountAddr |-> tx.snd,
          toAccountAddr |-> Default(Of(tx, "rcv"), ZeroAddress),
          amountMicroAlgos |-> Default(Of(tx, "amt"), 0)]
    [] tx.type = "axfer" /\ Of(tx, "asnd") # None ->
         [type |-> "RevokeAsset", recipient |-> Default(Of(tx, "arcv"), ZeroAddress),
          revocationTarget |-> tx.asnd, amount |-> Default(Of(tx, "aamt"), 0),
          assetID |-> Default(Of(tx, "xaid"), 0)]
    [] tx.type = "axfer" /\ Of(tx, "asnd") = None ->
         [type |-> "TransferAsset", toAccountAddr |-> Default(Of(tx, "arcv"), ZeroAddress),
          amount |-> Default(Of(tx, "aamt"), 0), assetID |-> Default(Of(tx, "xaid"), 0)]
    [] tx.type = "afrz" ->
         [type |-> "FreezeAsset", assetID |-> Of(tx, "faid"), freezeTarget |-> Of(tx, "fadd"),
          freezeState |-> Of(tx, "afrz") = TRUE]
    [] IsEncTxAssetDeletion(tx) -> [type |-> "DestroyAsset", assetID |-> tx.caid]
    [] IsEncTxAssetConfig(tx) ->
         [type |-> "ModifyAsset", assetID |-> tx.caid, fields |-> RolesOf(tx, Blank)]
    [] tx.type = "acfg" /\ ~HasAsset(tx) ->
         [type |-> "DeployASA", asaName |-> Of(ConfigOf(tx), "an"),
          asaDef |-> RolesOf(tx, Blank)
                     ++ [total |-> Of(ConfigOf(tx), "t"), unitName |-> Of(ConfigOf(tx), "un"),
                         decimals |-> Default(Of(ConfigOf(tx), "dc"), 0),
                         defaultFrozen |-> Of(ConfigOf(tx), "df") = TRUE]]
    [] IsEncTxApplicationCreate(tx) ->
         [type |-> "DeployApp",
          appDefinition |-> [metaType |-> "FILE",
                             approvalProgramFilename |-> Of(tx, "approvalProgram"),
                             clearProgramFilename |-> Of(tx, "clearProgram")]]
    [] IsEncTxApplicationCall(tx) ->
         [type |-> "CallApp", appID |-> tx.apid]
         ++ (IF Of(tx, "apaa") = None THEN <<>>
             ELSE [appArgs |-> [k \in DOMAIN tx.apaa |-> [kind |-> "bytes", value |-> tx.apaa[k]]]])
    [] tx.type = "keyreg" ->
         [type |-> "KeyRegistration", voteKey |-> Of(tx, "votekey"),
          selectionKey |-> Of(tx, "selkey"), voteFirst |-> Of(tx, "votefst"),
          voteLast |-> Of(tx, "votelst"), voteKeyDilution |-> Of(tx, "votekd")]
    [] OTHER -> <<>>

\* Only the fee is kept of the flags, and of payments and transfers where the
\* rest goes and whom the sender is rekeyed to.
ConvertedFlags(tx) ==
  [totalFee |-> Of(tx, "fee"),
   rekeyTo |-> IF tx.type \in {"pay", "axfer", "afrz"} THEN Of(tx, "rekey") ELSE None,
   closeRemainderTo |-> CASE tx.type = "pay" -> Of(tx, "close")
                          [] tx.type = "axfer" -> Of(tx, "aclose")
                          [] OTHER -> None]

\* What signs it also says who sends it, but for payments.
EncTxToExecParams(tx, sign) ==
  Converted(tx) ++ [payFlags |-> ConvertedFlags(tx)] ++ sign
=============================================================================
