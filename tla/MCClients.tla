----------------------------- MODULE MCClients -----------------------------
(***************************************************************************)
(* Small instances of Clients: every group of up to four transactions that *)
(* are signed in any way, and every kind of transaction by itself.         *)
(***************************************************************************)
EXTENDS Clients

CONSTANTS sara, bob, lsig, msig

Addresses == {sara, bob}
MCWalletAccounts == {sara}
MCAssetInfo == [manager |-> sara, reserve |-> bob, freeze |-> bob, clawback |-> None]
MCDecoded(kind, text) == <<kind, text>>

ByKey == [sign |-> "SecretKey", fromAccount |-> sara]
Rekeyed == [sign |-> "SecretKey", fromAccount |-> sara, fromAccountAddr |-> bob]
ByLsig(from) == [sign |-> "LogicSignature", fromAccountAddr |-> from]
ByMsig == [sign |-> "MultiSignature", fromAccountAddr |-> msig]

With(fields, flags, sign) == fields @@ ("payFlags" :> flags) @@ sign
Pay(flags, sign) ==
  With([type |-> "TransferAlgo", toAccountAddr |-> bob, amountMicroAlgos |-> 1], flags, sign)

Signers == {ByKey, ByLsig(lsig), ByLsig(sara), ByMsig}
Payments == {Pay(<<>>, s) : s \in Signers}

\* In longer groups no logic signature is of an account of the wallet.
GroupsOfPayments ==
  UNION {[1..n -> Payments] : n \in 0..2}
  \cup UNION {[1..n -> Payments \ {Pay(<<>>, ByLsig(sara))}] : n \in 3..4}

Flags ==
  {<<>>, [totalFee |-> 0], [totalFee |-> 1], [totalFee |-> 7], [feePerByte |-> 2],
   [totalFee |-> 5, flatFee |-> TRUE], [firstValid |-> 2], [firstValid |-> 1, validRounds |-> 2],
   [note |-> <<1>>], [noteb64 |-> <<1>>], [note |-> <<1>>, noteb64 |-> <<2>>],
   [rekeyTo |-> bob], [closeRemainderTo |-> bob], [closeRemainderTo |-> bob, rekeyTo |-> bob]}

Arg(kind, value) == [kind |-> kind, value |-> value]
Args == {<<>>, <<Arg("int", 2), Arg("str", <<1>>)>>, <<Arg("bytes", <<3>>)>>,
         <<Arg("addr", bob)>>, <<Arg("int", 4)>>, <<Arg("none", <<1>>)>>}

RoleChoices ==
  {<<>>, [manager |-> sara], [manager |-> Blank, reserve |-> bob],
   [manager |-> Blank, reserve |-> Blank, freeze |-> Blank, clawback |-> Blank],
   [freeze |-> bob, clawback |-> sara]}

Fields ==
  {[type |-> "TransferAlgo", toAccountAddr |-> a, amountMicroAlgos |-> n] :
     a \in Addresses, n \in 0..1}
  \cup {[type |-> "TransferAsset", toAccountAddr |-> a, amount |-> n, assetID |-> 1] :
          a \in Addresses, n \in 0..1}
  \cup {[type |-> "RevokeAsset", recipient |-> sara, revocationTarget |-> a, amount |-> n,
         assetID |-> 1] : a \in Addresses, n \in 0..1}
  \cup {[type |-> "FreezeAsset", freezeTarget |-> bob, freezeState |-> b, assetID |-> 1] :
          b \in BOOLEAN}
  \cup {[type |-> "ModifyAsset", assetID |-> 1, fields |-> f] : f \in RoleChoices}
  \cup {[type |-> t, assetID |-> 1] : t \in {"OptInASA", "DestroyAsset"}}
  \cup {[type |-> "DeployASA", asaName |-> "gold",
         asaDef |-> ([total |-> n, decimals |-> 0, unitName |-> "au", defaultFrozen |-> b] @@ f)] :
          n \in 0..1, b \in BOOLEAN, f \in {<<>>, [freeze |-> bob, clawback |-> sara]}}
  \cup {[type |-> "DeployASA", asaName |-> "gold"]}
  \cup {[type |-> "CallApp", appID |-> 2, appArgs |-> a, accounts |-> l] :
          a \in Args, l \in {<<>>, <<bob>>}}
  \cup {[type |-> t, appID |-> 2, appArgs |-> <<Arg("int", 2)>>, accounts |-> l] :
          t \in {"OptInToApp", "CloseApp", "ClearApp", "DeleteApp"}, l \in {<<>>, <<bob>>}}
  \cup {[type |-> "UpdateApp", appID |-> 2, appArgs |-> <<>>,
         newAppCode |-> [metaType |-> m, approvalProgramBytes |-> <<1>>, clearProgramBytes |-> <<1>>]] :
          m \in {"BYTES", "FILE"}}
  \cup {[type |-> "DeployApp",
         appDefinition |-> [metaType |-> m, approvalProgramBytes |-> <<1>>,
                            clearProgramBytes |-> <<1>>, localInts |-> 1, appArgs |-> a]] :
          m \in {"BYTES", "SOURCE_CODE"}, a \in Args}
  \cup {[type |-> "KeyRegistration", voteKey |-> "v", selectionKey |-> "s", voteFirst |-> 1,
         voteLast |-> 2]}

Singles ==
  {With(f, <<>>, s) : f \in Fields, s \in {ByKey, Rekeyed}}
  \cup {With(f, flags, ByKey) :
          f \in {[type |-> "TransferAlgo", toAccountAddr |-> bob, amountMicroAlgos |-> 1],
                 [type |-> "TransferAsset", toAccountAddr |-> bob, amount |-> 1, assetID |-> 1],
                 [type |-> "CallApp", appID |-> 2]},
          flags \in Flags}
  \cup {With([type |-> "RevokeAsset", recipient |-> sara, revocationTarget |-> bob, amount |-> 1,
              assetID |-> 1], [closeRemainderTo |-> bob], ByKey)}

MCAsks == [kind : Kinds, params : GroupsOfPayments \cup {<<p>> : p \in Singles}]
MCGiven == [kind : {"web", "algob"}, params : UNION {[1..n -> Payments] : n \in 1..2}]
=============================================================================
