------------------------------ MODULE Clients ------------------------------
(***************************************************************************)
(* Sessions that build, sign, send and await a group of transactions: the  *)
(* AlgoSigner session ("web", packages/web/src/lib/web-mode.ts), the       *)
(* WalletConnect session ("wc"), the MyAlgo session ("myalgo") and the     *)
(* deployer of algob ("algob", packages/algob/src/lib/tx.ts).  Rounds go   *)
(* on while a session awaits its node or its wallet, which are external.   *)
(***************************************************************************)
EXTENDS Transactions, SequencesExt

CONSTANTS
  Asks,          \* the calls that may be made: [kind, params]
  SDKAsks,       \* TransactionAndSign: [kind, params], built before the call
  WalletAccounts,\* the accounts of the wallet's owner
  AssetInfo,     \* what the node tells of an asset: its four roles
  MaxGroup,      \* transactions of a group
  WaitRounds,    \* WAIT_ROUNDS
  Life,          \* rounds a transaction is valid for by default
  EarlyRounds    \* bound: rounds that pass before a group is sent

ASSUME ClientsAssumption ==
  /\ MaxGroup \in Nat \ {0} /\ WaitRounds \in Nat \ {0}
  /\ Life \in Nat /\ EarlyRounds \in Nat

Kinds == {"web", "wc", "myalgo", "algob"}

\* Parameters have their types; a transaction of the SDK is made, and names every
\* address of the asset it reconfigures.  Undefined is no value that is given.
Signed == [tx : Nat, by : Signs]
IsMade(p) ==
  /\ CanMake(p)
  /\ p.type = "ModifyAsset" =>
       \A a \in DOMAIN AssetRoles : Of(p.fields, AssetRoles[a]) # None

ASSUME AsksAssumption ==
  /\ \A a \in Asks \cup SDKAsks :
       /\ a.params \in Seq({a.params[k] : k \in DOMAIN a.params})
       /\ \A k \in DOMAIN a.params : IsParams(a.params[k])
  /\ \A a \in Asks : a.kind \in Kinds
  /\ \A a \in SDKAsks : \A k \in DOMAIN a.params : IsMade(a.params[k])

ASSUME NoneAssumption ==
  /\ None \notin Nat /\ None \notin BOOLEAN /\ None # Blank
  /\ None \notin Signed /\ None \notin Seq(Signed \cup {None})

VARIABLES
  pc,       \* where the session's call stands
  call,     \* what was asked, built, signed and sent, and what came of it
  wc,       \* the WalletConnect connection
  node      \* the network: its round, the group it holds and when it confirmed it

vars == <<pc, call, wc, node>>

Init ==
  /\ pc = "idle"
  /\ call = [kind |-> "web", params |-> <<>>, grouped |-> FALSE, built |-> <<>>,
             signed |-> None, from |-> 0, at |-> 0, receipt |-> 0, outcome |-> None]
  /\ wc = [connected |-> FALSE, accounts |-> {}]
  /\ node \in [round : {0, 1}, pool : {<<>>}, confirmed : {0}, error : {FALSE}]

Throw(why) == pc' = "threw" /\ call' = [call EXCEPT !.outcome = why]

-----------------------------------------------------------------------------
(* Suggested parameters                                                    *)

Truthy(v) == v # None /\ v # 0
Or(a, b) == IF Truthy(a) THEN a ELSE b

\* firstValid without validRounds leaves the last round of the node.
Window(flags, round) ==
  [firstRound |-> Or(Of(flags, "firstValid"), round),
   lastRound |-> IF Of(flags, "firstValid") = None \/ Of(flags, "validRounds") = None
                 THEN round + Life
                 ELSE flags.firstValid + flags.validRounds]

\* getSuggestedParams of web-mode.ts.
GetSuggestedParams(flags, round) ==
  LET flat == Of(flags, "totalFee") # None
      fee == Or(Of(flags, "totalFee"), Or(Of(flags, "feePerByte"), MinTxFee))
  IN  Window(flags, round)
      ++ [flatFee |-> flat, fee |-> IF flat THEN Max({fee, MinTxFee}) ELSE fee]

\* mkTxParams of api.ts: what the caller says of flatFee leaves it false.
MkTxParams(flags, round) ==
  Window(flags, round)
  ++ [flatFee |-> Of(flags, "flatFee") = None /\ Of(flags, "totalFee") # None,
      fee |-> Or(Of(flags, "totalFee"), Or(Of(flags, "feePerByte"), MinTxFee))]

ParamsFor(kind, flags, round) ==
  IF kind = "web" THEN GetSuggestedParams(flags, round) ELSE MkTxParams(flags, round)

\* A node that is not in development mode has to be past its first round.
NodeReady(kind) == kind = "web" \/ node.round > 0

\* mkTx of algob keeps the addresses of an asset that are not given.
Completed(kind, p) ==
  IF kind = "algob" /\ p.type = "ModifyAsset"
  THEN [p EXCEPT !.fields =
          [r \in {AssetRoles[a] : a \in DOMAIN AssetRoles} |->
             IF Of(@, r) = Blank THEN None ELSE Default(Of(@, r), AssetInfo[r])]]
  ELSE p

-----------------------------------------------------------------------------
(* Building                                                                *)

\* executeTx; the deployer and AlgoSigner refuse an empty group.
ExecuteTx ==
  /\ pc = "idle"
  /\ \E a \in Asks :
       LET asked == [call EXCEPT !.kind = a.kind, !.params = a.params, !.grouped = TRUE] IN
       IF \/ Len(a.params) > MaxGroup
          \/ a.params = <<>> /\ a.kind \in {"web", "algob"}
       THEN pc' = "threw" /\ call' = [asked EXCEPT !.outcome = "length"]
       ELSE pc' = (IF a.params = <<>> THEN "signing" ELSE "building") /\ call' = asked
  /\ UNCHANGED <<wc, node>>

\* executeTx with transactions of the SDK, which only the deployer takes; it
\* does not look at their number.
ExecuteSDKTx ==
  /\ pc = "idle"
  /\ \E a \in SDKAsks :
       LET asked == [call EXCEPT !.kind = a.kind, !.params = a.params, !.grouped = TRUE] IN
       IF a.kind # "algob"
       THEN pc' = "threw" /\ call' = [asked EXCEPT !.outcome = "unsupported"]
       ELSE /\ pc' = "signing"
            /\ call' = [asked EXCEPT !.built =
                 [k \in DOMAIN a.params |->
                    MkTransaction(a.params[k], MkTxParams(a.params[k].payFlags, node.round))]]
  /\ UNCHANGED <<wc, node>>

\* One transaction at a time, each with parameters of its own from the node,
\* which may fail to answer.
BuildTx ==
  /\ pc = "building"
  /\ \/ LET k == Len(call.built) + 1
            p == Completed(call.kind, call.params[k])
        IN  IF NodeReady(call.kind) /\ CanMake(p)
            THEN /\ call' = [call EXCEPT !.built =
                      Append(@, MkTransaction(p, ParamsFor(call.kind, p.payFlags, node.round)))]
                 /\ pc' = IF k = Len(call.params) THEN "signing" ELSE "building"
            ELSE Throw("parameters")
     \/ Throw("network")
  /\ UNCHANGED <<wc, node>>

\* makeTx: every transaction with the parameters of the caller, and no group.
MakeTx ==
  /\ pc = "idle"
  /\ \E a \in Asks :
       LET asked == [call EXCEPT !.kind = a.kind, !.params = a.params]
           s == MkTxParams(<<>>, node.round)
       IN  /\ a.kind # "algob"
           /\ IF \A k \in DOMAIN a.params : CanMake(a.params[k])
              THEN /\ pc' = "making"
                   /\ call' = [asked EXCEPT !.signed = <<>>,
                        !.built = [k \in DOMAIN a.params |-> MkTransaction(a.params[k], s)]]
              ELSE pc' = "threw" /\ call' = [asked EXCEPT !.outcome = "parameters"]
  /\ UNCHANGED <<wc, node>>

-----------------------------------------------------------------------------
(* Signing                                                                 *)

BySession(k) == [tx |-> k, by |-> call.params[k].sign]
IsLsig(k) == call.params[k].sign = "LogicSignature"
NotLsig == {k \in DOMAIN call.params : ~IsLsig(k)}
InWallet(k) == call.built[k].snd \in WalletAccounts

\* What a wallet may return for a transaction.  AlgoSigner is given no signers
\* for a logic signature, and how a multisignature is made; WalletConnect names
\* no signers for a logic signature, which a wallet reads as the sender.
Reply(k) ==
  CASE call.params[k].sign = "SecretKey" -> BySession(k)
    [] call.params[k].sign = "MultiSignature" ->
         IF call.kind = "web" THEN BySession(k) ELSE None
    [] OTHER -> IF call.kind = "wc" /\ InWallet(k) THEN [tx |-> k, by |-> "SecretKey"] ELSE None

\* Null stands for a transaction that the wallet did not sign.
Present(signed) ==
  FoldLeft(LAMBDA s, x : IF x = None THEN s ELSE Append(s, x), <<>>, signed)

\* MyAlgo is given only what it has to sign.
Answer ==
  LET replies == [k \in DOMAIN call.params |-> Reply(k)]
  IN  IF call.kind = "myalgo" THEN Present(replies) ELSE replies

\* AlgoSigner is asked if some transaction names an account to sign it.
AsksWallet ==
  IF call.kind = "web"
  THEN \E k \in DOMAIN call.params : call.params[k].sign = "SecretKey"
  ELSE NotLsig # {}

WalletSigns ==
  /\ call.kind = "wc" => wc.connected
  /\ call.kind = "myalgo" => \A k \in NotLsig : Reply(k) # None

InsertLsigsLast(signed) ==
  signed \o [j \in 1..Cardinality(DOMAIN call.params \ NotLsig) |->
               BySession(SetToSortSeq(DOMAIN call.params \ NotLsig, <)[j])]

\* splice(index, 0, blob) for every logic signature, in the order of the group.
InsertLsigs(signed) ==
  LET Splice(s, k) == IF IsLsig(k) THEN InsertAt(s, Min({k, Len(s) + 1}), BySession(k)) ELSE s
  IN  FoldLeft(Splice, signed, [k \in DOMAIN call.params |-> k])

SignedGroup(answer) ==
  IF answer = None /\ \A k \in DOMAIN call.params : ~IsLsig(k) THEN None
  ELSE Present(InsertLsigs(Default(answer, <<>>)))

SignGroup ==
  /\ pc = "signing" /\ call.kind # "algob"
  /\ \/ /\ AsksWallet /\ WalletSigns
        /\ call' = [call EXCEPT !.signed = SignedGroup(Answer)]
        /\ pc' = "sending"
     \/ /\ AsksWallet
        /\ Throw("wallet")
     \/ /\ ~AsksWallet
        /\ call' = [call EXCEPT !.signed = SignedGroup(None)]
        /\ pc' = "sending"
  /\ UNCHANGED <<wc, node>>

\* The deployer holds the keys; it signs no multisignature.
SignWithKeys ==
  /\ pc = "signing" /\ call.kind = "algob"
  /\ IF \E k \in DOMAIN call.params : call.params[k].sign = "MultiSignature"
     THEN Throw("signature")
     ELSE /\ call' = [call EXCEPT !.signed = [k \in DOMAIN call.params |-> BySession(k)]]
          /\ pc' = "sending"
  /\ UNCHANGED <<wc, node>>

\* signTx of makeAndSignTx: the sender signs.  AlgoSigner's answer is an array,
\* of which web-mode.ts takes the blob.
SignMade ==
  /\ pc = "making"
  /\ LET k == Len(call.signed) + 1 IN
     IF k > Len(call.built)
     THEN /\ pc' = IF call.built = <<>> THEN "threw" ELSE "sending"
          /\ call' = [call EXCEPT !.outcome = IF call.built = <<>> THEN "length" ELSE None]
     ELSE \/ /\ call.kind # "web" /\ InWallet(k)
             /\ call.kind = "wc" => wc.connected
             /\ call' = [call EXCEPT !.signed = Append(@, [tx |-> k, by |-> "SecretKey"])]
             /\ pc' = pc
          \/ Throw("wallet")
  /\ UNCHANGED <<wc, node>>

-----------------------------------------------------------------------------
(* Sending and waiting                                                     *)

Whole == [k \in DOMAIN call.params |-> BySession(k)]
Valid(tx) == tx.fv <= node.round + 1 /\ node.round < tx.lv

\* External: a group is accepted if it is whole, in its order, and signed as it
\* has to be.
Acceptable ==
  /\ call.signed = Whole /\ Whole # <<>>
  /\ call.grouped \/ Len(call.built) = 1
  /\ \A k \in DOMAIN call.built : Valid(call.built[k])

\* The node takes the group or refuses it; its answer, or the request, may be
\* lost on the way, and the session does not know which.
Send ==
  /\ pc = "sending"
  /\ \/ /\ Acceptable
        /\ node' = [node EXCEPT !.pool = call.built]
        /\ \/ /\ call' = [call EXCEPT !.from = node.round, !.at = node.round]
              /\ pc' = "polling"
           \/ Throw("network")
     \/ /\ Throw("rejected") \/ Throw("network")
        /\ UNCHANGED node
  /\ UNCHANGED wc

\* Mutant: what the node has is not looked at.
PollTrusting ==
  /\ pc = "polling"
  /\ pc' = "returned" /\ call' = [call EXCEPT !.receipt = node.round]
  /\ UNCHANGED <<wc, node>>

\* AlgoSigner's session does not look at the error of the pool.  A request that
\* fails ends the call: also one for the receipts of a group that is confirmed,
\* or for what its checkpoints record.
Poll ==
  /\ pc = "polling"
  /\ \/ CASE node.confirmed > 0 ->
               pc' = "returned" /\ call' = [call EXCEPT !.receipt = node.confirmed]
          [] node.error /\ call.kind # "web" -> Throw("pool")
          [] OTHER -> pc' = "waiting" /\ call' = [call EXCEPT !.at = @ + 1]
     \/ Throw("network")
  /\ UNCHANGED <<wc, node>>

\* Mutant: the session waits for as long as it takes.
WaitForBlockAgain ==
  /\ pc = "waiting" /\ node.round > call.at
  /\ pc' = "polling"
  /\ UNCHANGED <<call, wc, node>>

\* wait-for-block-after: the last wait is not followed by a look at the node.
WaitForBlock ==
  /\ pc = "waiting"
  /\ \/ /\ node.round > call.at
        /\ IF call.at < call.from + WaitRounds
           THEN pc' = "polling" /\ UNCHANGED call
           ELSE Throw("timeout")
     \/ Throw("network")
  /\ UNCHANGED <<wc, node>>

-----------------------------------------------------------------------------
(* The WalletConnect connection                                            *)

\* It matters only while a call of that session is under way.
Connecting == pc \in {"building", "signing", "making"} /\ call.kind = "wc"

\* A session that is active is killed first if that is forced, else it stays.
Create ==
  /\ Connecting
  /\ \E force \in BOOLEAN : wc' = [wc EXCEPT !.connected = @ /\ ~force]
  /\ UNCHANGED <<pc, call, node>>

Close ==
  /\ Connecting /\ wc.connected
  /\ wc' = [wc EXCEPT !.connected = FALSE]
  /\ UNCHANGED <<pc, call, node>>

OnConnect ==
  /\ Connecting /\ ~wc.connected
  /\ wc' = [connected |-> TRUE, accounts |-> WalletAccounts]
  /\ UNCHANGED <<pc, call, node>>

OnUpdate ==
  /\ Connecting /\ wc.connected
  /\ \E a \in SUBSET WalletAccounts : wc' = [wc EXCEPT !.accounts = a]
  /\ UNCHANGED <<pc, call, node>>

\* The accounts of the last session stay.
OnDisconnect ==
  /\ Connecting /\ wc.connected
  /\ wc' = [wc EXCEPT !.connected = FALSE]
  /\ UNCHANGED <<pc, call, node>>

-----------------------------------------------------------------------------
(* External: the network                                                   *)

\* A round passes; it may confirm the group, or the pool may give it up.
NextRound ==
  /\ \/ pc \in {"building", "signing", "making", "sending"} /\ node.round < EarlyRounds
     \/ pc \in {"polling", "waiting"} /\ node.round <= call.from + WaitRounds
  /\ \/ node' = [node EXCEPT !.round = @ + 1]
     \/ /\ node.pool # <<>> /\ node.confirmed = 0 /\ ~node.error
        /\ \A k \in DOMAIN node.pool : Valid(node.pool[k])
        /\ node' = [node EXCEPT !.round = @ + 1, !.confirmed = node.round + 1]
     \/ /\ node.pool # <<>> /\ node.confirmed = 0 /\ ~node.error
        /\ node' = [node EXCEPT !.error = TRUE]
  /\ UNCHANGED <<pc, call, wc>>

Done == pc \in {"returned", "threw"} /\ UNCHANGED vars

Next ==
  \/ ExecuteTx \/ ExecuteSDKTx \/ BuildTx \/ MakeTx
  \/ SignGroup \/ SignWithKeys \/ SignMade \/ Send \/ Poll \/ WaitForBlock
  \/ Create \/ Close \/ OnConnect \/ OnUpdate \/ OnDisconnect \/ NextRound \/ Done

\* A call goes on by itself once the wallet and the node have answered: they
\* answer in the end, and rounds pass.
Spec ==
  /\ Init /\ [][Next]_vars
  /\ WF_vars(BuildTx) /\ WF_vars(SignGroup) /\ WF_vars(SignWithKeys) /\ WF_vars(SignMade)
  /\ WF_vars(Send) /\ WF_vars(Poll) /\ WF_vars(WaitForBlock) /\ WF_vars(NextRound)

-----------------------------------------------------------------------------
(* What is asked                                                           *)

RolesAsked(d, missing) ==
  [r \in {AssetRoles[a] : a \in DOMAIN AssetRoles} |->
     IF Of(d, r) \in {None, Blank} THEN missing ELSE d[r]]
OpOf ==
  [CallApp |-> "callApp", OptInToApp |-> "optInToApp", CloseApp |-> "closeOut",
   ClearApp |-> "clearState", UpdateApp |-> "updateApp", DeleteApp |-> "deleteApp"]

\* What the parameters p ask for.  An asset all of whose addresses are cleared
\* is destroyed, a transfer of nothing to oneself opts in.
AskedFor(p) ==
  LET from == GetFromAddress(p)
      close == Of(p.payFlags, "closeRemainderTo")
  IN CASE p.type = "TransferAlgo" ->
            [op |-> "transferAlgo", to |-> p.toAccountAddr, amount |-> p.amountMicroAlgos,
             close |-> close]
       [] p.type = "TransferAsset" ->
            [op |-> IF p.amount = 0 /\ p.toAccountAddr = from THEN "optInToASA"
                    ELSE "transferAsset",
             asset |-> p.assetID, to |-> p.toAccountAddr, amount |-> p.amount, close |-> close]
       [] p.type = "OptInASA" ->
            [op |-> "optInToASA", asset |-> p.assetID, to |-> from, amount |-> 0, close |-> None]
       [] p.type = "RevokeAsset" ->
            [op |-> IF close = None THEN "revokeAsset" ELSE "throw",
             asset |-> p.assetID, to |-> p.recipient, amount |-> p.amount,
             target |-> p.revocationTarget]
       [] p.type = "FreezeAsset" ->
            [op |-> "freezeAsset", asset |-> p.assetID, target |-> p.freezeTarget,
             state |-> p.freezeState]
       [] p.type = "DeployASA" ->
            [op |-> "deployASA",
             def |-> RolesAsked(p.asaDef, None)
                     ++ [total |-> p.asaDef.total, asaName |-> p.asaName,
                         defaultFrozen |-> Of(p.asaDef, "defaultFrozen") = TRUE]]
       [] p.type = "ModifyAsset" /\ RolesAsked(p.fields, Blank) # RolesAsked(<<>>, Blank) ->
            [op |-> "modifyAsset", asset |-> p.assetID, fields |-> RolesAsked(p.fields, Blank)]
       [] \/ p.type = "ModifyAsset" /\ RolesAsked(p.fields, Blank) = RolesAsked(<<>>, Blank)
          \/ p.type = "DestroyAsset" ->
            [op |-> "destroyAsset", asset |-> p.assetID]
       [] p.type = "DeployApp" -> [op |-> "deployApp", args |-> NonEmpty(ArgsOf(p.appDefinition))]
       [] p.type = "KeyRegistration" -> [op |-> "nothing"]
       [] OTHER ->
            [op |-> OpOf[p.type], app |-> p.appID, args |-> NonEmpty(ArgsOf(p)),
             accounts |-> NonEmpty(Of(p, "accounts"))]

\* The transaction does what p asks for, at the fee and in the rounds it asks
\* for, and rekeys its sender as it asks if it closes nothing.
MeansWhat(tx, p) ==
  LET flags == p.payFlags
      closes == Of(tx, "close") # None \/ Of(tx, "aclose") # None
  IN  /\ tx.snd = GetFromAddress(p) /\ Effect(tx) = AskedFor(p)
      /\ RekeyOf(tx) = IF closes THEN tx.snd ELSE Of(flags, "rekeyTo")
      /\ Of(flags, "totalFee") # None => Default(Of(tx, "fee"), 0) = flags.totalFee
      /\ call.grouped /\ Truthy(Of(flags, "firstValid")) =>
           /\ tx.fv = flags.firstValid
           /\ Of(flags, "validRounds") # None => tx.lv = tx.fv + flags.validRounds

\* encTxToExecParams makes of a call of an application a plain one that names no
\* accounts: what is left of an opt-in or a deletion is not what was sent.
ReadsWhole(tx) ==
  LET e == Effect(tx)
  IN  /\ e.op \notin {"nothing", "deployApp"}
      /\ tx.type = "appl" => e.op = "callApp" /\ e.accounts = None

\* The runtime reads the transaction, and what signs it, as it stands, unless it
\* is of a kind that encTxToExecParams reduces.
ReadAlike(tx, p) ==
  LET sign == [sign |-> p.sign, fromAccount |-> Of(p, "fromAccount"),
               fromAccountAddr |-> Of(p, "fromAccountAddr")]
      read == EncTxToExecParams(tx, sign)
  IN  ReadsWhole(tx) /\ CanMake(read) =>
        LET again == MkTransaction(read, MkTxParams(read.payFlags, tx.fv))
        IN  again.snd = tx.snd /\ Effect(again) = Effect(tx)

-----------------------------------------------------------------------------
(* Properties                                                              *)

\* Two logic signatures with a transaction between them that the wallet signs.
Enclosed ==
  \E i, j, k \in DOMAIN call.params : i < j /\ j < k /\ IsLsig(i) /\ ~IsLsig(j) /\ IsLsig(k)
Multisig == \E k \in DOMAIN call.params : call.params[k].sign = "MultiSignature"

\* What a session sends is the group that was asked for: every transaction, in
\* order, signed as asked, and meaning what was asked, also to the runtime.  It
\* is claimed of the AlgoSigner session where no logic signatures enclose another
\* transaction and some key signs if there are multisignatures; of the
\* WalletConnect session where there are no multisignatures besides and the
\* wallet signs for no logic signature; of the others always.  Of other groups
\* nothing is said: their logic signatures may be put in wrong places (executeTx
\* of web-mode.ts:255, wallectconnect-mode.ts:287, myalgowallet-mode.ts:226,
\* tx.ts:283).
SentAsAsked ==
  pc = "sending" /\ call.grouped =>
    /\ call.kind \in {"algob", "myalgo"} => call.signed \in {Whole, None}
    /\ call.kind = "web" /\ ~Enclosed /\ (Multisig => AsksWallet) => call.signed = Whole
    /\ /\ call.kind = "wc" /\ ~Enclosed /\ ~Multisig
       /\ \A k \in DOMAIN call.params : IsLsig(k) => ~InWallet(k)
       => call.signed \in {Whole, None}
    /\ \A k \in DOMAIN call.params :
         LET p == Completed(call.kind, call.params[k]) IN
         MeansWhat(call.built[k], p) /\ ReadAlike(call.built[k], p)

\* What a call ends with can be relied on: a receipt is given only for a group
\* that the network has confirmed, with the round; the pool is blamed only for a
\* group that it gave up and that is not confirmed; time is up only after
\* WaitRounds; and after any error but these two and a failing request to the
\* node, the network has nothing of the group, and the call may be made again.
\* (After a failing request it may well be confirmed: sendAndWait and
\* waitForConfirmation of web-mode.ts:43-108, algo-operator.ts:138-170.)
ReceiptsTrue ==
  /\ pc = "returned" => node.confirmed > 0 /\ call.receipt = node.confirmed
  /\ pc = "threw" =>
       /\ call.outcome = "pool" => node.error /\ node.confirmed = 0
       /\ call.outcome = "timeout" => node.round > call.from + WaitRounds
       /\ node.pool # <<>> => call.outcome \in {"pool", "timeout", "network"}
  /\ node.confirmed > 0 => node.pool = call.built

\* Every call ends, by a receipt or by an error.
Ends == pc # "idle" ~> pc \in {"returned", "threw"}
=============================================================================
