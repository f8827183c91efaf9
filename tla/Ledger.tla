------------------------------- MODULE Ledger -------------------------------
(***************************************************************************)
(* The ledger that @algo-builder/runtime keeps in memory: Algo balances,   *)
(* minimum balances, signing authority, Algorand Standard Assets and their *)
(* holdings (packages/runtime/src/ctx.ts, account.ts).  The module has no  *)
(* variables.  Every handler is an operator from a ledger to an outcome    *)
(*                                                                         *)
(*      [ok |-> the handler returned, s |-> the ledger it leaves]          *)
(*                                                                         *)
(* and a handler that throws leaves in s whatever it had already written:  *)
(* the code has no rollback of its own.                                    *)
(***************************************************************************)
EXTENDS Integers, FiniteSets, Sequences, Functions

CONSTANTS
  Addr,        \* account addresses: users, fee sink, logic signatures
  NoAddr,      \* "undefined" where an address is optional
  MaxAsset,    \* bound: how many assets can ever be created
  MinFee,      \* ALGORAND_MIN_TX_FEE
  AccountMin,  \* ALGORAND_ACCOUNT_MIN_BALANCE
  AssetFee     \* ASSET_CREATION_FEE

\* An address has 32 bytes: there are finitely many.
ASSUME LedgerAssumption ==
  /\ NoAddr \notin Addr /\ IsFiniteSet(Addr)
  /\ MaxAsset \in Nat /\ MinFee \in Nat /\ AccountMin \in Nat /\ AssetFee \in Nat

Asset == 1..MaxAsset

\* The addresses an asset definition delegates to, in the order in which
\* checkAndSetASAFields visits them; NoAddr is a blank field.
Role == {"manager", "reserve", "freeze", "clawback"}
RoleRank == [manager |-> 1, reserve |-> 2, freeze |-> 3, clawback |-> 4]
Roles == [Role -> Addr \cup {NoAddr}]
NoRoles == [r \in Role |-> NoAddr]

Definition ==
  [creator : Addr, total : Nat, defaultFrozen : BOOLEAN, roles : Roles]

\* One account per address; an address outside acct has the values of a new
\* AccountStore.  live holds the assets that assetDefs maps to an account which
\* still keeps their definition in createdAssets; ctr is assetCounter.
State ==
  [acct   : SUBSET Addr,
   amt    : [Addr -> Int],
   min    : [Addr -> Int],
   auth   : [Addr -> Addr],
   opted  : [Addr -> SUBSET Asset],
   units  : [Addr -> [Asset -> Nat]],
   frozen : [Addr -> SUBSET Asset],
   live   : SUBSET Asset,
   def    : [Asset -> Definition],
   ctr    : 0..MaxAsset]

TxType == {"pay", "keyreg", "create", "config", "transfer", "revoke", "freeze"}

\* One record shape for every transaction; a type reads the fields it needs.
\* signer is the address whose key (or program) signed, approved the verdict
\* of a logic signature's program or of a multisignature's threshold.  NoAddr is
\* the signer of a SignedTransaction without sig, sgnr and msig, and without an
\* entry in lsigMap: there is no signature that anybody would look at.
Tx ==
  [type : TxType, from : Addr, to : Addr, target : Addr, amt : Nat,
   asset : Asset, flag : BOOLEAN, roles : Roles,
   close : Addr \cup {NoAddr}, rekey : Addr \cup {NoAddr},
   signer : Addr \cup {NoAddr}, approved : BOOLEAN, fee : Nat, flat : BOOLEAN]

-----------------------------------------------------------------------------
(* Outcomes and small updates                                              *)

Ok(s)    == [ok |-> TRUE,  s |-> s]
Throw(s) == [ok |-> FALSE, s |-> s]

Debit(s, a, n)  == [s EXCEPT !.amt[a] = @ - n]
Credit(s, a, n) == [s EXCEPT !.amt[a] = @ + n]

AddUnits(s, a, c, n) == [s EXCEPT !.units[a][c] = @ + n]
SubUnits(s, a, c, n) == [s EXCEPT !.units[a][c] = @ - n]
MoveUnits(s, a, b, c, n) == AddUnits(SubUnits(s, a, c, n), b, c, n)

Sum(f) == FoldFunction(LAMBDA x, y : x + y, 0, f)

\* getAssetHolding finds a holding; getAssetDef finds a definition.
Holds(s, a, c) == c \in s.opted[a]
Unfrozen(s, a, c) == Holds(s, a, c) /\ c \notin s.frozen[a]

\* assertAccBalAboveMin looks at the type of the transaction being processed.
AboveMin(s, a, kind) == kind = "pay" => s.amt[a] >= s.min[a]

-----------------------------------------------------------------------------
(* Fees                                                                    *)

\* What deductFee charges: a fee that is not flat is raised to the minimum.
ChargedFee(tx) == IF tx.flat \/ tx.fee >= MinFee THEN tx.fee ELSE MinFee

\* calculateFeeCredit: the fees of a group are pooled.
FeesCovered(g) == Sum([i \in DOMAIN g |-> g[i].fee]) >= MinFee * Len(g)

\* A fee of nothing is not encoded: unless it is flat, BigInt throws for the NaN
\* that Math.max makes of it.
FeeKnown(tx) == tx.flat \/ tx.fee # 0

\* Mutant: the fee is taken whether or not the balance covers it.
DeductFeeUnchecked(s, tx) ==
  LET paid == Debit(s, tx.from, ChargedFee(tx))
  IN  IF FeeKnown(tx) /\ tx.from \in s.acct
        THEN [ok |-> AboveMin(paid, tx.from, tx.type), s |-> paid]
        ELSE Throw(s)

DeductFee(s, tx) ==
  LET paid == Debit(s, tx.from, ChargedFee(tx))
  IN  IF FeeKnown(tx) /\ tx.from \in s.acct /\ s.amt[tx.from] >= ChargedFee(tx)
        THEN [ok |-> AboveMin(paid, tx.from, tx.type), s |-> paid]
        ELSE Throw(s)

Unsigned(tx) == tx.signer = NoAddr

\* Mutant: the key of a rekeyed account is still good.
AuthorisedByOldKey(base, tx) ==
  \/ Unsigned(tx)
  \/ /\ tx.from \in base.acct
     /\ tx.signer \in {tx.from, base.auth[tx.from]}
     /\ tx.approved

\* The signature is checked against the accounts of the runtime's store
\* (base), not against those of the context that is being built.  Only what
\* is there is checked: the chain of conditions in processTransactions has no
\* last else, and a transaction without any signature is applied.
Authorised(base, tx) ==
  \/ Unsigned(tx)
  \/ /\ tx.from \in base.acct
     /\ tx.signer = base.auth[tx.from]
     /\ tx.approved

-----------------------------------------------------------------------------
(* Payments                                                                *)

\* Mutant: the remainder is what the sender had before the payment.
TransferAlgoStaleRest(s, tx) ==
  LET known  == [s EXCEPT !.acct = @ \cup {tx.to}]
      moved  == Credit(Debit(known, tx.from, tx.amt), tx.to, tx.amt)
      closed == Credit(Debit(moved, tx.from, moved.amt[tx.from]),
                       tx.close, s.amt[tx.from])
  IN  IF ~AboveMin(moved, tx.from, "pay") THEN Throw(moved)
      ELSE IF tx.close = NoAddr           THEN Ok(moved)
      ELSE IF tx.close \in moved.acct \ {tx.from} THEN Ok(closed)
      ELSE Throw(moved)

\* The receiver of a payment is registered on the fly.  The amount is moved
\* before the balance is checked, so a payment that throws may leave the
\* sender with a negative balance.
TransferAlgo(s, tx) ==
  LET known  == [s EXCEPT !.acct = @ \cup {tx.to}]
      moved  == Credit(Debit(known, tx.from, tx.amt), tx.to, tx.amt)
      closed == Credit(Debit(moved, tx.from, moved.amt[tx.from]),
                       tx.close, moved.amt[tx.from])
  IN  IF ~AboveMin(moved, tx.from, "pay") THEN Throw(moved)
      ELSE IF tx.close = NoAddr           THEN Ok(moved)
      ELSE IF tx.close \in moved.acct \ {tx.from} THEN Ok(closed)
      ELSE Throw(moved)

-----------------------------------------------------------------------------
(* Assets                                                                  *)

\* The creator is registered as a holder of the whole supply, never frozen.
\* bad stands for parameters that mkAssetCreateTx rejects; that happens, like
\* the check of the balance, when the holding already exists but the asset is
\* not yet in assetDefs.
DeployASA(s, a, total, defaultFrozen, roles, bad, kind) ==
  LET id   == s.ctr + 1
      made == [s EXCEPT
                 !.ctr          = id,
                 !.def[id]      = [creator |-> a, total |-> total,
                                   defaultFrozen |-> defaultFrozen, roles |-> roles],
                 !.min[a]       = @ + AssetFee,
                 !.opted[a]     = @ \cup {id},
                 !.units[a][id] = total]
  IN  IF a \notin s.acct THEN Throw(s)
      ELSE IF AboveMin(made, a, kind) /\ ~bad
        THEN Ok([made EXCEPT !.live = @ \cup {id}])
        ELSE Throw(made)

\* Opting in twice changes nothing and does not throw.
OptInToASA(s, a, c, kind) ==
  LET held == IF Holds(s, a, c) THEN s
              ELSE [s EXCEPT
                      !.min[a]    = @ + AssetFee,
                      !.opted[a]  = @ \cup {c},
                      !.frozen[a] = IF s.def[c].defaultFrozen THEN @ \cup {c} ELSE @]
  IN  IF c \in s.live /\ a \in s.acct
        THEN [ok |-> AboveMin(held, a, kind), s |-> held]
        ELSE Throw(s)

\* account.closeAsset: the holding and its minimum balance go.
CloseAsset(s, a, c) ==
  [s EXCEPT !.min[a]      = @ - AssetFee,
            !.opted[a]    = @ \ {c},
            !.frozen[a]   = @ \ {c},
            !.units[a][c] = 0]

\* Mutant: only the freeze flag of the receiver is looked at.
TransferAssetFromFrozen(s, tx) ==
  LET c     == tx.asset
      optIn == OptInToASA(s, tx.from, c, tx.type)
      moved == MoveUnits(s, tx.from, tx.to, c, tx.amt)
  IN  IF tx.amt = 0 THEN optIn
      ELSE IF /\ tx.close = NoAddr
              /\ Holds(s, tx.from, c) /\ Unfrozen(s, tx.to, c)
              /\ s.units[tx.from][c] >= tx.amt
        THEN Ok(moved) ELSE Throw(s)

\* Mutant: the holding is closed before the rest is moved out of it.
TransferAssetClosedFirst(s, tx) ==
  LET c      == tx.asset
      moved  == MoveUnits(s, tx.from, tx.to, c, tx.amt)
      closed == CloseAsset(moved, tx.from, c)
  IN  IF tx.amt = 0 /\ tx.from = tx.to THEN OptInToASA(s, tx.from, c, tx.type)
      ELSE IF ~(/\ Unfrozen(s, tx.from, c) /\ Unfrozen(s, tx.to, c)
                /\ s.units[tx.from][c] >= tx.amt) THEN Throw(s)
      ELSE IF tx.close = NoAddr THEN Ok(moved)
      ELSE IF tx.from # s.def[c].creator THEN Ok(closed)
      ELSE Throw(moved)

\* A transfer of nothing to oneself opts in.  Only a transfer of something
\* looks at the freeze flags of its two ends; closing looks at the flag of
\* the account the rest goes to.
TransferAsset(s0, tx) ==
  LET c      == tx.asset
      optIn  == IF tx.amt = 0 /\ tx.from = tx.to
                  THEN OptInToASA(s0, tx.from, c, tx.type) ELSE Ok(s0)
      s      == optIn.s
      moved  == MoveUnits(s, tx.from, tx.to, c, tx.amt)
      closed == CloseAsset(MoveUnits(moved, tx.from, tx.close, c,
                                     moved.units[tx.from][c]), tx.from, c)
      mayMove  == /\ optIn.ok
                  /\ Holds(s, tx.from, c) /\ Holds(s, tx.to, c)
                  /\ tx.amt # 0 => Unfrozen(s, tx.from, c) /\ Unfrozen(s, tx.to, c)
                  /\ s.units[tx.from][c] >= tx.amt
      mayClose == /\ tx.close \in Addr \ {tx.from, NoAddr}
                  /\ tx.from # s.def[c].creator
                  /\ Unfrozen(s, tx.close, c)
  IN  IF ~mayMove               THEN Throw(s)
      ELSE IF tx.close = NoAddr THEN Ok(moved)
      ELSE IF mayClose          THEN Ok(closed)
      ELSE Throw(moved)

\* Mutant: anyone may claw back.
RevokeAssetByAnyone(s, tx) ==
  LET c == tx.asset
  IN  IF /\ c \in s.live /\ tx.close = NoAddr
         /\ Holds(s, tx.target, c) /\ Holds(s, tx.to, c)
         /\ s.units[tx.target][c] >= tx.amt
        THEN Ok(MoveUnits(s, tx.target, tx.to, c, tx.amt))
        ELSE Throw(s)

\* A clawback ignores freeze flags and may not close the holding.
RevokeAsset(s, tx) ==
  LET c == tx.asset
  IN  IF /\ c \in s.live /\ s.def[c].roles["clawback"] = tx.from
         /\ tx.close = NoAddr
         /\ Holds(s, tx.target, c) /\ Holds(s, tx.to, c)
         /\ s.units[tx.target][c] >= tx.amt
        THEN Ok(MoveUnits(s, tx.target, tx.to, c, tx.amt))
        ELSE Throw(s)

FreezeAsset(s, tx) ==
  LET c == tx.asset
  IN  IF /\ c \in s.live /\ s.def[c].roles["freeze"] = tx.from
         /\ Holds(s, tx.target, c)
        THEN Ok([s EXCEPT !.frozen[tx.target] =
                   IF tx.flag THEN @ \cup {c} ELSE @ \ {c}])
        ELSE Throw(s)

\* checkAndSetASAFields overwrites every field that is set, blanks included,
\* and throws at the first blank field that the transaction tries to set.
ModifyAsset(s, tx) ==
  LET c   == tx.asset
      old == s.def[c].roles
      blocked(r) == old[r] = NoAddr /\ tx.roles[r] # NoAddr
      reached(r) == \A q \in Role : RoleRank[q] <= RoleRank[r] => ~blocked(q)
      new == [r \in Role |-> IF reached(r) /\ old[r] # NoAddr THEN tx.roles[r]
                             ELSE old[r]]
  IN  [ok |-> \A r \in Role : ~blocked(r),
       s  |-> [s EXCEPT !.def[c].roles = new]]

\* The holdings of every account go; only the creator's minimum balance falls.
DestroyAsset(s, tx) ==
  LET c == tx.asset
      a == s.def[c].creator
  IN  IF Holds(s, a, c) /\ s.units[a][c] = s.def[c].total
        THEN Ok([s EXCEPT !.live   = @ \ {c},
                          !.min[a] = @ - AssetFee,
                          !.opted  = [b \in Addr |-> s.opted[b] \ {c}],
                          !.frozen = [b \in Addr |-> s.frozen[b] \ {c}],
                          !.units  = [b \in Addr |-> [s.units[b] EXCEPT ![c] = 0]]])
        ELSE Throw(s)

\* A configuration that sets no address is a destruction.
ConfigAsset(s, tx) ==
  IF tx.asset \notin s.live \/ s.def[tx.asset].roles["manager"] # tx.from THEN Throw(s)
  ELSE IF tx.roles = NoRoles THEN DestroyAsset(s, tx)
  ELSE ModifyAsset(s, tx)

-----------------------------------------------------------------------------
(* One transaction of a group                                              *)

Dispatch(s, tx) ==
  CASE tx.type = "pay"      -> TransferAlgo(s, tx)
    [] tx.type = "keyreg"   -> Ok(s)
    [] tx.type = "create"   -> DeployASA(s, tx.from, tx.amt, tx.flag, tx.roles, FALSE, tx.type)
    [] tx.type = "config"   -> ConfigAsset(s, tx)
    [] tx.type = "transfer" -> TransferAsset(s, tx)
    [] tx.type = "revoke"   -> RevokeAsset(s, tx)
    [] tx.type = "freeze"   -> FreezeAsset(s, tx)

\* Closing (Algo or asset) gives the account back its own key; otherwise the
\* transaction's rekeyTo applies.
Rekey(s, tx) ==
  IF tx.close # NoAddr THEN [s EXCEPT !.auth[tx.from] = tx.from]
  ELSE IF tx.rekey # NoAddr THEN [s EXCEPT !.auth[tx.from] = tx.rekey]
  ELSE s

\* The fee is taken before the signature is looked at.
ApplyTx(base, s, tx) ==
  LET paid == DeductFee(s, tx)
      done == Dispatch(paid.s, tx)
  IN  IF ~paid.ok \/ ~Authorised(base, tx) THEN Throw(paid.s)
      ELSE IF done.ok THEN Ok(Rekey(done.s, tx))
      ELSE done

-----------------------------------------------------------------------------
(* Writes outside transactions                                             *)

\* Mutant: a reloaded account keeps its holdings.
NewAccountsKeepHoldings(s, addrs, balance) ==
  LET Renew(f, v) == [a \in Addr |-> IF a \in addrs THEN v ELSE f[a]]
  IN  [s EXCEPT !.acct = @ \cup addrs,
                !.amt  = Renew(@, balance),
                !.min  = Renew(@, AccountMin)]

\* A new AccountStore replaces whatever account each address of addrs had, with
\* its holdings and the assets it created.
NewAccounts(s, addrs, balance) ==
  LET Renew(f, v) == [a \in Addr |-> IF a \in addrs THEN v ELSE f[a]]
  IN  [s EXCEPT !.acct   = @ \cup addrs,
                !.amt    = Renew(@, balance),
                !.min    = Renew(@, AccountMin),
                !.auth   = [a \in Addr |-> IF a \in addrs THEN a ELSE s.auth[a]],
                !.opted  = Renew(@, {}),
                !.units  = Renew(@, [c \in Asset |-> 0]),
                !.frozen = Renew(@, {}),
                !.live   = {c \in @ : s.def[c].creator \notin addrs}]

\* The store after the constructor: the accounts of funds, nothing else.
Genesis(accounts, funds) ==
  [acct   |-> accounts,
   amt    |-> [a \in Addr |-> IF a \in accounts THEN funds[a] ELSE 0],
   min    |-> [a \in Addr |-> AccountMin],
   auth   |-> [a \in Addr |-> a],
   opted  |-> [a \in Addr |-> {}],
   units  |-> [a \in Addr |-> [c \in Asset |-> 0]],
   frozen |-> [a \in Addr |-> {}],
   live   |-> {},
   def    |-> [c \in Asset |-> [creator |-> CHOOSE a \in accounts : TRUE, total |-> 0,
                                defaultFrozen |-> FALSE, roles |-> NoRoles]],
   ctr    |-> 0]

-----------------------------------------------------------------------------
(* Properties of one ledger                                                *)

\* The minimum balance pays for every holding.  (It may exceed the sum: the
\* destruction of an asset does not lower it for other holders.)
MinCoversHoldings(s) ==
  \A a \in Addr : s.min[a] >= AccountMin + AssetFee * Cardinality(s.opted[a])

\* Freeze flags and units exist only in holdings, holdings only in accounts,
\* and only of assets that were created.
HoldingsWellFormed(s) ==
  \A a \in Addr :
    /\ s.frozen[a] \subseteq s.opted[a]
    /\ \A c \in Asset \ s.opted[a] : s.units[a][c] = 0
    /\ s.opted[a] \subseteq 1..s.ctr
    /\ s.opted[a] # {} => a \in s.acct

\* The creator of a live asset never loses its holding.
CreatorHolds(s) == \A c \in s.live : c \in s.opted[s.def[c].creator]

NonNegative(s) == \A a \in Addr : s.amt[a] >= 0

SupplyConserved(s) ==
  \A c \in s.live : Sum([a \in Addr |-> s.units[a][c]]) = s.def[c].total
=============================================================================
