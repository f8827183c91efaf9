----------------------------- MODULE MCRuntime -----------------------------
(***************************************************************************)
(* Small instances of Runtime.  alice and bob are users, lsig is a logic   *)
(* signature, sink is the fee sink that the constructor adds.              *)
(***************************************************************************)
EXTENDS RuntimeRefinement, TLC

CONSTANTS alice, bob, lsig, sink

MCAddr == {alice, bob, lsig, sink}
MCInitialAccounts == {alice, bob, sink}
MCFunds == (alice :> 9) @@ (bob :> 6) @@ (sink :> 1)

-----------------------------------------------------------------------------
(* Transactions: a blank one, and the fields that differ                   *)

Blank ==
  [type |-> "pay", from |-> alice, to |-> alice, target |-> alice, amt |-> 0, asset |-> 1,
   flag |-> FALSE, roles |-> NoRoles, close |-> NoAddr, rekey |-> NoAddr,
   signer |-> alice, approved |-> TRUE, fee |-> MinFee, flat |-> TRUE]

By(x) == [Blank EXCEPT !.from = x, !.signer = x]
SignedBy(y, tx) == [tx EXCEPT !.signer = y]
Bare(tx) == [tx EXCEPT !.signer = NoAddr]

Pay(x, y, n) == [By(x) EXCEPT !.to = y, !.amt = n]

Axfer(x, y, c, n) ==
  [By(x) EXCEPT !.type = "transfer", !.to = y, !.asset = c, !.amt = n]

-----------------------------------------------------------------------------
(* Payments, closings, rekeyings, logic signatures and pooled fees         *)

PayTxs ==
  { Pay(alice, bob, 1),
    Pay(bob, alice, 2),
    Pay(alice, lsig, 4),                  \* funds, or creates, lsig
    Pay(lsig, bob, 1),
    [Pay(lsig, bob, 1) EXCEPT !.approved = FALSE],  \* the program rejects
    [Pay(alice, bob, 1) EXCEPT !.close = bob],
    [Pay(lsig, alice, 0) EXCEPT !.close = lsig],  \* closes to itself
    [Pay(alice, alice, 0) EXCEPT !.rekey = bob],
    SignedBy(bob, [Pay(alice, bob, 1) EXCEPT !.rekey = alice]),
    [Pay(alice, bob, 1) EXCEPT !.fee = 0],  \* pays no fee of its own
    [Pay(bob, alice, 1) EXCEPT !.fee = 2 * MinFee],  \* pays for two
    [By(bob) EXCEPT !.type = "keyreg", !.fee = 1, !.flat = FALSE],  \* raised to MinFee
    [By(bob) EXCEPT !.type = "keyreg", !.fee = 0, !.flat = FALSE],  \* throws
    Bare(Pay(bob, alice, 1)),             \* without any signature
    SignedBy(bob, Pay(lsig, bob, 1)) }    \* with that of another account

\* Pairs in which the first transaction matters to the second one: it pays the
\* fee, hands over the key, brings or takes the funds.
PayPairs ==
  {<<t, u>> : t \in {Pay(alice, lsig, 4),
                     [Pay(alice, bob, 1) EXCEPT !.close = bob],
                     [Pay(alice, alice, 0) EXCEPT !.rekey = bob],
                     [Pay(bob, alice, 1) EXCEPT !.fee = 2 * MinFee]},
              u \in {Pay(bob, alice, 2),
                     Pay(lsig, bob, 1),
                     Bare(Pay(lsig, bob, 1)),  \* nobody looks for lsig in the store
                     SignedBy(bob, [Pay(alice, bob, 1) EXCEPT !.rekey = alice]),
                     [Pay(alice, bob, 1) EXCEPT !.fee = 0],
                     [By(bob) EXCEPT !.type = "keyreg", !.fee = 1, !.flat = FALSE]}}

MCPayGroups == {<<t>> : t \in PayTxs} \cup PayPairs

-----------------------------------------------------------------------------
(* The life of assets                                                      *)

ARoles == [NoRoles EXCEPT !["manager"] = alice, !["freeze"] = alice, !["clawback"] = bob]
BRoles == [NoRoles EXCEPT !["manager"] = alice, !["clawback"] = alice]
CRoles == [NoRoles EXCEPT !["manager"] = alice, !["freeze"] = bob]

Create(x, n, frozen, roles) ==
  [By(x) EXCEPT !.type = "create", !.amt = n, !.flag = frozen, !.roles = roles]
Config(x, c, roles) ==
  [By(x) EXCEPT !.type = "config", !.asset = c, !.roles = roles]
Freeze(x, y, c, on) ==
  [By(x) EXCEPT !.type = "freeze", !.asset = c, !.target = y, !.flag = on]
Revoke(x, y, z, c, n) ==
  [By(x) EXCEPT !.type = "revoke", !.asset = c, !.target = y, !.to = z, !.amt = n]
CloseTo(x, y, c, n) == [Axfer(x, y, c, n) EXCEPT !.close = y]

AssetTxs ==
  { Create(alice, 2, TRUE, ARoles),
    Axfer(bob, bob, 1, 0),                \* opt-in
    Axfer(alice, bob, 1, 1),
    Axfer(bob, alice, 1, 1),
    Bare(Axfer(bob, alice, 1, 1)),        \* without any signature
    SignedBy(alice, Axfer(bob, alice, 1, 1)),
    SignedBy(bob, Revoke(alice, bob, alice, 1, 1)),
    CloseTo(bob, alice, 1, 1),
    CloseTo(bob, alice, 1, 0),            \* also of a frozen holding
    CloseTo(alice, bob, 1, 0),            \* the creator may not
    Revoke(bob, alice, bob, 1, 1),
    Revoke(bob, bob, alice, 1, 1),
    Revoke(alice, bob, alice, 1, 2),
    Freeze(alice, bob, 1, TRUE),
    Freeze(alice, bob, 1, FALSE),
    Freeze(alice, alice, 1, TRUE),
    Config(alice, 1, BRoles),             \* clears freeze, moves clawback
    Config(alice, 1, CRoles),             \* throws once freeze is blank
    Config(alice, 1, NoRoles) }           \* destroys

AssetPairs ==
  {<<t, u>> : t \in {Create(alice, 2, TRUE, ARoles), Axfer(bob, bob, 1, 0),
                     Axfer(alice, bob, 1, 1), CloseTo(bob, alice, 1, 1),
                     Config(alice, 1, BRoles), Revoke(bob, bob, alice, 1, 1)},
              u \in AssetTxs}

MCAssetGroups == {<<t>> : t \in AssetTxs} \cup AssetPairs

-----------------------------------------------------------------------------
(* Direct calls                                                            *)

Deploy(frozen, bad, optIns) ==
  [creator |-> alice, total |-> 2, defaultFrozen |-> frozen, roles |-> ARoles,
   bad |-> bad, optIns |-> optIns]

MCDeployments == {Deploy(TRUE, FALSE, <<bob, lsig>>), Deploy(FALSE, TRUE, <<>>)}

MCOptIns == {[acct |-> bob, asset |-> 1]}

MCSmallFunds == (alice :> 4) @@ (bob :> 1) @@ (sink :> 1)

\* Groups that interleave with direct calls.
MCMixedGroups ==
  { <<Create(alice, 2, FALSE, ARoles)>>,
    <<CloseTo(bob, alice, 1, 0)>>,
    <<Config(alice, 1, NoRoles)>>,
    <<Pay(alice, lsig, 1)>>,
    <<Axfer(alice, bob, 1, 1), Pay(alice, bob, 9)>> }  \* throws half-way

-----------------------------------------------------------------------------
(* Whole groups                                                            *)

\* Groups of up to three transactions that fail at every place, some only
\* because of what an earlier transaction of the same group did.
MCAtomicGroups ==
  { <<Create(alice, 2, TRUE, ARoles), Axfer(bob, bob, 1, 0)>>,
    <<Axfer(bob, bob, 1, 0), Axfer(alice, bob, 1, 1)>>,  \* bob is frozen by default
    <<Freeze(alice, bob, 1, FALSE), Axfer(alice, bob, 1, 1), Freeze(alice, bob, 1, TRUE)>>,
    <<Pay(alice, bob, 1), CloseTo(bob, alice, 1, 0)>>,
    <<Revoke(bob, alice, bob, 1, 1), Revoke(bob, alice, bob, 1, 1), Revoke(bob, alice, bob, 1, 1)>>,
    <<Config(alice, 1, BRoles), Freeze(alice, bob, 1, TRUE)>>,  \* the role has just gone
    <<Revoke(alice, bob, alice, 1, 1), Config(alice, 1, NoRoles)>>,
    <<[Pay(alice, alice, 0) EXCEPT !.rekey = bob], Pay(alice, bob, 1)>>,  \* signed by the old key
    <<SignedBy(bob, [Pay(alice, bob, 1) EXCEPT !.rekey = alice]), Pay(bob, alice, 1)>>,
    <<Pay(alice, lsig, 5), Pay(lsig, bob, 2)>>,  \* spends what it receives
    <<[Pay(alice, bob, 0) EXCEPT !.close = bob], Pay(bob, lsig, 1)>> }

MCGroups == MCPayGroups \cup MCAtomicGroups

=============================================================================
