---------------------------- MODULE AtomicLedger ----------------------------
(***************************************************************************)
(* What the Runtime promises its callers: one ledger, on which a group of  *)
(* transactions takes effect as a whole or not at all.  A call that throws *)
(* changes nothing.                                                        *)
(***************************************************************************)
EXTENDS Ledger, SequencesExt

CONSTANTS
  InitialAccounts, Funds, Groups, Deployments, OptIns, Lsigs

VARIABLE ledger

\* The outcome of a whole group: every transaction sees the effect of those
\* before it and is authorised by the ledger as it was before the group.
ApplyGroup(s, g) ==
  FoldLeft(LAMBDA o, tx : IF o.ok THEN ApplyTx(s, o.s, tx) ELSE o, Ok(s), g)

Kinds == TxType \cup {"none"}

\* An operation with outcome o takes effect only if it succeeds.
Effect(o) == o.ok /\ ledger' = o.s

Init == ledger = Genesis(InitialAccounts, Funds)

Submit(g) == FeesCovered(g) /\ IsInjective(g) /\ Effect(ApplyGroup(ledger, g))

OptIn(a, c) == \E k \in Kinds : Effect(OptInToASA(ledger, a, c, k))

Deploy(d) ==
  /\ ledger.ctr < MaxAsset
  /\ \E k \in Kinds :
       Effect(DeployASA(ledger, d.creator, d.total, d.defaultFrozen, d.roles, d.bad, k))

\* A logic signature gets an empty account when it is first loaded.
Load(l) == l \notin ledger.acct /\ ledger' = NewAccounts(ledger, {l}, 0)

Next ==
  \/ \E g \in Groups : Submit(g)
  \/ \E o \in OptIns : OptIn(o.acct, o.asset)
  \/ \E d \in Deployments :
       Deploy(d) \/ \E i \in DOMAIN d.optIns : OptIn(d.optIns[i], ledger.ctr)
  \/ \E l \in Lsigs : Load(l)

Spec == Init /\ [][Next]_ledger
=============================================================================
