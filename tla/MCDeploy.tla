----------------------------- MODULE MCDeploy -----------------------------
(***************************************************************************)
(* Small instances of Deploy: the programs of two or three scripts.        *)
(***************************************************************************)
EXTENDS Deploy

CONSTANTS main, test, A, B, C, k, v, w

Asa(x) == [do |-> "deploy", kind |-> "asa", name |-> x, tx |-> FALSE]
App(x) == [do |-> "deploy", kind |-> "app", name |-> x, tx |-> FALSE]
AsaTx(x) == [Asa(x) EXCEPT !.tx = TRUE]
AppTx(x) == [App(x) EXCEPT !.tx = TRUE]
Lsig(x) == [do |-> "lsig", name |-> x]
KV(key, value) == [do |-> "kv", key |-> key, val |-> value]
Update(x) == [do |-> "update", name |-> x]
DelAsa(x) == [do |-> "delete", kind |-> "asa", name |-> x]
DelApp(x) == [do |-> "delete", kind |-> "app", name |-> x]

OnEvery(calls) == [n \in Net |-> calls]

-----------------------------------------------------------------------------
(* Programs                                                                *)

\* The scripts share names, and the first one also deletes what it deployed; they
\* differ from network to network.
SharedNames ==
  << (main :> <<Asa(A), AppTx(B), DelAsa(A)>>) @@ (test :> <<AsaTx(A), Lsig(C)>>),
     (main :> <<App(B), Lsig(C)>>) @@ (test :> <<KV(k, v), App(B)>>),
     OnEvery(<<Asa(A), KV(k, v)>>) >>

\* The second script works on what the first one deployed, the third one on all.
LaterWork ==
  << OnEvery(<<App(A), KV(k, v)>>),
     OnEvery(<<Update(A), AsaTx(B)>>),
     OnEvery(<<KV(k, w), DelAsa(B), DelApp(A)>>) >>

\* Two entities for the first script.
TwoSteps == << OnEvery(<<Asa(A), AppTx(B)>>), OnEvery(<<Lsig(C), KV(k, v)>>) >>

-----------------------------------------------------------------------------
(* Lists of scripts                                                        *)

Sorted == {<<1, 2>>}
AnyOrder == {<<1, 2, 3>>, <<2, 1>>, <<1, 3, 2>>, <<3, 1, 2>>}
Repeated == {<<1, 2, 3>>, <<2, 1>>, <<3, 2, 2, 1>>}

-----------------------------------------------------------------------------
(* What the theorems ask of the scripts and the lists (DeployProofs) holds of *)
(* the instance on which their properties are checked.                        *)

ASSUME SharedNamesAreTidy ==
  Program = SharedNames => OwnWork /\ TidyWork /\ OneValue /\ Undisturbed

ASSUME AnyOrderHasNoScriptTwice == TaskLists = AnyOrder => NoScriptTwice
=============================================================================
