---------------------------- MODULE Checkpoints ----------------------------
(***************************************************************************)
(* The checkpoints of `algob deploy` and the repository that a task builds *)
(* from them (packages/algob/src/lib/script-checkpoints.ts).  The module   *)
(* has no variables: a merge is an operator from a repository to           *)
(*                                                                         *)
(*      [ok |-> the merge did not throw, r |-> the repository it leaves]   *)
(*                                                                         *)
(* Assets, applications and logic signatures share one name space, because *)
(* isDefined and the map from names to scripts cover the three of them.    *)
(***************************************************************************)
EXTENDS Integers, FiniteSets, Sequences, SequencesExt, TLC

CONSTANTS
  NScript,  \* scripts are 1..NScript, in the order of their file names
  Net,      \* networks
  Name,     \* names of assets, applications and logic signatures
  Key,      \* keys of metadata
  Value     \* values of metadata

ASSUME ScriptAssumption == NScript \in Nat \ {0}

Script == 1..NScript

Kind == {"asa", "app", "lsig"}

\* What is recorded of one name.  id is the index the network gave the entity
\* (0 for logic signatures, which do not live on the network).  Of the versions
\* of an application only the last one is ever read.
Info == [kind : Kind, id : Nat, deleted : BOOLEAN]

\* A map from some members of D into R.
PartialMap(f, D, R) == DOMAIN f \subseteq D /\ f \in [DOMAIN f -> R]

IsCheckpoint(cp) ==
  /\ DOMAIN cp = {"defs", "meta"}
  /\ PartialMap(cp.defs, Name, Info) /\ PartialMap(cp.meta, Key, Value)

\* The contents of one file.  A file that does not exist loads as an empty map.
IsCheckpointFile(cps) == DOMAIN cps \subseteq Net /\ \A n \in DOMAIN cps : IsCheckpoint(cps[n])

NoMap == [x \in {} |-> x]
NoCheckpoint == [defs |-> NoMap, meta |-> NoMap]

NamesIn(cps) == UNION {DOMAIN cps[n].defs : n \in DOMAIN cps}

-----------------------------------------------------------------------------
(* The repository                                                          *)

\* stripped: the file of the current script; preceding: the files merged so far;
\* all: the files of every script; owner: the script that defines a name.
IsRepo(r) ==
  /\ DOMAIN r = {"stripped", "preceding", "all", "owner"}
  /\ \A part \in {"stripped", "preceding", "all"} : IsCheckpointFile(r[part])
  /\ PartialMap(r.owner, Name, Script)

EmptyRepo == [stripped |-> NoMap, preceding |-> NoMap, all |-> NoMap, owner |-> NoMap]

\* The checkpoint of network n, empty if there is none.
At(cps, n) == IF n \in DOMAIN cps THEN cps[n] ELSE NoCheckpoint

\* The map f with the entries of g written over it.  (The provers cannot expand
\* the operator @@ of TLC.)
Override(f, g) == [x \in DOMAIN f \cup DOMAIN g |-> IF x \in DOMAIN g THEN g[x] ELSE f[x]]

\* appendToCheckpoint: later values win, but an asset or application that is
\* already there must be the same.  Logic signatures are not compared.
Append1(a, b) == [defs |-> Override(a.defs, b.defs), meta |-> Override(a.meta, b.meta)]

Clash(a, b) ==
  \E x \in DOMAIN a.defs \cap DOMAIN b.defs :
    /\ "lsig" \notin {a.defs[x].kind, b.defs[x].kind}
    /\ a.defs[x] # b.defs[x]

MergeInto(target, cps) ==
  Override(target, [n \in DOMAIN cps |-> Append1(At(target, n), cps[n])])

CanMerge(target, cps) == \A n \in DOMAIN target \cap DOMAIN cps : ~Clash(target[n], cps[n])

\* mergeToGlobal: a name belongs to the script that defined it first, on
\* whatever network.
MergeToGlobal(r, cps, s) ==
  [ok |-> /\ \A x \in NamesIn(cps) \cap DOMAIN r.owner : r.owner[x] = s
          /\ CanMerge(r.all, cps),
   r  |-> [r EXCEPT !.owner = Override([x \in NamesIn(cps) |-> s], @),
                    !.all   = MergeInto(@, cps)]]

\* Mutant of Merge: the file does not become the current one.
MergeBeside(r, cps, s) ==
  LET o == MergeToGlobal(r, cps, s)
  IN  [ok |-> CanMerge(r.preceding, cps) /\ o.ok,
       r  |-> [o.r EXCEPT !.preceding = MergeInto(@, cps)]]

\* merge: the file becomes the current one.
Merge(r, cps, s) ==
  LET o == MergeToGlobal(r, cps, s)
  IN  [ok |-> CanMerge(r.preceding, cps) /\ o.ok,
       r  |-> [stripped |-> cps, preceding |-> MergeInto(r.preceding, cps),
               all |-> o.r.all, owner |-> o.r.owner]]

Between(a, b) == [i \in 1..(b - a + 1) |-> a + i - 1]

\* loadCheckpointsRecursive: the files of all the scripts, for owner and all.
\* Here and below the first merge that throws is the last one.
LoadAll(files) ==
  FoldLeft(LAMBDA o, s : IF o.ok THEN MergeToGlobal(o.r, files[s], s) ELSE o,
           [ok |-> TRUE, r |-> EmptyRepo], Between(1, NScript))

\* loadCheckpointsIntoCPData: the files of the scripts from a to b, in order.
LoadRange(r, files, a, b) ==
  FoldLeft(LAMBDA o, s : IF o.ok THEN Merge(o.r, files[s], s) ELSE o,
           [ok |-> TRUE, r |-> r], Between(a, b))

\* registerASA, registerSSC and registerLsig write into the three checkpoints of
\* the network, and not into owner; so does putMetadata.
Record(r, n, cp) ==
  LET Put(cps) == Override(cps, [m \in {n} |-> Append1(At(cps, n), cp)])
  IN  [stripped |-> Put(r.stripped), preceding |-> Put(r.preceding), all |-> Put(r.all),
       owner |-> r.owner]

Register(r, n, x, info) == Record(r, n, [NoCheckpoint EXCEPT !.defs = [y \in {x} |-> info]])
PutMetadata(r, n, k, v) == Record(r, n, [NoCheckpoint EXCEPT !.meta = [j \in {k} |-> v]])

\* Mutant of IsDefined: it sees the preceding scripts only.
IsDefinedBefore(r, n, x) == x \in DOMAIN At(r.preceding, n).defs

\* isDefined sees every script; the getters see the preceding ones only.
IsDefined(r, n, x) == x \in DOMAIN At(r.all, n).defs
Visible(r, n, x, kind) ==
  x \in DOMAIN At(r.preceding, n).defs /\ At(r.preceding, n).defs[x].kind = kind
InfoOf(r, n, x) == r.preceding[n].defs[x]
HasKey(r, n, k) == k \in DOMAIN At(r.preceding, n).meta
Metadata(r, n, k) == r.preceding[n].meta[k]
=============================================================================
