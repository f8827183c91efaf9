------------------------------ MODULE Deploy ------------------------------
(***************************************************************************)
(* The tasks `algob deploy` and `algob run`: a list of scripts is run one  *)
(* after the other, each one deploys assets, applications and logic        *)
(* signatures through the deployer, and what it deployed is kept in a      *)
(* checkpoint file, so that the next task skips the script                 *)
(* (packages/algob/src: builtin-tasks/deploy.ts, builtin-tasks/run.ts,     *)
(* internal/deployer.ts, lib/tx.ts, lib/script-checkpoints.ts).            *)
(*                                                                         *)
(* One task runs at a time and it is sequential, but every call to the     *)
(* network may fail, before or after it took effect, and the process may   *)
(* stop between any two calls: the files and the chain outlive it, the     *)
(* repository in memory does not.                                          *)
(***************************************************************************)
EXTENDS Checkpoints

CONSTANTS
  Program,     \* Program[s][n]: the calls script s makes on network n
  TaskLists,   \* the lists of scripts that `algob deploy` may be given
  Forces,      \* whether it may be given --force, must be, or both
  RunScripts,  \* the scripts that `algob run` may be given
  Faults,      \* what may go wrong: "stop", "network", "answer", "optin"
  MaxFault,    \* bound: how often something goes wrong
  MaxChain     \* bound: what deploys anew starts only with at most MaxChain entities

\* The calls of a script: deploy an entity (with a call of the deployer or, tx,
\* with executeTx), make a logic signature, keep a value, update an application,
\* delete an entity.  Their arguments do not depend on earlier answers.
Op ==
  [do : {"deploy"}, kind : {"asa", "app"}, name : Name, tx : BOOLEAN]
    \cup [do : {"lsig"}, name : Name]
    \cup [do : {"kv"}, key : Key, val : Value]
    \cup [do : {"update"}, name : Name]
    \cup [do : {"delete"}, kind : {"asa", "app"}, name : Name]

ASSUME ProgramAssumption ==
  /\ DOMAIN Program = Script
  /\ \A s \in Script : /\ DOMAIN Program[s] = Net
                       /\ \A n \in Net : Program[s][n] \in Seq(Op)

ASSUME TaskAssumption ==
  /\ \A l \in TaskLists : l \in Seq(Script) /\ l # <<>>
  /\ Forces \subseteq BOOLEAN
  /\ RunScripts \subseteq Script
  /\ Faults \subseteq {"stop", "network", "answer", "optin"}
  /\ MaxFault \in Nat /\ MaxChain \in Nat

VARIABLES
  chain,   \* per network, the assets and applications created, by index
  files,   \* the checkpoint file of each script
  task,    \* the network of the current task, --force, and whether it may write
  todo,    \* the scripts it has to run, the current one first; empty: no task
  at,      \* the first script of the directory not merged yet; 0: nothing loaded
  repo,    \* the repository in memory
  op,      \* the next call of the current script; 0: it has not started
  faults   \* how often something went wrong

vars == <<chain, files, task, todo, at, repo, op, faults>>

Entity == [name : Name, kind : {"asa", "app"}, gone : BOOLEAN]
Task == [net : Net, force : BOOLEAN, write : BOOLEAN]

Init ==
  /\ chain = [n \in Net |-> <<>>]
  /\ files = [s \in Script |-> NoMap]
  /\ task \in Task
  /\ todo = <<>>
  /\ at = 0
  /\ repo = EmptyRepo
  /\ op = 0
  /\ faults = 0

-----------------------------------------------------------------------------
(* Tasks                                                                   *)

Idle == todo = <<>>
HasRoom == \A n \in Net : Len(chain[n]) <= MaxChain

\* executeDeployTask: --force first removes the files of the scripts, with the
\* checkpoints of every network in them.
StartDeploy(n, list, force) ==
  /\ Idle /\ (force => HasRoom)
  /\ task' = [net |-> n, force |-> force, write |-> TRUE]
  /\ todo' = list
  /\ files' = [s \in Script |-> IF force /\ s \in ToSet(list) THEN NoMap ELSE files[s]]
  /\ UNCHANGED <<chain, at, repo, op, faults>>

\* executeRunTask: a single script, whatever its checkpoint, and nothing is kept.
StartRun(n, s) ==
  /\ Idle /\ HasRoom
  /\ task' = [net |-> n, force |-> TRUE, write |-> FALSE]
  /\ todo' = <<s>>
  /\ UNCHANGED <<chain, files, at, repo, op, faults>>

\* The task is over, and what was in memory is lost.
EndTask ==
  /\ todo' = <<>> /\ at' = 0 /\ repo' = EmptyRepo /\ op' = 0
  /\ UNCHANGED task

Current == Head(todo)  \* the current script

\* Mutant of Continue: the list is not partitioned into sorted parts.
ContinueUnpartitioned(r, next) ==
  IF Tail(todo) = <<>>
  THEN EndTask
  ELSE todo' = Tail(todo) /\ at' = next /\ repo' = r /\ op' = 0 /\ UNCHANGED task

\* The loop of runScripts goes on with repository r, all scripts before next
\* merged; a script before the current one in the order of names begins a new
\* partition, which reloads everything.
Continue(r, next) ==
  IF Tail(todo) = <<>>
  THEN EndTask
  ELSE /\ todo' = Tail(todo)
       /\ IF Head(Tail(todo)) < Current
          THEN at' = 0 /\ repo' = EmptyRepo
          ELSE at' = next /\ repo' = r
       /\ op' = 0
       /\ UNCHANGED task

\* The beginning of runScripts.
Load ==
  /\ ~Idle /\ at = 0
  /\ LET o == LoadAll(files)
     IN  IF o.ok
         THEN at' = 1 /\ repo' = o.r /\ UNCHANGED <<task, todo, op>>
         ELSE EndTask
  /\ UNCHANGED <<chain, files, faults>>

\* splitAfter: the scripts up to the current one, or all that are left when the
\* current one has already been taken (it is twice in the list).
LastToMerge == IF at <= Current THEN Current ELSE NScript

\* The files merged before the current script, its own the last of them.  A
\* script that is merged for the second time may have recorded entries that are
\* not deeply equal to what the YAML file gives back (same = FALSE).
Merged(same) ==
  LET o == LoadRange(repo, files, at, IF at <= Current THEN Current - 1 ELSE NScript)
      p == Merge(o.r, files[Current], Current)
  IN  [p EXCEPT !.ok = o.ok /\ @ /\ (at <= Current \/ same \/ NamesIn(files[Current]) = {})]

\* Mutant of HasCheckpoint: a checkpoint on any network counts.
HasSomeCheckpoint(r) == DOMAIN r.stripped # {}

\* networkExistsInCurrentCP
HasCheckpoint(r) == task.net \in DOMAIN r.stripped

Enter(same) ==
  /\ ~Idle /\ at > 0 /\ op = 0
  /\ LET o == Merged(same)
     IN  \/ /\ ~o.ok
            /\ EndTask
         \/ /\ o.ok /\ ~task.force /\ HasCheckpoint(o.r)
            /\ Continue(o.r, LastToMerge + 1)
         \/ /\ o.ok /\ (task.force \/ ~HasCheckpoint(o.r))
            /\ at' = LastToMerge + 1 /\ repo' = o.r /\ op' = 1
            /\ UNCHANGED <<task, todo>>
  /\ UNCHANGED <<chain, files, faults>>

-----------------------------------------------------------------------------
(* The calls of a script                                                   *)

Calls == Program[Current][task.net]
Calling(do) == ~Idle /\ op \in DOMAIN Calls /\ Calls[op].do = do
Call == Calls[op]

\* Mutant of Save: everything the script can see is written.
SavePreceding(r) == files' = [files EXCEPT ![Current] = r.preceding]

\* persistCheckpoint
Save(r) == files' = [files EXCEPT ![Current] = r.stripped]

\* Mutant of Throw: what the script did is saved in any case.
ThrowSaved == EndTask /\ Save(repo)

\* An exception ends the task; what the script did so far is saved or not.
Throw == EndTask /\ UNCHANGED files
SaveAndThrow(r) == EndTask /\ Save(r)

\* Mutant of Fail: nothing is saved.
FailUnsaved(r) == Throw

\* What a call of the deployer does when the network, or a name, fails it.
Fail(r) == IF task.write THEN SaveAndThrow(r) ELSE Throw

\* The call returns, and r is the repository.  Run mode registers nothing.
Return(r) ==
  /\ repo' = IF task.write THEN r ELSE repo
  /\ op' = op + 1
  /\ UNCHANGED <<files, task, todo, at>>

Faulty(f) == f \in Faults /\ faults < MaxFault /\ faults' = faults + 1
NoFault == UNCHANGED faults

Created == Append(chain[task.net], [name |-> Call.name, kind |-> Call.kind, gone |-> FALSE])
Create == chain' = [chain EXCEPT ![task.net] = Created]
Registered(kind, id, deleted) ==
  Register(repo, task.net, Call.name, [kind |-> kind, id |-> id, deleted |-> deleted])

\* Mutant of RegisteredNew: the index of the entity before it.
RegisteredAhead == Registered(Call.kind, Len(Created) - 1, FALSE)

RegisteredNew == Registered(Call.kind, Len(Created), FALSE)

\* Mutant of OptInFails: the asset is registered after the accounts opted in.
OptInFailsUnregistered ==
  /\ task.write /\ ~Call.tx /\ Call.kind = "asa"
  /\ Faulty("optin") /\ Create /\ Fail(repo)

\* deployASADef has accounts opt in to the asset it has just registered.
OptInFails ==
  /\ task.write /\ ~Call.tx /\ Call.kind = "asa"
  /\ Faulty("optin") /\ Create /\ Fail(RegisteredNew)

\* deployASA, deployASADef, deployApp, or executeTx of a creation.  The calls of
\* the deployer are refused in run mode, a transaction is not.
DeployEntity ==
  /\ Calling("deploy")
  /\ \/ /\ ~task.write /\ ~Call.tx
        /\ Throw /\ NoFault /\ UNCHANGED chain
     \/ /\ task.write \/ Call.tx
        /\ IsDefined(repo, task.net, Call.name)
        /\ Fail(repo) /\ NoFault /\ UNCHANGED chain
     \/ /\ task.write \/ Call.tx
        /\ ~IsDefined(repo, task.net, Call.name)
        /\ \/ Create /\ Return(RegisteredNew) /\ NoFault
           \/ Faulty("network") /\ Fail(repo) /\ UNCHANGED chain
           \/ Faulty("answer") /\ Create /\ Fail(repo)
           \/ OptInFails

\* mkDelegatedLsig and mkContractLsig; the network compiles the program.
MakeLsig ==
  /\ Calling("lsig")
  /\ \/ ~task.write /\ Throw /\ NoFault
     \/ task.write /\ IsDefined(repo, task.net, Call.name) /\ Fail(repo) /\ NoFault
     \/ /\ task.write /\ ~IsDefined(repo, task.net, Call.name)
        /\ \/ Return(Registered("lsig", 0, FALSE)) /\ NoFault
           \/ Faulty("network") /\ Fail(repo)
  /\ UNCHANGED chain

\* addCheckpointKV: a value once visible is not replaced.
AddCheckpointKV ==
  /\ Calling("kv")
  /\ LET Found == HasKey(repo, task.net, Call.key)
         Equal == Found /\ Metadata(repo, task.net, Call.key) = Call.val
     IN  \/ ~task.write /\ Throw
         \/ task.write /\ Equal /\ Return(repo)
         \/ task.write /\ Found /\ ~Equal /\ Throw
         \/ task.write /\ ~Found /\ Return(PutMetadata(repo, task.net, Call.key, Call.val))
  /\ UNCHANGED <<chain, faults>>

Shows(kind) == Visible(repo, task.net, Call.name, kind)
Shown == InfoOf(repo, task.net, Call.name)
IsGone == chain[task.net][Shown.id].gone

\* updateApp, of the application a script looks up by its name.
UpdateApp ==
  /\ Calling("update")
  /\ \/ /\ Shows("app") => Shown.deleted
        /\ Throw /\ NoFault
     \/ /\ Shows("app") /\ ~Shown.deleted
        /\ \/ ~IsGone /\ Return(Registered("app", Shown.id, FALSE)) /\ NoFault
           \/ IsGone /\ Fail(repo) /\ NoFault
           \/ Faulty("network") /\ Fail(repo)
  /\ UNCHANGED chain

\* executeTx of a deletion.  The index of an application is looked up by the
\* script, that of an asset when the transaction is made.
DeleteEntity ==
  /\ Calling("delete")
  /\ LET MarkGone == chain' = [chain EXCEPT ![task.net][Shown.id].gone = TRUE]
     IN  \/ /\ ~Shows(Call.kind)
            /\ IF Call.kind = "app" THEN Throw ELSE Fail(repo)
            /\ NoFault /\ UNCHANGED chain
         \/ /\ Shows(Call.kind) /\ Shown.deleted
            /\ Throw /\ NoFault /\ UNCHANGED chain
         \/ /\ Shows(Call.kind) /\ ~Shown.deleted /\ IsGone
            /\ Fail(repo) /\ NoFault /\ UNCHANGED chain
         \/ /\ Shows(Call.kind) /\ ~Shown.deleted /\ ~IsGone
            /\ \/ MarkGone /\ Return(Registered(Call.kind, Shown.id, TRUE)) /\ NoFault
               \/ Faulty("network") /\ Fail(repo) /\ UNCHANGED chain
               \/ Faulty("answer") /\ MarkGone /\ Fail(repo)

\* The script returned: onSuccessFn saves the checkpoint in deploy mode.
Finish ==
  /\ ~Idle /\ op = Len(Calls) + 1
  /\ IF task.write THEN Save(repo) ELSE UNCHANGED files
  /\ Continue(repo, at)
  /\ UNCHANGED <<chain, faults>>

\* The script throws an exception of its own, or the process is killed.
Stop ==
  /\ ~Idle
  /\ Faulty("stop")
  /\ Throw
  /\ UNCHANGED chain

TaskStep ==
  \/ Load \/ \E same \in BOOLEAN : Enter(same)
  \/ DeployEntity \/ MakeLsig \/ AddCheckpointKV \/ UpdateApp \/ DeleteEntity
  \/ Finish

Next ==
  \/ \E n \in Net, list \in TaskLists, force \in Forces : StartDeploy(n, list, force)
  \/ \E n \in Net, s \in RunScripts : StartRun(n, s)
  \/ TaskStep
  \/ Stop

Spec == Init /\ [][Next]_vars

\* A task that has begun goes on, and whoever started the deployment keeps
\* running it for every script, without --force, as long as it takes.
AllScripts == [s \in Script |-> s]

FairSpec ==
  /\ Spec
  /\ WF_vars(TaskStep)
  /\ \A n \in Net : SF_vars(StartDeploy(n, AllScripts, FALSE))

-----------------------------------------------------------------------------
(* Properties                                                              *)

Names(s, n) == DOMAIN At(files[s], n).defs
Recorded(s, n, x) == files[s][n].defs[x]
Owned(cp) == {x \in DOMAIN cp.defs : cp.defs[x].kind # "lsig"}

\* What a checkpoint file says of an asset or application is true: the network
\* has an entity of that name and kind at that index, and what is marked as
\* deleted (registerCheckpoints) is gone.  Whatever fails in between, a
\* later script that looks the name up works on the entity it means.
CheckpointsFaithful ==
  \A s \in Script, n \in Net : \A x \in Owned(At(files[s], n)) :
    LET i == Recorded(s, n, x)
    IN  /\ i.id \in DOMAIN chain[n]
        /\ chain[n][i.id].name = x /\ chain[n][i.id].kind = i.kind
        /\ i.deleted => chain[n][i.id].gone

\* No two files define the same name on a network: whichever scripts run, in
\* whatever order and whatever fails, a name tells the script it comes from.
\* (docs/guide/execution-checkpoints.md: "duplicate asset names are not allowed
\* (since it prevents to know which script defined which asset)".)
NamesUnambiguous ==
  \A n \in Net : \A s, t \in Script : s # t => Names(s, n) \cap Names(t, n) = {}

\* A script updates and deletes only what it has deployed itself.  What it registers
\* of another script's entity goes into its own file (registerSSC), so that the name
\* is in both.
OwnWork ==
  \A s \in Script, n \in Net : \A j \in DOMAIN Program[s][n] :
    Program[s][n][j].do \in {"update", "delete"} =>
      \E i \in 1..(j - 1) : /\ Program[s][n][i].do = "deploy"
                           /\ Program[s][n][i].name = Program[s][n][j].name

\* It updates or deletes an entity only after it has deployed it, as the kind it is,
\* and does neither after it has deleted it.  Whatever else it asks for is an exception
\* (or updates what is gone), and what the script did until then is not saved.
TidyWork ==
  \A s \in Script, n \in Net : \A j \in DOMAIN Program[s][n] :
    LET c == Program[s][n][j]
    IN  c.do \in {"update", "delete"} =>
          /\ \E i \in 1..(j - 1) :
               /\ Program[s][n][i].do = "deploy" /\ Program[s][n][i].name = c.name
               /\ Program[s][n][i].kind = IF c.do = "update" THEN "app" ELSE c.kind
          /\ \A i \in 1..(j - 1) : Program[s][n][i].do = "delete" => Program[s][n][i].name # c.name

\* All scripts keep the same value for a key: another one would be an exception.
OneValue ==
  \A n \in Net, s, t \in Script : \A i \in DOMAIN Program[s][n], j \in DOMAIN Program[t][n] :
    LET c == Program[s][n][i]
        d == Program[t][n][j]
    IN  c.do = "kv" /\ d.do = "kv" /\ c.key = d.key => c.val = d.val

\* There is no --force, which forgets what was deployed, no run mode, which does not
\* record it, no stop of the process, and no answer of the network is lost.
Undisturbed == Forces \subseteq {FALSE} /\ RunScripts = {} /\ Faults \subseteq {"network", "optin"}

\* No list names a script twice in a row: the second time all the scripts that are left
\* would be merged (splitAfter).
NoScriptTwice == \A l \in TaskLists : \A i \in 1..(Len(l) - 1) : l[i] # l[i + 1]

\* A name is deployed at most once on a network, although a script that failed
\* half-way is run again: the checkpoints guard against duplicate deployment
\* (assertNoAsset, assertNoApp).
AtMostOnce ==
  \A n \in Net : \A i, j \in DOMAIN chain[n] : chain[n][i].name = chain[n][j].name => i = j

\* Between tasks every entity that was created is recorded in a file: a failure
\* does not make the deployer forget what it created before it (persistCP).
NothingOrphaned ==
  Idle => \A n \in Net : \A i \in DOMAIN chain[n] :
            \E s \in Script : \E x \in Owned(At(files[s], n)) : Recorded(s, n, x).id = i

\* A script never sees what a script after it in the order of names has recorded,
\* also when the list it was started with is not sorted (runScripts, splitAfter).
PrecedingOnly ==
  ~Idle /\ op > 0 =>
    \A s \in Script : s > Current =>
      DOMAIN At(repo.preceding, task.net).defs \cap Names(s, task.net) = {}

Deployed(s, n) ==
  {x \in Name : \E i \in DOMAIN Program[s][n] :
                  Program[s][n][i].do \in {"deploy", "lsig"} /\ Program[s][n][i].name = x}

\* What a checkpoint lacks of all that its script deploys on a network.
Missing(s, n) == IF n \in DOMAIN files[s] THEN Deployed(s, n) \ Names(s, n) ELSE {}

\* A script with a checkpoint is skipped from now on, so a checkpoint that lacks
\* something hides it for good.  Only one thing leaves such a checkpoint: a call of
\* the deployer that fails (persistCP; docs/guide/execution-checkpoints.md says that
\* nothing is saved then).  The task ends with it, the checkpoint is that of the
\* script it was in on the network of the task, and it lacks nothing that the calls
\* before had deployed.  An exception of the script, of addCheckpointKV or of a
\* lookup, a stop of the process, another script and a script that gets to its end
\* leave no gap.
GapsOnlyByFailure ==
  [][\A s \in Script, n \in Net : \A x \in Missing(s, n)' \ Missing(s, n) :
       /\ ~Idle /\ Idle' /\ s = Current /\ n = task.net
       /\ op \in DOMAIN Calls /\ Call.do # "kv"
       /\ \A i \in 1..(op - 1) :
            Calls[i].do \in {"deploy", "lsig"} => Calls[i].name # x]_vars

\* A task changes the checkpoint of no other script and of no other network than
\* its own, and in run mode none, but for the files that --force removes.
OnlyOwnRecordsChange ==
  [][\A s \in Script, n \in Net :
       At(files'[s], n) # At(files[s], n) =>
         IF Idle THEN task'.force ELSE task.write /\ s = Current /\ n = task.net]_vars

\* A record is never lost, but for the files that --force removes: a script that
\* runs on another network, or again, keeps what its file holds.
RecordsKept ==
  [][Idle \/ \A s \in Script, n \in Net : Names(s, n) \subseteq Names(s, n)']_vars

\* However often the process or a script stops, running the deployment again and
\* again ends with all scripts done and recorded on the networks.
Recovers ==
  \A s \in Script, n \in Net : <>[](Deployed(s, n) \subseteq Names(s, n))
=============================================================================
