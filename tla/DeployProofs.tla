---------------------------- MODULE DeployProofs ----------------------------
(***************************************************************************)
(* Theorems about Deploy, for every program, every list of scripts, every  *)
(* number of networks and whatever fails.                                  *)
(*                                                                         *)
(* A checkpoint file is written as a whole, from memory.  That a write     *)
(* touches one network only, and loses nothing, rests on what the current  *)
(* script has in memory: its file as it is, with additions on the network  *)
(* of the task (IInv).  What memory holds besides is what the loading and  *)
(* merging of files has put there, which are folds: what they preserve is  *)
(* proved by induction over the positions of the scripts (Recursion).  On  *)
(* it rest the truth of the files (Truth), the names in memory (Memory)    *)
(* and in the files (Apart), what scripts see (Behind), and that no entity *)
(* is lost or deployed again (Orderly, Accounted).                         *)
(***************************************************************************)
EXTENDS Deploy, SequenceTheorems, TLAPS

\* The current checkpoints of r are those of the file of the current script, but
\* for additions on the network of the task.
Extends(r) ==
  /\ DOMAIN r.stripped \subseteq DOMAIN files[Current] \cup {task.net}
  /\ \A n \in Net : /\ n # task.net => At(r.stripped, n) = At(files[Current], n)
                    /\ Names(Current, n) \subseteq DOMAIN At(r.stripped, n).defs

\* The control variables have their types, and nothing has started when there is
\* no task.
Control ==
  /\ DOMAIN files = Script /\ files = [s \in Script |-> files[s]]
  /\ task \in Task
  /\ todo \in Seq(Script)
  /\ op \in Nat
  /\ at \in Nat
  /\ Idle \/ at = 0 => op = 0

\* The inductive invariant.
IInv == Control /\ (op > 0 => Extends(repo))

\* What a step may do to the files: write the record of the current script on the
\* network of the task, and lose no name.
Careful ==
  /\ \A s \in Script, n \in Net :
       At(files'[s], n) # At(files[s], n) => task.write /\ s = Current /\ n = task.net
  /\ \A s \in Script, n \in Net : Names(s, n) \subseteq Names(s, n)'

-----------------------------------------------------------------------------
(* What is in memory                                                       *)

\* Recording something on the network of the task keeps what is there.
LEMMA RecordExtends ==
  ASSUME task \in Task, Extends(repo), NEW cp
  PROVE  Extends(Record(repo, task.net, cp))
<1>. DEFINE n == task.net
            old == repo.stripped
            new == Override(old, [m \in {n} |-> Append1(At(old, n), cp)])
            r == Record(repo, n, cp)
<1>1. r.stripped = new
  BY DEF Record
<1>2. \A m : m # n => At(new, m) = At(old, m)
  BY DEF At, Override
<1>3. At(new, n) = Append1(At(old, n), cp)
  BY DEF At, Override
<1>4. DOMAIN At(old, n).defs \subseteq DOMAIN At(new, n).defs
  <2>. HIDE DEF old, new
  <2>. QED  BY <1>3 DEF Append1, Override
<1>5. DOMAIN new = DOMAIN old \cup {n}
  BY DEF Override
<1>. QED
  <2>. HIDE DEF new
  <2>. QED  BY <1>1, <1>2, <1>4, <1>5 DEF Extends

\* When a script starts, its file has just been merged.
LEMMA MergedExtends ==
  ASSUME NEW same
  PROVE  Extends(Merged(same).r)
<1>1. Merged(same).r.stripped = files[Current]
  BY DEF Merged, Merge
<1>. QED  BY <1>1 DEF Extends, Names

-----------------------------------------------------------------------------
(* The ends of a call                                                      *)

\* The task ends, and the files are as they are.
LEMMA ThrowCareful ==
  ASSUME IInv, Throw
  PROVE  IInv' /\ Careful
BY DEF IInv, Throw, EndTask, Control, Careful, Names, At, Idle

\* Writing the file of the current script.
LEMMA SaveCareful ==
  ASSUME IInv, ~Idle, NEW r, Extends(r), Save(r), task.write
  PROVE  /\ DOMAIN files' = Script /\ files' = [s \in Script |-> files'[s]]
         /\ Careful
<1>1. Current \in Script
  BY DEF IInv, Control, Idle, Current
<1>2. files' = [s \in Script |-> IF s = Current THEN r.stripped ELSE files[s]]
  BY DEF IInv, Control, Save
<1>3. \A s \in Script : s # Current => files'[s] = files[s]
  BY <1>2
<1>4. files'[Current] = r.stripped
  BY <1>1, <1>2
<1>5. \A n \in Net : n # task.net => At(files'[Current], n) = At(files[Current], n)
  BY <1>4 DEF Extends
<1>6. \A n \in Net : Names(Current, n) \subseteq DOMAIN At(files'[Current], n).defs
  BY <1>4 DEF Extends
<1>7. \A s \in Script, n \in Net : Names(s, n)' = DOMAIN At(files'[s], n).defs
  BY DEF Names, At
<1>8. \A s \in Script, n \in Net : Names(s, n) \subseteq Names(s, n)'
  BY <1>3, <1>6, <1>7 DEF Names
<1>. QED  BY <1>2, <1>3, <1>5, <1>8 DEF Careful

\* Every call of a script ends in one of three ways.
Ends(r) == Throw \/ Fail(r) \/ Return(r)

\* However a call ends, the files keep what they hold.
LEMMA EndsCareful ==
  ASSUME IInv, ~Idle, op > 0, NEW r, Extends(r), Ends(r)
  PROVE  IInv' /\ Careful
<1>1. CASE Throw
  BY <1>1, ThrowCareful
<1>2. CASE Fail(r) /\ ~task.write
  BY <1>2, ThrowCareful DEF Fail
<1>3. CASE Fail(r) /\ task.write
  <2>1. EndTask /\ Save(r)
    BY <1>3 DEF Fail, SaveAndThrow
  <2>2. Careful /\ DOMAIN files' = Script /\ files' = [s \in Script |-> files'[s]]
    BY <1>3, <2>1, SaveCareful
  <2>3. IInv'
    BY <2>1, <2>2 DEF IInv, EndTask, Control, Idle
  <2>. QED  BY <2>2, <2>3
<1>4. CASE Return(r)
  <2>1. /\ UNCHANGED <<files, task, todo, at>>
        /\ repo' = r \/ repo' = repo
        /\ op' = op + 1
    BY <1>4 DEF Return
  <2>2. Extends(repo')
    BY <2>1 DEF IInv
  <2>3. Extends(repo)'
    BY <2>1, <2>2 DEF Extends, Names, Current, At
  <2>4. Control'
    BY <2>1 DEF IInv, Control, Idle
  <2>. QED  BY <2>1, <2>2, <2>3, <2>4 DEF IInv, Careful, Names, At
<1>. QED  BY <1>1, <1>2, <1>3, <1>4 DEF Ends

-----------------------------------------------------------------------------
(* The calls                                                               *)

\* A call is made while a script is running.
LEMMA CallingStarted ==
  ASSUME IInv, NEW do, Calling(do)
  PROVE  ~Idle /\ op > 0
<1>1. ~Idle /\ op \in DOMAIN Calls
  BY DEF Calling
<1>2. Current \in Script /\ task.net \in Net
  BY <1>1 DEF IInv, Control, Idle, Current, Task
<1>3. Calls \in Seq(Op)
  BY <1>2, ProgramAssumption DEF ProgramAssumption, Calls
<1>. QED  BY <1>1, <1>3

\* What a call may leave in memory.
LEMMA CallsExtend ==
  ASSUME IInv, op > 0
  PROVE  /\ Extends(repo)
         /\ \A k, i, d : Extends(Registered(k, i, d))
         /\ \A k, v : Extends(PutMetadata(repo, task.net, k, v))
BY RecordExtends DEF IInv, Control, Registered, Register, PutMetadata

\* A deployment ends in one of these ways, having registered what is new or nothing.
LEMMA DeployEntityCareful ==
  ASSUME IInv, DeployEntity
  PROVE  IInv' /\ Careful
<1>1. ~Idle /\ op > 0
  BY CallingStarted DEF DeployEntity
<1>2. Ends(repo) \/ Ends(RegisteredNew)
  BY DEF DeployEntity, OptInFails, Ends
<1>3. Extends(RegisteredNew) /\ Extends(repo)
  BY <1>1, CallsExtend DEF RegisteredNew
<1>. QED  BY <1>1, <1>2, <1>3, EndsCareful

\* So does the making of a logic signature.
LEMMA MakeLsigCareful ==
  ASSUME IInv, MakeLsig
  PROVE  IInv' /\ Careful
<1>1. ~Idle /\ op > 0
  BY CallingStarted DEF MakeLsig
<1>. DEFINE r == Registered("lsig", 0, FALSE)
<1>2. Ends(repo) \/ Ends(r)
  BY DEF MakeLsig, Ends
<1>3. Extends(r) /\ Extends(repo)
  BY <1>1, CallsExtend
<1>. QED  BY <1>1, <1>2, <1>3, EndsCareful

\* So does the writing of a pair.
LEMMA AddCheckpointKVCareful ==
  ASSUME IInv, AddCheckpointKV
  PROVE  IInv' /\ Careful
<1>1. ~Idle /\ op > 0
  BY CallingStarted DEF AddCheckpointKV
<1>. DEFINE r == PutMetadata(repo, task.net, Call.key, Call.val)
<1>2. Ends(repo) \/ Ends(r)
  BY DEF AddCheckpointKV, Ends
<1>3. Extends(r) /\ Extends(repo)
  BY <1>1, CallsExtend
<1>. QED  BY <1>1, <1>2, <1>3, EndsCareful

\* So does an update, which registers the application anew.
LEMMA UpdateAppCareful ==
  ASSUME IInv, UpdateApp
  PROVE  IInv' /\ Careful
<1>1. ~Idle /\ op > 0
  BY CallingStarted DEF UpdateApp
<1>. DEFINE r == Registered("app", Shown.id, FALSE)
<1>2. Ends(repo) \/ Ends(r)
  BY DEF UpdateApp, Ends
<1>3. Extends(r) /\ Extends(repo)
  BY <1>1, CallsExtend
<1>. QED  BY <1>1, <1>2, <1>3, EndsCareful

\* So does a deletion, which registers that it is deleted.
LEMMA DeleteEntityCareful ==
  ASSUME IInv, DeleteEntity
  PROVE  IInv' /\ Careful
<1>1. ~Idle /\ op > 0
  BY CallingStarted DEF DeleteEntity
<1>. DEFINE r == Registered(Call.kind, Shown.id, TRUE)
<1>2. Ends(repo) \/ Ends(r)
  BY DEF DeleteEntity, Ends
<1>3. Extends(r) /\ Extends(repo)
  BY <1>1, CallsExtend
<1>. QED  BY <1>1, <1>2, <1>3, EndsCareful

-----------------------------------------------------------------------------
(* Between the calls                                                       *)

\* Going on to the next script, or ending, leaves no script started.
LEMMA ContinueControl ==
  ASSUME IInv, ~Idle, NEW r, NEW next \in Nat, Continue(r, next),
         DOMAIN files' = Script, files' = [s \in Script |-> files'[s]]
  PROVE  IInv'
<1>1. /\ task' = task
      /\ op' = 0
      /\ todo' = <<>> \/ todo' = Tail(todo)
      /\ at' \in Nat
  BY DEF Continue, EndTask
<1>2. todo' \in Seq(Script)
  BY <1>1, HeadTailProperties, EmptySeq DEF IInv, Control, Idle
<1>. QED  BY <1>1, <1>2 DEF IInv, Control, Idle

\* Merging the file of the next script brings memory in line with that file.
LEMMA EnterCareful ==
  ASSUME IInv, NEW same \in BOOLEAN, Enter(same)
  PROVE  IInv' /\ Careful
<1>. DEFINE r == Merged(same).r
<1>1. ~Idle /\ UNCHANGED files
  BY DEF Enter
<1>2. Careful
  BY <1>1 DEF Careful, Names, At
<1>3. DOMAIN files' = Script /\ files' = [s \in Script |-> files'[s]]
  BY <1>1 DEF IInv, Control
<1>4. LastToMerge + 1 \in Nat \ {0}
  BY <1>1, ScriptAssumption DEF ScriptAssumption, IInv, Control, Idle, LastToMerge, Current, Script
<1>5. CASE EndTask
  BY <1>1, <1>5, ThrowCareful DEF Throw
<1>6. CASE Continue(r, LastToMerge + 1)
  BY <1>1, <1>2, <1>3, <1>6, <1>4, ContinueControl
<1>7. CASE repo' = r /\ op' = 1 /\ at' = LastToMerge + 1 /\ UNCHANGED <<task, todo>>
  <2>1. Extends(repo')
    BY <1>7, MergedExtends
  <2>2. Extends(repo)'
    BY <1>1, <1>7, <2>1 DEF Extends, Names, Current, At
  <2>3. Control'
    BY <1>1, <1>3, <1>7, <1>4 DEF IInv, Control, Idle
  <2>. QED  BY <1>2, <2>1, <2>2, <2>3 DEF IInv
<1>. QED  BY <1>2, <1>5, <1>6, <1>7 DEF Enter

\* The end of a script writes what is in memory, if the task writes.
LEMMA FinishCareful ==
  ASSUME IInv, Finish
  PROVE  IInv' /\ Careful
<1>1. ~Idle /\ op = Len(Calls) + 1
  BY DEF Finish
<1>2. Current \in Script /\ task.net \in Net
  BY <1>1 DEF IInv, Control, Idle, Current, Task
<1>3. op > 0
  BY <1>1, <1>2, ProgramAssumption DEF ProgramAssumption, Calls
<1>4. Extends(repo)
  BY <1>3 DEF IInv
<1>5. /\ DOMAIN files' = Script /\ files' = [s \in Script |-> files'[s]]
      /\ Careful
  <2>1. CASE task.write
    BY <2>1, <1>1, <1>4, SaveCareful DEF Finish
  <2>2. CASE ~task.write
    BY <2>2 DEF Finish, IInv, Control, Careful, Names, At
  <2>. QED  BY <2>1, <2>2
<1>6. IInv'
  BY <1>1, <1>5, ContinueControl DEF Finish, IInv, Control
<1>. QED  BY <1>5, <1>6

\* Loading the files of all scripts changes none.
LEMMA LoadCareful ==
  ASSUME IInv, Load
  PROVE  IInv' /\ Careful
<1>1. UNCHANGED files
  BY DEF Load
<1>2. CASE EndTask
  BY <1>1, <1>2, ThrowCareful DEF Throw
<1>3. CASE at' = 1 /\ UNCHANGED <<task, todo, op>> /\ repo' = LoadAll(files).r
  <2>1. op = 0
    BY DEF Load, IInv, Control
  <2>. QED  BY <2>1, <1>1, <1>3 DEF IInv, Control, Careful, Names, At, Idle
<1>. QED  BY <1>2, <1>3 DEF Load

\* A task that begins changes files only if it is forced.
Forced == \A s \in Script, n \in Net : At(files'[s], n) # At(files[s], n) => task'.force

\* The beginning of a task removes files only if forced.
LEMMA StartCareful ==
  ASSUME IInv, NEW n \in Net, NEW list \in Seq(Script), NEW force \in BOOLEAN,
         StartDeploy(n, list, force) \/ \E s \in Script : StartRun(n, s)
  PROVE  IInv' /\ Idle /\ Forced
<1>1. Idle /\ op = 0 /\ op' = 0 /\ at' = at
  BY DEF StartDeploy, StartRun, IInv, Control
<1>2. todo' \in Seq(Script) /\ task' \in Task
  <2>1. CASE StartDeploy(n, list, force)
    BY <2>1 DEF StartDeploy, Task
  <2>2. ASSUME NEW s \in Script, StartRun(n, s)
        PROVE  todo' \in Seq(Script) /\ task' \in Task
    <3>1. <<s>> \in Seq(Script)
      OBVIOUS
    <3>. QED  BY <2>2, <3>1 DEF StartRun, Task
  <2>. QED  BY <2>1, <2>2
<1>3. CASE UNCHANGED files
  BY <1>1, <1>2, <1>3 DEF IInv, Control, Idle, Forced
<1>4. CASE StartDeploy(n, list, force)
  <2>1. /\ \E D : files' = [s \in Script |-> IF force /\ s \in D THEN NoMap ELSE files[s]]
        /\ task'.force = force
    BY <1>4 DEF StartDeploy
  <2>. QED  BY <1>1, <1>2, <2>1 DEF IInv, Control, Idle, Forced
<1>. QED  BY <1>3, <1>4 DEF StartRun

-----------------------------------------------------------------------------
(* Records stay                                                            *)

\* No task is there at first.
LEMMA InitControl == Init => IInv
BY DEF Init, IInv, Control, Idle

\* A step keeps the invariant, and is careful unless it starts a task.
LEMMA NextCareful ==
  ASSUME IInv, [Next]_vars
  PROVE  IInv' /\ (IF Idle THEN Forced ELSE Careful)
<1>1. ASSUME NEW n \in Net, NEW list \in TaskLists, NEW force \in Forces,
             StartDeploy(n, list, force)
      PROVE  IInv' /\ Idle /\ Forced
  BY <1>1, StartCareful, TaskAssumption DEF TaskAssumption
<1>2. ASSUME NEW n \in Net, NEW s \in RunScripts, StartRun(n, s)
      PROVE  IInv' /\ Idle /\ Forced
  <2>1. s \in Script /\ <<>> \in Seq(Script) /\ FALSE \in BOOLEAN
    BY TaskAssumption, EmptySeq DEF TaskAssumption
  <2>. QED  BY <1>2, <2>1, StartCareful
<1>3. CASE Load
  BY <1>3, LoadCareful DEF Load
<1>4. CASE \E same \in BOOLEAN : Enter(same)
  BY <1>4, EnterCareful DEF Enter
<1>5. CASE DeployEntity
  BY <1>5, DeployEntityCareful DEF DeployEntity, Calling
<1>6. CASE MakeLsig
  BY <1>6, MakeLsigCareful DEF MakeLsig, Calling
<1>7. CASE AddCheckpointKV
  BY <1>7, AddCheckpointKVCareful DEF AddCheckpointKV, Calling
<1>8. CASE UpdateApp
  BY <1>8, UpdateAppCareful DEF UpdateApp, Calling
<1>9. CASE DeleteEntity
  BY <1>9, DeleteEntityCareful DEF DeleteEntity, Calling
<1>10. CASE Finish
  BY <1>10, FinishCareful DEF Finish
<1>11. CASE Stop
  BY <1>11, ThrowCareful DEF Stop
<1>12. CASE UNCHANGED vars
  BY <1>12 DEF vars, IInv, Control, Extends, Careful, Forced, Names, At, Idle, Current
<1>. QED
  BY <1>1, <1>2, <1>3, <1>4, <1>5, <1>6, <1>7, <1>8, <1>9, <1>10, <1>11, <1>12
  DEF Next, TaskStep

\* While a script runs, what is in memory of its file is the file itself with
\* additions on the network of the task.
THEOREM MemoryExtendsFile == Spec => []IInv
<1>1. IInv /\ [Next]_vars => IInv'
  BY NextCareful
<1>. QED  BY <1>1, InitControl, PTL DEF Spec

\* However scripts, networks and failures follow one another, a task writes the
\* checkpoint of the current script on its own network only, and none in run mode;
\* only --force removes others (persistCheckpoint writes whole files).
THEOREM OwnRecordsOnly == Spec => OnlyOwnRecordsChange
<1>1. IInv /\ [Next]_vars =>
        [\A s \in Script, n \in Net :
           At(files'[s], n) # At(files[s], n) =>
             IF Idle THEN task'.force ELSE task.write /\ s = Current /\ n = task.net]_vars
  BY NextCareful DEF Careful, Forced
<1>. QED  BY <1>1, MemoryExtendsFile, PTL DEF Spec, OnlyOwnRecordsChange

\* A name that a file holds stays in it, unless --force removes the file.
THEOREM RecordsStay == Spec => RecordsKept
<1>1. IInv /\ [Next]_vars =>
        [Idle \/ \A s \in Script, n \in Net : Names(s, n) \subseteq Names(s, n)']_vars
  BY NextCareful DEF Careful
<1>. QED  BY <1>1, MemoryExtendsFile, PTL DEF Spec, RecordsKept

-----------------------------------------------------------------------------
(* Folds over the files                                                    *)

Latest(T) == CHOOSE i \in T : \A j \in T : i >= j

\* One step of LoadAll and one of LoadRange.
OneMoreKnown(c, i, o) ==
  IF o.ok THEN MergeToGlobal(o.r, c.files[c.seq[i]], c.seq[i]) ELSE o
OneMoreMerged(c, i, o) ==
  IF o.ok THEN Merge(o.r, c.files[c.seq[i]], c.seq[i]) ELSE o

Knowing == INSTANCE Recursion WITH Op <- OneMoreKnown, Pick <- Latest
Merging == INSTANCE Recursion WITH Op <- OneMoreMerged, Pick <- Latest

\* What the files of the scripts at the positions T of q leave.
Known(c, T) == Knowing!FoldOver(c, [ok |-> TRUE, r |-> EmptyRepo], T)
Loaded(c, r, T) == Merging!FoldOver(c, [ok |-> TRUE, r |-> r], T)

\* LoadAll and LoadRange are these folds.
LEMMA LoadAllIsFold ==
  ASSUME NEW f
  PROVE  LoadAll(f) = Known([files |-> f, seq |-> Between(1, NScript)],
                            DOMAIN Between(1, NScript))
BY DEF LoadAll, FoldLeft, MapThenFoldSet, Max, Known, Knowing!FoldOver, Knowing!Solves,
       Knowing!Rest, OneMoreKnown, Latest

\* See LoadAllIsFold.
LEMMA LoadRangeIsFold ==
  ASSUME NEW r, NEW f, NEW a, NEW b
  PROVE  LoadRange(r, f, a, b)
           = Loaded([files |-> f, seq |-> Between(a, b)], r, DOMAIN Between(a, b))
BY DEF LoadRange, FoldLeft, MapThenFoldSet, Max, Loaded, Merging!FoldOver, Merging!Solves,
       Merging!Rest, OneMoreMerged, Latest

\* The positions of the scripts between two.
LEMMA BetweenPositions ==
  ASSUME NEW a \in Int, NEW b \in Int
  PROVE  /\ Knowing!Descends(DOMAIN Between(a, b)) /\ Knowing!Picks(DOMAIN Between(a, b))
         /\ Merging!Descends(DOMAIN Between(a, b)) /\ Merging!Picks(DOMAIN Between(a, b))
         /\ \A i \in DOMAIN Between(a, b) : Between(a, b)[i] \in a..b
         /\ \A s \in a..b : \E i \in DOMAIN Between(a, b) : Between(a, b)[i] = s
<1>1. PICK n \in Nat : DOMAIN Between(a, b) = 1..n
  <2>1. CASE b - a + 1 >= 0
    <3>1. b - a + 1 \in Nat
      BY <2>1
    <3>. QED  BY <3>1 DEF Between
  <2>2. CASE b - a + 1 < 0
    <3>1. DOMAIN Between(a, b) = 1..0
      BY <2>2 DEF Between
    <3>. QED  BY <3>1
  <2>. QED  BY <2>1, <2>2
<1>2. Knowing!PicksLast /\ Merging!PicksLast
  BY DEF Knowing!PicksLast, Knowing!Latest, Merging!PicksLast, Merging!Latest, Latest
<1>3. Knowing!Descends(1..n) /\ Knowing!Picks(1..n)
  BY <1>2, Knowing!Positions
<1>4. Merging!Descends(1..n) /\ Merging!Picks(1..n)
  BY <1>2, Merging!Positions
<1>5. \A i \in DOMAIN Between(a, b) : Between(a, b)[i] \in a..b
  BY DEF Between
<1>6. ASSUME NEW s \in a..b PROVE \E i \in DOMAIN Between(a, b) : Between(a, b)[i] = s
  <2>1. s - a + 1 \in 1..(b - a + 1) /\ a + (s - a + 1) - 1 = s
    OBVIOUS
  <2>. QED  BY <2>1 DEF Between
<1>. QED  BY <1>1, <1>3, <1>4, <1>5, <1>6

\* A step of each.
LEMMA KnownStep ==
  ASSUME NEW a \in Int, NEW b \in Int, NEW c, NEW T \in SUBSET (DOMAIN Between(a, b)), T # {}
  PROVE  /\ Latest(T) \in T
         /\ Known(c, T) = OneMoreKnown(c, Latest(T), Known(c, Knowing!Rest(T)))
<1>1. Knowing!Descends(T) /\ Knowing!Picks(T) /\ Latest(T) \in T
  <2>. DEFINE D == DOMAIN Between(a, b)
  <2>1. Knowing!Descends(D) /\ Knowing!Picks(D) /\ T \in SUBSET D
    BY BetweenPositions
  <2>. HIDE DEF D, Latest
  <2>2. Latest(T) \in T
    BY <2>1 DEF Knowing!Picks
  <2>3. Knowing!Picks(T)
    BY <2>1 DEF Knowing!Picks
  <2>4. Knowing!Descends(T)
    BY <2>1 DEF Knowing!Descends
  <2>. QED  BY <2>2, <2>3, <2>4
<1>. QED  BY <1>1, Knowing!FoldOverStep DEF Known

\* See KnownStep.
LEMMA LoadedStep ==
  ASSUME NEW a \in Int, NEW b \in Int, NEW c, NEW r,
         NEW T \in SUBSET (DOMAIN Between(a, b)), T # {}
  PROVE  /\ Latest(T) \in T
         /\ Loaded(c, r, T) = OneMoreMerged(c, Latest(T), Loaded(c, r, Merging!Rest(T)))
<1>1. Merging!Descends(T) /\ Merging!Picks(T) /\ Latest(T) \in T
  <2>. DEFINE D == DOMAIN Between(a, b)
  <2>1. Merging!Descends(D) /\ Merging!Picks(D) /\ T \in SUBSET D
    BY BetweenPositions
  <2>. HIDE DEF D, Latest
  <2>2. Latest(T) \in T
    BY <2>1 DEF Merging!Picks
  <2>3. Merging!Picks(T)
    BY <2>1 DEF Merging!Picks
  <2>4. Merging!Descends(T)
    BY <2>1 DEF Merging!Descends
  <2>. QED  BY <2>2, <2>3, <2>4
<1>. QED  BY <1>1, Merging!FoldOverStep DEF Loaded

-----------------------------------------------------------------------------
(* Merges                                                                  *)

\* What a merge makes of the names of a network.
LEMMA MergedDefs ==
  ASSUME NEW t, NEW cps, NEW n
  PROVE  /\ DOMAIN At(MergeInto(t, cps), n).defs = DOMAIN At(t, n).defs \cup DOMAIN At(cps, n).defs
         /\ \A x \in DOMAIN At(MergeInto(t, cps), n).defs :
              At(MergeInto(t, cps), n).defs[x]
                = IF x \in DOMAIN At(cps, n).defs THEN At(cps, n).defs[x] ELSE At(t, n).defs[x]
<1>1. CASE n \in DOMAIN cps
  <2>1. At(MergeInto(t, cps), n) = Append1(At(t, n), cps[n])
    BY <1>1 DEF At, MergeInto, Override
  <2>2. At(cps, n) = cps[n]
    BY <1>1 DEF At
  <2>. QED  BY <2>1, <2>2 DEF Append1, Override
<1>2. CASE n \notin DOMAIN cps
  <2>1. At(MergeInto(t, cps), n) = At(t, n)
    BY <1>2 DEF At, MergeInto, Override
  <2>2. DOMAIN At(cps, n).defs = {}
    BY <1>2 DEF At, NoCheckpoint, NoMap
  <2>. QED  BY <2>1, <2>2
<1>. QED  BY <1>1, <1>2

\* And of its values.
LEMMA MergedMeta ==
  ASSUME NEW t, NEW cps, NEW n
  PROVE  /\ DOMAIN At(MergeInto(t, cps), n).meta = DOMAIN At(t, n).meta \cup DOMAIN At(cps, n).meta
         /\ \A k \in DOMAIN At(MergeInto(t, cps), n).meta :
              At(MergeInto(t, cps), n).meta[k]
                = IF k \in DOMAIN At(cps, n).meta THEN At(cps, n).meta[k] ELSE At(t, n).meta[k]
<1>1. CASE n \in DOMAIN cps
  <2>1. At(MergeInto(t, cps), n) = Append1(At(t, n), cps[n])
    BY <1>1 DEF At, MergeInto, Override
  <2>2. At(cps, n) = cps[n]
    BY <1>1 DEF At
  <2>. QED  BY <2>1, <2>2 DEF Append1, Override
<1>2. CASE n \notin DOMAIN cps
  <2>1. At(MergeInto(t, cps), n) = At(t, n)
    BY <1>2 DEF At, MergeInto, Override
  <2>2. DOMAIN At(cps, n).meta = {}
    BY <1>2 DEF At, NoCheckpoint, NoMap
  <2>. QED  BY <2>1, <2>2
<1>. QED  BY <1>1, <1>2

\* What is recorded is merged into each part, like a file that says only this.
Only(n, cp) == [m \in {n} |-> cp]

\* It says nothing of other networks.
LEMMA OnlyAt ==
  ASSUME NEW n, NEW cp, NEW m
  PROVE  At(Only(n, cp), m) = IF m = n THEN cp ELSE NoCheckpoint
BY DEF At, Only

\* It is merged into the three parts.
LEMMA RecordMerges ==
  ASSUME NEW r, NEW n, NEW cp
  PROVE  Record(r, n, cp) = [stripped  |-> MergeInto(r.stripped, Only(n, cp)),
                             preceding |-> MergeInto(r.preceding, Only(n, cp)),
                             all       |-> MergeInto(r.all, Only(n, cp)),
                             owner     |-> r.owner]
<1>. DEFINE cps == Only(n, cp)
<1>1. \A t : MergeInto(t, cps) = Override(t, [m \in {n} |-> Append1(At(t, n), cp)])
  <2>1. ASSUME NEW t
        PROVE  [m \in DOMAIN cps |-> Append1(At(t, m), cps[m])] = [m \in {n} |-> Append1(At(t, n), cp)]
    BY DEF Only
  <2>. QED  BY <2>1 DEF MergeInto
<1>. HIDE DEF cps
<1>2. Record(r, n, cp) = [stripped  |-> MergeInto(r.stripped, cps),
                          preceding |-> MergeInto(r.preceding, cps),
                          all       |-> MergeInto(r.all, cps),
                          owner     |-> r.owner]
  BY <1>1 DEF Record
<1>. QED  BY <1>2 DEF cps

\* The names that cps defines on a network.
Defs(cps, n) == DOMAIN At(cps, n).defs

Parts == {"stripped", "preceding", "all", "owner"}

\* A merge joins the names.
LEMMA MergedNames ==
  ASSUME NEW t, NEW cps, NEW n
  PROVE  Defs(MergeInto(t, cps), n) = Defs(t, n) \cup Defs(cps, n)
BY MergedDefs DEF Defs

\* What the merges do to the parts.
LEMMA MergeParts ==
  ASSUME NEW r, NEW cps, NEW s, DOMAIN r = Parts
  PROVE  /\ DOMAIN MergeToGlobal(r, cps, s).r = Parts
         /\ MergeToGlobal(r, cps, s).r.stripped = r.stripped
         /\ MergeToGlobal(r, cps, s).r.preceding = r.preceding
         /\ MergeToGlobal(r, cps, s).r.all = MergeInto(r.all, cps)
         /\ DOMAIN Merge(r, cps, s).r = Parts
         /\ Merge(r, cps, s).r.stripped = cps
         /\ Merge(r, cps, s).r.preceding = MergeInto(r.preceding, cps)
         /\ Merge(r, cps, s).r.all = MergeInto(r.all, cps)
<1>. DEFINE g == MergeToGlobal(r, cps, s)
            own == Override([x \in NamesIn(cps) |-> s], r.owner)
            all == MergeInto(r.all, cps)
            pre == MergeInto(r.preceding, cps)
<1>1. g.r = [r EXCEPT !.owner = own, !.all = all]
  BY DEF MergeToGlobal
<1>2. Merge(r, cps, s).r = [stripped |-> cps, preceding |-> pre, all |-> g.r.all, owner |-> g.r.owner]
  BY DEF Merge
<1>. HIDE DEF own, all, pre, g
<1>3. /\ DOMAIN g.r = Parts /\ g.r.stripped = r.stripped /\ g.r.preceding = r.preceding
      /\ g.r.all = all
  BY <1>1 DEF Parts
<1>4. /\ DOMAIN Merge(r, cps, s).r = Parts
      /\ Merge(r, cps, s).r.stripped = cps /\ Merge(r, cps, s).r.preceding = pre
      /\ Merge(r, cps, s).r.all = all
  BY <1>2, <1>3 DEF Parts
<1>. QED  BY <1>3, <1>4 DEF g, all, pre

\* Loading the files of all scripts: all has their names, and the other parts are
\* empty.
LEMMA LoadAllNames ==
  ASSUME NEW f
  PROVE  /\ DOMAIN LoadAll(f).r = Parts
         /\ LoadAll(f).r.stripped = NoMap /\ LoadAll(f).r.preceding = NoMap
         /\ LoadAll(f).ok => \A s \in Script : \A n : Defs(f[s], n) \subseteq Defs(LoadAll(f).r.all, n)
<1>. DEFINE q == Between(1, NScript)
            c == [files |-> f, seq |-> q]
            D == DOMAIN q
            Good(T, o) ==
              /\ DOMAIN o.r = Parts /\ o.r.stripped = NoMap /\ o.r.preceding = NoMap
              /\ o.ok => \A i \in T : \A n : Defs(f[q[i]], n) \subseteq Defs(o.r.all, n)
            G == {T \in SUBSET D : Good(T, Known(c, T))}
<1>1. NScript \in Int
  BY ScriptAssumption DEF ScriptAssumption
<1>2. {} \in G
  <2>1. Known(c, {}) = [ok |-> TRUE, r |-> EmptyRepo]
    BY Knowing!FoldOverNothing DEF Known
  <2>. QED  BY <2>1 DEF EmptyRepo, Parts
<1>3. ASSUME NEW T \in SUBSET D, T # {}, Knowing!Rest(T) \in G PROVE T \in G
  <2>. DEFINE U == Knowing!Rest(T)
              o == Known(c, U)
              p == OneMoreKnown(c, Latest(T), o)
              s == q[Latest(T)]
  <2>1. Known(c, T) = p
    BY <1>1, <1>3, KnownStep
  <2>2. Good(U, o)
    BY <1>3
  <2>3. p = IF o.ok THEN MergeToGlobal(o.r, f[s], s) ELSE o
    BY DEF OneMoreKnown
  <2>4. T = U \cup {Latest(T)}
    <3>1. Latest(T) \in T
      BY <1>1, <1>3, KnownStep
    <3>. HIDE DEF Latest
    <3>. QED  BY <3>1 DEF Knowing!Rest
  <2>5. Good(T, p)
    <3>1. CASE ~ o.ok
      BY <2>2, <2>3, <3>1
    <3>2. CASE o.ok
      <4>. HIDE DEF o
      <4>1. /\ DOMAIN p.r = Parts /\ p.r.stripped = NoMap /\ p.r.preceding = NoMap
            /\ p.r.all = MergeInto(o.r.all, f[s])
        BY <2>2, <2>3, <3>2, MergeParts
      <4>. HIDE DEF p, U
      <4>2. \A n : Defs(p.r.all, n) = Defs(o.r.all, n) \cup Defs(f[s], n)
        BY <4>1, MergedNames
      <4>3. \A i \in U : \A n : Defs(f[q[i]], n) \subseteq Defs(o.r.all, n)
        BY <2>2, <3>2
      <4>4. \A i \in T : \A n : Defs(f[q[i]], n) \subseteq Defs(p.r.all, n)
        BY <2>4, <4>2, <4>3
      <4>. QED  BY <4>1, <4>4
    <3>. QED  BY <3>1, <3>2
  <2>. QED  BY <2>1, <2>5
<1>4. D \in G
  <2>1. Knowing!Descends(D) /\ Knowing!Picks(D)
    BY <1>1, BetweenPositions
  <2>. HIDE DEF D, G
  <2>. QED  BY <1>2, <1>3, <2>1, Knowing!Induction
<1>5. LoadAll(f) = Known(c, D)
  BY LoadAllIsFold
<1>6. \A s \in Script : \E i \in D : q[i] = s
  BY <1>1, BetweenPositions DEF Script
<1>. HIDE DEF c, D, q
<1>. QED  BY <1>4, <1>5, <1>6

\* Merging files: no name is lost, and those that come to the preceding ones are
\* names of these files.
LEMMA LoadRangeNames ==
  ASSUME NEW f, NEW r, NEW a \in Int, NEW b \in Int, DOMAIN r = Parts
  PROVE  /\ DOMAIN LoadRange(r, f, a, b).r = Parts
         /\ \A n : Defs(r.all, n) \subseteq Defs(LoadRange(r, f, a, b).r.all, n)
         /\ \A n : \A x \in Defs(LoadRange(r, f, a, b).r.preceding, n) :
              x \in Defs(r.preceding, n) \/ \E s \in a..b : x \in Defs(f[s], n)
<1>. DEFINE q == Between(a, b)
            c == [files |-> f, seq |-> q]
            D == DOMAIN q
            Good(o) ==
              /\ DOMAIN o.r = Parts
              /\ \A n : Defs(r.all, n) \subseteq Defs(o.r.all, n)
              /\ \A n : \A x \in Defs(o.r.preceding, n) :
                   x \in Defs(r.preceding, n) \/ \E s \in a..b : x \in Defs(f[s], n)
            G == {T \in SUBSET D : Good(Loaded(c, r, T))}
<1>1. {} \in G
  <2>1. Loaded(c, r, {}) = [ok |-> TRUE, r |-> r]
    BY Merging!FoldOverNothing DEF Loaded
  <2>. QED  BY <2>1
<1>2. ASSUME NEW T \in SUBSET D, T # {}, Merging!Rest(T) \in G PROVE T \in G
  <2>. DEFINE o == Loaded(c, r, Merging!Rest(T))
              s == q[Latest(T)]
              p == OneMoreMerged(c, Latest(T), o)
  <2>1. Loaded(c, r, T) = p /\ Latest(T) \in D
    BY <1>2, LoadedStep
  <2>2. Good(o)
    BY <1>2
  <2>3. s \in a..b
    BY <2>1, BetweenPositions
  <2>4. p = IF o.ok THEN Merge(o.r, f[s], s) ELSE o
    BY DEF OneMoreMerged
  <2>5. Good(p)
    <3>1. CASE ~ o.ok
      BY <2>2, <2>4, <3>1
    <3>2. CASE o.ok
      <4>. HIDE DEF o, s
      <4>1. /\ DOMAIN p.r = Parts
            /\ p.r.all = MergeInto(o.r.all, f[s]) /\ p.r.preceding = MergeInto(o.r.preceding, f[s])
        BY <2>2, <2>4, <3>2, MergeParts
      <4>. HIDE DEF p
      <4>2. \A n : /\ Defs(p.r.all, n) = Defs(o.r.all, n) \cup Defs(f[s], n)
                   /\ Defs(p.r.preceding, n) = Defs(o.r.preceding, n) \cup Defs(f[s], n)
        BY <4>1, MergedNames
      <4>. QED  BY <2>2, <2>3, <4>1, <4>2
    <3>. QED  BY <3>1, <3>2
  <2>. QED  BY <2>1, <2>5
<1>3. D \in G
  <2>1. Merging!Descends(D) /\ Merging!Picks(D)
    BY BetweenPositions
  <2>. HIDE DEF D, G
  <2>. QED  BY <1>1, <1>2, <2>1, Merging!Induction
<1>4. LoadRange(r, f, a, b) = Loaded(c, r, D)
  BY LoadRangeIsFold
<1>. HIDE DEF c, D
<1>. QED  BY <1>3, <1>4

-----------------------------------------------------------------------------
(* What the files say is true                                              *)

\* What i says of the name x is true of the entities c of a network.
IsTrue(i, x, c) ==
  /\ i.id \in DOMAIN c
  /\ c[i.id].name = x /\ c[i.id].kind = i.kind
  /\ i.deleted => c[i.id].gone

\* A script keeps the value w for the key k on the network n.
Kept(n, k, w) ==
  \E s \in Script : \E j \in DOMAIN Program[s][n] :
    /\ Program[s][n][j].do = "kv"
    /\ Program[s][n][j].key = k /\ Program[s][n][j].val = w

\* All that cps says of assets and applications is true, and its values are kept by
\* some script.
Faithful(cps, ch) ==
  \A n \in Net : /\ \A x \in Owned(At(cps, n)) : IsTrue(At(cps, n).defs[x], x, ch[n])
                 /\ \A k \in DOMAIN At(cps, n).meta : Kept(n, k, At(cps, n).meta[k])

\* Entities are created and go, and nothing else happens to them.
Later(ch, next) ==
  \A n \in Net : /\ DOMAIN ch[n] \subseteq DOMAIN next[n]
                 /\ \A i \in DOMAIN ch[n] : /\ next[n][i].name = ch[n][i].name
                                            /\ next[n][i].kind = ch[n][i].kind
                                            /\ ch[n][i].gone => next[n][i].gone

\* What is true stays true.
LEMMA FaithfulLater ==
  ASSUME NEW cps, NEW ch, NEW next, Faithful(cps, ch), Later(ch, next)
  PROVE  Faithful(cps, next)
BY DEF Faithful, Later, IsTrue

\* Nothing said is nothing false.
LEMMA FaithfulEmpty ==
  ASSUME NEW ch
  PROVE  Faithful(NoMap, ch)
BY DEF Faithful, Owned, At, NoMap, NoCheckpoint

\* A merge of what is true is true.
LEMMA FaithfulMerge ==
  ASSUME NEW t, NEW cps, NEW ch, Faithful(t, ch), Faithful(cps, ch)
  PROVE  Faithful(MergeInto(t, cps), ch)
<1>0. ASSUME NEW n \in Net, NEW k \in DOMAIN At(MergeInto(t, cps), n).meta
      PROVE  Kept(n, k, At(MergeInto(t, cps), n).meta[k])
  BY <1>0, MergedMeta DEF Faithful
<1>. SUFFICES ASSUME NEW n \in Net, NEW x \in Owned(At(MergeInto(t, cps), n))
              PROVE  IsTrue(At(MergeInto(t, cps), n).defs[x], x, ch[n])
  BY <1>0 DEF Faithful
<1>. DEFINE m == At(MergeInto(t, cps), n)
            a == At(t, n)
            b == At(cps, n)
<1>1. /\ DOMAIN m.defs = DOMAIN a.defs \cup DOMAIN b.defs
      /\ \A y \in DOMAIN m.defs : m.defs[y] = IF y \in DOMAIN b.defs THEN b.defs[y] ELSE a.defs[y]
  BY MergedDefs
<1>2. \A y \in Owned(a) : IsTrue(a.defs[y], y, ch[n])
  BY DEF Faithful
<1>3. \A y \in Owned(b) : IsTrue(b.defs[y], y, ch[n])
  BY DEF Faithful
<1>4. x \in Owned(m)
  OBVIOUS
<1>. HIDE DEF m, a, b
<1>5. x \in DOMAIN m.defs /\ m.defs[x].kind # "lsig"
  BY <1>4 DEF Owned
<1>6. CASE x \in DOMAIN b.defs
  <2>1. m.defs[x] = b.defs[x] /\ x \in Owned(b)
    BY <1>1, <1>5, <1>6 DEF Owned
  <2>. QED  BY <1>3, <2>1 DEF m
<1>7. CASE x \notin DOMAIN b.defs
  <2>1. m.defs[x] = a.defs[x] /\ x \in Owned(a)
    BY <1>1, <1>5, <1>7 DEF Owned
  <2>. QED  BY <1>2, <2>1 DEF m
<1>. QED  BY <1>6, <1>7

\* The invariant: the files and what a script sees and adds are faithful.
Truth ==
  /\ chain \in [Net -> Seq(Entity)]
  /\ \A s \in Script : Faithful(files[s], chain)
  /\ Faithful(repo.stripped, chain) /\ Faithful(repo.preceding, chain)

\* The loading of all files leaves nothing in the two parts.
LEMMA LoadAllFaithful ==
  ASSUME NEW f, NEW ch
  PROVE  Faithful(LoadAll(f).r.stripped, ch) /\ Faithful(LoadAll(f).r.preceding, ch)
BY LoadAllNames, FaithfulEmpty

\* What the files say is merged with what is there.
LEMMA LoadRangeFaithful ==
  ASSUME NEW f, NEW ch, NEW r, NEW a \in Int, NEW b \in Int,
         \A s \in a..b : Faithful(f[s], ch),
         Faithful(r.stripped, ch), Faithful(r.preceding, ch)
  PROVE  /\ Faithful(LoadRange(r, f, a, b).r.stripped, ch)
         /\ Faithful(LoadRange(r, f, a, b).r.preceding, ch)
<1>. DEFINE c == [files |-> f, seq |-> Between(a, b)]
            D == DOMAIN Between(a, b)
            Good(o) == Faithful(o.r.stripped, ch) /\ Faithful(o.r.preceding, ch)
            G == {T \in SUBSET D : Good(Loaded(c, r, T))}
<1>1. {} \in G
  <2>1. Loaded(c, r, {}) = [ok |-> TRUE, r |-> r]
    BY Merging!FoldOverNothing DEF Loaded
  <2>. QED  BY <2>1
<1>2. ASSUME NEW T \in SUBSET D, T # {}, Merging!Rest(T) \in G PROVE T \in G
  <2>. DEFINE o == Loaded(c, r, Merging!Rest(T))
              s == Between(a, b)[Latest(T)]
              p == OneMoreMerged(c, Latest(T), o)
  <2>1. Loaded(c, r, T) = p /\ Latest(T) \in D
    BY <1>2, LoadedStep
  <2>2. Good(o)
    BY <1>2
  <2>3. Faithful(f[s], ch)
    BY <2>1, BetweenPositions
  <2>4. p = IF o.ok THEN Merge(o.r, f[s], s) ELSE o
    BY DEF OneMoreMerged
  <2>5. Good(p)
    <3>. HIDE DEF o, s, p
    <3>1. Faithful(MergeInto(o.r.preceding, f[s]), ch)
      BY <2>2, <2>3, FaithfulMerge
    <3>. QED  BY <2>2, <2>3, <2>4, <3>1 DEF Merge
  <2>. QED  BY <2>1, <2>5
<1>3. D \in G
  <2>1. Merging!Descends(D) /\ Merging!Picks(D)
    BY BetweenPositions
  <2>. HIDE DEF D, G
  <2>. QED  BY <1>1, <1>2, <2>1, Merging!Induction
<1>4. LoadRange(r, f, a, b) = Loaded(c, r, D)
  BY LoadRangeIsFold
<1>. QED  BY <1>3, <1>4

\* Recording something true leaves what is true.
LEMMA FaithfulRecord ==
  ASSUME NEW r, NEW n, NEW cp, NEW ch,
         Faithful(r.stripped, ch), Faithful(r.preceding, ch),
         \A x \in Owned(cp) : IsTrue(cp.defs[x], x, ch[n]),
         \A k \in DOMAIN cp.meta : Kept(n, k, cp.meta[k])
  PROVE  Faithful(Record(r, n, cp).stripped, ch) /\ Faithful(Record(r, n, cp).preceding, ch)
<1>. DEFINE cps == Only(n, cp)
<1>1. \A m : At(cps, m) = IF m = n THEN cp ELSE NoCheckpoint
  BY OnlyAt
<1>. HIDE DEF cps
<1>2. Owned(NoCheckpoint) = {} /\ DOMAIN NoCheckpoint.meta = {}
  BY DEF Owned, NoCheckpoint, NoMap
<1>3. Faithful(cps, ch)
  BY <1>1, <1>2 DEF Faithful
<1>4. /\ Record(r, n, cp).stripped = MergeInto(r.stripped, cps)
      /\ Record(r, n, cp).preceding = MergeInto(r.preceding, cps)
  BY RecordMerges DEF cps
<1>. QED  BY <1>3, <1>4, FaithfulMerge

\* In particular an entry for the name of the call.
LEMMA FaithfulRegistered ==
  ASSUME NEW ch, Faithful(repo.stripped, ch), Faithful(repo.preceding, ch),
         NEW k, NEW i, NEW d,
         k # "lsig" => IsTrue([kind |-> k, id |-> i, deleted |-> d], Call.name, ch[task.net])
  PROVE  /\ Faithful(Registered(k, i, d).stripped, ch)
         /\ Faithful(Registered(k, i, d).preceding, ch)
<1>. DEFINE info == [kind |-> k, id |-> i, deleted |-> d]
            cp == [NoCheckpoint EXCEPT !.defs = [y \in {Call.name} |-> info]]
<1>1. cp.defs = [y \in {Call.name} |-> info]
  BY DEF NoCheckpoint
<1>2. \A x \in Owned(cp) : IsTrue(cp.defs[x], x, ch[task.net])
  BY <1>1 DEF Owned
<1>3. Registered(k, i, d) = Record(repo, task.net, cp)
  BY DEF Registered, Register
<1>4. DOMAIN cp.meta = {}
  BY DEF NoCheckpoint, NoMap
<1>. HIDE DEF cp
<1>. QED  BY <1>2, <1>3, <1>4, FaithfulRecord

\* However a call ends, the files are faithful to what it did on the network.
LEMMA EndsTruth ==
  ASSUME IInv, Truth, ~Idle, NEW r, Ends(r),
         chain' \in [Net -> Seq(Entity)], Later(chain, chain'),
         Faithful(r.stripped, chain'), Faithful(r.preceding, chain')
  PROVE  Truth'
<1>1. \A s \in Script : Faithful(files[s], chain')
  BY FaithfulLater DEF Truth
<1>2. Faithful(repo.stripped, chain') /\ Faithful(repo.preceding, chain')
  BY FaithfulLater DEF Truth
<1>3. Faithful(EmptyRepo.stripped, chain') /\ Faithful(EmptyRepo.preceding, chain')
  BY FaithfulEmpty DEF EmptyRepo
<1>4. CASE Throw
  BY <1>1, <1>3, <1>4 DEF Throw, EndTask, Truth, Faithful, Owned, At
<1>5. CASE Fail(r) /\ task.write
  <2>1. repo' = EmptyRepo /\ files' = [files EXCEPT ![Current] = r.stripped]
    BY <1>5 DEF Fail, SaveAndThrow, EndTask, Save
  <2>2. \A s \in Script : files'[s] = IF s = Current THEN r.stripped ELSE files[s]
    BY <2>1 DEF IInv, Control
  <2>3. \A s \in Script : Faithful(files'[s], chain')
    BY <1>1, <2>2
  <2>. QED  BY <1>3, <2>1, <2>3 DEF Truth, Faithful, Owned, At
<1>6. CASE Return(r)
  <2>1. (repo' = r \/ repo' = repo) /\ files' = files
    BY <1>6 DEF Return
  <2>. QED  BY <1>1, <1>2, <2>1 DEF Truth, Faithful, Owned, At
<1>. QED  BY <1>4, <1>5, <1>6 DEF Ends, Fail

\* Nothing happening on the network is a special case.
LEMMA LaterSame == \A ch : Later(ch, ch)
BY DEF Later

\* So the end of a call that did nothing keeps the truth of the files.
LEMMA EndsUnchanged ==
  ASSUME IInv, Truth, ~Idle, NEW r, Ends(r), UNCHANGED chain,
         Faithful(r.stripped, chain), Faithful(r.preceding, chain)
  PROVE  Truth'
<1>1. chain' \in [Net -> Seq(Entity)] /\ Later(chain, chain')
  BY LaterSame DEF Truth
<1>. QED  BY <1>1, EndsTruth

\* The control of a call.
LEMMA CallContext ==
  ASSUME IInv, NEW do, Calling(do)
  PROVE  /\ ~Idle /\ task.net \in Net
         /\ Call \in Op /\ Call.do = do
<1>1. ~Idle /\ op \in DOMAIN Calls /\ Call.do = do
  BY DEF Calling, Call
<1>2. Current \in Script /\ task.net \in Net
  BY <1>1 DEF IInv, Control, Idle, Current, Task
<1>3. Calls \in Seq(Op)
  BY <1>2, ProgramAssumption DEF ProgramAssumption, Calls
<1>. QED  BY <1>1, <1>2, <1>3 DEF Call

\* A creation adds one entity, of which the new record is true.
LEMMA CreateLater ==
  ASSUME IInv, Truth, Calling("deploy"), Create
  PROVE  /\ chain' \in [Net -> Seq(Entity)] /\ Later(chain, chain')
         /\ Faithful(repo.stripped, chain') /\ Faithful(repo.preceding, chain')
         /\ Faithful(RegisteredNew.stripped, chain') /\ Faithful(RegisteredNew.preceding, chain')
<1>. DEFINE n == task.net
            e == [name |-> Call.name, kind |-> Call.kind, gone |-> FALSE]
            c == chain[n]
<1>1. n \in Net /\ e \in Entity /\ c \in Seq(Entity)
  <2>1. n \in Net /\ Call \in Op /\ Call.do = "deploy"
    BY CallContext
  <2>2. Call.name \in Name /\ Call.kind \in {"asa", "app"}
    BY <2>1 DEF Op
  <2>. QED  BY <2>1, <2>2 DEF Entity, Truth
<1>2. Created = Append(c, e)
  BY DEF Created
<1>. HIDE DEF e
<1>3. /\ Created \in Seq(Entity) /\ Len(Created) = Len(c) + 1 /\ Created[Len(c) + 1] = e
      /\ DOMAIN Created = 1..(Len(c) + 1) /\ DOMAIN c = 1..Len(c) /\ Len(c) \in Nat
      /\ \A i \in DOMAIN c : Created[i] = c[i]
  BY <1>1, <1>2
<1>4. chain' = [m \in Net |-> IF m = n THEN Created ELSE chain[m]]
  BY DEF Create, Truth
<1>5. chain' \in [Net -> Seq(Entity)]
  BY <1>3, <1>4 DEF Truth
<1>6. Later(chain, chain')
  <2>1. \A m \in Net : chain'[m] = IF m = n THEN Created ELSE chain[m]
    BY <1>4
  <2>2. DOMAIN c \subseteq DOMAIN Created
    BY <1>3
  <2>. HIDE DEF n, c
  <2>. QED  BY <1>3, <2>1, <2>2 DEF Later, c
<1>7. Faithful(repo.stripped, chain') /\ Faithful(repo.preceding, chain')
  BY <1>6, FaithfulLater DEF Truth
<1>8. IsTrue([kind |-> Call.kind, id |-> Len(Created), deleted |-> FALSE], Call.name, chain'[n])
  <2>1. chain'[n] = Created
    BY <1>1, <1>4
  <2>2. Created[Len(Created)] = e /\ Len(Created) \in DOMAIN Created
    BY <1>3
  <2>. QED  BY <2>1, <2>2 DEF IsTrue, e
<1>9. /\ Faithful(Registered(Call.kind, Len(Created), FALSE).stripped, chain')
      /\ Faithful(Registered(Call.kind, Len(Created), FALSE).preceding, chain')
  BY <1>7, <1>8, FaithfulRegistered
<1>. QED  BY <1>5, <1>6, <1>7, <1>9 DEF RegisteredNew

\* A deployment: what it registers is what it created.
LEMMA DeployEntityTruth ==
  ASSUME IInv, Truth, DeployEntity
  PROVE  Truth'
<1>1. Calling("deploy") /\ ~Idle
  BY CallContext DEF DeployEntity
<1>2. CASE UNCHANGED chain /\ Ends(repo)
  BY <1>1, <1>2, EndsUnchanged DEF Truth
<1>3. CASE Create /\ (Ends(repo) \/ Ends(RegisteredNew))
  BY <1>1, <1>3, CreateLater, EndsTruth
<1>. QED  BY <1>2, <1>3 DEF DeployEntity, OptInFails, Ends

\* A logic signature has no entity.
LEMMA MakeLsigTruth ==
  ASSUME IInv, Truth, MakeLsig
  PROVE  Truth'
<1>1. ~Idle
  BY CallContext DEF MakeLsig
<1>. DEFINE r == Registered("lsig", 0, FALSE)
<1>2. (Ends(repo) \/ Ends(r)) /\ UNCHANGED chain
  BY DEF MakeLsig, Ends
<1>3. Faithful(r.stripped, chain) /\ Faithful(r.preceding, chain)
  BY FaithfulRegistered DEF Truth
<1>. HIDE DEF r
<1>. QED  BY <1>1, <1>2, <1>3, EndsUnchanged DEF Truth

\* Nor has a pair.
LEMMA AddCheckpointKVTruth ==
  ASSUME IInv, Truth, AddCheckpointKV
  PROVE  Truth'
<1>1. ~Idle /\ Kept(task.net, Call.key, Call.val)
  <2>1. ~Idle /\ task.net \in Net /\ op \in DOMAIN Calls /\ Calls[op].do = "kv"
    BY CallContext DEF AddCheckpointKV, Calling
  <2>2. Current \in Script
    BY <2>1 DEF IInv, Control, Idle, Current
  <2>. QED  BY <2>1, <2>2 DEF Kept, Calls, Call
<1>. DEFINE r == PutMetadata(repo, task.net, Call.key, Call.val)
            cp == [NoCheckpoint EXCEPT !.meta = [j \in {Call.key} |-> Call.val]]
<1>2. (Ends(repo) \/ Ends(r)) /\ UNCHANGED chain
  BY DEF AddCheckpointKV, Ends
<1>3. Owned(cp) = {} /\ \A j \in DOMAIN cp.meta : j = Call.key /\ cp.meta[j] = Call.val
  BY DEF Owned, NoCheckpoint, NoMap
<1>4. Faithful(r.stripped, chain) /\ Faithful(r.preceding, chain)
  <2>1. r = Record(repo, task.net, cp)
    BY DEF PutMetadata
  <2>. HIDE DEF cp, r
  <2>. QED  BY <1>1, <1>3, <2>1, FaithfulRecord DEF Truth
<1>. HIDE DEF r
<1>. QED  BY <1>1, <1>2, <1>4, EndsUnchanged DEF Truth

\* A name that is shown as an asset or application is looked up on the network.
LEMMA ShownTrue ==
  ASSUME Truth, task.net \in Net, NEW k \in {"asa", "app"}, Shows(k)
  PROVE  Shown.kind = k /\ IsTrue(Shown, Call.name, chain[task.net])
<1>. DEFINE n == task.net
            x == Call.name
<1>1. x \in DOMAIN At(repo.preceding, n).defs /\ At(repo.preceding, n).defs[x].kind = k
  BY DEF Shows, Visible
<1>2. Shown = At(repo.preceding, n).defs[x]
  <2>1. n \in DOMAIN repo.preceding
    BY <1>1 DEF At, NoCheckpoint, NoMap
  <2>. QED  BY <2>1 DEF Shown, InfoOf, At
<1>3. x \in Owned(At(repo.preceding, n))
  BY <1>1 DEF Owned
<1>. QED  BY <1>1, <1>2, <1>3 DEF Truth, Faithful

\* An update registers what was found.
LEMMA UpdateAppTruth ==
  ASSUME IInv, Truth, UpdateApp
  PROVE  Truth'
<1>1. ~Idle /\ task.net \in Net
  BY CallContext DEF UpdateApp
<1>2. CASE Ends(repo) /\ UNCHANGED chain
  BY <1>1, <1>2, EndsUnchanged DEF Truth
<1>. DEFINE r == Registered("app", Shown.id, FALSE)
<1>3. CASE Ends(r) /\ UNCHANGED chain /\ Shows("app")
  <2>1. Shown.kind = "app" /\ IsTrue(Shown, Call.name, chain[task.net])
    BY <1>1, <1>3, ShownTrue
  <2>2. IsTrue([kind |-> "app", id |-> Shown.id, deleted |-> FALSE], Call.name, chain[task.net])
    BY <2>1 DEF IsTrue
  <2>3. Faithful(r.stripped, chain) /\ Faithful(r.preceding, chain)
    BY <2>2, FaithfulRegistered DEF Truth
  <2>. HIDE DEF r
  <2>. QED  BY <1>1, <1>3, <2>3, EndsUnchanged
<1>. QED  BY <1>2, <1>3 DEF UpdateApp, Ends

\* What a deletion does on the network.
LEMMA DeleteLater ==
  ASSUME Truth, task.net \in Net, NEW k \in {"asa", "app"}, Shows(k),
         chain' = [chain EXCEPT ![task.net][Shown.id].gone = TRUE]
  PROVE  /\ chain' \in [Net -> Seq(Entity)] /\ Later(chain, chain')
         /\ Faithful(repo.stripped, chain') /\ Faithful(repo.preceding, chain')
         /\ Faithful(Registered(k, Shown.id, TRUE).stripped, chain')
         /\ Faithful(Registered(k, Shown.id, TRUE).preceding, chain')
<1>. DEFINE n == task.net
            i == Shown.id
            c == chain[n]
            d == [c EXCEPT ![i].gone = TRUE]
<1>1. Shown.kind = k /\ IsTrue(Shown, Call.name, c)
  BY ShownTrue
<1>2. c \in Seq(Entity) /\ i \in DOMAIN c /\ c[i] \in Entity
  BY <1>1 DEF Truth, IsTrue
<1>3. chain' = [m \in Net |-> IF m = n THEN d ELSE chain[m]]
  BY DEF Truth
<1>4. /\ DOMAIN d = DOMAIN c
      /\ \A j \in DOMAIN c : j # i => d[j] = c[j]
      /\ d[i].name = c[i].name /\ d[i].kind = c[i].kind /\ d[i].gone = TRUE
      /\ d[i] \in Entity
  BY <1>2 DEF Entity
<1>. HIDE DEF d
<1>5. d \in Seq(Entity)
  <2>1. \A j \in 1..Len(c) : d[j] \in Entity
    BY <1>2, <1>4
  <2>2. DOMAIN d = 1..Len(c) /\ Len(c) \in Nat
    BY <1>2, <1>4
  <2>3. d = [j \in 1..Len(c) |-> d[j]]
    <3>1. d = [j \in DOMAIN c |-> d[j]]
      BY DEF d
    <3>. QED  BY <3>1, <2>2, <1>4
  <2>4. d \in [1..Len(c) -> Entity]
    BY <2>1, <2>3
  <2>5. Seq(Entity) = UNION {[1..m -> Entity] : m \in Nat}
    BY SeqDef
  <2>. HIDE DEF n, c, i
  <2>. QED  BY <2>2, <2>4, <2>5
<1>6. chain' \in [Net -> Seq(Entity)]
  BY <1>3, <1>5 DEF Truth
<1>7. Later(chain, chain')
  <2>1. \A m \in Net : chain'[m] = IF m = n THEN d ELSE chain[m]
    BY <1>3
  <2>2. /\ DOMAIN c \subseteq DOMAIN d
        /\ \A j \in DOMAIN c : /\ d[j].name = c[j].name /\ d[j].kind = c[j].kind
                               /\ c[j].gone => d[j].gone
    BY <1>4
  <2>. HIDE DEF n, c, i
  <2>. QED  BY <2>1, <2>2 DEF Later, c
<1>8. Faithful(repo.stripped, chain') /\ Faithful(repo.preceding, chain')
  BY <1>7, FaithfulLater DEF Truth
<1>9. IsTrue([kind |-> k, id |-> i, deleted |-> TRUE], Call.name, chain'[n])
  <2>1. chain'[n] = d
    BY <1>3
  <2>. QED  BY <2>1, <1>1, <1>4 DEF IsTrue
<1>. QED  BY <1>6, <1>7, <1>8, <1>9, FaithfulRegistered

\* A deletion registers what is gone.
LEMMA DeleteEntityTruth ==
  ASSUME IInv, Truth, DeleteEntity
  PROVE  Truth'
<1>1. ~Idle /\ task.net \in Net /\ Call \in Op /\ Call.do = "delete"
  BY CallContext DEF DeleteEntity
<1>2. Call.kind \in {"asa", "app"}
  BY <1>1 DEF Op
<1>3. CASE Ends(repo) /\ UNCHANGED chain
  BY <1>1, <1>3, EndsUnchanged DEF Truth
<1>. DEFINE r == Registered(Call.kind, Shown.id, TRUE)
<1>4. CASE /\ chain' = [chain EXCEPT ![task.net][Shown.id].gone = TRUE] /\ Shows(Call.kind)
           /\ Ends(repo) \/ Ends(r)
  BY <1>1, <1>2, <1>4, DeleteLater, EndsTruth
<1>. QED  BY <1>3, <1>4 DEF DeleteEntity, Ends

\* What is in memory may be kept or lost.
LEMMA TruthKept ==
  ASSUME Truth, UNCHANGED chain,
         \A s \in Script : files'[s] = files[s] \/ Faithful(files'[s], chain),
         Faithful(repo'.stripped, chain), Faithful(repo'.preceding, chain)
  PROVE  Truth'
<1>1. \A s \in Script : Faithful(files'[s], chain)
  BY DEF Truth
<1>. QED  BY <1>1 DEF Truth, Faithful, Owned, At

\* Nothing is in memory when a task ends.
LEMMA EmptyFaithful == \A ch : Faithful(EmptyRepo.stripped, ch) /\ Faithful(EmptyRepo.preceding, ch)
BY FaithfulEmpty DEF EmptyRepo

\* The script may be the last one, or another one starts with r or with nothing.
LEMMA ContinueTruth ==
  ASSUME Truth, UNCHANGED chain, NEW r, NEW next, Continue(r, next),
         \A s \in Script : files'[s] = files[s] \/ Faithful(files'[s], chain),
         Faithful(r.stripped, chain), Faithful(r.preceding, chain)
  PROVE  Truth'
<1>1. repo' = EmptyRepo \/ repo' = r
  BY DEF Continue, EndTask
<1>. QED  BY <1>1, TruthKept, EmptyFaithful

\* Loading the files of all scripts.
LEMMA LoadTruth ==
  ASSUME Truth, Load
  PROVE  Truth'
<1>1. UNCHANGED <<chain, files>> /\ (repo' = EmptyRepo \/ repo' = LoadAll(files).r)
  BY DEF Load, EndTask
<1>. QED  BY <1>1, TruthKept, EmptyFaithful, LoadAllFaithful

\* Merging the files up to that of the next script.
LEMMA EnterTruth ==
  ASSUME IInv, Truth, NEW same \in BOOLEAN, Enter(same)
  PROVE  Truth'
<1>. DEFINE b == IF at <= Current THEN Current - 1 ELSE NScript
            o == LoadRange(repo, files, at, b)
            r == Merged(same).r
<1>1. UNCHANGED <<chain, files>>
  BY DEF Enter
<1>2. Current \in Script /\ at \in Int /\ b \in Int /\ at..b \subseteq Script
  <2>1. ~Idle /\ at > 0
    BY DEF Enter
  <2>. QED  BY <2>1, ScriptAssumption DEF ScriptAssumption, IInv, Control, Idle, Current, Script
<1>3. Faithful(o.r.stripped, chain) /\ Faithful(o.r.preceding, chain)
  <2>. HIDE DEF b
  <2>1. \A s \in at..b : Faithful(files[s], chain)
    BY <1>2 DEF Truth
  <2>. QED  BY <1>2, <2>1, LoadRangeFaithful DEF Truth
<1>4. r.stripped = files[Current] /\ r.preceding = MergeInto(o.r.preceding, files[Current])
  BY DEF Merged, Merge
<1>5. Faithful(r.stripped, chain) /\ Faithful(r.preceding, chain)
  <2>1. Faithful(files[Current], chain)
    BY <1>2 DEF Truth
  <2>. HIDE DEF o, r
  <2>. QED  BY <1>3, <1>4, <2>1, FaithfulMerge
<1>. HIDE DEF r
<1>6. CASE EndTask
  BY <1>1, <1>6, TruthKept, EmptyFaithful DEF EndTask
<1>7. CASE Continue(r, LastToMerge + 1)
  BY <1>1, <1>5, <1>7, ContinueTruth
<1>8. CASE repo' = r
  BY <1>1, <1>5, <1>8, TruthKept
<1>. QED  BY <1>6, <1>7, <1>8 DEF Enter, r

\* Saving what a script did.
LEMMA FinishTruth ==
  ASSUME IInv, Truth, Finish
  PROVE  Truth'
<1>1. /\ UNCHANGED chain /\ Continue(repo, at)
      /\ Save(repo) \/ UNCHANGED files
  BY DEF Finish
<1>2. \A s \in Script : files'[s] = files[s] \/ Faithful(files'[s], chain)
  <2>1. CASE Save(repo)
    <3>1. \A s \in Script : files'[s] = IF s = Current THEN repo.stripped ELSE files[s]
      BY <2>1 DEF Save, IInv, Control
    <3>. QED  BY <3>1 DEF Truth
  <2>. QED  BY <1>1, <2>1
<1>. QED  BY <1>1, <1>2, ContinueTruth DEF Truth

\* A task that begins may remove files.
LEMMA StartTruth ==
  ASSUME Truth, NEW n, NEW list, NEW force,
         StartDeploy(n, list, force) \/ \E s \in Script : StartRun(n, s)
  PROVE  Truth'
<1>1. UNCHANGED <<chain, repo>>
  BY DEF StartDeploy, StartRun
<1>2. \A s \in Script : files'[s] = files[s] \/ files'[s] = NoMap
  BY DEF StartDeploy, StartRun
<1>3. \A s \in Script : files'[s] = files[s] \/ Faithful(files'[s], chain)
  BY <1>2, FaithfulEmpty
<1>. QED  BY <1>1, <1>3, TruthKept DEF Truth

\* Every step keeps the truth.
LEMMA NextTruth ==
  ASSUME IInv, Truth, [Next]_vars
  PROVE  Truth'
<1>1. ASSUME NEW n \in Net, NEW list \in TaskLists, NEW force \in Forces,
             StartDeploy(n, list, force)
      PROVE  Truth'
  BY <1>1, StartTruth
<1>2. ASSUME NEW n \in Net, NEW s \in RunScripts, StartRun(n, s)
      PROVE  Truth'
  BY <1>2, StartTruth, TaskAssumption DEF TaskAssumption
<1>3. CASE Load
  BY <1>3, LoadTruth
<1>4. CASE \E same \in BOOLEAN : Enter(same)
  BY <1>4, EnterTruth
<1>5. CASE DeployEntity
  BY <1>5, DeployEntityTruth
<1>6. CASE MakeLsig
  BY <1>6, MakeLsigTruth
<1>7. CASE AddCheckpointKV
  BY <1>7, AddCheckpointKVTruth
<1>8. CASE UpdateApp
  BY <1>8, UpdateAppTruth
<1>9. CASE DeleteEntity
  BY <1>9, DeleteEntityTruth
<1>10. CASE Finish
  BY <1>10, FinishTruth
<1>11. CASE Stop
  <2>1. UNCHANGED <<chain, files>> /\ repo' = EmptyRepo
    BY <1>11 DEF Stop, Throw, EndTask
  <2>. QED  BY <2>1, TruthKept, EmptyFaithful
<1>12. CASE UNCHANGED vars
  BY <1>12, TruthKept DEF vars, Truth
<1>. QED
  BY <1>1, <1>2, <1>3, <1>4, <1>5, <1>6, <1>7, <1>8, <1>9, <1>10, <1>11, <1>12
  DEF Next, TaskStep

\* Nothing is recorded at first.
LEMMA InitTruth == Init => Truth
<1>. SUFFICES ASSUME Init PROVE Truth
  OBVIOUS
<1>1. chain \in [Net -> Seq(Entity)]
  BY EmptySeq DEF Init
<1>. QED  BY <1>1, FaithfulEmpty, EmptyFaithful DEF Init, Truth

\* So the files and what is in memory are true at any time.
LEMMA TruthStays == Spec => []Truth
<1>1. IInv /\ Truth /\ [Next]_vars => Truth'
  BY NextTruth
<1>. QED  BY <1>1, InitTruth, MemoryExtendsFile, PTL DEF Spec

\* Whatever fails, and wherever the process stops, what a checkpoint file says of an
\* asset or application is true of the network: the entity is there, under that
\* name, and gone if it is marked as deleted.
THEOREM FilesFaithful == Spec => []CheckpointsFaithful
<1>1. Truth => CheckpointsFaithful
  <2>. SUFFICES ASSUME Truth, NEW s \in Script, NEW n \in Net, NEW x \in Owned(At(files[s], n))
                PROVE  IsTrue(Recorded(s, n, x), x, chain[n])
    BY DEF CheckpointsFaithful, IsTrue
  <2>1. IsTrue(At(files[s], n).defs[x], x, chain[n])
    BY DEF Truth, Faithful
  <2>2. n \in DOMAIN files[s]
    BY DEF Owned, At, NoCheckpoint, NoMap
  <2>. QED  BY <2>1, <2>2 DEF Recorded, At
<1>. QED  BY <1>1, TruthStays, PTL

-----------------------------------------------------------------------------
(* What is in memory of the names                                          *)

\* In memory: all has the names of the files and of the current script.
Covered(f, r) ==
  \A n \in Net : /\ \A s \in Script : Defs(f[s], n) \subseteq Defs(r.all, n)
                 /\ Defs(r.stripped, n) \subseteq Defs(r.all, n)

\* What the first calls of the current script deployed is in memory.
Done(r, j) ==
  \A i \in 1..(j - 1) : Calls[i].do \in {"deploy", "lsig"} => Calls[i].name \in Defs(r.stripped, task.net)

\* The invariant.
Memory ==
  /\ DOMAIN repo = Parts
  /\ at > 0 => Covered(files, repo)
  /\ op > 0 /\ task.write => Done(repo, op)

\* What a call may leave in memory.
Fits(r) == DOMAIN r = Parts /\ Covered(files, r)

\* A script that is running has loaded the files.
LEMMA RunningFits ==
  ASSUME IInv, Memory, ~Idle, op > 0
  PROVE  Fits(repo) /\ (task.write => Done(repo, op))
<1>1. at > 0
  BY DEF IInv, Control
<1>. QED  BY <1>1 DEF Memory, Fits

\* Nothing is in memory when a task ends.
LEMMA EndMemory ==
  ASSUME EndTask
  PROVE  Memory'
<1>1. DOMAIN repo' = Parts
  BY DEF EndTask, EmptyRepo, Parts
<1>2. ~(at' > 0) /\ ~(op' > 0)
  BY DEF EndTask
<1>. QED  BY <1>1, <1>2 DEF Memory

\* However a call ends.
LEMMA EndsMemory ==
  ASSUME IInv, Memory, ~Idle, op > 0, NEW r, Fits(r),
         Throw \/ Fail(r) \/ (Return(r) /\ (task.write => Done(r, op + 1)))
  PROVE  Memory'
<1>1. CASE Throw \/ Fail(r)
  BY <1>1, EndMemory DEF Throw, Fail, SaveAndThrow
<1>2. CASE Return(r) /\ (task.write => Done(r, op + 1))
  <2>1. /\ UNCHANGED <<files, task, todo, at>> /\ op' = op + 1
        /\ repo' = IF task.write THEN r ELSE repo
    BY <1>2 DEF Return
  <2>2. Fits(repo') /\ (task.write => Done(repo', op + 1))
    BY <1>2, <2>1, RunningFits
  <2>3. Covered(files, repo)' /\ (task'.write => Done(repo, op)')
    BY <2>1, <2>2 DEF Fits, Done, Calls, Current, Covered
  <2>. QED  BY <2>2, <2>3 DEF Memory, Fits
<1>. QED  BY <1>1, <1>2

\* What registering the name of the call does to the names.
LEMMA RegisteredNames ==
  ASSUME NEW k, NEW i, NEW d
  PROVE  LET r == Registered(k, i, d)
             New(n) == IF n = task.net THEN {Call.name} ELSE {}
         IN  /\ DOMAIN r = Parts
             /\ \A n : /\ Defs(r.stripped, n) = Defs(repo.stripped, n) \cup New(n)
                       /\ Defs(r.preceding, n) = Defs(repo.preceding, n) \cup New(n)
                       /\ Defs(r.all, n) = Defs(repo.all, n) \cup New(n)
<1>. DEFINE r == Registered(k, i, d)
            New(n) == IF n = task.net THEN {Call.name} ELSE {}
            info == [kind |-> k, id |-> i, deleted |-> d]
            cp == [NoCheckpoint EXCEPT !.defs = [y \in {Call.name} |-> info]]
            cps == Only(task.net, cp)
<1>1. \A n : Defs(cps, n) = New(n)
  <2>1. DOMAIN cp.defs = {Call.name} /\ DOMAIN NoCheckpoint.defs = {}
    BY DEF NoCheckpoint, NoMap
  <2>. HIDE DEF cp
  <2>. QED  BY <2>1, OnlyAt DEF Defs
<1>2. r = Record(repo, task.net, cp)
  BY DEF Registered, Register
<1>. HIDE DEF cp, r, New
<1>3. r = [stripped  |-> MergeInto(repo.stripped, cps),
           preceding |-> MergeInto(repo.preceding, cps),
           all       |-> MergeInto(repo.all, cps),
           owner     |-> repo.owner]
  BY <1>2, RecordMerges
<1>. HIDE DEF cps
<1>4. DOMAIN r = Parts
  BY <1>3 DEF Parts
<1>5. \A n : /\ Defs(r.stripped, n) = Defs(repo.stripped, n) \cup New(n)
             /\ Defs(r.preceding, n) = Defs(repo.preceding, n) \cup New(n)
             /\ Defs(r.all, n) = Defs(repo.all, n) \cup New(n)
  BY <1>1, <1>3, MergedNames
<1>. QED  BY <1>4, <1>5 DEF r, New

\* Keeping a pair does nothing to them.
LEMMA PutMetadataNames ==
  ASSUME NEW k, NEW v
  PROVE  LET r == PutMetadata(repo, task.net, k, v)
         IN  /\ DOMAIN r = Parts
             /\ \A n : /\ Defs(r.stripped, n) = Defs(repo.stripped, n)
                       /\ Defs(r.preceding, n) = Defs(repo.preceding, n)
                       /\ Defs(r.all, n) = Defs(repo.all, n)
<1>. DEFINE r == PutMetadata(repo, task.net, k, v)
            cp == [NoCheckpoint EXCEPT !.meta = [j \in {k} |-> v]]
            cps == Only(task.net, cp)
<1>1. \A n : Defs(cps, n) = {}
  <2>1. DOMAIN cp.defs = {} /\ DOMAIN NoCheckpoint.defs = {}
    BY DEF NoCheckpoint, NoMap
  <2>. HIDE DEF cp
  <2>. QED  BY <2>1, OnlyAt DEF Defs
<1>2. r = Record(repo, task.net, cp)
  BY DEF PutMetadata
<1>. HIDE DEF cp, r
<1>3. r = [stripped  |-> MergeInto(repo.stripped, cps),
           preceding |-> MergeInto(repo.preceding, cps),
           all       |-> MergeInto(repo.all, cps),
           owner     |-> repo.owner]
  BY <1>2, RecordMerges
<1>. HIDE DEF cps
<1>4. DOMAIN r = Parts
  BY <1>3 DEF Parts
<1>5. \A t, n : Defs(MergeInto(t, cps), n) = Defs(t, n)
  BY <1>1, MergedNames
<1>6. \A n : /\ Defs(r.stripped, n) = Defs(repo.stripped, n)
             /\ Defs(r.preceding, n) = Defs(repo.preceding, n)
             /\ Defs(r.all, n) = Defs(repo.all, n)
  BY <1>3, <1>5
<1>. QED  BY <1>4, <1>6 DEF r

\* A name that is registered is registered in all parts.
LEMMA RegisteredFits ==
  ASSUME Fits(repo), NEW k, NEW i, NEW d
  PROVE  Fits(Registered(k, i, d))
<1>. DEFINE r == Registered(k, i, d)
            New(n) == IF n = task.net THEN {Call.name} ELSE {}
<1>1. /\ DOMAIN r = Parts
      /\ \A n : /\ Defs(r.stripped, n) = Defs(repo.stripped, n) \cup New(n)
                /\ Defs(r.all, n) = Defs(repo.all, n) \cup New(n)
  BY RegisteredNames
<1>. HIDE DEF r, New
<1>2. Covered(files, r)
  BY <1>1 DEF Fits, Covered
<1>. QED  BY <1>1, <1>2 DEF Fits, r

\* What is registered is done.
LEMMA RegisteredDone ==
  ASSUME IInv, op > 0, NEW k, NEW i, NEW d, Done(repo, op)
  PROVE  Done(Registered(k, i, d), op + 1)
<1>. DEFINE r == Registered(k, i, d)
<1>1. \A n : Defs(r.stripped, n)
               = Defs(repo.stripped, n) \cup (IF n = task.net THEN {Call.name} ELSE {})
  BY RegisteredNames
<1>. HIDE DEF r
<1>2. op \in Nat /\ op + 1 - 1 = op
  BY DEF IInv, Control
<1>. SUFFICES ASSUME NEW j \in 1..op, Calls[j].do \in {"deploy", "lsig"}
              PROVE  Calls[j].name \in Defs(r.stripped, task.net)
  BY <1>2 DEF Done, r
<1>3. CASE j = op
  BY <1>1, <1>3 DEF Call
<1>4. CASE j # op
  <2>1. j \in 1..(op - 1)
    BY <1>2, <1>4
  <2>. QED  BY <1>1, <2>1 DEF Done
<1>. QED  BY <1>3, <1>4

\* Nor does a call that deploys nothing need to register anything.
LEMMA OtherDone ==
  ASSUME IInv, op > 0, NEW r, Done(repo, op), Call.do \notin {"deploy", "lsig"},
         \A n : Defs(r.stripped, n) = Defs(repo.stripped, n)
  PROVE  Done(r, op + 1)
<1>1. op \in Nat /\ op + 1 - 1 = op
  BY DEF IInv, Control
<1>. SUFFICES ASSUME NEW j \in 1..op, Calls[j].do \in {"deploy", "lsig"}
              PROVE  Calls[j].name \in Defs(r.stripped, task.net)
  BY <1>1 DEF Done
<1>2. op \in Nat /\ j # op
  BY <1>1 DEF Call
<1>3. j \in 1..(op - 1)
  BY <1>2
<1>. QED  BY <1>3 DEF Done

\* The calls that register their name.
LEMMA RegisterMemory ==
  ASSUME IInv, Memory, ~Idle, op > 0, NEW k, NEW i, NEW d,
         \/ Throw \/ Fail(repo)
         \/ Fail(Registered(k, i, d)) \/ Return(Registered(k, i, d))
  PROVE  Memory'
<1>. DEFINE r == Registered(k, i, d)
<1>1. Fits(repo) /\ (task.write => Done(repo, op))
  BY RunningFits
<1>2. CASE Throw \/ Fail(repo)
  BY <1>1, <1>2, EndsMemory
<1>3. CASE Fail(r) \/ Return(r)
  <2>1. Fits(r)
    BY <1>1, RegisteredFits
  <2>2. task.write => Done(r, op + 1)
    BY <1>1, RegisteredDone
  <2>. HIDE DEF r
  <2>. QED  BY <1>3, <2>1, <2>2, EndsMemory
<1>. QED  BY <1>2, <1>3

\* The call that does not.
LEMMA AddCheckpointKVMemory ==
  ASSUME IInv, Memory, AddCheckpointKV
  PROVE  Memory'
<1>. DEFINE r == PutMetadata(repo, task.net, Call.key, Call.val)
<1>1. ~Idle /\ op > 0 /\ Call.do = "kv"
  BY CallingStarted DEF AddCheckpointKV, Calling, Call
<1>2. Fits(repo) /\ (task.write => Done(repo, op))
  BY <1>1, RunningFits
<1>3. /\ DOMAIN r = Parts
      /\ \A n : Defs(r.stripped, n) = Defs(repo.stripped, n) /\ Defs(r.all, n) = Defs(repo.all, n)
  BY PutMetadataNames
<1>4. Throw \/ (task.write /\ (Return(repo) \/ Return(r)))
  BY DEF AddCheckpointKV
<1>. HIDE DEF r
<1>5. Fits(r)
  BY <1>2, <1>3 DEF Fits, Covered
<1>6. task.write => Done(repo, op + 1) /\ Done(r, op + 1)
  BY <1>1, <1>2, <1>3, OtherDone
<1>. QED  BY <1>1, <1>2, <1>4, <1>5, <1>6, EndsMemory

\* All calls.
LEMMA CallMemory ==
  ASSUME IInv, Memory, DeployEntity \/ MakeLsig \/ AddCheckpointKV \/ UpdateApp \/ DeleteEntity
  PROVE  Memory'
<1>1. ~Idle /\ op > 0
  BY CallingStarted DEF DeployEntity, MakeLsig, AddCheckpointKV, UpdateApp, DeleteEntity
<1>2. CASE DeployEntity
  <2>1. \/ Throw \/ Fail(repo)
        \/ Fail(Registered(Call.kind, Len(Created), FALSE))
        \/ Return(Registered(Call.kind, Len(Created), FALSE))
    BY <1>2 DEF DeployEntity, OptInFails, RegisteredNew
  <2>. QED  BY <1>1, <2>1, RegisterMemory
<1>3. CASE MakeLsig
  <2>1. Throw \/ Fail(repo) \/ Return(Registered("lsig", 0, FALSE))
    BY <1>3 DEF MakeLsig
  <2>. QED  BY <1>1, <2>1, RegisterMemory
<1>4. CASE AddCheckpointKV
  BY <1>4, AddCheckpointKVMemory
<1>5. CASE UpdateApp
  <2>1. Throw \/ Fail(repo) \/ Return(Registered("app", Shown.id, FALSE))
    BY <1>5 DEF UpdateApp
  <2>. QED  BY <1>1, <2>1, RegisterMemory
<1>6. CASE DeleteEntity
  <2>1. Throw \/ Fail(repo) \/ Return(Registered(Call.kind, Shown.id, TRUE))
    BY <1>6 DEF DeleteEntity
  <2>. QED  BY <1>1, <2>1, RegisterMemory
<1>. QED  BY <1>2, <1>3, <1>4, <1>5, <1>6

\* The next script, or none.
LEMMA ContinueMemory ==
  ASSUME NEW r, NEW next, Continue(r, next), DOMAIN r = Parts, Covered(files', r)
  PROVE  Memory'
<1>1. CASE EndTask
  BY <1>1, EndMemory
<1>2. CASE ~EndTask
  <2>1. op' = 0 /\ ((at' = 0 /\ repo' = EmptyRepo) \/ repo' = r)
    BY <1>2 DEF Continue
  <2>2. DOMAIN repo' = Parts /\ (at' > 0 => Covered(files', repo')) /\ ~(op' > 0)
    BY <2>1 DEF EmptyRepo, Parts
  <2>. QED  BY <2>2 DEF Memory
<1>. QED  BY <1>1, <1>2

\* The files that are merged before the current script, and the last of them.
MergedTo == IF at <= Current THEN Current - 1 ELSE NScript

\* What is in memory when the current script starts.
LEMMA MergedNow ==
  ASSUME IInv, DOMAIN repo = Parts, NEW same, ~Idle, at > 0
  PROVE  LET o == LoadRange(repo, files, at, MergedTo)
             r == Merged(same).r
         IN  /\ Current \in Script /\ at \in Int /\ MergedTo \in Int /\ at..MergedTo \subseteq Script
             /\ DOMAIN o.r = Parts /\ DOMAIN r = Parts
             /\ r.stripped = files[Current]
             /\ r.preceding = MergeInto(o.r.preceding, files[Current])
             /\ r.all = MergeInto(o.r.all, files[Current])
<1>. DEFINE o == LoadRange(repo, files, at, MergedTo)
            r == Merged(same).r
<1>1. Current \in Script /\ at \in Int /\ MergedTo \in Int /\ at..MergedTo \subseteq Script
  BY ScriptAssumption DEF ScriptAssumption, IInv, Control, Idle, Current, Script, MergedTo
<1>2. DOMAIN o.r = Parts
  <2>. HIDE DEF MergedTo
  <2>. QED  BY <1>1, LoadRangeNames
<1>3. r = Merge(o.r, files[Current], Current).r
  <2>. HIDE DEF LoadRange, Merge
  <2>1. "r" \in DOMAIN Merge(o.r, files[Current], Current)
    BY DEF Merge
  <2>. QED  BY <2>1 DEF Merged, MergedTo
<1>. HIDE DEF o, r
<1>4. /\ DOMAIN r = Parts /\ r.stripped = files[Current]
      /\ r.preceding = MergeInto(o.r.preceding, files[Current])
      /\ r.all = MergeInto(o.r.all, files[Current])
  BY <1>2, <1>3, MergeParts
<1>. QED  BY <1>1, <1>2, <1>4 DEF o, r

\* Merging the files up to that of the next script.
LEMMA EnterMemory ==
  ASSUME IInv, Memory, NEW same \in BOOLEAN, Enter(same)
  PROVE  Memory'
<1>. DEFINE o == LoadRange(repo, files, at, MergedTo)
            r == Merged(same).r
<1>1. ~Idle /\ at > 0 /\ op = 0 /\ UNCHANGED files
  BY DEF Enter
<1>2. /\ Current \in Script /\ at \in Int /\ MergedTo \in Int
      /\ DOMAIN r = Parts
      /\ r.stripped = files[Current]
      /\ r.all = MergeInto(o.r.all, files[Current])
  BY <1>1, MergedNow DEF Memory
<1>3. \A n : Defs(repo.all, n) \subseteq Defs(o.r.all, n)
  <2>. HIDE DEF MergedTo
  <2>. QED  BY <1>2, LoadRangeNames DEF Memory
<1>. HIDE DEF o, r
<1>4. \A n : Defs(r.all, n) = Defs(o.r.all, n) \cup Defs(files[Current], n)
  BY <1>2, MergedNames
<1>5. Covered(files, r)
  <2>1. Covered(files, repo)
    BY <1>1 DEF Memory
  <2>. QED  BY <1>2, <1>3, <1>4, <2>1 DEF Covered
<1>6. CASE EndTask
  BY <1>6, EndMemory
<1>7. CASE Continue(r, LastToMerge + 1)
  BY <1>1, <1>2, <1>5, <1>7, ContinueMemory
<1>8. CASE repo' = r /\ op' = 1
  <2>1. Done(repo, op)'
    BY <1>8 DEF Done
  <2>. QED  BY <1>1, <1>2, <1>5, <1>8, <2>1 DEF Memory
<1>. QED  BY <1>6, <1>7, <1>8 DEF Enter, r

\* A script that ends has been running.
LEMMA FinishStarted ==
  ASSUME IInv, Finish
  PROVE  op > 0
<1>1. ~Idle /\ op = Len(Calls) + 1
  BY DEF Finish
<1>2. Current \in Script /\ task.net \in Net
  BY <1>1 DEF IInv, Control, Idle, Current, Task
<1>. QED  BY <1>1, <1>2, ProgramAssumption DEF ProgramAssumption, Calls

\* Saving what a script deployed.
LEMMA FinishMemory ==
  ASSUME IInv, Memory, Finish
  PROVE  Memory'
<1>1. ~Idle /\ Continue(repo, at) /\ (Save(repo) \/ UNCHANGED files)
  BY DEF Finish
<1>2. op > 0
  BY FinishStarted
<1>3. Fits(repo)
  BY <1>1, <1>2, RunningFits
<1>4. Covered(files', repo)
  <2>1. \A s \in Script : files'[s] = repo.stripped \/ files'[s] = files[s]
    BY <1>1 DEF Save, IInv, Control
  <2>. QED  BY <1>3, <2>1 DEF Fits, Covered
<1>. QED  BY <1>1, <1>3, <1>4, ContinueMemory DEF Fits

\* Loading the files of all scripts.
LEMMA LoadMemory ==
  ASSUME IInv, Memory, Load
  PROVE  Memory'
<1>1. UNCHANGED files
  BY DEF Load
<1>2. CASE EndTask
  BY <1>2, EndMemory
<1>3. CASE at' = 1 /\ repo' = LoadAll(files).r /\ LoadAll(files).ok /\ UNCHANGED op
  <2>1. op = 0
    BY DEF Load, IInv, Control
  <2>2. DOMAIN repo' = Parts /\ repo'.stripped = NoMap
        /\ \A s \in Script : \A n : Defs(files[s], n) \subseteq Defs(repo'.all, n)
    BY <1>3, LoadAllNames
  <2>3. \A n : Defs(NoMap, n) = {}
    BY DEF Defs, At, NoMap, NoCheckpoint
  <2>4. Covered(files', repo')
    BY <1>1, <2>2, <2>3 DEF Covered
  <2>. QED  BY <1>3, <2>1, <2>2, <2>4 DEF Memory
<1>. QED  BY <1>2, <1>3 DEF Load

\* The beginning of a task removes names only.
LEMMA StartNames ==
  ASSUME NEW n, NEW list, NEW force,
         StartDeploy(n, list, force) \/ \E s \in Script : StartRun(n, s)
  PROVE  \A s \in Script : \A m : Defs(files'[s], m) \subseteq Defs(files[s], m)
<1>1. \A s \in Script : files'[s] = files[s] \/ files'[s] = NoMap
  BY DEF StartDeploy, StartRun
<1>2. \A m : Defs(NoMap, m) = {}
  BY DEF Defs, At, NoMap, NoCheckpoint
<1>. QED  BY <1>1, <1>2

\* So it keeps what memory covers.
LEMMA StartMemory ==
  ASSUME IInv, Memory, NEW n, NEW list, NEW force,
         StartDeploy(n, list, force) \/ \E s \in Script : StartRun(n, s)
  PROVE  Memory'
<1>1. Idle /\ UNCHANGED <<at, repo, op>> /\ op = 0
  BY DEF StartDeploy, StartRun, IInv, Control
<1>2. at' > 0 => Covered(files', repo')
  BY <1>1, StartNames DEF Memory, Covered
<1>. QED  BY <1>1, <1>2 DEF Memory

\* Every step keeps memory in line with the files and the script.
LEMMA NextMemory ==
  ASSUME IInv, Memory, [Next]_vars
  PROVE  Memory'
<1>1. ASSUME NEW n \in Net, NEW list \in TaskLists, NEW force \in Forces,
             StartDeploy(n, list, force)
      PROVE  Memory'
  BY <1>1, StartMemory
<1>2. ASSUME NEW n \in Net, NEW s \in RunScripts, StartRun(n, s)
      PROVE  Memory'
  BY <1>2, StartMemory, TaskAssumption DEF TaskAssumption
<1>3. CASE Load
  BY <1>3, LoadMemory
<1>4. CASE \E same \in BOOLEAN : Enter(same)
  BY <1>4, EnterMemory
<1>5. CASE DeployEntity \/ MakeLsig \/ AddCheckpointKV \/ UpdateApp \/ DeleteEntity
  BY <1>5, CallMemory
<1>6. CASE Finish
  BY <1>6, FinishMemory
<1>7. CASE Stop
  BY <1>7, EndMemory DEF Stop, Throw
<1>8. CASE UNCHANGED vars
  BY <1>8 DEF vars, Memory, Current, Done, Calls
<1>. QED  BY <1>1, <1>2, <1>3, <1>4, <1>5, <1>6, <1>7, <1>8 DEF Next, TaskStep

\* Nothing is in memory at first.
LEMMA InitMemory == Init => Memory
<1>. SUFFICES ASSUME Init PROVE Memory
  OBVIOUS
<1>1. at = 0 /\ op = 0 /\ DOMAIN repo = Parts
  BY DEF Init, EmptyRepo, Parts
<1>. QED  BY <1>1 DEF Memory

\* While scripts run, isDefined sees every name that a file or the current script has,
\* and what the script has deployed is in its own checkpoint.
THEOREM MemoryCoversFiles == Spec => []Memory
<1>1. IInv /\ Memory /\ [Next]_vars => Memory'
  BY NextMemory
<1>. QED  BY <1>1, InitMemory, MemoryExtendsFile, PTL DEF Spec

-----------------------------------------------------------------------------
(* Who has a name                                                          *)

\* The current script c has no name of another one.
OwnNames(f, r, c) ==
  \A n \in Net : \A s \in Script : s # c => Defs(r.stripped, n) \cap Defs(f[s], n) = {}

\* The invariant.
Apart ==
  /\ op > 0 => OwnNames(files, repo, Current)
  /\ NamesUnambiguous

\* NamesUnambiguous with the names of a file.
LEMMA NamesAreDefs == \A s, n : Names(s, n) = Defs(files[s], n)
BY DEF Names, Defs

\* The same after a step.
LEMMA UnambiguousAfter ==
  ASSUME \A n \in Net : \A s, t \in Script : s # t => Defs(files'[s], n) \cap Defs(files'[t], n) = {}
  PROVE  NamesUnambiguous'
BY DEF NamesUnambiguous, Names, Defs, At

\* Saving names of its own.
LEMMA SaveApart ==
  ASSUME IInv, Apart, NEW r, OwnNames(files, r, Current), Save(r)
  PROVE  NamesUnambiguous'
<1>1. \A s \in Script : files'[s] = IF s = Current THEN r.stripped ELSE files[s]
  BY DEF Save, IInv, Control
<1>2. \A n \in Net : \A s, t \in Script : s # t => Defs(files[s], n) \cap Defs(files[t], n) = {}
  BY NamesAreDefs DEF Apart, NamesUnambiguous
<1>3. \A n \in Net : \A s, t \in Script : s # t => Defs(files'[s], n) \cap Defs(files'[t], n) = {}
  BY <1>1, <1>2 DEF OwnNames
<1>. QED  BY <1>3, UnambiguousAfter

\* Files that stay, or lose names, keep them apart.
LEMMA FewerApart ==
  ASSUME Apart, \A s \in Script : \A n : Defs(files'[s], n) \subseteq Defs(files[s], n)
  PROVE  NamesUnambiguous'
<1>1. \A n \in Net : \A s, t \in Script : s # t => Defs(files[s], n) \cap Defs(files[t], n) = {}
  BY NamesAreDefs DEF Apart, NamesUnambiguous
<1>2. \A n \in Net : \A s, t \in Script : s # t => Defs(files'[s], n) \cap Defs(files'[t], n) = {}
  BY <1>1
<1>. QED  BY <1>2, UnambiguousAfter

\* However a call ends, no name is taken twice.
LEMMA EndsApart ==
  ASSUME IInv, Apart, op > 0, NEW r, OwnNames(files, r, Current), Ends(r)
  PROVE  Apart'
<1>1. CASE Throw
  <2>1. files' = files /\ op' = 0
    BY <1>1 DEF Throw, EndTask
  <2>. QED  BY <2>1, FewerApart DEF Apart
<1>2. CASE Fail(r) /\ task.write
  <2>1. Save(r) /\ op' = 0
    BY <1>2 DEF Fail, SaveAndThrow, EndTask
  <2>. QED  BY <2>1, SaveApart DEF Apart
<1>3. CASE Return(r)
  <2>1. UNCHANGED <<files, todo>> /\ repo' = IF task.write THEN r ELSE repo
    BY <1>3 DEF Return
  <2>2. OwnNames(files', repo', Current')
    BY <2>1 DEF Apart, Current
  <2>3. NamesUnambiguous'
    BY <2>1, FewerApart
  <2>. QED  BY <2>2, <2>3 DEF Apart
<1>. QED  BY <1>1, <1>2, <1>3 DEF Ends, Fail

\* A name that is free, or the script's own, may be registered.
LEMMA RegisteredOwn ==
  ASSUME Fits(repo), OwnNames(files, repo, Current), NEW k, NEW i, NEW d,
         \/ Call.name \notin Defs(repo.all, task.net)
         \/ Call.name \in Defs(repo.stripped, task.net)
  PROVE  OwnNames(files, Registered(k, i, d), Current)
<1>. DEFINE r == Registered(k, i, d)
            New(n) == IF n = task.net THEN {Call.name} ELSE {}
<1>1. \A n : Defs(r.stripped, n) = Defs(repo.stripped, n) \cup New(n)
  BY RegisteredNames
<1>. HIDE DEF r
<1>. SUFFICES ASSUME NEW n \in Net, NEW s \in Script, s # Current,
                     NEW x \in Defs(r.stripped, n), x \in Defs(files[s], n)
              PROVE  FALSE
  BY DEF OwnNames, r
<1>2. x \notin Defs(repo.stripped, n) /\ x \in Defs(repo.all, n)
  BY DEF Fits, OwnNames, Covered
<1>3. n = task.net /\ x = Call.name
  BY <1>1, <1>2
<1>. QED  BY <1>2, <1>3

\* A call that registers its name, which is free or the script's own.
LEMMA RegisterApart ==
  ASSUME IInv, Memory, Apart, ~Idle, op > 0, NEW k, NEW i, NEW d,
         task.write => \/ Call.name \notin Defs(repo.all, task.net)
                       \/ Call.name \in Defs(repo.stripped, task.net),
         \/ Throw \/ Fail(repo)
         \/ Fail(Registered(k, i, d)) \/ Return(Registered(k, i, d))
  PROVE  Apart'
<1>. DEFINE r == Registered(k, i, d)
<1>1. Fits(repo) /\ OwnNames(files, repo, Current)
  BY RunningFits DEF Apart
<1>2. CASE Throw \/ Fail(repo)
  BY <1>1, <1>2, EndsApart DEF Ends
<1>3. CASE task.write /\ (Fail(r) \/ Return(r))
  <2>1. OwnNames(files, r, Current)
    BY <1>1, <1>3, RegisteredOwn
  <2>. HIDE DEF r
  <2>. QED  BY <1>3, <2>1, EndsApart DEF Ends
<1>4. CASE ~task.write /\ (Fail(r) \/ Return(r))
  <2>1. Throw \/ Return(repo)
    BY <1>4 DEF Fail, Return
  <2>. QED  BY <1>1, <2>1, EndsApart DEF Ends
<1>. QED  BY <1>2, <1>3, <1>4

\* A name that is deployed is free.
LEMMA DeployEntityApart ==
  ASSUME IInv, Memory, Apart, DeployEntity
  PROVE  Apart'
<1>1. ~Idle /\ op > 0
  BY CallingStarted DEF DeployEntity
<1>2. CASE Throw \/ Fail(repo)
  BY <1>1, <1>2, EndsApart DEF Apart, Ends
<1>3. CASE /\ ~IsDefined(repo, task.net, Call.name)
           /\ Fail(RegisteredNew) \/ Return(RegisteredNew)
  <2>1. Call.name \notin Defs(repo.all, task.net)
    BY <1>3 DEF IsDefined, Defs
  <2>. QED  BY <1>1, <1>3, <2>1, RegisterApart DEF RegisteredNew
<1>. QED  BY <1>2, <1>3 DEF DeployEntity, OptInFails

\* So is that of a new logic signature.
LEMMA MakeLsigApart ==
  ASSUME IInv, Memory, Apart, MakeLsig
  PROVE  Apart'
<1>1. ~Idle /\ op > 0
  BY CallingStarted DEF MakeLsig
<1>2. CASE Throw \/ Fail(repo)
  BY <1>1, <1>2, EndsApart DEF Apart, Ends
<1>3. CASE ~IsDefined(repo, task.net, Call.name) /\ Return(Registered("lsig", 0, FALSE))
  <2>1. Call.name \notin Defs(repo.all, task.net)
    BY <1>3 DEF IsDefined, Defs
  <2>. QED  BY <1>1, <1>3, <2>1, RegisterApart
<1>. QED  BY <1>2, <1>3 DEF MakeLsig

\* A pair takes no name.
LEMMA AddCheckpointKVApart ==
  ASSUME IInv, Apart, AddCheckpointKV
  PROVE  Apart'
<1>. DEFINE r == PutMetadata(repo, task.net, Call.key, Call.val)
<1>1. ~Idle /\ op > 0
  BY CallingStarted DEF AddCheckpointKV
<1>2. \A n : Defs(r.stripped, n) = Defs(repo.stripped, n)
  BY PutMetadataNames
<1>3. Throw \/ Return(repo) \/ Return(r)
  BY DEF AddCheckpointKV
<1>. HIDE DEF r
<1>4. OwnNames(files, repo, Current) /\ OwnNames(files, r, Current)
  BY <1>1, <1>2 DEF Apart, OwnNames
<1>. QED  BY <1>1, <1>3, <1>4, EndsApart DEF Ends

\* What a script updates or deletes is its own.
LEMMA OwnCall ==
  ASSUME IInv, Memory, OwnWork, NEW do \in {"update", "delete"}, Calling(do)
  PROVE  task.write => Call.name \in Defs(repo.stripped, task.net)
<1>. SUFFICES ASSUME task.write PROVE Call.name \in Defs(repo.stripped, task.net)
  OBVIOUS
<1>1. ~Idle /\ op > 0 /\ op \in DOMAIN Calls /\ Calls[op].do \in {"update", "delete"}
  BY CallingStarted DEF Calling
<1>2. Current \in Script /\ task.net \in Net
  BY <1>1 DEF IInv, Control, Idle, Current, Task
<1>3. PICK i \in 1..(op - 1) : Calls[i].do = "deploy" /\ Calls[i].name = Calls[op].name
  BY <1>1, <1>2 DEF OwnWork, Calls
<1>. QED  BY <1>1, <1>3 DEF Memory, Done, Call

\* An update.
LEMMA UpdateAppApart ==
  ASSUME IInv, Memory, Apart, OwnWork, UpdateApp
  PROVE  Apart'
<1>1. ~Idle /\ op > 0
  BY CallingStarted DEF UpdateApp
<1>2. task.write => Call.name \in Defs(repo.stripped, task.net)
  BY OwnCall DEF UpdateApp
<1>3. Throw \/ Fail(repo) \/ Return(Registered("app", Shown.id, FALSE))
  BY DEF UpdateApp
<1>. QED  BY <1>1, <1>2, <1>3, RegisterApart

\* A deletion.
LEMMA DeleteEntityApart ==
  ASSUME IInv, Memory, Apart, OwnWork, DeleteEntity
  PROVE  Apart'
<1>1. ~Idle /\ op > 0
  BY CallingStarted DEF DeleteEntity
<1>2. task.write => Call.name \in Defs(repo.stripped, task.net)
  BY OwnCall DEF DeleteEntity
<1>3. Throw \/ Fail(repo) \/ Return(Registered(Call.kind, Shown.id, TRUE))
  BY DEF DeleteEntity
<1>. QED  BY <1>1, <1>2, <1>3, RegisterApart

\* Merging the files up to that of the next script.
LEMMA EnterApart ==
  ASSUME IInv, Memory, Apart, NEW same \in BOOLEAN, Enter(same)
  PROVE  Apart'
<1>. DEFINE r == Merged(same).r
<1>1. ~Idle /\ at > 0 /\ UNCHANGED files
  BY DEF Enter
<1>2. Current \in Script /\ r.stripped = files[Current]
  BY <1>1, MergedNow DEF Memory
<1>3. op' = 0 \/ (repo' = r /\ UNCHANGED todo)
  BY DEF Enter, EndTask, Continue
<1>. HIDE DEF r
<1>4. OwnNames(files, r, Current)
  BY <1>2, NamesAreDefs DEF Apart, NamesUnambiguous, OwnNames
<1>5. NamesUnambiguous'
  BY <1>1, FewerApart
<1>. QED  BY <1>1, <1>3, <1>4, <1>5 DEF Apart, Current

\* Saving what a script deployed.
LEMMA FinishApart ==
  ASSUME IInv, Apart, Finish
  PROVE  Apart'
<1>1. op' = 0 /\ (Save(repo) \/ UNCHANGED files)
  BY DEF Finish, Continue, EndTask
<1>2. op > 0
  BY FinishStarted
<1>3. NamesUnambiguous'
  BY <1>1, <1>2, SaveApart, FewerApart DEF Apart
<1>. QED  BY <1>1, <1>3 DEF Apart

\* Every step keeps the names apart.
LEMMA NextApart ==
  ASSUME OwnWork, IInv, Memory, Apart, [Next]_vars
  PROVE  Apart'
<1>1. ASSUME NEW n \in Net, NEW list, NEW force,
             StartDeploy(n, list, force) \/ \E s \in Script : StartRun(n, s)
      PROVE  Apart'
  <2>1. ~(op' > 0)
    BY <1>1 DEF StartDeploy, StartRun, IInv, Control
  <2>. QED  BY <1>1, <2>1, StartNames, FewerApart DEF Apart
<1>2. CASE Load \/ Stop
  <2>1. UNCHANGED files /\ ~(op' > 0)
    BY <1>2 DEF Load, Stop, Throw, EndTask, IInv, Control
  <2>. QED  BY <2>1, FewerApart DEF Apart
<1>3. CASE \E same \in BOOLEAN : Enter(same)
  BY <1>3, EnterApart
<1>4. CASE DeployEntity
  BY <1>4, DeployEntityApart
<1>5. CASE MakeLsig
  BY <1>5, MakeLsigApart
<1>6. CASE AddCheckpointKV
  BY <1>6, AddCheckpointKVApart
<1>7. CASE UpdateApp
  BY <1>7, UpdateAppApart
<1>8. CASE DeleteEntity
  BY <1>8, DeleteEntityApart
<1>9. CASE Finish
  BY <1>9, FinishApart
<1>10. CASE UNCHANGED vars
  <2>1. NamesUnambiguous'
    BY <1>10 DEF vars, Apart, NamesUnambiguous, Names, At
  <2>. QED  BY <1>10, <2>1 DEF vars, Apart, Current
<1>. QED
  BY <1>1, <1>2, <1>3, <1>4, <1>5, <1>6, <1>7, <1>8, <1>9, <1>10, TaskAssumption
  DEF Next, TaskStep, TaskAssumption

\* No name has been taken at first.
LEMMA InitApart == Init => Apart
<1>. SUFFICES ASSUME Init PROVE Apart
  OBVIOUS
<1>1. op = 0
  BY DEF Init
<1>2. \A s \in Script, n \in Net : Names(s, n) = {}
  BY DEF Init, Names, At, NoMap, NoCheckpoint
<1>. QED  BY <1>1, <1>2 DEF Apart, NamesUnambiguous

\* So they stay apart, in the files and in memory.
LEMMA NamesStayApart ==
  ASSUME OwnWork
  PROVE  Spec => []Apart
<1>1. IInv /\ Memory /\ Apart /\ [Next]_vars => Apart'
  BY NextApart
<1>. QED  BY <1>1, InitApart, MemoryExtendsFile, MemoryCoversFiles, PTL DEF Spec

\* If scripts update and delete only what they deployed themselves, no name is ever
\* in two files on a network, with whatever lists the task is run, with --force or
\* without, and whatever fails: a name tells the script that it comes from.
THEOREM NamesApart ==
  ASSUME OwnWork
  PROVE  Spec => []NamesUnambiguous
<1>1. Apart => NamesUnambiguous
  BY DEF Apart
<1>. QED  BY <1>1, NamesStayApart, PTL

-----------------------------------------------------------------------------
(* What a script sees                                                      *)

\* The scripts up to the current one have been merged, and what a script sees is in
\* their files, or it is its own and not saved yet.
Behind ==
  /\ \A i \in 1..(Len(todo) - 1) : todo[i] # todo[i + 1]
  /\ Idle => at = 0
  /\ at > 0 => IF op = 0 THEN at <= Current ELSE at = Current + 1
  /\ DOMAIN repo = Parts
  /\ at > 0 => \A n \in Net : \A x \in Defs(repo.preceding, n) :
                 \/ \E s \in Script : s < at /\ x \in Defs(files[s], n)
                 \/ op > 0 /\ task.write /\ x \in Defs(repo.stripped, n)

\* What a call adds to what the script sees it adds to the script's own names.
Grows(r) ==
  /\ DOMAIN r = Parts
  /\ \A n : /\ Defs(repo.stripped, n) \subseteq Defs(r.stripped, n)
            /\ Defs(r.preceding, n) \subseteq Defs(repo.preceding, n) \cup Defs(r.stripped, n)

\* Scripts are numbers.
LEMMA ScriptNumbers == \A s \in Script : s \in Int /\ s >= 1
BY ScriptAssumption DEF ScriptAssumption, Script

\* Between tasks there is nothing to say.
LEMMA EndBehind ==
  ASSUME EndTask
  PROVE  Behind'
<1>1. todo' = <<>> /\ at' = 0 /\ DOMAIN repo' = Parts
  BY DEF EndTask, EmptyRepo, Parts
<1>2. Len(todo') = 0
  BY <1>1
<1>. QED  BY <1>1, <1>2 DEF Behind

\* However a call ends.
LEMMA EndsBehind ==
  ASSUME IInv, Behind, ~Idle, op > 0, NEW r, Grows(r), Ends(r)
  PROVE  Behind'
<1>1. CASE EndTask
  BY <1>1, EndBehind
<1>2. CASE Return(r)
  <2>1. /\ UNCHANGED <<files, task, todo, at>> /\ op' = op + 1
        /\ repo' = IF task.write THEN r ELSE repo
    BY <1>2 DEF Return
  <2>2. op' > 0 /\ at' = Current' + 1 /\ ~Idle' /\ DOMAIN repo' = Parts
    <3>1. op \in Nat /\ at > 0
      BY DEF IInv, Control
    <3>. QED  BY <2>1, <3>1 DEF Behind, Grows, Current, Idle
  <2>3. ASSUME NEW n \in Net, NEW x \in Defs(repo'.preceding, n)
        PROVE  \/ \E s \in Script : s < at' /\ x \in Defs(files'[s], n)
               \/ task'.write /\ x \in Defs(repo'.stripped, n)
    <3>0. at > 0
      BY DEF IInv, Control
    <3>1. \/ x \in Defs(repo.preceding, n)
          \/ task.write /\ x \in Defs(r.stripped, n)
      BY <2>1, <2>3 DEF Grows
    <3>2. ASSUME x \in Defs(repo.preceding, n)
          PROVE  \/ \E s \in Script : s < at /\ x \in Defs(files[s], n)
                 \/ task.write /\ x \in Defs(repo.stripped, n)
      BY <3>0, <3>2 DEF Behind
    <3>3. Defs(repo.stripped, n) \subseteq Defs(r.stripped, n)
      BY DEF Grows
    <3>. QED  BY <2>1, <3>1, <3>2, <3>3
  <2>. QED  BY <2>1, <2>2, <2>3 DEF Behind
<1>. QED  BY <1>1, <1>2 DEF Ends, Throw, Fail, SaveAndThrow

\* What a call registers.
LEMMA RegisteredGrows ==
  ASSUME DOMAIN repo = Parts
  PROVE  /\ Grows(repo)
         /\ \A k, i, d : Grows(Registered(k, i, d))
         /\ \A k, v : Grows(PutMetadata(repo, task.net, k, v))
<1>1. Grows(repo)
  BY DEF Grows
<1>2. ASSUME NEW k, NEW i, NEW d PROVE Grows(Registered(k, i, d))
  <2>. DEFINE r == Registered(k, i, d)
              New(n) == IF n = task.net THEN {Call.name} ELSE {}
  <2>1. /\ DOMAIN r = Parts
        /\ \A n : /\ Defs(r.stripped, n) = Defs(repo.stripped, n) \cup New(n)
                  /\ Defs(r.preceding, n) = Defs(repo.preceding, n) \cup New(n)
    BY RegisteredNames
  <2>. HIDE DEF r, New
  <2>. QED  BY <2>1 DEF Grows, r
<1>3. ASSUME NEW k, NEW v PROVE Grows(PutMetadata(repo, task.net, k, v))
  <2>. DEFINE r == PutMetadata(repo, task.net, k, v)
  <2>1. /\ DOMAIN r = Parts
        /\ \A n : /\ Defs(r.stripped, n) = Defs(repo.stripped, n)
                  /\ Defs(r.preceding, n) = Defs(repo.preceding, n)
    BY PutMetadataNames
  <2>. HIDE DEF r
  <2>. QED  BY <2>1 DEF Grows, r
<1>. QED  BY <1>1, <1>2, <1>3

\* The calls of a script.
LEMMA CallBehind ==
  ASSUME IInv, Behind, DeployEntity \/ MakeLsig \/ AddCheckpointKV \/ UpdateApp \/ DeleteEntity
  PROVE  Behind'
<1>1. ~Idle /\ op > 0
  BY CallingStarted DEF DeployEntity, MakeLsig, AddCheckpointKV, UpdateApp, DeleteEntity
<1>2. \/ Ends(repo)
      \/ \E k, i, d : Ends(Registered(k, i, d))
      \/ \E k, v : Ends(PutMetadata(repo, task.net, k, v))
  <2>1. CASE DeployEntity
    BY <2>1 DEF DeployEntity, OptInFails, RegisteredNew, Ends
  <2>2. CASE MakeLsig
    BY <2>2 DEF MakeLsig, Ends
  <2>3. CASE AddCheckpointKV
    BY <2>3 DEF AddCheckpointKV, Ends
  <2>4. CASE UpdateApp
    BY <2>4 DEF UpdateApp, Ends
  <2>5. CASE DeleteEntity
    BY <2>5 DEF DeleteEntity, Ends
  <2>. QED  BY <2>1, <2>2, <2>3, <2>4, <2>5
<1>3. PICK r : Ends(r) /\ Grows(r)
  BY <1>2, RegisteredGrows DEF Behind
<1>. QED  BY <1>1, <1>3, EndsBehind

\* The current script has been merged, and the next one is not before it or everything
\* is loaded anew.
LEMMA ContinueBehind ==
  ASSUME IInv, Behind, ~Idle, NEW r, Continue(r, Current + 1), DOMAIN r = Parts,
         \A n \in Net : \A x \in Defs(r.preceding, n) :
           \E s \in Script : s < Current + 1 /\ x \in Defs(files'[s], n)
  PROVE  Behind'
<1>1. CASE EndTask
  BY <1>1, EndBehind
<1>2. CASE ~EndTask
  <2>1. /\ Tail(todo) # <<>> /\ todo' = Tail(todo) /\ op' = 0
        /\ IF Head(Tail(todo)) < Current THEN at' = 0 /\ repo' = EmptyRepo
           ELSE at' = Current + 1 /\ repo' = r
    BY <1>2 DEF Continue
  <2>2. /\ todo \in Seq(Script) /\ Len(todo) >= 2 /\ Len(todo) \in Nat
        /\ Head(todo) = todo[1] /\ Head(Tail(todo)) = todo[2]
        /\ Len(Tail(todo)) = Len(todo) - 1
        /\ \A i \in 1..(Len(todo) - 1) : Tail(todo)[i] = todo[i + 1]
    <3>1. todo \in Seq(Script) /\ todo # <<>>
      BY DEF IInv, Control, Idle
    <3>. QED  BY <2>1, <3>1
  <2>3. ~Idle'
    BY <2>1 DEF Idle
  <2>4. \A i \in 1..(Len(todo') - 1) : todo'[i] # todo'[i + 1]
    <3>. SUFFICES ASSUME NEW i \in 1..(Len(todo) - 2)
                  PROVE  Tail(todo)[i] # Tail(todo)[i + 1]
      BY <2>1, <2>2
    <3>1. i \in 1..(Len(todo) - 1) /\ i + 1 \in 1..(Len(todo) - 1)
      BY <2>2
    <3>2. todo[i + 1] # todo[i + 1 + 1]
      BY <3>1 DEF Behind
    <3>. QED  BY <2>2, <3>1, <3>2
  <2>5. at' > 0 => at' <= Current' /\ repo' = r /\ at' = Current + 1
    <3>1. todo[1] # todo[2]
      BY <2>2 DEF Behind
    <3>2. todo[1] \in Int /\ todo[2] \in Int
      BY <2>2, ScriptNumbers
    <3>. QED  BY <2>1, <2>2, <3>1, <3>2 DEF Current
  <2>6. DOMAIN repo' = Parts
    BY <2>1 DEF EmptyRepo, Parts
  <2>. QED  BY <2>1, <2>3, <2>4, <2>5, <2>6 DEF Behind
<1>. QED  BY <1>1, <1>2

\* Merging the files up to that of the next script.
LEMMA EnterBehind ==
  ASSUME IInv, Behind, NEW same \in BOOLEAN, Enter(same)
  PROVE  Behind'
<1>. DEFINE o == LoadRange(repo, files, at, MergedTo)
            r == Merged(same).r
<1>1. ~Idle /\ at > 0 /\ op = 0 /\ UNCHANGED files
  BY DEF Enter
<1>2. at <= Current /\ MergedTo = Current - 1 /\ LastToMerge = Current
  BY <1>1 DEF Behind, MergedTo, LastToMerge
<1>3. /\ Current \in Script /\ at \in Int /\ MergedTo \in Int /\ at..MergedTo \subseteq Script
      /\ DOMAIN r = Parts
      /\ r.preceding = MergeInto(o.r.preceding, files[Current])
  BY <1>1, MergedNow DEF Behind
<1>4. \A n : \A x \in Defs(o.r.preceding, n) :
        x \in Defs(repo.preceding, n) \/ \E s \in at..MergedTo : x \in Defs(files[s], n)
  <2>. HIDE DEF MergedTo
  <2>. QED  BY <1>3, LoadRangeNames DEF Behind
<1>. HIDE DEF o, r
<1>5. \A n : Defs(r.preceding, n) = Defs(o.r.preceding, n) \cup Defs(files[Current], n)
  BY <1>3, MergedNames
<1>6. ASSUME NEW n \in Net, NEW x \in Defs(r.preceding, n)
      PROVE  \E s \in Script : s < Current + 1 /\ x \in Defs(files[s], n)
  <2>0. Current \in Int /\ \A s \in Script : s \in Int
    BY <1>3, ScriptNumbers
  <2>1. CASE x \in Defs(files[Current], n)
    BY <1>3, <2>0, <2>1
  <2>2. CASE x \in Defs(repo.preceding, n)
    <3>1. PICK s \in Script : s < at /\ x \in Defs(files[s], n)
      BY <1>1, <2>2 DEF Behind
    <3>. QED  BY <1>2, <1>3, <2>0, <3>1
  <2>3. CASE \E s \in at..MergedTo : x \in Defs(files[s], n)
    <3>1. PICK s \in at..MergedTo : x \in Defs(files[s], n)
      BY <2>3
    <3>2. s \in Script /\ s < Current + 1
      BY <1>2, <1>3, <2>0
    <3>. QED  BY <3>1, <3>2
  <2>. QED  BY <1>4, <1>5, <1>6, <2>1, <2>2, <2>3
<1>7. CASE EndTask
  BY <1>7, EndBehind
<1>8. CASE Continue(r, LastToMerge + 1)
  BY <1>1, <1>2, <1>3, <1>6, <1>8, ContinueBehind
<1>9. CASE repo' = r /\ op' = 1 /\ at' = LastToMerge + 1 /\ UNCHANGED <<task, todo>>
  BY <1>1, <1>2, <1>3, <1>6, <1>9 DEF Behind, Idle, Current
<1>. QED  BY <1>7, <1>8, <1>9 DEF Enter, r

\* Saving what a script deployed.
LEMMA FinishBehind ==
  ASSUME IInv, Behind, Finish
  PROVE  Behind'
<1>1. /\ ~Idle /\ Continue(repo, at) /\ op = Len(Calls) + 1
      /\ IF task.write THEN Save(repo) ELSE UNCHANGED files
  BY DEF Finish
<1>2. Current \in Script /\ task.net \in Net
  BY <1>1 DEF IInv, Control, Idle, Current, Task
<1>3. op > 0 /\ at > 0
  BY <1>1, FinishStarted DEF IInv, Control
<1>4. at = Current + 1 /\ Current < at
  BY <1>2, <1>3 DEF Behind, Script
<1>5. Extends(repo)
  BY <1>3 DEF IInv
<1>6. ASSUME NEW n \in Net, NEW x \in Defs(repo.preceding, n)
      PROVE  \E s \in Script : s < at /\ x \in Defs(files'[s], n)
  <2>1. CASE task.write
    <3>1. \A s \in Script : files'[s] = IF s = Current THEN repo.stripped ELSE files[s]
      BY <1>1, <2>1 DEF Save, IInv, Control
    <3>2. Defs(files[Current], n) \subseteq Defs(repo.stripped, n)
      BY <1>5 DEF Extends, Names, Defs
    <3>3. (\E s \in Script : s < at /\ x \in Defs(files[s], n)) \/ x \in Defs(repo.stripped, n)
      BY <1>3 DEF Behind
    <3>. QED  BY <1>2, <1>4, <3>1, <3>2, <3>3
  <2>2. CASE ~task.write
    BY <1>1, <1>3, <2>2 DEF Behind
  <2>. QED  BY <2>1, <2>2
<1>. QED  BY <1>1, <1>4, <1>6, ContinueBehind DEF Behind

\* Loading the files of all scripts.
LEMMA LoadBehind ==
  ASSUME IInv, Behind, Load
  PROVE  Behind'
<1>1. ~Idle /\ op = 0
  BY DEF Load, IInv, Control
<1>2. CASE EndTask
  BY <1>2, EndBehind
<1>3. CASE at' = 1 /\ repo' = LoadAll(files).r /\ UNCHANGED <<task, todo, op>>
  <2>1. DOMAIN repo' = Parts /\ repo'.preceding = NoMap
    BY <1>3, LoadAllNames
  <2>2. \A n : Defs(NoMap, n) = {}
    BY DEF Defs, At, NoMap, NoCheckpoint
  <2>3. Current \in Script /\ 1 <= Current
    <3>1. Current \in Script
      BY <1>1 DEF IInv, Control, Idle, Current
    <3>. QED  BY <3>1, ScriptNumbers
  <2>. QED  BY <1>1, <1>3, <2>1, <2>2, <2>3 DEF Behind, Idle, Current
<1>. QED  BY <1>2, <1>3 DEF Load

\* The beginning of a task.
LEMMA StartBehind ==
  ASSUME IInv, Behind, NEW n, NEW list, NEW force,
         \A i \in 1..(Len(list) - 1) : list[i] # list[i + 1],
         StartDeploy(n, list, force) \/ \E s \in Script : StartRun(n, s)
  PROVE  Behind'
<1>1. at' = 0 /\ DOMAIN repo' = Parts
  BY DEF StartDeploy, StartRun, Behind
<1>2. \A i \in 1..(Len(todo') - 1) : todo'[i] # todo'[i + 1]
  <2>1. CASE todo' = list
    BY <2>1
  <2>2. ASSUME NEW s, todo' = <<s>>
        PROVE  \A i \in 1..(Len(todo') - 1) : todo'[i] # todo'[i + 1]
    <3>1. Len(todo') = 1
      BY <2>2
    <3>. QED  BY <3>1
  <2>. QED  BY <2>1, <2>2 DEF StartDeploy, StartRun
<1>. QED  BY <1>1, <1>2 DEF Behind

\* Every step keeps that.
LEMMA NextBehind ==
  ASSUME NoScriptTwice, IInv, Behind, [Next]_vars
  PROVE  Behind'
<1>1. ASSUME NEW n \in Net, NEW list \in TaskLists, NEW force \in Forces,
             StartDeploy(n, list, force)
      PROVE  Behind'
  BY <1>1, StartBehind DEF NoScriptTwice
<1>2. ASSUME NEW n \in Net, NEW s \in RunScripts, StartRun(n, s)
      PROVE  Behind'
  <2>1. s \in Script /\ \A i \in 1..(Len(<<>>) - 1) : <<>>[i] # <<>>[i + 1]
    BY TaskAssumption DEF TaskAssumption
  <2>. QED  BY <1>2, <2>1, StartBehind
<1>3. CASE Load
  BY <1>3, LoadBehind
<1>4. CASE \E same \in BOOLEAN : Enter(same)
  BY <1>4, EnterBehind
<1>5. CASE DeployEntity \/ MakeLsig \/ AddCheckpointKV \/ UpdateApp \/ DeleteEntity
  BY <1>5, CallBehind
<1>6. CASE Finish
  BY <1>6, FinishBehind
<1>7. CASE Stop
  BY <1>7, EndBehind DEF Stop, Throw
<1>8. CASE UNCHANGED vars
  BY <1>8 DEF vars, Behind, Idle, Current
<1>. QED  BY <1>1, <1>2, <1>3, <1>4, <1>5, <1>6, <1>7, <1>8 DEF Next, TaskStep

\* Nothing is seen at first.
LEMMA InitBehind == Init => Behind
<1>. SUFFICES ASSUME Init PROVE Behind
  OBVIOUS
<1>1. at = 0 /\ todo = <<>> /\ Len(todo) = 0 /\ DOMAIN repo = Parts
  BY DEF Init, EmptyRepo, Parts
<1>. QED  BY <1>1 DEF Behind

\* If, besides, no list names a script twice in a row, a script never sees a name that
\* a later one has recorded, in whatever order the list has the scripts.
THEOREM LaterUnseen ==
  ASSUME OwnWork, NoScriptTwice
  PROVE  Spec => []PrecedingOnly
<1>1. IInv /\ Behind /\ [Next]_vars => Behind'
  BY NextBehind
<1>2. IInv /\ Apart /\ Behind => PrecedingOnly
  <2>. SUFFICES ASSUME IInv, Apart, Behind, ~Idle, op > 0, NEW s \in Script, s > Current,
                       NEW x \in Defs(repo.preceding, task.net), x \in Names(s, task.net)
                PROVE  FALSE
    BY DEF PrecedingOnly, Defs
  <2>1. at = Current + 1 /\ at > 0 /\ task.net \in Net /\ Current \in Script
    BY DEF Behind, IInv, Control, Task, Idle, Current
  <2>2. x \in Defs(files[s], task.net) /\ s # Current
    BY <2>1, NamesAreDefs DEF Script
  <2>3. x \notin Defs(repo.stripped, task.net)
    BY <2>1, <2>2 DEF Apart, OwnNames
  <2>4. PICK t \in Script : t < at /\ x \in Defs(files[t], task.net)
    BY <2>1, <2>3 DEF Behind
  <2>5. t # s
    BY <2>1, <2>4 DEF Script
  <2>. QED  BY <2>1, <2>2, <2>4, <2>5, NamesAreDefs DEF Apart, NamesUnambiguous
<1>. QED  BY <1>1, <1>2, NamesStayApart, InitBehind, MemoryExtendsFile, PTL DEF Spec
-----------------------------------------------------------------------------
(* Entities and records                                                    *)

\* The checkpoint cp records the entity i of a network with the entities c.
Holds(cp, c, i) == c[i].name \in Owned(cp) /\ cp.defs[c[i].name].id = i

\* Every entity is recorded, in a file or by the script that is running.
Accounted ==
  \A n \in Net : \A i \in DOMAIN chain[n] :
    \/ \E s \in Script : Holds(At(files[s], n), chain[n], i)
    \/ op > 0 /\ n = task.net /\ Holds(At(repo.stripped, n), chain[n], i)

\* A name that isDefined does not know is not on the network.
LEMMA UndefinedIsFree ==
  ASSUME IInv, Memory, Accounted, NEW do, Calling(do), ~IsDefined(repo, task.net, Call.name)
  PROVE  \A i \in DOMAIN chain[task.net] : chain[task.net][i].name # Call.name
<1>. DEFINE n == task.net
            c == chain[n]
<1>1. ~Idle /\ op > 0 /\ n \in Net
  BY CallingStarted, CallContext
<1>2. Covered(files, repo)
  BY <1>1, RunningFits DEF Fits
<1>3. Call.name \notin Defs(repo.all, n)
  BY DEF IsDefined, Defs
<1>. SUFFICES ASSUME NEW i \in DOMAIN c, c[i].name = Call.name
              PROVE  FALSE
  OBVIOUS
<1>4. \/ \E s \in Script : Holds(At(files[s], n), c, i)
      \/ Holds(At(repo.stripped, n), c, i)
  BY <1>1 DEF Accounted
<1>5. \/ \E s \in Script : Call.name \in Defs(files[s], n)
      \/ Call.name \in Defs(repo.stripped, n)
  BY <1>4 DEF Holds, Owned, Defs
<1>. QED  BY <1>1, <1>2, <1>3, <1>5 DEF Covered

\* What a creation does to the names on the network.
LEMMA CreateNames ==
  ASSUME IInv, Truth, Calling("deploy"), Create
  PROVE  LET n == task.net
             new == Len(chain[n]) + 1
         IN  /\ n \in Net /\ Len(Created) = new /\ new \notin DOMAIN chain[n]
             /\ \A m \in Net : m # n => chain'[m] = chain[m]
             /\ DOMAIN chain'[n] = DOMAIN chain[n] \cup {new}
             /\ chain'[n][new].name = Call.name
             /\ \A i \in DOMAIN chain[n] : chain'[n][i] = chain[n][i]
<1>. DEFINE n == task.net
            e == [name |-> Call.name, kind |-> Call.kind, gone |-> FALSE]
            c == chain[n]
<1>1. n \in Net /\ e \in Entity /\ c \in Seq(Entity)
  <2>1. n \in Net /\ Call \in Op /\ Call.do = "deploy"
    BY CallContext
  <2>2. Call.name \in Name /\ Call.kind \in {"asa", "app"}
    BY <2>1 DEF Op
  <2>. QED  BY <2>1, <2>2 DEF Entity, Truth
<1>2. Created = Append(c, e) /\ e.name = Call.name
  BY DEF Created
<1>. HIDE DEF e
<1>3. /\ Len(Created) = Len(c) + 1 /\ Created[Len(c) + 1] = e
      /\ DOMAIN Created = DOMAIN c \cup {Len(c) + 1} /\ Len(c) + 1 \notin DOMAIN c
      /\ \A i \in DOMAIN c : Created[i] = c[i]
  BY <1>1, <1>2
<1>4. \A m \in Net : chain'[m] = IF m = n THEN Created ELSE chain[m]
  BY DEF Create, Truth
<1>. HIDE DEF Created
<1>. QED  BY <1>1, <1>2, <1>3, <1>4

\* What a deletion does to them: nothing.
LEMMA DeleteNames ==
  ASSUME Truth, task.net \in Net, NEW k \in {"asa", "app"}, Shows(k),
         chain' = [chain EXCEPT ![task.net][Shown.id].gone = TRUE]
  PROVE  \A m \in Net : /\ DOMAIN chain'[m] = DOMAIN chain[m]
                        /\ \A i \in DOMAIN chain[m] : chain'[m][i].name = chain[m][i].name
<1>. DEFINE n == task.net
            i == Shown.id
            c == chain[n]
            d == [c EXCEPT ![i].gone = TRUE]
<1>1. c \in Seq(Entity) /\ i \in DOMAIN c
  BY ShownTrue DEF Truth, IsTrue
<1>2. c[i] \in Entity
  BY <1>1
<1>3. \A m \in Net : chain'[m] = IF m = n THEN d ELSE chain[m]
  BY DEF Truth
<1>4. DOMAIN d = DOMAIN c /\ \A j \in DOMAIN c : d[j].name = c[j].name
  BY <1>1, <1>2 DEF Entity
<1>. HIDE DEF d
<1>. QED  BY <1>3, <1>4

\* What a step does on the network.
LEMMA ChainSteps ==
  ASSUME IInv, [Next]_vars
  PROVE  \/ UNCHANGED chain
         \/ DeployEntity /\ Calling("deploy") /\ ~IsDefined(repo, task.net, Call.name) /\ Create
         \/ /\ DeleteEntity /\ task.net \in Net
            /\ \E k \in {"asa", "app"} : Shows(k)
            /\ chain' = [chain EXCEPT ![task.net][Shown.id].gone = TRUE]
<1>1. CASE DeployEntity
  BY <1>1 DEF DeployEntity, OptInFails
<1>2. CASE DeleteEntity
  <2>1. task.net \in Net /\ Call.kind \in {"asa", "app"}
    <3>1. task.net \in Net /\ Call \in Op /\ Call.do = "delete"
      BY <1>2, CallContext DEF DeleteEntity
    <3>. QED  BY <3>1 DEF Op
  <2>. QED  BY <1>2, <2>1 DEF DeleteEntity
<1>3. CASE ~DeployEntity /\ ~DeleteEntity
  BY <1>3 DEF Next, TaskStep, StartDeploy, StartRun, Load, Enter, MakeLsig, AddCheckpointKV,
     UpdateApp, Finish, Stop, vars
<1>. QED  BY <1>1, <1>2, <1>3

\* While every entity is recorded, none is deployed again.
LEMMA NextOnce ==
  ASSUME IInv, Memory, Truth, Accounted, AtMostOnce, [Next]_vars
  PROVE  AtMostOnce'
<1>1. CASE UNCHANGED chain
  BY <1>1 DEF AtMostOnce
<1>2. CASE Calling("deploy") /\ ~IsDefined(repo, task.net, Call.name) /\ Create
  <2>. DEFINE n == task.net
              new == Len(chain[n]) + 1
  <2>1. \A i \in DOMAIN chain[n] : chain[n][i].name # Call.name
    BY <1>2, UndefinedIsFree
  <2>2. /\ n \in Net
        /\ \A m \in Net : m # n => chain'[m] = chain[m]
        /\ DOMAIN chain'[n] = DOMAIN chain[n] \cup {new}
        /\ chain'[n][new].name = Call.name
        /\ \A i \in DOMAIN chain[n] : chain'[n][i] = chain[n][i]
    BY <1>2, CreateNames
  <2>. HIDE DEF n, new
  <2>. QED  BY <2>1, <2>2 DEF AtMostOnce
<1>3. CASE /\ task.net \in Net
           /\ \E k \in {"asa", "app"} : Shows(k)
           /\ chain' = [chain EXCEPT ![task.net][Shown.id].gone = TRUE]
  <2>1. \A m \in Net : /\ DOMAIN chain'[m] = DOMAIN chain[m]
                       /\ \A i \in DOMAIN chain[m] : chain'[m][i].name = chain[m][i].name
    BY <1>3, DeleteNames
  <2>. QED  BY <2>1 DEF AtMostOnce
<1>. QED  BY <1>1, <1>2, <1>3, ChainSteps

\* Nothing is deployed at first.
LEMMA InitOnce == Init => AtMostOnce /\ Accounted
BY DEF Init, AtMostOnce, Accounted

\* Whatever scripts, --force, run mode and failures do: as long as every entity is
\* recorded in some file, or by the script that is running, no name is deployed twice.
\* Deploying twice takes a record that was lost.
THEOREM OnlyTheLostIsRepeated == Spec => ([]Accounted => []AtMostOnce)
<1>1. IInv /\ Memory /\ Truth /\ Accounted /\ AtMostOnce /\ [Next]_vars => AtMostOnce'
  BY NextOnce
<1>2. Init => AtMostOnce
  BY InitOnce
<1>. QED  BY <1>1, <1>2, MemoryExtendsFile, MemoryCoversFiles, TruthStays, PTL DEF Spec

-----------------------------------------------------------------------------
(* What a checkpoint has                                                   *)

\* Files that stay, or are removed, lack no more than before.
LEMMA SameGaps ==
  ASSUME NEW s, files'[s] = files[s] \/ files'[s] = NoMap, NEW n
  PROVE  Missing(s, n)' \subseteq Missing(s, n)
<1>1. DOMAIN NoMap = {}
  BY DEF NoMap
<1>2. CASE files'[s] = files[s]
  BY <1>2 DEF Missing, Deployed, Names, At
<1>3. CASE files'[s] = NoMap
  BY <1>1, <1>3 DEF Missing
<1>. QED  BY <1>2, <1>3

\* The file of the current script is written: no other checkpoint lacks more than
\* before, and that one nothing that was in memory.
LEMMA SaveGaps ==
  ASSUME IInv, ~Idle, NEW r, Extends(r), Save(r), NEW s \in Script, NEW n \in Net,
         NEW x \in Missing(s, n)' \ Missing(s, n)
  PROVE  s = Current /\ n = task.net /\ x \notin Defs(r.stripped, n) /\ x \in Deployed(s, n)
<1>1. \A t \in Script : files'[t] = IF t = Current THEN r.stripped ELSE files[t]
  BY DEF Save, IInv, Control
<1>2. n \in DOMAIN files'[s] /\ x \in Deployed(s, n) /\ x \notin DOMAIN At(files'[s], n).defs
  BY DEF Missing, Deployed, Names, At
<1>3. s = Current
  BY <1>1, SameGaps
<1>4. n = task.net
  <2>. SUFFICES ASSUME n # task.net PROVE FALSE
    OBVIOUS
  <2>1. At(files'[s], n) = At(files[s], n) /\ n \in DOMAIN files[s]
    BY <1>1, <1>2, <1>3 DEF Extends
  <2>. QED  BY <1>2, <2>1 DEF Missing, Names
<1>. QED  BY <1>1, <1>2, <1>3, <1>4 DEF Defs

\* A script that has come to its end has recorded all that it deploys.
LEMMA FinishGaps ==
  ASSUME IInv, Memory, Finish, NEW s \in Script, NEW n \in Net
  PROVE  Missing(s, n)' \subseteq Missing(s, n)
<1>1. /\ ~Idle /\ op = Len(Calls) + 1
      /\ IF task.write THEN Save(repo) ELSE UNCHANGED files
  BY DEF Finish
<1>2. Current \in Script /\ task.net \in Net /\ op > 0
  BY <1>1, FinishStarted DEF IInv, Control, Idle, Current, Task
<1>3. CASE ~task.write
  BY <1>1, <1>3, SameGaps
<1>4. CASE task.write
  <2>1. Calls \in Seq(Op) /\ Calls = Program[Current][task.net]
    BY <1>2, ProgramAssumption DEF ProgramAssumption, Calls
  <2>2. op - 1 = Len(Calls) /\ DOMAIN Calls = 1..Len(Calls)
    BY <1>1, <2>1
  <2>3. \A i \in DOMAIN Calls : Calls[i].do \in {"deploy", "lsig"} =>
                                  Calls[i].name \in Defs(repo.stripped, task.net)
    BY <1>2, <1>4, <2>2 DEF Memory, Done
  <2>. SUFFICES ASSUME NEW x \in Missing(s, n)' \ Missing(s, n) PROVE FALSE
    OBVIOUS
  <2>4. /\ s = Current /\ n = task.net /\ x \notin Defs(repo.stripped, n)
        /\ x \in Deployed(s, n)
    BY <1>1, <1>2, <1>4, SaveGaps DEF IInv
  <2>. HIDE DEF Calls
  <2>. QED  BY <2>1, <2>3, <2>4 DEF Deployed
<1>. QED  BY <1>3, <1>4

\* What a gap takes, in a step that makes x missing.
Gap(s, n, x) ==
  /\ ~Idle /\ Idle' /\ s = Current /\ n = task.net
  /\ op \in DOMAIN Calls /\ Call.do # "kv"
  /\ \A i \in 1..(op - 1) : Calls[i].do \in {"deploy", "lsig"} => Calls[i].name # x

\* A call that fails saves at least what the calls before it did.
LEMMA FailGaps ==
  ASSUME IInv, Memory, ~Idle, op \in DOMAIN Calls, op > 0, Call.do # "kv",
         NEW r, Extends(r), Defs(repo.stripped, task.net) \subseteq Defs(r.stripped, task.net),
         Throw \/ Fail(r) \/ Return(r),
         NEW s \in Script, NEW n \in Net, NEW x \in Missing(s, n)' \ Missing(s, n)
  PROVE  Gap(s, n, x)
<1>1. CASE UNCHANGED files
  BY <1>1, SameGaps
<1>2. CASE ~UNCHANGED files
  <2>1. EndTask /\ Save(r) /\ task.write
    BY <1>2 DEF Throw, Fail, SaveAndThrow, Return
  <2>2. s = Current /\ n = task.net /\ x \notin Defs(r.stripped, n)
    BY <2>1, SaveGaps
  <2>3. Done(repo, op)
    BY <2>1 DEF Memory
  <2>4. Idle'
    BY <2>1 DEF EndTask, Idle
  <2>. QED  BY <2>2, <2>3, <2>4 DEF Done, Gap
<1>. QED  BY <1>1, <1>2

\* No call leaves a gap in any other way.
LEMMA CallGaps ==
  ASSUME IInv, Memory, DeployEntity \/ MakeLsig \/ AddCheckpointKV \/ UpdateApp \/ DeleteEntity,
         NEW s \in Script, NEW n \in Net, NEW x \in Missing(s, n)' \ Missing(s, n)
  PROVE  Gap(s, n, x)
<1>1. ~Idle /\ op \in DOMAIN Calls /\ op > 0
  BY CallingStarted DEF DeployEntity, MakeLsig, AddCheckpointKV, UpdateApp, DeleteEntity, Calling
<1>2. CASE AddCheckpointKV
  <2>1. UNCHANGED files
    BY <1>2 DEF AddCheckpointKV, Throw, Return
  <2>. QED  BY <2>1, SameGaps
<1>3. CASE DeployEntity \/ MakeLsig \/ UpdateApp \/ DeleteEntity
  <2>1. Call.do # "kv"
    BY <1>3 DEF DeployEntity, MakeLsig, UpdateApp, DeleteEntity, Calling, Call
  <2>2. \/ Throw \/ Fail(repo) \/ Return(repo)
        \/ \E k, i, d : Fail(Registered(k, i, d)) \/ Return(Registered(k, i, d))
    BY <1>3 DEF DeployEntity, OptInFails, RegisteredNew, MakeLsig, UpdateApp, DeleteEntity
  <2>3. CASE Throw \/ Fail(repo) \/ Return(repo)
    BY <1>1, <2>1, <2>3, CallsExtend, FailGaps
  <2>4. ASSUME NEW k, NEW i, NEW d, Fail(Registered(k, i, d)) \/ Return(Registered(k, i, d))
        PROVE  Gap(s, n, x)
    <3>. DEFINE r == Registered(k, i, d)
    <3>1. Extends(r) /\ Defs(repo.stripped, task.net) \subseteq Defs(r.stripped, task.net)
      BY <1>1, CallsExtend, RegisteredNames
    <3>. HIDE DEF r
    <3>2. Fail(r) \/ Return(r)
      BY <2>4 DEF r
    <3>. QED  BY <1>1, <2>1, <3>1, <3>2, FailGaps
  <2>. QED  BY <2>2, <2>3, <2>4
<1>. QED  BY <1>2, <1>3

\* Any step.
LEMMA NextGaps ==
  ASSUME IInv, Memory, Next,
         NEW s \in Script, NEW n \in Net, NEW x \in Missing(s, n)' \ Missing(s, n)
  PROVE  Gap(s, n, x)
<1>1. CASE Finish
  BY <1>1, FinishGaps
<1>2. CASE DeployEntity \/ MakeLsig \/ AddCheckpointKV \/ UpdateApp \/ DeleteEntity
  BY <1>2, CallGaps
<1>3. ASSUME NEW m, NEW list, NEW force,
             StartDeploy(m, list, force) \/ \E t \in Script : StartRun(m, t)
      PROVE  Gap(s, n, x)
  <2>1. files'[s] = files[s] \/ files'[s] = NoMap
    BY <1>3 DEF StartDeploy, StartRun
  <2>. QED  BY <2>1, SameGaps
<1>4. CASE Load \/ Stop \/ (\E same \in BOOLEAN : Enter(same))
  <2>1. UNCHANGED files
    BY <1>4 DEF Load, Stop, Throw, Enter
  <2>. QED  BY <2>1, SameGaps
<1>. QED
  BY <1>1, <1>2, <1>3, <1>4, TaskAssumption DEF Next, TaskStep, TaskAssumption

\* Whatever lists, --force, run mode, stops and failures do: it is the save of a call
\* of the deployer that fails (lib/tx.ts, deployer.ts: persistCP) that leaves a
\* checkpoint without what its script deploys, and nothing else does; and what the
\* calls before it deployed is there.
THEOREM OnlyFailingCallsLeaveGaps == Spec => GapsOnlyByFailure
<1>1. IInv /\ Memory /\ [Next]_vars =>
        [\A s \in Script, n \in Net : \A x \in Missing(s, n)' \ Missing(s, n) : Gap(s, n, x)]_vars
  BY NextGaps
<1>2. Spec => [][\A s \in Script, n \in Net :
                  \A x \in Missing(s, n)' \ Missing(s, n) : Gap(s, n, x)]_vars
  BY <1>1, MemoryExtendsFile, MemoryCoversFiles, PTL DEF Spec
<1>. QED  BY <1>2 DEF GapsOnlyByFailure, Gap

-----------------------------------------------------------------------------
(* Nothing is lost                                                         *)

\* Scripts run without --force and not in run mode, and only those that have no
\* checkpoint on the network.
Steady ==
  /\ ~Idle => task.write /\ ~task.force
  /\ op > 0 => task.net \notin DOMAIN files[Current]

\* What the first calls of the script have deployed is visible to it, as what it was
\* deployed as, and not marked as deleted before a call has deleted it.
Alive(r, j) ==
  \A i \in 1..(j - 1) : Calls[i].do = "deploy" =>
    LET x == Calls[i].name
        cp == At(r.preceding, task.net)
    IN  /\ x \in DOMAIN cp.defs
        /\ cp.defs[x].kind = Calls[i].kind
        /\ (\A m \in 1..(j - 1) : Calls[m].do = "delete" => Calls[m].name # x) => ~cp.defs[x].deleted

\* The invariant, besides Accounted.
Orderly == Steady /\ (op > 0 => Alive(repo, op))

\* What registering the name of the call does to the records.
LEMMA RegisteredRecords ==
  ASSUME NEW k, NEW i, NEW d
  PROVE  LET r == Registered(k, i, d)
             info == [kind |-> k, id |-> i, deleted |-> d]
             Now(n, x, old) == IF n = task.net /\ x = Call.name THEN info ELSE old
         IN  \A n : /\ \A x \in Defs(r.stripped, n) :
                         At(r.stripped, n).defs[x] = Now(n, x, At(repo.stripped, n).defs[x])
                    /\ \A x \in Defs(r.preceding, n) :
                         At(r.preceding, n).defs[x] = Now(n, x, At(repo.preceding, n).defs[x])
<1>. DEFINE r == Registered(k, i, d)
            info == [kind |-> k, id |-> i, deleted |-> d]
            cp == [NoCheckpoint EXCEPT !.defs = [y \in {Call.name} |-> info]]
            cps == Only(task.net, cp)
<1>1. \A n, x : x \in Defs(cps, n) <=> n = task.net /\ x = Call.name
  <2>1. DOMAIN cp.defs = {Call.name} /\ DOMAIN NoCheckpoint.defs = {}
    BY DEF NoCheckpoint, NoMap
  <2>. HIDE DEF cp
  <2>. QED  BY <2>1, OnlyAt DEF Defs
<1>2. At(cps, task.net).defs[Call.name] = info
  <2>1. cp.defs[Call.name] = info
    BY DEF NoCheckpoint
  <2>. HIDE DEF cp
  <2>. QED  BY <2>1, OnlyAt
<1>3. r = Record(repo, task.net, cp)
  BY DEF Registered, Register
<1>. HIDE DEF cp, r, info
<1>4. r.stripped = MergeInto(repo.stripped, cps) /\ r.preceding = MergeInto(repo.preceding, cps)
  BY <1>3, RecordMerges
<1>. HIDE DEF cps
<1>5. \A t, n : \A x \in Defs(MergeInto(t, cps), n) :
        At(MergeInto(t, cps), n).defs[x]
          = IF n = task.net /\ x = Call.name THEN info ELSE At(t, n).defs[x]
  BY <1>1, <1>2, MergedDefs DEF Defs
<1>. QED  BY <1>4, <1>5 DEF r, info

\* Keeping a pair does nothing to them.
LEMMA PutMetadataRecords ==
  ASSUME NEW k, NEW v
  PROVE  LET r == PutMetadata(repo, task.net, k, v)
         IN  \A n : /\ \A x \in Defs(r.stripped, n) :
                         At(r.stripped, n).defs[x] = At(repo.stripped, n).defs[x]
                    /\ \A x \in Defs(r.preceding, n) :
                         At(r.preceding, n).defs[x] = At(repo.preceding, n).defs[x]
<1>. DEFINE r == PutMetadata(repo, task.net, k, v)
            cp == [NoCheckpoint EXCEPT !.meta = [j \in {k} |-> v]]
            cps == Only(task.net, cp)
<1>1. \A n : Defs(cps, n) = {}
  <2>1. DOMAIN cp.defs = {} /\ DOMAIN NoCheckpoint.defs = {}
    BY DEF NoCheckpoint, NoMap
  <2>. HIDE DEF cp
  <2>. QED  BY <2>1, OnlyAt DEF Defs
<1>2. r = Record(repo, task.net, cp)
  BY DEF PutMetadata
<1>. HIDE DEF cp, r
<1>3. r.stripped = MergeInto(repo.stripped, cps) /\ r.preceding = MergeInto(repo.preceding, cps)
  BY <1>2, RecordMerges
<1>. HIDE DEF cps
<1>4. \A t, n : \A x \in Defs(MergeInto(t, cps), n) :
        At(MergeInto(t, cps), n).defs[x] = At(t, n).defs[x]
  BY <1>1, MergedDefs DEF Defs
<1>. QED  BY <1>3, <1>4 DEF r

\* A call that registers its name: as what it is known as, and as deleted only if it
\* deletes.
LEMMA RegisteredAlive ==
  ASSUME IInv, op > 0, Alive(repo, op), NEW k, NEW i, NEW d,
         d => Call.do = "delete",
         \A j \in 1..(op - 1) : Calls[j].do = "deploy" /\ Calls[j].name = Call.name =>
                                  Calls[j].kind = k,
         Call.do = "deploy" => Call.kind = k
  PROVE  Alive(Registered(k, i, d), op + 1)
<1>. DEFINE r == Registered(k, i, d)
            info == [kind |-> k, id |-> i, deleted |-> d]
            cp == At(r.preceding, task.net)
            old == At(repo.preceding, task.net)
<1>1. DOMAIN cp.defs = DOMAIN old.defs \cup {Call.name}
  BY RegisteredNames DEF Defs
<1>2. \A x \in DOMAIN cp.defs : cp.defs[x] = IF x = Call.name THEN info ELSE old.defs[x]
  BY RegisteredRecords DEF Defs
<1>3. op \in Nat /\ op + 1 - 1 = op /\ info.kind = k /\ info.deleted = d
  BY DEF IInv, Control
<1>. HIDE DEF r, info
<1>. SUFFICES ASSUME NEW j \in 1..op, Calls[j].do = "deploy"
              PROVE  /\ Calls[j].name \in DOMAIN cp.defs
                     /\ cp.defs[Calls[j].name].kind = Calls[j].kind
                     /\ (\A m \in 1..op : Calls[m].do = "delete" => Calls[m].name # Calls[j].name) =>
                          ~cp.defs[Calls[j].name].deleted
  BY <1>3 DEF Alive, r
<1>. HIDE DEF cp, old
<1>4. CASE Calls[j].name = Call.name
  <2>1. Calls[j].kind = k
    <3>1. CASE j = op
      BY <1>4, <3>1 DEF Call
    <3>2. CASE j # op
      <4>1. j \in 1..(op - 1)
        BY <1>3, <3>2
      <4>. QED  BY <1>4, <4>1
    <3>. QED  BY <3>1, <3>2
  <2>2. (\A m \in 1..op : Calls[m].do = "delete" => Calls[m].name # Call.name) => ~d
    <3>1. op \in 1..op
      BY <1>3
    <3>. QED  BY <3>1 DEF Call
  <2>. QED  BY <1>1, <1>2, <1>3, <1>4, <2>1, <2>2
<1>5. CASE Calls[j].name # Call.name
  <2>1. j \in 1..(op - 1)
    BY <1>3, <1>5 DEF Call
  <2>2. \A m \in 1..(op - 1) : m \in 1..op
    BY <1>3
  <2>3. /\ Calls[j].name \in DOMAIN old.defs
        /\ old.defs[Calls[j].name].kind = Calls[j].kind
        /\ (\A m \in 1..op : Calls[m].do = "delete" => Calls[m].name # Calls[j].name) =>
             ~old.defs[Calls[j].name].deleted
    BY <2>1, <2>2 DEF Alive, old
  <2>. QED  BY <1>1, <1>2, <1>5, <2>3
<1>. QED  BY <1>4, <1>5

\* A call that registers nothing.
LEMMA OtherAlive ==
  ASSUME IInv, op > 0, Alive(repo, op), NEW r, Call.do \notin {"deploy", "delete"},
         Defs(r.preceding, task.net) = Defs(repo.preceding, task.net),
         \A x \in Defs(r.preceding, task.net) :
           At(r.preceding, task.net).defs[x] = At(repo.preceding, task.net).defs[x]
  PROVE  Alive(r, op + 1)
<1>. DEFINE cp == At(r.preceding, task.net)
            old == At(repo.preceding, task.net)
<1>1. op \in Nat /\ op + 1 - 1 = op /\ \A m \in 1..(op - 1) : m \in 1..op
  BY DEF IInv, Control
<1>2. \A j \in 1..op : Calls[j].do = "deploy" => j \in 1..(op - 1)
  BY <1>1 DEF Call
<1>. SUFFICES ASSUME NEW j \in 1..(op - 1), Calls[j].do = "deploy"
              PROVE  /\ Calls[j].name \in DOMAIN old.defs
                     /\ old.defs[Calls[j].name].kind = Calls[j].kind
                     /\ (\A m \in 1..op : Calls[m].do = "delete" => Calls[m].name # Calls[j].name) =>
                          ~old.defs[Calls[j].name].deleted
  BY <1>1, <1>2 DEF Alive, Defs
<1>. QED  BY <1>1 DEF Alive

\* A name that isDefined does not know is not one that the script has deployed.
LEMMA UndefinedIsNew ==
  ASSUME IInv, Memory, ~Idle, op > 0, task.write, ~IsDefined(repo, task.net, Call.name)
  PROVE  \A j \in 1..(op - 1) : Calls[j].do = "deploy" => Calls[j].name # Call.name
<1>1. task.net \in Net /\ Covered(files, repo) /\ Done(repo, op)
  BY RunningFits DEF Fits, IInv, Control, Task
<1>2. Defs(repo.stripped, task.net) \subseteq Defs(repo.all, task.net)
  BY <1>1 DEF Covered
<1>. QED  BY <1>1, <1>2 DEF Done, IsDefined, Defs

\* What a tidy script updates or deletes is visible to it and not deleted.
LEMMA OwnIsShown ==
  ASSUME IInv, TidyWork, Orderly, NEW do \in {"update", "delete"}, Calling(do),
         NEW k, k = IF do = "update" THEN "app" ELSE Call.kind
  PROVE  /\ k \in {"asa", "app"} /\ Shows(k) /\ ~Shown.deleted
         /\ \A j \in 1..(op - 1) : Calls[j].do = "deploy" /\ Calls[j].name = Call.name =>
                                     Calls[j].kind = k
<1>. DEFINE cp == At(repo.preceding, task.net)
<1>1. ~Idle /\ op > 0 /\ op \in DOMAIN Calls /\ Calls[op] = Call /\ Call.do = do /\ Call \in Op
  BY CallingStarted, CallContext DEF Calling, Call
<1>2. Current \in Script /\ task.net \in Net
  BY <1>1 DEF IInv, Control, Idle, Current, Task
<1>3. k \in {"asa", "app"}
  BY <1>1 DEF Op
<1>4. /\ \E i \in 1..(op - 1) :
           Calls[i].do = "deploy" /\ Calls[i].name = Call.name /\ Calls[i].kind = k
      /\ \A i \in 1..(op - 1) : Calls[i].do = "delete" => Calls[i].name # Call.name
  <2>1. Program[Current][task.net] = Calls
    BY DEF Calls
  <2>. HIDE DEF Calls
  <2>. QED  BY <1>1, <1>2, <2>1 DEF TidyWork
<1>5. Alive(repo, op)
  BY <1>1 DEF Orderly
<1>6. Call.name \in DOMAIN cp.defs /\ cp.defs[Call.name].kind = k /\ ~cp.defs[Call.name].deleted
  BY <1>4, <1>5 DEF Alive
<1>7. Shown = cp.defs[Call.name]
  <2>1. task.net \in DOMAIN repo.preceding
    BY <1>6 DEF At, NoCheckpoint, NoMap
  <2>. QED  BY <2>1 DEF Shown, InfoOf, At
<1>8. \A j \in 1..(op - 1) : Calls[j].do = "deploy" /\ Calls[j].name = Call.name => Calls[j].kind = k
  BY <1>5, <1>6 DEF Alive
<1>. QED  BY <1>3, <1>6, <1>7, <1>8 DEF Shows, Visible

\* Every entity of the networks ch is recorded, in the files f or in r.
Books(f, r, ch) ==
  \A n \in Net : \A i \in DOMAIN ch[n] :
    \/ \E s \in Script : Holds(At(f[s], n), ch[n], i)
    \/ n = task.net /\ Holds(At(r.stripped, n), ch[n], i)

\* While a script runs.
LEMMA RunningBooks ==
  ASSUME Accounted, op > 0
  PROVE  Books(files, repo, chain)
BY DEF Accounted, Books

\* Only names matter.
LEMMA SameNamesBooks ==
  ASSUME NEW f, NEW r, NEW ch, NEW next, Books(f, r, ch),
         \A n \in Net : /\ DOMAIN next[n] = DOMAIN ch[n]
                        /\ \A i \in DOMAIN ch[n] : next[n][i].name = ch[n][i].name
  PROVE  Books(f, r, next)
BY DEF Books, Holds

\* What is registered is recorded, and what was recorded under other names still is.
LEMMA RegisteredBooks ==
  ASSUME NEW k, NEW i, NEW d, NEW ch,
         \A n \in Net : \A j \in DOMAIN ch[n] :
           IF n = task.net /\ ch[n][j].name = Call.name
           THEN k # "lsig" /\ i = j
           ELSE \/ \E s \in Script : Holds(At(files[s], n), ch[n], j)
                \/ n = task.net /\ Holds(At(repo.stripped, n), ch[n], j)
  PROVE  Books(files, Registered(k, i, d), ch)
<1>. DEFINE n == task.net
            r == Registered(k, i, d)
            cp == At(r.stripped, n)
            old == At(repo.stripped, n)
            info == [kind |-> k, id |-> i, deleted |-> d]
<1>1. DOMAIN cp.defs = DOMAIN old.defs \cup {Call.name}
  BY RegisteredNames DEF Defs
<1>2. \A x \in DOMAIN cp.defs : cp.defs[x] = IF x = Call.name THEN info ELSE old.defs[x]
  BY RegisteredRecords DEF Defs
<1>3. info.kind = k /\ info.id = i
  OBVIOUS
<1>. HIDE DEF r, info, cp, old
<1>4. ASSUME NEW m \in Net, NEW j \in DOMAIN ch[m]
      PROVE  \/ \E s \in Script : Holds(At(files[s], m), ch[m], j)
             \/ m = n /\ Holds(cp, ch[m], j)
  <2>1. CASE m = n /\ ch[m][j].name = Call.name
    <3>1. k # "lsig" /\ i = j
      BY <1>4, <2>1
    <3>. QED  BY <1>1, <1>2, <1>3, <2>1, <3>1 DEF Holds, Owned
  <2>2. CASE ~(m = n /\ ch[m][j].name = Call.name)
    <3>1. \/ \E s \in Script : Holds(At(files[s], m), ch[m], j)
          \/ m = n /\ Holds(old, ch[m], j)
      BY <1>4, <2>2 DEF old
    <3>2. Holds(old, ch[m], j) /\ m = n => Holds(cp, ch[m], j)
      BY <1>1, <1>2, <2>2 DEF Holds, Owned
    <3>. QED  BY <3>1, <3>2
  <2>. QED  BY <2>1, <2>2
<1>. QED  BY <1>4 DEF Books, cp, r

\* Saving r leaves nothing out.
LEMMA SaveBooks ==
  ASSUME IInv, Steady, ~Idle, op > 0, NEW r, Extends(r), NEW ch, Books(files, r, ch), Save(r)
  PROVE  \A n \in Net : \A i \in DOMAIN ch[n] : \E s \in Script : Holds(At(files'[s], n), ch[n], i)
<1>. DEFINE t == Current
<1>1. t \in Script /\ task.net \in Net
  BY DEF IInv, Control, Idle, Current, Task
<1>2. \A s \in Script : files'[s] = IF s = t THEN r.stripped ELSE files[s]
  BY DEF Save, IInv, Control
<1>. SUFFICES ASSUME NEW n \in Net, NEW i \in DOMAIN ch[n]
              PROVE  \E s \in Script : Holds(At(files'[s], n), ch[n], i)
  OBVIOUS
<1>3. CASE n = task.net /\ Holds(At(r.stripped, n), ch[n], i)
  BY <1>1, <1>2, <1>3
<1>4. ASSUME NEW s \in Script, Holds(At(files[s], n), ch[n], i)
      PROVE  \E u \in Script : Holds(At(files'[u], n), ch[n], i)
  <2>1. CASE s # t
    BY <1>2, <1>4, <2>1
  <2>2. CASE s = t /\ n # task.net
    <3>1. At(r.stripped, n) = At(files[t], n)
      BY <2>2 DEF Extends
    <3>. QED  BY <1>2, <1>4, <2>2, <3>1
  <2>3. CASE s = t /\ n = task.net
    <3>1. At(files[t], n).defs = NoMap
      BY <2>3 DEF Steady, At, NoCheckpoint
    <3>. QED  BY <1>4, <2>3, <3>1 DEF Holds, Owned, NoMap
  <2>. QED  BY <2>1, <2>2, <2>3
<1>. QED  BY <1>3, <1>4 DEF Books

\* What is recorded after a step.
LEMMA AccountedAfter ==
  ASSUME \A n \in Net : \A i \in DOMAIN chain'[n] :
           \/ \E s \in Script : Holds(At(files'[s], n), chain'[n], i)
           \/ op' > 0 /\ n = task'.net /\ Holds(At(repo'.stripped, n), chain'[n], i)
  PROVE  Accounted'
BY DEF Accounted

\* However a call ends, unless what it did is lost.
LEMMA EndsOrderly ==
  ASSUME IInv, Orderly, ~Idle, op > 0, NEW r, Extends(r), Books(files, r, chain'),
         Fail(r) \/ (Return(r) /\ Alive(r, op + 1))
  PROVE  Orderly' /\ Accounted'
<1>1. task.write /\ ~task.force /\ task.net \notin DOMAIN files[Current]
  BY DEF Orderly, Steady
<1>2. CASE Fail(r)
  <2>1. EndTask /\ Save(r)
    BY <1>1, <1>2 DEF Fail, SaveAndThrow
  <2>2. \A n \in Net : \A i \in DOMAIN chain'[n] :
          \E s \in Script : Holds(At(files'[s], n), chain'[n], i)
    BY <2>1, SaveBooks DEF Orderly
  <2>3. Accounted'
    BY <2>2, AccountedAfter
  <2>4. Orderly'
    BY <2>1 DEF Orderly, Steady, EndTask, Idle
  <2>. QED  BY <2>3, <2>4
<1>3. CASE Return(r) /\ Alive(r, op + 1)
  <2>1. UNCHANGED <<files, task, todo>> /\ op' = op + 1 /\ repo' = r
    BY <1>1, <1>3 DEF Return
  <2>2. Alive(repo, op)'
    BY <1>3, <2>1 DEF Alive, Calls, Current, At
  <2>3. Steady'
    BY <1>1, <2>1 DEF Steady, Current, Idle
  <2>4. op' > 0
    BY <2>1 DEF IInv, Control
  <2>5. Accounted'
    <3>1. \A n \in Net : \A i \in DOMAIN chain'[n] :
            \/ \E s \in Script : Holds(At(files'[s], n), chain'[n], i)
            \/ op' > 0 /\ n = task'.net /\ Holds(At(repo'.stripped, n), chain'[n], i)
      BY <2>1, <2>4 DEF Books
    <3>. QED  BY <3>1, AccountedAfter
  <2>6. Steady' /\ (op > 0 => Alive(repo, op))'
    BY <2>2, <2>3
  <2>. QED  BY <2>5, <2>6 DEF Orderly
<1>. QED  BY <1>2, <1>3

\* A call that does nothing, or fails, on the network.
LEMMA FailsOrderly ==
  ASSUME IInv, Orderly, Accounted, ~Idle, op > 0, Fail(repo), UNCHANGED chain
  PROVE  Orderly' /\ Accounted'
<1>1. Extends(repo) /\ Books(files, repo, chain')
  BY RunningBooks DEF IInv
<1>. QED  BY <1>1, EndsOrderly

\* A deployment records what it creates.
LEMMA DeployEntityOrderly ==
  ASSUME Undisturbed, IInv, Memory, Truth, Orderly, Accounted, DeployEntity
  PROVE  Orderly' /\ Accounted'
<1>1. Calling("deploy") /\ ~Idle /\ op > 0 /\ task.net \in Net /\ task.write
  BY CallingStarted, CallContext DEF DeployEntity, Orderly, Steady
<1>2. Call.kind \in {"asa", "app"} /\ Call.do = "deploy"
  <2>1. Call \in Op /\ Call.do = "deploy"
    BY <1>1, CallContext
  <2>. QED  BY <2>1 DEF Op
<1>. DEFINE n == task.net
            new == Len(chain[n]) + 1
            r == Registered(Call.kind, Len(Created), FALSE)
<1>3. \/ Fail(repo) /\ UNCHANGED chain
      \/ ~IsDefined(repo, n, Call.name) /\ Create /\ (Fail(r) \/ Return(r))
  <2>1. ~Faulty("answer")
    BY DEF Undisturbed, Faulty
  <2>. QED  BY <1>1, <2>1 DEF DeployEntity, OptInFails, RegisteredNew
<1>4. CASE Fail(repo) /\ UNCHANGED chain
  BY <1>1, <1>4, FailsOrderly
<1>5. CASE ~IsDefined(repo, n, Call.name) /\ Create /\ (Fail(r) \/ Return(r))
  <2>1. \A i \in DOMAIN chain[n] : chain[n][i].name # Call.name
    BY <1>1, <1>5, UndefinedIsFree
  <2>2. /\ Len(Created) = new
        /\ \A m \in Net : m # n => chain'[m] = chain[m]
        /\ DOMAIN chain'[n] = DOMAIN chain[n] \cup {new}
        /\ chain'[n][new].name = Call.name
        /\ \A i \in DOMAIN chain[n] : chain'[n][i] = chain[n][i]
    BY <1>1, <1>5, CreateNames
  <2>3. Books(files, repo, chain)
    BY <1>1, RunningBooks
  <2>. HIDE DEF new
  <2>4. Books(files, r, chain')
    <3>1. ASSUME NEW m \in Net, NEW j \in DOMAIN chain'[m]
          PROVE  IF m = n /\ chain'[m][j].name = Call.name
                 THEN Call.kind # "lsig" /\ Len(Created) = j
                 ELSE \/ \E s \in Script : Holds(At(files[s], m), chain'[m], j)
                      \/ m = n /\ Holds(At(repo.stripped, m), chain'[m], j)
      <4>1. CASE m = n /\ j = new
        BY <1>2, <2>2, <4>1
      <4>2. CASE ~(m = n /\ j = new)
        <5>1. j \in DOMAIN chain[m] /\ chain'[m][j] = chain[m][j]
          BY <2>2, <3>1, <4>2
        <5>2. ~(m = n /\ chain'[m][j].name = Call.name)
          BY <2>1, <5>1
        <5>3. \/ \E s \in Script : Holds(At(files[s], m), chain[m], j)
              \/ m = n /\ Holds(At(repo.stripped, m), chain[m], j)
          BY <2>3, <5>1 DEF Books
        <5>4. \A cp : Holds(cp, chain[m], j) <=> Holds(cp, chain'[m], j)
          BY <5>1 DEF Holds
        <5>. QED  BY <5>2, <5>3, <5>4
      <4>. QED  BY <4>1, <4>2
    <3>. QED  BY <3>1, RegisteredBooks
  <2>5. Extends(r)
    BY <1>1, CallsExtend
  <2>6. Alive(r, op + 1)
    <3>1. \A j \in 1..(op - 1) : Calls[j].do = "deploy" => Calls[j].name # Call.name
      BY <1>1, <1>5, UndefinedIsNew
    <3>. QED  BY <1>1, <3>1, RegisteredAlive DEF Orderly
  <2>. HIDE DEF r
  <2>. QED  BY <1>1, <1>5, <2>4, <2>5, <2>6, EndsOrderly
<1>. QED  BY <1>3, <1>4, <1>5

\* A logic signature takes a name that is free.
LEMMA MakeLsigOrderly ==
  ASSUME IInv, Memory, Orderly, Accounted, MakeLsig
  PROVE  Orderly' /\ Accounted'
<1>. DEFINE n == task.net
            r == Registered("lsig", 0, FALSE)
<1>1. Calling("lsig") /\ ~Idle /\ op > 0 /\ n \in Net /\ task.write /\ Call.do = "lsig"
  BY CallingStarted, CallContext DEF MakeLsig, Orderly, Steady
<1>2. /\ UNCHANGED chain
      /\ Fail(repo) \/ (~IsDefined(repo, n, Call.name) /\ Return(r))
  BY <1>1 DEF MakeLsig
<1>3. CASE Fail(repo)
  BY <1>1, <1>2, <1>3, FailsOrderly
<1>4. CASE ~IsDefined(repo, n, Call.name) /\ Return(r)
  <2>1. \A i \in DOMAIN chain[n] : chain[n][i].name # Call.name
    BY <1>1, <1>4, UndefinedIsFree
  <2>2. Books(files, repo, chain)
    BY <1>1, RunningBooks
  <2>3. Books(files, r, chain)
    <3>1. \A m \in Net : \A j \in DOMAIN chain[m] :
            /\ ~(m = n /\ chain[m][j].name = Call.name)
            /\ \/ \E s \in Script : Holds(At(files[s], m), chain[m], j)
               \/ m = n /\ Holds(At(repo.stripped, m), chain[m], j)
      BY <2>1, <2>2 DEF Books
    <3>. QED  BY <3>1, RegisteredBooks
  <2>4. Extends(r)
    BY <1>1, CallsExtend
  <2>5. Alive(r, op + 1)
    <3>1. \A j \in 1..(op - 1) : Calls[j].do = "deploy" => Calls[j].name # Call.name
      BY <1>1, <1>4, UndefinedIsNew
    <3>. QED  BY <1>1, <3>1, RegisteredAlive DEF Orderly
  <2>. HIDE DEF r
  <2>. QED  BY <1>1, <1>2, <1>4, <2>3, <2>4, <2>5, EndsOrderly
<1>. QED  BY <1>2, <1>3, <1>4

\* A pair is kept with the value that all scripts keep.
LEMMA AddCheckpointKVOrderly ==
  ASSUME OneValue, IInv, Truth, Orderly, Accounted, AddCheckpointKV
  PROVE  Orderly' /\ Accounted'
<1>. DEFINE n == task.net
            r == PutMetadata(repo, n, Call.key, Call.val)
<1>1. /\ ~Idle /\ op > 0 /\ n \in Net /\ task.write
      /\ op \in DOMAIN Calls /\ Calls[op] = Call /\ Call.do = "kv"
  BY CallingStarted, CallContext DEF AddCheckpointKV, Calling, Call, Orderly, Steady
<1>2. Current \in Script
  BY <1>1 DEF IInv, Control, Idle, Current
<1>3. HasKey(repo, n, Call.key) => Metadata(repo, n, Call.key) = Call.val
  <2>. SUFFICES ASSUME HasKey(repo, n, Call.key) PROVE Metadata(repo, n, Call.key) = Call.val
    OBVIOUS
  <2>1. Call.key \in DOMAIN At(repo.preceding, n).meta
    BY DEF HasKey
  <2>2. Metadata(repo, n, Call.key) = At(repo.preceding, n).meta[Call.key]
    <3>1. n \in DOMAIN repo.preceding
      BY <2>1 DEF At, NoCheckpoint, NoMap
    <3>. QED  BY <3>1 DEF Metadata, At
  <2>3. Kept(n, Call.key, Metadata(repo, n, Call.key))
    BY <1>1, <2>1, <2>2 DEF Truth, Faithful
  <2>4. PICK s \in Script : \E j \in DOMAIN Program[s][n] :
               /\ Program[s][n][j].do = "kv" /\ Program[s][n][j].key = Call.key
               /\ Program[s][n][j].val = Metadata(repo, n, Call.key)
    BY <2>3 DEF Kept
  <2>5. PICK j \in DOMAIN Program[s][n] :
               /\ Program[s][n][j].do = "kv" /\ Program[s][n][j].key = Call.key
               /\ Program[s][n][j].val = Metadata(repo, n, Call.key)
    BY <2>4
  <2>6. op \in DOMAIN Program[Current][n] /\ Program[Current][n][op] = Call
    BY <1>1 DEF Calls
  <2>. QED  BY <1>1, <1>2, <2>5, <2>6 DEF OneValue
<1>4. UNCHANGED chain /\ (Return(repo) \/ Return(r))
  BY <1>1, <1>3 DEF AddCheckpointKV
<1>5. /\ Defs(r.preceding, n) = Defs(repo.preceding, n)
      /\ \A m : Defs(r.stripped, m) = Defs(repo.stripped, m)
  BY PutMetadataNames
<1>6. /\ \A x \in Defs(r.preceding, n) : At(r.preceding, n).defs[x] = At(repo.preceding, n).defs[x]
      /\ \A m : \A x \in Defs(r.stripped, m) :
           At(r.stripped, m).defs[x] = At(repo.stripped, m).defs[x]
  BY PutMetadataRecords
<1>7. Extends(repo) /\ Extends(r)
  BY <1>1, CallsExtend
<1>. HIDE DEF r
<1>8. Alive(repo, op + 1) /\ Alive(r, op + 1)
  BY <1>1, <1>5, <1>6, OtherAlive DEF Orderly
<1>9. Books(files, repo, chain)
  BY <1>1, RunningBooks
<1>10. Books(files, r, chain)
  <2>1. \A m, j : Holds(At(repo.stripped, m), chain[m], j) => Holds(At(r.stripped, m), chain[m], j)
    BY <1>5, <1>6 DEF Holds, Owned, Defs
  <2>. QED  BY <1>9, <2>1 DEF Books
<1>. QED  BY <1>1, <1>4, <1>7, <1>8, <1>9, <1>10, EndsOrderly

\* What is registered again keeps its index.
LEMMA ShownBooks ==
  ASSUME IInv, Truth, Accounted, AtMostOnce, op > 0, task.net \in Net,
         NEW k \in {"asa", "app"}, Shows(k), NEW d
  PROVE  Books(files, Registered(k, Shown.id, d), chain)
<1>. DEFINE n == task.net
<1>1. Shown.id \in DOMAIN chain[n] /\ chain[n][Shown.id].name = Call.name
  BY ShownTrue DEF IsTrue
<1>2. \A j \in DOMAIN chain[n] : chain[n][j].name = Call.name => Shown.id = j
  BY <1>1 DEF AtMostOnce
<1>3. Books(files, repo, chain)
  BY RunningBooks
<1>4. \A m \in Net : \A j \in DOMAIN chain[m] :
        IF m = n /\ chain[m][j].name = Call.name
        THEN k # "lsig" /\ Shown.id = j
        ELSE \/ \E s \in Script : Holds(At(files[s], m), chain[m], j)
             \/ m = n /\ Holds(At(repo.stripped, m), chain[m], j)
  BY <1>2, <1>3 DEF Books
<1>. QED  BY <1>4, RegisteredBooks

\* An update of what the script has deployed.
LEMMA UpdateAppOrderly ==
  ASSUME TidyWork, IInv, Truth, Orderly, Accounted, AtMostOnce, UpdateApp
  PROVE  Orderly' /\ Accounted'
<1>. DEFINE r == Registered("app", Shown.id, FALSE)
<1>1. Calling("update") /\ ~Idle /\ op > 0 /\ task.net \in Net /\ Call.do = "update"
  BY CallingStarted, CallContext DEF UpdateApp
<1>2. /\ Shows("app") /\ ~Shown.deleted
      /\ \A j \in 1..(op - 1) : Calls[j].do = "deploy" /\ Calls[j].name = Call.name =>
                                  Calls[j].kind = "app"
  BY <1>1, OwnIsShown
<1>3. UNCHANGED chain /\ (Fail(repo) \/ Return(r))
  BY <1>2 DEF UpdateApp
<1>4. CASE Fail(repo)
  BY <1>1, <1>3, <1>4, FailsOrderly
<1>5. CASE Return(r)
  <2>1. Extends(r)
    BY <1>1, CallsExtend
  <2>2. Books(files, r, chain)
    BY <1>1, <1>2, ShownBooks
  <2>3. Alive(r, op + 1)
    BY <1>1, <1>2, RegisteredAlive DEF Orderly
  <2>. HIDE DEF r
  <2>. QED  BY <1>1, <1>3, <1>5, <2>1, <2>2, <2>3, EndsOrderly
<1>. QED  BY <1>3, <1>4, <1>5

\* A deletion of what the script has deployed.
LEMMA DeleteEntityOrderly ==
  ASSUME Undisturbed, TidyWork, IInv, Truth, Orderly, Accounted, AtMostOnce, DeleteEntity
  PROVE  Orderly' /\ Accounted'
<1>. DEFINE r == Registered(Call.kind, Shown.id, TRUE)
<1>1. Calling("delete") /\ ~Idle /\ op > 0 /\ task.net \in Net /\ Call.do = "delete"
  BY CallingStarted, CallContext DEF DeleteEntity
<1>2. /\ Call.kind \in {"asa", "app"} /\ Shows(Call.kind) /\ ~Shown.deleted
      /\ \A j \in 1..(op - 1) : Calls[j].do = "deploy" /\ Calls[j].name = Call.name =>
                                  Calls[j].kind = Call.kind
  BY <1>1, OwnIsShown
<1>3. \/ UNCHANGED chain /\ Fail(repo)
      \/ chain' = [chain EXCEPT ![task.net][Shown.id].gone = TRUE] /\ Return(r)
  <2>1. ~Faulty("answer")
    BY DEF Undisturbed, Faulty
  <2>. QED  BY <1>2, <2>1 DEF DeleteEntity
<1>4. CASE UNCHANGED chain /\ Fail(repo)
  BY <1>1, <1>4, FailsOrderly
<1>5. CASE chain' = [chain EXCEPT ![task.net][Shown.id].gone = TRUE] /\ Return(r)
  <2>1. Extends(r)
    BY <1>1, CallsExtend
  <2>2. Books(files, r, chain)
    BY <1>1, <1>2, ShownBooks
  <2>3. \A m \in Net : /\ DOMAIN chain'[m] = DOMAIN chain[m]
                       /\ \A i \in DOMAIN chain[m] : chain'[m][i].name = chain[m][i].name
    BY <1>1, <1>2, <1>5, DeleteNames
  <2>4. Alive(r, op + 1)
    BY <1>1, <1>2, RegisteredAlive DEF Orderly
  <2>. HIDE DEF r
  <2>5. Books(files, r, chain')
    BY <2>2, <2>3, SameNamesBooks
  <2>. QED  BY <1>1, <1>5, <2>1, <2>4, <2>5, EndsOrderly
<1>. QED  BY <1>3, <1>4, <1>5

\* Files that stay record what they did.
LEMMA SameAccounted ==
  ASSUME Accounted, ~(op > 0), UNCHANGED <<chain, files>>
  PROVE  Accounted'
<1>1. \A n \in Net : \A i \in DOMAIN chain'[n] : \E s \in Script : Holds(At(files'[s], n), chain'[n], i)
  BY DEF Accounted
<1>. QED  BY <1>1, AccountedAfter

\* Merging the files up to that of the next script, which starts only without a
\* checkpoint.
LEMMA EnterOrderly ==
  ASSUME IInv, Memory, Orderly, Accounted, NEW same \in BOOLEAN, Enter(same)
  PROVE  Orderly' /\ Accounted'
<1>. DEFINE r == Merged(same).r
<1>1. ~Idle /\ at > 0 /\ op = 0 /\ UNCHANGED <<chain, files>>
  BY DEF Enter
<1>2. Accounted'
  BY <1>1, SameAccounted
<1>3. task.write /\ ~task.force
  BY <1>1 DEF Orderly, Steady
<1>4. r.stripped = files[Current]
  BY <1>1, MergedNow DEF Memory
<1>5. \/ op' = 0 /\ UNCHANGED task
      \/ op' = 1 /\ UNCHANGED <<task, todo>> /\ ~HasCheckpoint(r)
  BY <1>3 DEF Enter, EndTask, Continue
<1>. HIDE DEF r
<1>6. CASE op' = 0 /\ UNCHANGED task
  BY <1>2, <1>3, <1>6 DEF Orderly, Steady
<1>7. CASE op' = 1 /\ UNCHANGED <<task, todo>> /\ ~HasCheckpoint(r)
  <2>1. Steady'
    BY <1>1, <1>3, <1>4, <1>7 DEF Steady, HasCheckpoint, Current, Idle
  <2>2. Alive(repo, op)'
    BY <1>7 DEF Alive
  <2>. QED  BY <1>2, <2>1, <2>2 DEF Orderly
<1>. QED  BY <1>5, <1>6, <1>7

\* Saving what a script did.
LEMMA FinishOrderly ==
  ASSUME IInv, Orderly, Accounted, Finish
  PROVE  Orderly' /\ Accounted'
<1>1. ~Idle /\ op > 0 /\ task.write /\ ~task.force
  BY FinishStarted DEF Finish, Orderly, Steady
<1>2. Save(repo) /\ UNCHANGED <<chain, task>> /\ op' = 0
  BY <1>1 DEF Finish, Continue, EndTask
<1>3. Extends(repo) /\ Books(files, repo, chain)
  BY <1>1, RunningBooks DEF IInv
<1>4. \A n \in Net : \A i \in DOMAIN chain[n] : \E s \in Script : Holds(At(files'[s], n), chain[n], i)
  BY <1>1, <1>2, <1>3, SaveBooks DEF Orderly
<1>5. Accounted'
  BY <1>2, <1>4, AccountedAfter
<1>6. Orderly'
  BY <1>1, <1>2 DEF Orderly, Steady
<1>. QED  BY <1>5, <1>6

\* Every step of tidy scripts that nothing disturbs.
LEMMA NextOrderly ==
  ASSUME Undisturbed, TidyWork, OneValue,
         IInv, Memory, Truth, Orderly, Accounted, AtMostOnce, [Next]_vars
  PROVE  Orderly' /\ Accounted'
<1>1. ASSUME NEW n \in Net, NEW list \in TaskLists, NEW force \in Forces,
             StartDeploy(n, list, force)
      PROVE  Orderly' /\ Accounted'
  <2>1. Idle /\ ~force /\ op = 0 /\ op' = 0
    BY <1>1 DEF StartDeploy, Undisturbed, IInv, Control
  <2>2. task'.write /\ ~task'.force
    BY <1>1, <2>1 DEF StartDeploy
  <2>3. files' = files
    BY <1>1, <2>1 DEF StartDeploy, IInv, Control
  <2>4. Accounted'
    BY <1>1, <2>1, <2>3, SameAccounted DEF StartDeploy
  <2>. QED  BY <2>1, <2>2, <2>4 DEF Orderly, Steady
<1>2. ~(\E n \in Net, s \in RunScripts : StartRun(n, s)) /\ ~Stop
  BY DEF Undisturbed, Stop, Faulty
<1>3. CASE Load
  <2>1. op = 0 /\ op' = 0 /\ ~Idle /\ UNCHANGED <<task, chain, files>>
    BY <1>3 DEF Load, EndTask, IInv, Control
  <2>2. Accounted'
    BY <2>1, SameAccounted
  <2>. QED  BY <2>1, <2>2 DEF Orderly, Steady
<1>4. CASE \E same \in BOOLEAN : Enter(same)
  BY <1>4, EnterOrderly
<1>5. CASE DeployEntity
  BY <1>5, DeployEntityOrderly
<1>6. CASE MakeLsig
  BY <1>6, MakeLsigOrderly
<1>7. CASE AddCheckpointKV
  BY <1>7, AddCheckpointKVOrderly
<1>8. CASE UpdateApp
  BY <1>8, UpdateAppOrderly
<1>9. CASE DeleteEntity
  BY <1>9, DeleteEntityOrderly
<1>10. CASE Finish
  BY <1>10, FinishOrderly
<1>11. CASE UNCHANGED vars
  <2>1. Orderly'
    BY <1>11 DEF vars, Orderly, Steady, Alive, Calls, Current, Idle, At
  <2>2. \A n \in Net : \A i \in DOMAIN chain'[n] :
          \/ \E s \in Script : Holds(At(files'[s], n), chain'[n], i)
          \/ op' > 0 /\ n = task'.net /\ Holds(At(repo'.stripped, n), chain'[n], i)
    BY <1>11 DEF vars, Accounted
  <2>. QED  BY <2>1, <2>2, AccountedAfter
<1>. QED
  BY <1>1, <1>2, <1>3, <1>4, <1>5, <1>6, <1>7, <1>8, <1>9, <1>10, <1>11 DEF Next, TaskStep

\* No task is there at first.
LEMMA InitOrderly == Init => Orderly
BY DEF Init, Orderly, Steady, Idle

\* So every entity is recorded at any time, and deployed once.
LEMMA NothingLost ==
  ASSUME Undisturbed, TidyWork, OneValue
  PROVE  Spec => [](Accounted /\ AtMostOnce)
<1>1. IInv /\ Memory /\ Truth /\ Orderly /\ Accounted /\ AtMostOnce /\ [Next]_vars
        => Orderly' /\ Accounted' /\ AtMostOnce'
  BY NextOrderly, NextOnce
<1>. QED
  BY <1>1, InitOrderly, InitOnce, MemoryExtendsFile, MemoryCoversFiles, TruthStays, PTL DEF Spec

\* If scripts update and delete only what they have deployed, and agree on values, and
\* neither --force nor run mode nor a stop of the process nor a lost answer comes in
\* between: a name is deployed once on a network, however often calls of the network
\* fail and the deployment is run again, with whatever lists of scripts.
THEOREM DeployedOnce ==
  ASSUME Undisturbed, TidyWork, OneValue
  PROVE  Spec => []AtMostOnce
BY NothingLost, PTL

\* And between tasks every entity is recorded in a file: what a script deployed before
\* one of its calls failed is not forgotten.
THEOREM NothingForgotten ==
  ASSUME Undisturbed, TidyWork, OneValue
  PROVE  Spec => []NothingOrphaned
<1>1. IInv /\ Accounted => NothingOrphaned
  <2>. SUFFICES ASSUME IInv, Accounted, Idle, NEW n \in Net, NEW i \in DOMAIN chain[n]
                PROVE  \E s \in Script : \E x \in Owned(At(files[s], n)) : Recorded(s, n, x).id = i
    BY DEF NothingOrphaned
  <2>1. ~(op > 0)
    BY DEF IInv, Control
  <2>2. PICK s \in Script : Holds(At(files[s], n), chain[n], i)
    BY <2>1 DEF Accounted
  <2>3. n \in DOMAIN files[s]
    BY <2>2 DEF Holds, Owned, At, NoCheckpoint, NoMap
  <2>. QED  BY <2>2, <2>3 DEF Holds, Recorded, At
<1>. QED  BY <1>1, NothingLost, MemoryExtendsFile, PTL
=============================================================================
