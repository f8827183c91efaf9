--------------------------- MODULE ClientsProofs ---------------------------
(***************************************************************************)
(* Theorems about Clients, for every call that may be made, every wallet   *)
(* and every number of rounds: receipts are true, and what is sent is what *)
(* was asked.  Rounds go on, and connections come and go, at any moment of *)
(* the call.                                                               *)
(***************************************************************************)
EXTENDS Clients, FiniteSetTheorems, SequenceTheorems, TLAPS

\* The network holds something of ours only after it was sent, and then what was
\* built; nothing but that is confirmed, and nothing that the pool gave up.
Held ==
  /\ node.pool # <<>> => /\ pc \in {"polling", "waiting", "returned", "threw"}
                         /\ node.pool = call.built
  /\ node.confirmed > 0 => node.pool # <<>>
  /\ node.error => node.confirmed = 0

Shapes ==
  /\ DOMAIN node = {"round", "pool", "confirmed", "error"}
  /\ node.round \in Nat /\ node.confirmed \in Nat
  /\ DOMAIN call = {"kind", "params", "grouped", "built", "signed", "from", "at", "receipt", "outcome"}
  /\ call.from \in Nat /\ call.at \in Nat

Receipt == pc = "returned" => node.confirmed > 0 /\ call.receipt = node.confirmed
Failure ==
  pc = "threw" =>
    /\ call.outcome = "pool" => node.error
    /\ call.outcome = "timeout" => node.round > call.from + WaitRounds
    /\ node.pool # <<>> => call.outcome \in {"pool", "timeout", "network"}

\* The inductive invariant.
IInv == Shapes /\ Held /\ Receipt /\ Failure

\* While nothing was sent, a step that leaves the network alone cannot go wrong.
LEMMA BeforeSending ==
  ASSUME IInv, pc \in {"idle", "building", "signing", "making", "sending"},
         UNCHANGED node, DOMAIN call' = DOMAIN call, pc' # "returned",
         call'.from = call.from, call'.at = call.at,
         pc' = "threw" => call'.outcome \notin {"pool", "timeout"}
  PROVE  IInv'
BY DEF IInv, Shapes, Held, Receipt, Failure

\* A call that throws is as it was, but for what it throws.
LEMMA ThrowIs ==
  ASSUME IInv, NEW why, Throw(why)
  PROVE  /\ pc' = "threw" /\ DOMAIN call' = DOMAIN call /\ call'.outcome = why
         /\ call'.from = call.from /\ call'.at = call.at /\ call'.built = call.built
BY DEF Throw, IInv, Shapes

\* At first nothing is asked and nothing sent.
LEMMA InitIInv == Init => IInv
BY DEF Init, IInv, Shapes, Held, Receipt, Failure

\* A call that begins sends nothing.
LEMMA ExecuteTxIInv ==
  ASSUME IInv, ExecuteTx \/ ExecuteSDKTx \/ MakeTx
  PROVE  IInv'
<1>1. pc = "idle" /\ UNCHANGED node /\ pc' # "returned"
  BY DEF ExecuteTx, ExecuteSDKTx, MakeTx
<1>2. DOMAIN call' = DOMAIN call /\ call'.from = call.from /\ call'.at = call.at
  BY DEF ExecuteTx, ExecuteSDKTx, MakeTx, IInv, Shapes
<1>3. pc' = "threw" => call'.outcome \in {"length", "unsupported", "parameters"}
  BY DEF ExecuteTx, ExecuteSDKTx, MakeTx, IInv, Shapes
<1>. QED  BY <1>1, <1>2, <1>3, BeforeSending

\* Nor does building, nor its failure.
LEMMA BuildTxIInv ==
  ASSUME IInv, BuildTx
  PROVE  IInv'
<1>1. pc = "building" /\ UNCHANGED node
  BY DEF BuildTx
<1>2. CASE Throw("parameters") \/ Throw("network")
  BY <1>1, <1>2, ThrowIs, BeforeSending
<1>3. CASE /\ \E x : call' = [call EXCEPT !.built = Append(@, x)]
           /\ pc' \in {"signing", "building"}
  <2>1. DOMAIN call' = DOMAIN call /\ call'.from = call.from /\ call'.at = call.at
    BY <1>3 DEF IInv, Shapes
  <2>. QED  BY <1>1, <1>3, <2>1, BeforeSending
<1>. QED  BY <1>2, <1>3 DEF BuildTx

\* Nor does signing, nor a wallet that refuses.
LEMMA SignIInv ==
  ASSUME IInv, SignGroup \/ SignWithKeys \/ SignMade
  PROVE  IInv'
<1>1. pc \in {"signing", "making"} /\ UNCHANGED node
  BY DEF SignGroup, SignWithKeys, SignMade
<1>2. CASE Throw("wallet") \/ Throw("signature")
  BY <1>1, <1>2, ThrowIs, BeforeSending
<1>3. CASE /\ \E x : call' = [call EXCEPT !.signed = x]
           /\ pc' \in {"signing", "making", "sending"}
  <2>1. DOMAIN call' = DOMAIN call /\ call'.from = call.from /\ call'.at = call.at
    BY <1>3 DEF IInv, Shapes
  <2>. QED  BY <1>1, <1>3, <2>1, BeforeSending
<1>4. CASE /\ \E x : call' = [call EXCEPT !.outcome = x]
           /\ pc' = "sending" \/ (pc' = "threw" /\ call' = [call EXCEPT !.outcome = "length"])
  <2>1. DOMAIN call' = DOMAIN call /\ call'.from = call.from /\ call'.at = call.at
    BY <1>4 DEF IInv, Shapes
  <2>2. pc' # "returned" /\ (pc' = "threw" => call'.outcome = "length")
    BY <1>4 DEF IInv, Shapes
  <2>. QED  BY <1>1, <2>1, <2>2, BeforeSending
<1>5. CASE SignGroup
  BY <1>2, <1>3, <1>5 DEF SignGroup
<1>6. CASE SignWithKeys
  BY <1>2, <1>3, <1>6 DEF SignWithKeys
<1>7. CASE SignMade
  BY <1>2, <1>3, <1>4, <1>7 DEF SignMade
<1>. QED  BY <1>5, <1>6, <1>7

\* What is sent is what was built, and not confirmed yet; the session may not
\* come to know of it.
LEMMA SendIInv ==
  ASSUME IInv, Send
  PROVE  IInv'
<1>1. CASE (Throw("rejected") \/ Throw("network")) /\ UNCHANGED node
  BY <1>1, ThrowIs, BeforeSending DEF Send
<1>2. CASE /\ node' = [node EXCEPT !.pool = call.built]
           /\ \/ /\ call' = [call EXCEPT !.from = node.round, !.at = node.round]
                 /\ pc' = "polling"
              \/ Throw("network")
  <2>1. /\ DOMAIN call' = DOMAIN call /\ call'.built = call.built
        /\ call'.from \in Nat /\ call'.at \in Nat
        /\ pc' = "polling" \/ (pc' = "threw" /\ call'.outcome = "network")
    <3>1. CASE Throw("network")
      BY <3>1, ThrowIs DEF IInv, Shapes
    <3>2. CASE /\ call' = [call EXCEPT !.from = node.round, !.at = node.round]
               /\ pc' = "polling"
      BY <3>2 DEF IInv, Shapes
    <3>. QED  BY <1>2, <3>1, <3>2
  <2>2. /\ DOMAIN node' = DOMAIN node /\ node'.pool = call.built /\ node'.round = node.round
        /\ node'.confirmed = node.confirmed /\ node'.error = node.error
    BY <1>2 DEF IInv, Shapes
  <2>3. node.confirmed = 0
    BY DEF IInv, Shapes, Held, Send
  <2>. QED  BY <2>1, <2>2, <2>3 DEF IInv, Shapes, Held, Receipt, Failure
<1>. QED  BY <1>1, <1>2 DEF Send

\* A look at the node ends the call with what the node says, or that it said
\* nothing.
LEMMA PollIInv ==
  ASSUME IInv, Poll
  PROVE  IInv'
<1>1. pc = "polling" /\ UNCHANGED node
  BY DEF Poll
<1>2. \/ /\ node.confirmed > 0 /\ pc' = "returned"
         /\ call' = [call EXCEPT !.receipt = node.confirmed]
      \/ node.error /\ Throw("pool")
      \/ pc' = "waiting" /\ call' = [call EXCEPT !.at = @ + 1]
      \/ Throw("network")
  BY DEF Poll
<1>3. CASE (node.error /\ Throw("pool")) \/ Throw("network")
  <2>1. /\ pc' = "threw" /\ DOMAIN call' = DOMAIN call /\ call'.built = call.built
        /\ call'.from = call.from /\ call'.at = call.at
        /\ call'.outcome = "network" \/ (call'.outcome = "pool" /\ node.error)
    BY <1>3, ThrowIs
  <2>. QED  BY <1>1, <2>1 DEF IInv, Shapes, Held, Receipt, Failure
<1>4. CASE pc' = "waiting" /\ call' = [call EXCEPT !.at = @ + 1]
  BY <1>1, <1>4 DEF IInv, Shapes, Held, Receipt, Failure
<1>5. CASE /\ node.confirmed > 0 /\ pc' = "returned"
           /\ call' = [call EXCEPT !.receipt = node.confirmed]
  BY <1>1, <1>5 DEF IInv, Shapes, Held, Receipt, Failure
<1>. QED  BY <1>2, <1>3, <1>4, <1>5

\* Waiting ends the call only when time is up, or the node fails.
LEMMA WaitForBlockIInv ==
  ASSUME IInv, WaitForBlock
  PROVE  IInv'
<1>1. pc = "waiting" /\ UNCHANGED node
  BY DEF WaitForBlock
<1>2. \/ pc' = "polling" /\ UNCHANGED call
      \/ node.round > call.at /\ ~(call.at < call.from + WaitRounds) /\ Throw("timeout")
      \/ Throw("network")
  BY DEF WaitForBlock
<1>3. CASE pc' = "polling" /\ UNCHANGED call
  BY <1>1, <1>3 DEF IInv, Shapes, Held, Receipt, Failure
<1>4. CASE Throw("network")
  BY <1>1, <1>4, ThrowIs DEF IInv, Shapes, Held, Receipt, Failure
<1>5. CASE node.round > call.at /\ ~(call.at < call.from + WaitRounds) /\ Throw("timeout")
  <2>1. node.round > call.from + WaitRounds
    BY <1>5, ClientsAssumption DEF ClientsAssumption, IInv, Shapes
  <2>. QED  BY <1>1, <1>5, <2>1, ThrowIs DEF IInv, Shapes, Held, Receipt, Failure
<1>. QED  BY <1>2, <1>3, <1>4, <1>5

\* The network confirms only what it holds.
LEMMA NextRoundIInv ==
  ASSUME IInv, NextRound
  PROVE  IInv'
<1>1. UNCHANGED <<pc, call>> /\ pc \notin {"returned", "threw"}
  BY DEF NextRound
<1>2. \/ node' = [node EXCEPT !.round = @ + 1]
      \/ /\ node.pool # <<>> /\ ~node.error
         /\ node' = [node EXCEPT !.round = @ + 1, !.confirmed = node.round + 1]
      \/ node.confirmed = 0 /\ node' = [node EXCEPT !.error = TRUE]
  BY DEF NextRound
<1>. USE DEF IInv, Shapes, Held, Receipt, Failure
<1>3. CASE node' = [node EXCEPT !.round = @ + 1]
  <2>1. /\ DOMAIN node' = DOMAIN node /\ node'.pool = node.pool
        /\ node'.confirmed = node.confirmed /\ node'.error = node.error
    BY <1>3
  <2>2. node'.round = node.round + 1
    BY <1>3
  <2>. QED  BY <1>1, <2>1, <2>2
<1>4. CASE /\ node.pool # <<>> /\ ~node.error
           /\ node' = [node EXCEPT !.round = @ + 1, !.confirmed = node.round + 1]
  <2>1. DOMAIN node' = DOMAIN node /\ node'.pool = node.pool /\ node'.error = node.error
    BY <1>4
  <2>2. node'.round = node.round + 1 /\ node'.confirmed = node.round + 1
    BY <1>4
  <2>. QED  BY <1>1, <1>4, <2>1, <2>2
<1>5. CASE node.confirmed = 0 /\ node' = [node EXCEPT !.error = TRUE]
  <2>1. /\ DOMAIN node' = DOMAIN node /\ node'.pool = node.pool
        /\ node'.confirmed = node.confirmed /\ node'.round = node.round
    BY <1>5
  <2>. QED  BY <1>1, <1>5, <2>1
<1>. QED  BY <1>2, <1>3, <1>4, <1>5

\* The connection of the wallet has no part in this.
LEMMA ConnectionIInv ==
  ASSUME IInv, UNCHANGED <<pc, call, node>>
  PROVE  IInv'
BY DEF IInv, Shapes, Held, Receipt, Failure

\* Every step keeps the invariant.
LEMMA NextIInv == IInv /\ [Next]_vars => IInv'
<1>. SUFFICES ASSUME IInv, [Next]_vars PROVE IInv'
  OBVIOUS
<1>1. CASE ExecuteTx \/ ExecuteSDKTx \/ MakeTx
  BY <1>1, ExecuteTxIInv
<1>2. CASE BuildTx
  BY <1>2, BuildTxIInv
<1>3. CASE SignGroup \/ SignWithKeys \/ SignMade
  BY <1>3, SignIInv
<1>4. CASE Send
  BY <1>4, SendIInv
<1>5. CASE Poll
  BY <1>5, PollIInv
<1>6. CASE WaitForBlock
  BY <1>6, WaitForBlockIInv
<1>7. CASE NextRound
  BY <1>7, NextRoundIInv
<1>8. CASE Create \/ Close \/ OnConnect \/ OnUpdate \/ OnDisconnect
  BY <1>8, ConnectionIInv DEF Create, Close, OnConnect, OnUpdate, OnDisconnect
<1>9. CASE Done \/ UNCHANGED vars
  BY <1>9, ConnectionIInv DEF Done, vars
<1>. QED  BY <1>1, <1>2, <1>3, <1>4, <1>5, <1>6, <1>7, <1>8, <1>9 DEF Next

\* What a call ends with can be relied on, whichever request to the node fails: a
\* receipt is given only for a group that the network has confirmed; the pool is
\* blamed only for a group that is not confirmed, and time only when it is up;
\* and after an error of another kind, but for a failing request, the network has
\* nothing of the group.  What is confirmed is what was built.
THEOREM ReceiptsAreTrue == Spec => []ReceiptsTrue
<1>1. IInv => ReceiptsTrue
  BY DEF IInv, Held, Receipt, Failure, ReceiptsTrue
<1>. QED  BY <1>1, InitIInv, NextIInv, PTL DEF Spec

-----------------------------------------------------------------------------
(* Splicing the logic signatures into what a wallet returns                *)

Latest(T) == CHOOSE i \in T : \A j \in T : i >= j

\* One step of Present and one of InsertLsigs.
OneMorePresent(s, i, t) == IF s[i] = None THEN t ELSE Append(t, s[i])
Blob(P, k) == [tx |-> k, by |-> P[k].sign]
Lsig(P, k) == P[k].sign = "LogicSignature"
OneMoreSpliced(P, k, s) ==
  IF Lsig(P, k) THEN InsertAt(s, Min({k, Len(s) + 1}), Blob(P, k)) ELSE s

Presenting == INSTANCE Recursion WITH Op <- OneMorePresent, Pick <- Latest
OneMoreAt(c, i, s) == OneMoreSpliced(c.params, c.order[i], s)
Splicing == INSTANCE Recursion WITH Op <- OneMoreAt, Pick <- Latest

\* What is present among the first i of s, and what the logic signatures among
\* the first k of P make of the answer A.
PresentUpTo(s, i) == Presenting!FoldOver(s, <<>>, 1..i)
InOrder(P) == [params |-> P, order |-> [k \in DOMAIN P |-> k]]
Spliced(P, A, k) == Splicing!FoldOver(InOrder(P), A, 1..k)

Maybe == Signed \cup {None}

\* Present is a fold.
LEMMA PresentIsFold ==
  ASSUME NEW n \in Nat, NEW s, DOMAIN s = 1..n
  PROVE  Present(s) = PresentUpTo(s, n)
BY DEF Present, FoldLeft, MapThenFoldSet, Max, PresentUpTo, Presenting!FoldOver, Presenting!Solves,
       Presenting!Rest, OneMorePresent, Latest

\* InsertLsigs is a fold.
LEMMA InsertLsigsIsFold ==
  ASSUME NEW n \in Nat, DOMAIN call.params = 1..n, NEW A
  PROVE  InsertLsigs(A) = Spliced(call.params, A, n)
BY DEF InsertLsigs, FoldLeft, MapThenFoldSet, Max, Spliced, Splicing!FoldOver, Splicing!Solves,
       Splicing!Rest, OneMoreAt, OneMoreSpliced, InOrder, Latest, Lsig, Blob, IsLsig, BySession

\* The steps of both.
LEMMA FoldSteps ==
  /\ \A s : PresentUpTo(s, 0) = <<>>
  /\ \A s : \A i \in Nat : PresentUpTo(s, i + 1) = OneMorePresent(s, i + 1, PresentUpTo(s, i))
  /\ \A P, A : Spliced(P, A, 0) = A
  /\ \A P, A : \A k \in Nat :
       k + 1 \in DOMAIN P =>
         Spliced(P, A, k + 1) = OneMoreSpliced(P, k + 1, Spliced(P, A, k))
<1>1. 1..0 = {}
  OBVIOUS
<1>2. Presenting!PicksLast /\ Splicing!PicksLast
  BY DEF Presenting!PicksLast, Presenting!Latest, Splicing!PicksLast, Splicing!Latest, Latest
<1>3. ASSUME NEW i \in Nat
      PROVE  /\ Presenting!Descends(1..(i + 1)) /\ Presenting!Picks(1..(i + 1))
             /\ Splicing!Descends(1..(i + 1)) /\ Splicing!Picks(1..(i + 1))
             /\ Latest(1..(i + 1)) = i + 1
             /\ Presenting!Rest(1..(i + 1)) = 1..i /\ Splicing!Rest(1..(i + 1)) = 1..i
             /\ 1..(i + 1) # {}
  <2>1. i + 1 \in Nat /\ i + 1 > 0 /\ (i + 1) - 1 = i /\ i + 1 \in 1..(i + 1)
    OBVIOUS
  <2>2. \A n \in Nat : /\ Presenting!Descends(1..n) /\ Presenting!Picks(1..n)
                       /\ n > 0 => Latest(1..n) = n /\ Presenting!Rest(1..n) = 1..(n - 1)
    BY <1>2, Presenting!Positions
  <2>3. \A n \in Nat : /\ Splicing!Descends(1..n) /\ Splicing!Picks(1..n)
                       /\ n > 0 => Latest(1..n) = n /\ Splicing!Rest(1..n) = 1..(n - 1)
    BY <1>2, Splicing!Positions
  <2>. QED  BY <2>1, <2>2, <2>3
<1>4. ASSUME NEW s, NEW i \in Nat
      PROVE  PresentUpTo(s, i + 1) = OneMorePresent(s, i + 1, PresentUpTo(s, i))
  <2>. DEFINE D == 1..(i + 1)
  <2>1. /\ Presenting!Descends(D) /\ Presenting!Picks(D) /\ D # {}
        /\ Latest(D) = i + 1 /\ Presenting!Rest(D) = 1..i
    BY <1>3
  <2>. HIDE DEF D
  <2>2. Presenting!FoldOver(s, <<>>, D)
          = OneMorePresent(s, Latest(D), Presenting!FoldOver(s, <<>>, Presenting!Rest(D)))
    BY <2>1, Presenting!FoldOverStep
  <2>. QED  BY <2>1, <2>2 DEF D, PresentUpTo
<1>5. ASSUME NEW P, NEW A, NEW k \in Nat, k + 1 \in DOMAIN P
      PROVE  Spliced(P, A, k + 1) = OneMoreSpliced(P, k + 1, Spliced(P, A, k))
  <2>. DEFINE D == 1..(k + 1)
              c == InOrder(P)
  <2>1. /\ Splicing!Descends(D) /\ Splicing!Picks(D) /\ D # {}
        /\ Latest(D) = k + 1 /\ Splicing!Rest(D) = 1..k
    BY <1>3
  <2>2. c.params = P /\ c.order[k + 1] = k + 1
    BY <1>5 DEF InOrder
  <2>. HIDE DEF D, c
  <2>3. Splicing!FoldOver(c, A, D)
          = OneMoreAt(c, Latest(D), Splicing!FoldOver(c, A, Splicing!Rest(D)))
    BY <2>1, Splicing!FoldOverStep
  <2>4. Splicing!FoldOver(c, A, D) = OneMoreSpliced(P, k + 1, Splicing!FoldOver(c, A, 1..k))
    BY <2>1, <2>2, <2>3 DEF OneMoreAt
  <2>. QED  BY <2>4 DEF D, c, Spliced
<1>6. \A s : PresentUpTo(s, 0) = <<>>
  BY <1>1, Presenting!FoldOverNothing DEF PresentUpTo
<1>7. \A P, A : Spliced(P, A, 0) = A
  BY <1>1, Splicing!FoldOverNothing DEF Spliced
<1>. QED  BY <1>4, <1>5, <1>6, <1>7

\* What holds at a and after each step up to b holds throughout.
LEMMA Throughout ==
  ASSUME NEW a \in Int, NEW b \in Int, NEW G,
         a \in G, \A i \in a..(b - 1) : i \in G => i + 1 \in G
  PROVE  \A i \in a..b : i \in G
<1>. DEFINE B == {i \in a..b : i \notin G}
            C == {j \in 0..(b - a) : b - j \in B}
<1>1. SUFFICES ASSUME B # {} PROVE FALSE
  OBVIOUS
<1>2. PICK i \in B : TRUE
  BY <1>1
<1>3. i \in a..b /\ b - i \in C
  BY <1>2
<1>4. IsFiniteSet(C) /\ \A j \in C : j \in Nat
  <2>1. IsFiniteSet(0..(b - a))
    BY FS_Interval
  <2>. QED  BY <2>1, FS_Subset
<1>5. PICK j \in C : \A k \in C : j >= k
  <2>1. IsFiniteSet(C) /\ C # {} /\ \A k \in C : k \in Nat
    BY <1>3, <1>4
  <2>. HIDE DEF C
  <2>. QED  BY <2>1, Presenting!HasLast DEF IsFiniteSet, Presenting!IsFiniteSet
<1>6. b - j \in a..b /\ b - j \notin G /\ j \in Int /\ j <= b - a
  BY <1>5
<1>7. b - j # a
  BY <1>6
<1>8. b - j - 1 \in a..(b - 1)
  BY <1>6, <1>7
<1>9. b - j - 1 \in G
  <2>. SUFFICES ASSUME b - j - 1 \notin G PROVE FALSE
    OBVIOUS
  <2>1. b - (j + 1) = b - j - 1 /\ j + 1 \in 0..(b - a)
    BY <1>5, <1>6, <1>8
  <2>2. j + 1 \in C
    BY <2>1, <1>8
  <2>. QED  BY <1>5, <1>6, <2>2
<1>10. (b - j - 1) + 1 = b - j
  BY <1>6
<1>. QED  BY <1>6, <1>8, <1>9, <1>10

-----------------------------------------------------------------------------
(* What is present                                                         *)

\* What is present grows with the positions that are looked at, by what it keeps.
LEMMA PresentGrows ==
  ASSUME NEW s \in Seq(Maybe)
  PROVE  \A i \in 0..Len(s) :
           /\ PresentUpTo(s, i) \in Seq(Signed)
           /\ \A j \in 0..i :
                /\ PresentUpTo(s, j) \in Seq(Signed)
                /\ Len(PresentUpTo(s, j)) <= Len(PresentUpTo(s, i))
                /\ \A q \in 1..Len(PresentUpTo(s, j)) :
                     PresentUpTo(s, i)[q] = PresentUpTo(s, j)[q]
<1>. DEFINE U(i) == PresentUpTo(s, i)
            Grown(i) == /\ U(i) \in Seq(Signed)
                        /\ \A j \in 0..i : /\ U(j) \in Seq(Signed) /\ Len(U(j)) <= Len(U(i))
                                           /\ \A q \in 1..Len(U(j)) : U(i)[q] = U(j)[q]
            G == {i \in 0..Len(s) : Grown(i)}
<1>1. 0 \in G
  <2>1. U(0) = <<>>
    BY FoldSteps
  <2>4. <<>> \in Seq(Signed) /\ Len(<<>>) = 0 /\ 1..0 = {}
    OBVIOUS
  <2>. HIDE DEF U
  <2>5. ASSUME NEW j \in 0..0
        PROVE  /\ U(j) \in Seq(Signed) /\ Len(U(j)) <= Len(U(0))
               /\ \A q \in 1..Len(U(j)) : U(0)[q] = U(j)[q]
    <3>1. j = 0
      OBVIOUS
    <3>2. U(j) = <<>> /\ U(0) = <<>>
      BY <3>1, <2>1
    <3>3. 1..Len(U(j)) = {} /\ Len(U(j)) = 0 /\ Len(U(0)) = 0 /\ U(j) \in Seq(Signed)
      BY <3>2, <2>4
    <3>. QED  BY <3>3
  <2>3. Grown(0)
    BY <2>1, <2>4, <2>5
  <2>. QED  BY <2>3
<1>2. ASSUME NEW i \in 0..(Len(s) - 1), i \in G PROVE i + 1 \in G
  <2>0. i \in Nat
    OBVIOUS
  <2>1. U(i + 1) = OneMorePresent(s, i + 1, U(i))
    BY <2>0, FoldSteps
  <2>2. s[i + 1] \in Maybe /\ i + 1 \in 0..Len(s)
    OBVIOUS
  <2>. HIDE DEF U
  <2>3. U(i) \in Seq(Signed) /\ Grown(i)
    BY <1>2
  <2>4. /\ U(i + 1) \in Seq(Signed) /\ Len(U(i)) <= Len(U(i + 1))
        /\ \A q \in 1..Len(U(i)) : U(i + 1)[q] = U(i)[q]
    <3>1. CASE s[i + 1] = None
      BY <2>1, <2>3, <3>1 DEF OneMorePresent
    <3>2. CASE s[i + 1] # None
      <4>1. U(i + 1) = Append(U(i), s[i + 1]) /\ s[i + 1] \in Signed
        BY <2>1, <2>2, <3>2 DEF OneMorePresent, Maybe
      <4>2. PICK t \in Seq(Signed) : t = U(i)
        BY <2>3
      <4>3. PICK e \in Signed : e = s[i + 1]
        BY <4>1
      <4>4. U(i + 1) = Append(t, e)
        BY <4>1, <4>2, <4>3
      <4>5. /\ Append(t, e) \in Seq(Signed) /\ Len(Append(t, e)) = Len(t) + 1
            /\ \A q \in 1..Len(t) : Append(t, e)[q] = t[q]
        BY AppendProperties
      <4>6. PICK w : w = Append(t, e) /\ w = U(i + 1)
        BY <4>4
      <4>7. /\ w \in Seq(Signed) /\ Len(w) = Len(t) + 1 /\ Len(t) \in Nat
            /\ \A q \in 1..Len(t) : w[q] = t[q]
        BY <4>5, <4>6
      <4>8. Len(t) <= Len(w)
        BY <4>7
      <4>. QED  BY <4>2, <4>6, <4>7, <4>8
    <3>. QED  BY <3>1, <3>2
  <2>5. ASSUME NEW j \in 0..(i + 1)
        PROVE  /\ U(j) \in Seq(Signed) /\ Len(U(j)) <= Len(U(i + 1))
               /\ \A q \in 1..Len(U(j)) : U(i + 1)[q] = U(j)[q]
    <3>1. CASE j = i + 1
      BY <3>1, <2>4
    <3>2. CASE j # i + 1
      <4>1. j \in 0..i
        BY <3>2
      <4>2. /\ U(j) \in Seq(Signed) /\ Len(U(j)) <= Len(U(i))
           /\ \A q \in 1..Len(U(j)) : U(i)[q] = U(j)[q]
        BY <4>1, <2>3
      <4>3. Len(U(j)) \in Int /\ Len(U(i)) \in Int /\ Len(U(i + 1)) \in Int
        BY <4>2, <2>3, <2>4
      <4>. QED  BY <4>2, <4>3, <2>4
    <3>. QED  BY <3>1, <3>2
  <2>. QED  BY <2>2, <2>4, <2>5
<1>3. 0 \in Int /\ Len(s) \in Int
  OBVIOUS
<1>. HIDE DEF G
<1>4. \A i \in 0..Len(s) : i \in G
  BY <1>1, <1>2, <1>3, Throughout
<1>. QED  BY <1>4 DEF G

\* What is present is signed.
LEMMA PresentIsSigned ==
  ASSUME NEW s \in Seq(Maybe)
  PROVE  Present(s) \in Seq(Signed)
<1>1. Present(s) = PresentUpTo(s, Len(s)) /\ Len(s) \in 0..Len(s)
  BY PresentIsFold
<1>2. \A i \in 0..Len(s) : PresentUpTo(s, i) \in Seq(Signed)
  BY PresentGrows
<1>. QED  BY <1>1, <1>2

\* A group that is signed as asked.
GroupOf(P) == [k \in DOMAIN P |-> Blob(P, k)]

\* s is W with m gaps after the first b positions.
GapIn(s, W, n, m, b) ==
  \A j \in 1..(n + m) : s[j] = IF j <= b THEN W[j] ELSE IF j <= b + m THEN None ELSE W[j - m]

\* If the wallet returned nothing but gaps at m positions after the first b, what
\* is present is the whole group.
LEMMA PresentIsWhole ==
  ASSUME NEW n \in Nat, NEW W \in [1..n -> Signed], NEW m \in Nat, NEW b \in 0..n,
         NEW s \in Seq(Maybe), Len(s) = n + m, GapIn(s, W, n, m, b)
  PROVE  Present(s) = W
<1>. DEFINE U(i) == PresentUpTo(s, i)
            kept(i) == IF i <= b THEN i ELSE IF i <= b + m THEN b ELSE i - m
            Right(i) == /\ U(i) \in Seq(Signed) /\ Len(U(i)) = kept(i)
                        /\ \A q \in 1..kept(i) : U(i)[q] = W[q]
            G == {i \in 0..(n + m) : Right(i)}
<1>0. b \in Nat /\ b <= n /\ n + m \in Nat
  OBVIOUS
<1>1. 0 \in G
  <2>1. U(0) = <<>>
    BY FoldSteps
  <2>2. kept(0) = 0
    BY <1>0
  <2>3. <<>> \in Seq(Signed) /\ Len(<<>>) = 0 /\ 1..0 = {}
    OBVIOUS
  <2>. HIDE DEF U, kept
  <2>4. Right(0)
    BY <2>1, <2>2, <2>3
  <2>. HIDE DEF Right
  <2>. QED  BY <1>0, <2>4
<1>2. ASSUME NEW i \in 0..(n + m - 1), i \in G PROVE i + 1 \in G
  <2>0. i \in Nat /\ i + 1 \in 1..(n + m) /\ i + 1 \in 0..(n + m)
    BY <1>0
  <2>1. U(i + 1) = OneMorePresent(s, i + 1, U(i))
    BY <2>0, FoldSteps
  <2>2. s[i + 1] = IF i + 1 <= b THEN W[i + 1] ELSE IF i + 1 <= b + m THEN None ELSE W[(i + 1) - m]
    BY <2>0 DEF GapIn
  <2>3. U(i) \in Seq(Signed) /\ Len(U(i)) = kept(i) /\ \A q \in 1..kept(i) : U(i)[q] = W[q]
    BY <1>2
  <2>4. CASE i + 1 > b /\ i + 1 <= b + m
    <3>1. s[i + 1] = None
      BY <2>0, <2>2, <2>4, <1>0
    <3>2. kept(i + 1) = kept(i)
      BY <2>0, <2>4, <1>0
    <3>. HIDE DEF U, kept
    <3>. QED  BY <2>0, <2>1, <2>3, <3>1, <3>2 DEF OneMorePresent
  <2>5. CASE i + 1 <= b \/ i + 1 > b + m
    <3>1. kept(i + 1) = kept(i) + 1 /\ kept(i) \in Nat /\ kept(i) + 1 \in 1..n
      BY <2>0, <2>5, <1>0
    <3>2. s[i + 1] = W[kept(i) + 1]
      BY <2>0, <2>2, <2>5, <1>0
    <3>3. W[kept(i) + 1] \in Signed /\ s[i + 1] # None
      BY <3>1, <3>2, NoneAssumption
    <3>. HIDE DEF U, kept
    <3>4. U(i + 1) = Append(U(i), W[kept(i) + 1])
      BY <2>1, <3>2, <3>3 DEF OneMorePresent
    <3>5. /\ U(i + 1) \in Seq(Signed) /\ Len(U(i + 1)) = kept(i) + 1
          /\ \A q \in 1..kept(i) : U(i + 1)[q] = W[q]
          /\ U(i + 1)[kept(i) + 1] = W[kept(i) + 1]
      <4>1. PICK t \in Seq(Signed) : t = U(i)
        BY <2>3
      <4>2. PICK e \in Signed : e = W[kept(i) + 1]
        BY <3>3
      <4>3. U(i + 1) = Append(t, e) /\ Len(t) = kept(i) /\ \A q \in 1..kept(i) : t[q] = W[q]
        BY <2>3, <3>4, <4>1, <4>2
      <4>4. /\ Append(t, e) \in Seq(Signed) /\ Len(Append(t, e)) = Len(t) + 1
            /\ \A q \in 1..Len(t) : Append(t, e)[q] = t[q]
            /\ Append(t, e)[Len(t) + 1] = e
        BY AppendProperties
      <4>. QED  BY <4>2, <4>3, <4>4
    <3>6. ASSUME NEW q \in 1..(kept(i) + 1) PROVE U(i + 1)[q] = W[q]
      <4>1. q = kept(i) + 1 \/ q \in 1..kept(i)
        BY <3>1
      <4>. QED  BY <3>5, <4>1
    <3>. QED  BY <2>0, <3>1, <3>5, <3>6
  <2>. QED  BY <2>0, <2>4, <2>5, <1>0
<1>. HIDE DEF G
<1>3. \A i \in 0..(n + m) : i \in G
  <2>1. 0 \in Int /\ n + m \in Int
    BY <1>0
  <2>2. PICK N \in Int : N = n + m
    BY <2>1
  <2>3. \A i \in 0..(N - 1) : i \in G => i + 1 \in G
    BY <2>2, <1>2
  <2>4. \A i \in 0..N : i \in G
    BY <2>1, <2>3, <1>1, Throughout
  <2>. QED  BY <2>2, <2>4
<1>4. Right(n + m)
  <2>1. n + m \in 0..(n + m)
    BY <1>0
  <2>. HIDE DEF Right
  <2>. QED  BY <1>3, <2>1 DEF G
<1>5. kept(n + m) = n
  BY <1>0
<1>6. Present(s) = U(n + m)
  <2>1. DOMAIN s = 1..(n + m)
    OBVIOUS
  <2>. QED  BY <1>0, <2>1, PresentIsFold
<1>. HIDE DEF U, kept
<1>7. DOMAIN U(n + m) = 1..n /\ \A q \in 1..n : U(n + m)[q] = W[q]
  BY <1>4, <1>5
<1>8. U(n + m) = W
  <2>1. U(n + m) \in [1..n -> Signed]
    BY <1>4, <1>7
  <2>. QED  BY <1>7, <2>1
<1>. QED  BY <1>6, <1>8

-----------------------------------------------------------------------------
(* What splicing leaves                                                    *)

\* A group as it is asked for: positions with what signs them.
IsGroup(P, n) == n \in Nat /\ DOMAIN P = 1..n /\ \A k \in 1..n : P[k].sign \in Signs

\* t is s with e in place i, and what stood there and behind it one further on.
Inserts(S, t, s, i, e) ==
  /\ t \in Seq(S) /\ Len(t) = Len(s) + 1
  /\ \A j \in 1..(Len(s) + 1) :
       t[j] = IF j < i THEN s[j] ELSE IF j = i THEN e ELSE s[j - 1]

\* Splicing in an element.
LEMMA Inserted ==
  ASSUME NEW S, NEW s \in Seq(S), NEW e \in S, NEW i \in 1..(Len(s) + 1)
  PROVE  Inserts(S, InsertAt(s, i, e), s, i, e)
<1>. DEFINE f == SubSeq(s, 1, i - 1)
            g == SubSeq(s, i, Len(s))
            h == Append(f, e)
            r == h \o g
<1>0. i \in Int /\ Len(s) \in Nat /\ 1 <= i /\ i <= Len(s) + 1
  OBVIOUS
<1>1. f \in Seq(S) /\ Len(f) = i - 1 /\ \A j \in 1..(i - 1) : f[j] = s[j]
  <2>1. 1 \in Int /\ i - 1 \in Int /\ \A j \in 1..(i - 1) : s[j] \in S
    BY <1>0
  <2>2. /\ f \in Seq(S)
        /\ Len(f) = IF 1 <= i - 1 THEN (i - 1) - 1 + 1 ELSE 0
        /\ \A j \in 1..((i - 1) - 1 + 1) : f[j] = s[1 + j - 1]
    BY <2>1, SubSeqProperties
  <2>. HIDE DEF f
  <2>3. (i - 1) - 1 + 1 = i - 1 /\ \A j \in Int : 1 + j - 1 = j
    BY <1>0
  <2>4. Len(f) = i - 1
    BY <1>0, <2>2
  <2>5. ASSUME NEW j \in 1..(i - 1) PROVE f[j] = s[j]
    BY <2>2, <2>3
  <2>. QED  BY <2>2, <2>4, <2>5
<1>2. /\ g \in Seq(S) /\ Len(g) = Len(s) - i + 1
      /\ \A j \in 1..(Len(s) - i + 1) : g[j] = s[i + j - 1]
  <2>1. Len(s) \in Int /\ i \in Int /\ \A j \in i..Len(s) : s[j] \in S
    BY <1>0
  <2>2. /\ g \in Seq(S)
        /\ Len(g) = IF i <= Len(s) THEN Len(s) - i + 1 ELSE 0
        /\ \A j \in 1..(Len(s) - i + 1) : g[j] = s[i + j - 1]
    BY <2>1, SubSeqProperties
  <2>. HIDE DEF g
  <2>3. Len(g) = Len(s) - i + 1
    BY <1>0, <2>2
  <2>. QED  BY <2>2, <2>3
<1>3. InsertAt(s, i, e) = r
  <2>1. Append(f, e) = f \o <<e>>
    <3>. HIDE DEF f
    <3>. QED  BY <1>1, AppendIsConcat
  <2>. QED  BY <2>1 DEF InsertAt
<1>. HIDE DEF f, g
<1>4. h \in Seq(S) /\ Len(h) = i /\ h[i] = e /\ \A j \in 1..(i - 1) : h[j] = s[j]
  <2>1. /\ h \in Seq(S) /\ Len(h) = Len(f) + 1 /\ h[Len(f) + 1] = e
        /\ \A j \in 1..Len(f) : h[j] = f[j]
    BY <1>1, AppendProperties
  <2>. HIDE DEF h
  <2>2. Len(f) + 1 = i
    BY <1>0, <1>1
  <2>. QED  BY <1>1, <2>1, <2>2
<1>. HIDE DEF h
<1>5. /\ r \in Seq(S) /\ Len(r) = Len(s) + 1
      /\ \A j \in 1..(Len(s) + 1) : r[j] = IF j <= i THEN h[j] ELSE g[j - i]
  <2>1. /\ r \in Seq(S) /\ Len(r) = Len(h) + Len(g)
        /\ \A j \in 1..(Len(h) + Len(g)) : r[j] = IF j <= Len(h) THEN h[j] ELSE g[j - Len(h)]
    BY <1>2, <1>4, ConcatProperties
  <2>. HIDE DEF r
  <2>2. Len(h) = i /\ Len(h) + Len(g) = Len(s) + 1
    BY <1>0, <1>2, <1>4
  <2>. QED  BY <2>1, <2>2
<1>. HIDE DEF r
<1>6. ASSUME NEW j \in 1..(Len(s) + 1)
      PROVE  r[j] = IF j < i THEN s[j] ELSE IF j = i THEN e ELSE s[j - 1]
  <2>0. j \in Int /\ 1 <= j /\ j <= Len(s) + 1
    BY <1>0
  <2>1. CASE j < i
    <3>1. r[j] = h[j] /\ j \in 1..(i - 1)
      BY <2>1, <2>0, <1>0, <1>5
    <3>. QED  BY <2>1, <3>1, <1>4
  <2>2. CASE j = i
    <3>1. r[j] = h[j]
      BY <2>2, <2>0, <1>0, <1>5
    <3>. QED  BY <2>2, <3>1, <1>0, <1>4
  <2>3. CASE j > i
    <3>1. j - i \in 1..(Len(s) - i + 1) /\ i + (j - i) - 1 = j - 1
      BY <2>3, <2>0, <1>0
    <3>2. r[j] = g[j - i]
      BY <2>3, <2>0, <1>0, <1>5
    <3>3. g[j - i] = s[j - 1]
      BY <3>1, <1>2
    <3>4. ~(j < i) /\ j # i
      BY <2>3, <2>0, <1>0
    <3>. QED  BY <3>2, <3>3, <3>4
  <2>. QED  BY <2>0, <1>0, <2>1, <2>2, <2>3
<1>7. Inserts(S, r, s, i, e)
  BY <1>5, <1>6 DEF Inserts
<1>. QED  BY <1>3, <1>7

\* What signs a transaction of a group.
LEMMA BlobSigned ==
  ASSUME NEW n, NEW P, IsGroup(P, n), NEW k \in 1..n
  PROVE  Blob(P, k) \in Signed /\ Blob(P, k) # None
BY NoneAssumption DEF IsGroup, Blob, Signed

\* One step of splicing: it changes nothing, or inserts where it can.
LEMMA SpliceStep ==
  ASSUME NEW n, NEW P, IsGroup(P, n), NEW S, NEW k \in 1..n, NEW s \in Seq(S)
  PROVE  /\ ~Lsig(P, k) => OneMoreSpliced(P, k, s) = s
         /\ Lsig(P, k) /\ Blob(P, k) \in S =>
              \E i \in 1..(Len(s) + 1) :
                /\ k <= Len(s) + 1 => i = k
                /\ OneMoreSpliced(P, k, s) = InsertAt(s, i, Blob(P, k))
<1>1. Min({k, Len(s) + 1}) = IF k <= Len(s) + 1 THEN k ELSE Len(s) + 1
  <2>. DEFINE m == IF k <= Len(s) + 1 THEN k ELSE Len(s) + 1
  <2>1. n \in Nat /\ k \in Int /\ Len(s) + 1 \in Int
    BY DEF IsGroup
  <2>2. m \in {k, Len(s) + 1} /\ \A y \in {k, Len(s) + 1} : m <= y /\ y \in Int
    BY <2>1
  <2>3. ASSUME NEW x \in {k, Len(s) + 1}, \A y \in {k, Len(s) + 1} : x <= y PROVE x = m
    BY <2>1, <2>3
  <2>. HIDE DEF m
  <2>. QED  BY <2>2, <2>3 DEF Min
<1>2. (IF k <= Len(s) + 1 THEN k ELSE Len(s) + 1) \in 1..(Len(s) + 1)
  BY DEF IsGroup
<1>. QED  BY <1>1, <1>2 DEF OneMoreSpliced

\* As long as no logic signature comes, nothing changes.
LEMMA NothingSpliced ==
  ASSUME NEW n, NEW P, IsGroup(P, n), NEW A, NEW a \in 0..n, NEW b \in a..n,
         \A k \in (a + 1)..b : ~Lsig(P, k)
  PROVE  Spliced(P, A, b) = Spliced(P, A, a)
<1>. DEFINE G == {k \in a..b : Spliced(P, A, k) = Spliced(P, A, a)}
<1>0. n \in Nat /\ a \in Nat /\ b \in Nat /\ a <= b /\ b <= n
  BY DEF IsGroup
<1>1. a \in G
  BY <1>0
<1>2. ASSUME NEW k \in a..(b - 1), k \in G PROVE k + 1 \in G
  <2>1. k \in Nat /\ k + 1 \in DOMAIN P /\ k + 1 \in (a + 1)..b /\ k + 1 \in a..b
    BY <1>0 DEF IsGroup
  <2>2. Spliced(P, A, k + 1) = Spliced(P, A, k)
    BY <2>1, FoldSteps DEF OneMoreSpliced
  <2>. QED  BY <2>1, <2>2, <1>2
<1>. HIDE DEF G
<1>3. \A k \in a..b : k \in G
  BY <1>0, <1>1, <1>2, Throughout
<1>. QED  BY <1>0, <1>3 DEF G

\* The answer of a wallet that signs everything but the logic signatures.
Answered(P, n, A) ==
  /\ A \in Seq(Maybe) /\ Len(A) = n
  /\ \A k \in 1..n : A[k] = IF Lsig(P, k) THEN None ELSE Blob(P, k)

\* After the logic signatures from o + 1 to k were spliced in, the group is whole
\* up to there, and the rest of the answer follows with its gaps.
BlockAt(P, A, n, o, k) ==
  LET s == Spliced(P, A, k)
  IN  /\ s \in Seq(Maybe) /\ Len(s) = n + (k - o)
      /\ \A j \in 1..(n + (k - o)) : s[j] = IF j <= k THEN Blob(P, j) ELSE A[j - (k - o)]

\* See BlockAt.
LEMMA BlockSpliced ==
  ASSUME NEW n, NEW P, IsGroup(P, n), NEW A, Answered(P, n, A),
         NEW o \in 0..n, NEW b \in o..n,
         \A k \in 1..o : ~Lsig(P, k), \A k \in (o + 1)..b : Lsig(P, k)
  PROVE  BlockAt(P, A, n, o, b)
<1>. DEFINE G == {k \in o..b : BlockAt(P, A, n, o, k)}
<1>0. n \in Nat /\ o \in Nat /\ b \in Nat /\ o <= b /\ b <= n
  BY DEF IsGroup
<1>1. o \in G
  <2>1. Spliced(P, A, o) = A
    <3>1. /\ 0 \in 0..n /\ o \in 0..n /\ \A k \in (0 + 1)..o : ~Lsig(P, k)
      BY <1>0
    <3>. QED  BY <3>1, NothingSpliced, FoldSteps
  <2>2. n + (o - o) = n /\ o - o = 0 /\ \A j \in Int : j - 0 = j
    BY <1>0
  <2>3. ASSUME NEW j \in 1..n PROVE A[j] = IF j <= o THEN Blob(P, j) ELSE A[j - 0]
    <3>1. CASE j <= o
      <4>1. j \in 1..o
        BY <3>1, <1>0
      <4>. QED  BY <3>1, <4>1 DEF Answered
    <3>2. CASE ~(j <= o)
      BY <3>2, <2>2
    <3>. QED  BY <3>1, <3>2
  <2>4. BlockAt(P, A, n, o, o)
    BY <2>1, <2>2, <2>3 DEF BlockAt, Answered
  <2>. QED  BY <2>4, <1>0
<1>2. ASSUME NEW k \in o..(b - 1), k \in G PROVE k + 1 \in G
  <2>. DEFINE s == Spliced(P, A, k)
              t == Spliced(P, A, k + 1)
              d == k - o
  <2>0. /\ k \in Nat /\ d \in Nat /\ k + 1 \in 1..n /\ k + 1 \in (o + 1)..b /\ k + 1 \in o..b
        /\ (k + 1) - o = d + 1 /\ n + (k - o) = n + d /\ k <= n
    BY <1>0
  <2>1. s \in Seq(Maybe) /\ Len(s) = n + d
        /\ \A j \in 1..(n + d) : s[j] = IF j <= k THEN Blob(P, j) ELSE A[j - d]
    BY <1>2 DEF BlockAt
  <2>2. t = OneMoreSpliced(P, k + 1, s)
    BY <2>0, FoldSteps DEF IsGroup
  <2>. HIDE DEF s, t
  <2>3. Lsig(P, k + 1) /\ Blob(P, k + 1) \in Maybe
    BY <2>0, BlobSigned DEF Maybe
  <2>4. PICK i \in 1..(Len(s) + 1) :
          /\ k + 1 <= Len(s) + 1 => i = k + 1
          /\ OneMoreSpliced(P, k + 1, s) = InsertAt(s, i, Blob(P, k + 1))
    BY <2>0, <2>1, <2>3, SpliceStep
  <2>. HIDE DEF d
  <2>5. i = k + 1
    <3>1. k + 1 <= (n + d) + 1
      BY <1>0, <2>0
    <3>2. k + 1 <= Len(s) + 1
      BY <2>1, <3>1
    <3>. QED  BY <2>4, <3>2
  <2>6. /\ t \in Seq(Maybe) /\ Len(t) = Len(s) + 1
        /\ \A j \in 1..(Len(s) + 1) :
             t[j] = IF j < i THEN s[j] ELSE IF j = i THEN Blob(P, k + 1) ELSE s[j - 1]
    <3>1. PICK e \in Maybe : e = Blob(P, k + 1)
      BY <2>3
    <3>2. t = InsertAt(s, i, e)
      BY <2>2, <2>4, <3>1
    <3>3. Inserts(Maybe, t, s, i, e)
      BY <2>1, <3>2, Inserted
    <3>. QED  BY <3>1, <3>3 DEF Inserts
  <2>7. Len(t) = n + (d + 1)
    BY <1>0, <2>0, <2>1, <2>6
  <2>8. ASSUME NEW j \in 1..(n + (d + 1))
        PROVE  t[j] = IF j <= k + 1 THEN Blob(P, j) ELSE A[j - (d + 1)]
    <3>0. j \in 1..(Len(s) + 1) /\ j \in Int /\ 1 <= j /\ j <= n + d + 1
      BY <1>0, <2>0, <2>1
    <3>1. CASE j <= k
      <4>1. t[j] = s[j]
        BY <3>0, <3>1, <2>0, <2>5, <2>6
      <4>2. j \in 1..(n + d) /\ j <= k + 1
        BY <3>0, <3>1, <1>0, <2>0
      <4>. QED  BY <4>1, <4>2, <2>1, <3>1
    <3>2. CASE j = k + 1
      <4>1. t[j] = Blob(P, k + 1) /\ j <= k + 1
        BY <3>0, <3>2, <2>0, <2>5, <2>6
      <4>. QED  BY <3>2, <4>1
    <3>3. CASE j > k + 1
      <4>1. t[j] = s[j - 1]
        BY <3>0, <3>3, <2>0, <2>5, <2>6
      <4>2. j - 1 \in 1..(n + d) /\ ~(j - 1 <= k) /\ (j - 1) - d = j - (d + 1) /\ ~(j <= k + 1)
        BY <3>0, <3>3, <1>0, <2>0
      <4>3. s[j - 1] = A[(j - 1) - d]
        BY <4>2, <2>1
      <4>. QED  BY <4>1, <4>2, <4>3
    <3>. QED  BY <3>0, <2>0, <3>1, <3>2, <3>3
  <2>9. BlockAt(P, A, n, o, k + 1)
    <3>1. (k + 1) - o = d + 1
      BY <2>0
    <3>2. /\ Len(t) = n + ((k + 1) - o)
          /\ \A j \in 1..(n + ((k + 1) - o)) :
               t[j] = IF j <= k + 1 THEN Blob(P, j) ELSE A[j - ((k + 1) - o)]
      BY <3>1, <2>7, <2>8
    <3>. QED  BY <2>6, <3>2 DEF BlockAt, t
  <2>. QED  BY <2>0, <2>9
<1>. HIDE DEF G
<1>3. \A k \in o..b : k \in G
  BY <1>0, <1>1, <1>2, Throughout
<1>. QED  BY <1>0, <1>3 DEF G

-----------------------------------------------------------------------------
(* What is sent of a group                                                 *)

\* Some positions have a greatest one.
LEMMA GreatestOf ==
  ASSUME NEW n \in Nat, NEW D \in SUBSET (0..n), D # {}
  PROVE  \E i \in D : \A j \in D : i >= j
<1>1. IsFiniteSet(D)
  <2>1. IsFiniteSet(0..n)
    BY FS_Interval
  <2>. QED  BY <2>1, FS_Subset
<1>2. \A j \in D : j \in Nat
  OBVIOUS
<1>. QED  BY <1>1, <1>2, Presenting!HasLast DEF IsFiniteSet, Presenting!IsFiniteSet

EnclosedIn(P) ==
  \E i, j, k \in DOMAIN P : i < j /\ j < k /\ Lsig(P, i) /\ ~Lsig(P, j) /\ Lsig(P, k)

\* The first block of logic signatures of a group.
LEMMA FirstBlock ==
  ASSUME NEW n, NEW P, IsGroup(P, n)
  PROVE  \E o \in 0..n : \E b \in o..n :
           /\ \A k \in 1..o : ~Lsig(P, k)
           /\ \A k \in (o + 1)..b : Lsig(P, k)
           /\ b < n => b > o /\ ~Lsig(P, b + 1)
<1>0. n \in Nat
  BY DEF IsGroup
<1>. DEFINE D == {o \in 0..n : \A k \in 1..o : ~Lsig(P, k)}
<1>1. PICK o \in D : \A j \in D : o >= j
  <2>1. 0 \in D /\ D \in SUBSET (0..n)
    BY <1>0
  <2>. HIDE DEF D
  <2>. QED  BY <1>0, <2>1, GreatestOf
<1>2. o \in 0..n /\ \A k \in 1..o : ~Lsig(P, k)
  OBVIOUS
<1>3. ASSUME o < n PROVE Lsig(P, o + 1)
  <2>. SUFFICES ASSUME ~Lsig(P, o + 1) PROVE FALSE
    OBVIOUS
  <2>1. o + 1 \in 0..n /\ ~(o >= o + 1)
    BY <1>0, <1>2, <1>3
  <2>2. ASSUME NEW k \in 1..(o + 1) PROVE ~Lsig(P, k)
    <3>1. k \in 1..o \/ k = o + 1
      BY <1>0, <1>2
    <3>. QED  BY <3>1, <1>2
  <2>3. o + 1 \in D
    BY <2>1, <2>2
  <2>. QED  BY <1>1, <2>1, <2>3
<1>. HIDE DEF D
<1>. DEFINE E == {b \in o..n : \A k \in (o + 1)..b : Lsig(P, k)}
<1>4. PICK b \in E : \A j \in E : b >= j
  <2>1. o \in E /\ E \in SUBSET (0..n)
    BY <1>0, <1>2
  <2>. HIDE DEF E
  <2>. QED  BY <1>0, <2>1, GreatestOf
<1>5. b \in o..n /\ \A k \in (o + 1)..b : Lsig(P, k)
  OBVIOUS
<1>6. ASSUME b < n PROVE ~Lsig(P, b + 1)
  <2>. SUFFICES ASSUME Lsig(P, b + 1) PROVE FALSE
    OBVIOUS
  <2>1. b + 1 \in o..n /\ ~(b >= b + 1)
    BY <1>0, <1>2, <1>5, <1>6
  <2>2. ASSUME NEW k \in (o + 1)..(b + 1) PROVE Lsig(P, k)
    <3>1. k \in (o + 1)..b \/ k = b + 1
      BY <1>0, <1>2, <1>5
    <3>. QED  BY <3>1, <1>5
  <2>3. b + 1 \in E
    BY <2>1, <2>2
  <2>. QED  BY <1>4, <2>1, <2>3
<1>. HIDE DEF E
<1>7. ASSUME b < n PROVE b > o
  <2>1. b # o
    BY <1>0, <1>2, <1>3, <1>5, <1>6, <1>7
  <2>. QED  BY <1>0, <1>2, <1>5, <2>1
<1>. QED  BY <1>2, <1>5, <1>6, <1>7

\* What is sent when the wallet signs everything but the logic signatures is the
\* whole group, if no logic signatures enclose another transaction.
LEMMA WholeUnlessEnclosed ==
  ASSUME NEW n, NEW P, IsGroup(P, n), NEW A, Answered(P, n, A), ~EnclosedIn(P)
  PROVE  Present(Spliced(P, A, n)) = GroupOf(P)
<1>0. n \in Nat /\ DOMAIN P = 1..n
  BY DEF IsGroup
<1>1. PICK o \in 0..n, b \in 0..n :
        /\ o <= b
        /\ \A k \in 1..o : ~Lsig(P, k)
        /\ \A k \in (o + 1)..b : Lsig(P, k)
        /\ b < n => b > o /\ ~Lsig(P, b + 1)
  <2>1. PICK o \in 0..n : \E b \in o..n :
          /\ \A k \in 1..o : ~Lsig(P, k)
          /\ \A k \in (o + 1)..b : Lsig(P, k)
          /\ b < n => b > o /\ ~Lsig(P, b + 1)
    BY FirstBlock
  <2>2. PICK b \in o..n :
          /\ \A k \in 1..o : ~Lsig(P, k)
          /\ \A k \in (o + 1)..b : Lsig(P, k)
          /\ b < n => b > o /\ ~Lsig(P, b + 1)
    BY <2>1
  <2>3. b \in 0..n /\ o <= b
    BY <1>0
  <2>. QED  BY <2>2, <2>3
<1>. DEFINE m == b - o
            W == GroupOf(P)
            s == Spliced(P, A, b)
<1>2. m \in Nat /\ o \in Nat /\ b \in Nat /\ b <= n /\ b = o + m /\ b \in o..n
  BY <1>0, <1>1
<1>3. /\ s \in Seq(Maybe) /\ Len(s) = n + m
      /\ \A j \in 1..(n + m) : s[j] = IF j <= b THEN Blob(P, j) ELSE A[j - m]
  <2>1. BlockAt(P, A, n, o, b)
    BY <1>1, <1>2, BlockSpliced
  <2>. QED  BY <2>1 DEF BlockAt
<1>4. W \in [1..n -> Signed] /\ \A j \in 1..n : W[j] = Blob(P, j)
  BY <1>0, BlobSigned DEF GroupOf
<1>. HIDE DEF W, s, m
<1>5. ASSUME NEW k \in (b + 1)..n PROVE ~Lsig(P, k)
  <2>. SUFFICES ASSUME Lsig(P, k) PROVE FALSE
    OBVIOUS
  <2>1. b < n /\ k \in 1..n /\ b + 1 \in 1..n
    BY <1>0, <1>2
  <2>2. k # b + 1 /\ ~Lsig(P, b + 1)
    BY <1>1, <2>1
  <2>3. o + 1 \in 1..n /\ o + 1 \in (o + 1)..b /\ o + 1 < b + 1 /\ b + 1 < k
    BY <2>1, <2>2, <1>0, <1>1, <1>2
  <2>4. Lsig(P, o + 1)
    BY <2>3, <1>1
  <2>. QED  BY <1>0, <2>1, <2>2, <2>3, <2>4 DEF EnclosedIn
<1>6. Spliced(P, A, n) = s
  <2>1. b \in 0..n /\ n \in b..n
    BY <1>0, <1>2
  <2>. QED  BY <1>5, <2>1, NothingSpliced DEF s
<1>7. ASSUME NEW j \in 1..(n + m)
      PROVE  s[j] = IF j <= b THEN W[j] ELSE IF j <= b + m THEN None ELSE W[j - m]
  <2>0. j \in Int /\ 1 <= j /\ j <= n + m
    BY <1>0, <1>2
  <2>1. CASE j <= b
    <3>1. j \in 1..n
      BY <2>0, <2>1, <1>0, <1>2
    <3>. QED  BY <2>1, <3>1, <1>3, <1>4
  <2>2. CASE ~(j <= b) /\ j <= b + m
    <3>1. j - m \in (o + 1)..b /\ j - m \in 1..n
      BY <2>0, <2>2, <1>0, <1>2
    <3>2. A[j - m] = None
      BY <3>1, <1>1 DEF Answered
    <3>. QED  BY <2>2, <3>2, <1>3
  <2>3. CASE ~(j <= b) /\ ~(j <= b + m)
    <3>1. j - m \in (b + 1)..n /\ j - m \in 1..n
      BY <2>0, <2>3, <1>0, <1>2
    <3>2. A[j - m] = W[j - m]
      BY <3>1, <1>4, <1>5 DEF Answered
    <3>. QED  BY <2>3, <3>2, <1>3
  <2>. QED  BY <2>1, <2>2, <2>3
<1>8. Present(s) = W
  <2>1. GapIn(s, W, n, m, b)
    BY <1>7 DEF GapIn
  <2>2. n \in Nat /\ m \in Nat /\ b \in 0..n /\ s \in Seq(Maybe) /\ Len(s) = n + m
    BY <1>0, <1>2, <1>3
  <2>. QED  BY <1>4, <2>1, <2>2, PresentIsWhole
<1>. QED  BY <1>6, <1>8 DEF W

\* What is left of the answer, and where, after the logic signatures up to k were
\* spliced in: F has nothing for them, and u of its elements come before k.
FilledAt(P, F, u, k) ==
  LET s == Spliced(P, F, k)
  IN  /\ s \in Seq(Signed) /\ u \in 0..Len(F) /\ Len(s) = k + (Len(F) - u)
      /\ \A j \in 1..(k + (Len(F) - u)) : s[j] = IF j <= k THEN Blob(P, j) ELSE F[j - k + u]

\* If the wallet returns what it signs without gaps, splicing fills the group.
LEMMA SplicingFills ==
  ASSUME NEW n, NEW P, IsGroup(P, n), NEW A, Answered(P, n, A)
  PROVE  Spliced(P, Present(A), n) = GroupOf(P)
<1>. DEFINE U(k) == PresentUpTo(A, k)
            F == Present(A)
            G == {k \in 0..n : FilledAt(P, F, Len(U(k)), k)}
<1>0. n \in Nat /\ n \in 0..n
  BY DEF IsGroup
<1>1. A \in Seq(Maybe) /\ Len(A) = n /\ DOMAIN A = 1..n
  BY DEF Answered
<1>2. F = U(n)
  BY <1>0, <1>1, PresentIsFold
<1>3. ASSUME NEW k \in 0..n
      PROVE  /\ U(k) \in Seq(Signed) /\ Len(U(k)) \in 0..Len(F)
             /\ \A q \in 1..Len(U(k)) : F[q] = U(k)[q]
  <2>1. /\ U(n) \in Seq(Signed)
        /\ U(k) \in Seq(Signed) /\ Len(U(k)) <= Len(U(n))
        /\ \A q \in 1..Len(U(k)) : U(n)[q] = U(k)[q]
    BY <1>0, <1>1, <1>3, PresentGrows
  <2>. HIDE DEF U, F
  <2>. QED  BY <1>2, <2>1
<1>4. F \in Seq(Signed)
  BY <1>0, <1>2, <1>3
<1>5. ASSUME NEW k \in 0..(n - 1)
      PROVE  /\ k \in Nat /\ k + 1 \in 0..n /\ k + 1 \in 1..n /\ k \in 0..n
             /\ U(k + 1) = OneMorePresent(A, k + 1, U(k))
             /\ Spliced(P, F, k + 1) = OneMoreSpliced(P, k + 1, Spliced(P, F, k))
  <2>1. k \in Nat /\ k + 1 \in 0..n /\ k + 1 \in 1..n /\ k \in 0..n
    BY <1>0
  <2>. HIDE DEF F
  <2>. QED  BY <2>1, FoldSteps DEF IsGroup
<1>. HIDE DEF U, F
<1>6. 0 \in G
  <2>1. U(0) = <<>> /\ Spliced(P, F, 0) = F
    BY FoldSteps DEF U
  <2>2. Len(U(0)) = 0 /\ Len(F) \in Nat
    BY <2>1, <1>4
  <2>3. \A j \in Int : j - 0 + 0 = j
    OBVIOUS
  <2>4. 0 + (Len(F) - 0) = Len(F) /\ 0 \in 0..Len(F) /\ \A j \in 1..Len(F) : ~(j <= 0) /\ j \in Int
    BY <2>2
  <2>5. FilledAt(P, F, 0, 0)
    BY <1>4, <2>1, <2>3, <2>4 DEF FilledAt
  <2>. QED  BY <1>0, <2>2, <2>5
<1>7. ASSUME NEW k \in 0..(n - 1), k \in G PROVE k + 1 \in G
  <2>. DEFINE s == Spliced(P, F, k)
              t == Spliced(P, F, k + 1)
              u == Len(U(k))
              w == Len(U(k + 1))
              f == Len(F)
  <2>1. /\ s \in Seq(Signed) /\ u \in 0..f /\ Len(s) = k + (f - u)
        /\ \A j \in 1..(k + (f - u)) : s[j] = IF j <= k THEN Blob(P, j) ELSE F[j - k + u]
    BY <1>7 DEF FilledAt
  <2>2. t = OneMoreSpliced(P, k + 1, s)
    BY <1>5
  <2>3. /\ k \in Nat /\ k + 1 \in 1..n /\ k + 1 \in 0..n /\ f \in Nat
        /\ w \in 0..f /\ U(k) \in Seq(Signed) /\ U(k + 1) = OneMorePresent(A, k + 1, U(k))
    BY <1>3, <1>4, <1>5
  <2>4. Blob(P, k + 1) \in Signed /\ Blob(P, k + 1) # None
    BY <2>3, BlobSigned
  <2>. HIDE DEF s, t, f
  <2>5. CASE Lsig(P, k + 1)
    <3>1. A[k + 1] = None
      BY <2>3, <2>5 DEF Answered
    <3>2. w = u
      BY <2>3, <3>1 DEF OneMorePresent
    <3>. HIDE DEF u, w
    <3>3. PICK e \in Signed : e = Blob(P, k + 1)
      BY <2>4
    <3>4. PICK i \in 1..(Len(s) + 1) :
            /\ k + 1 <= Len(s) + 1 => i = k + 1
            /\ OneMoreSpliced(P, k + 1, s) = InsertAt(s, i, Blob(P, k + 1))
      <4>1. s \in Seq(Signed) /\ k + 1 \in 1..n
        BY <2>1, <2>3
      <4>. QED  BY <4>1, <2>4, <2>5, SpliceStep
    <3>5. i = k + 1 /\ t = InsertAt(s, i, e)
      BY <2>1, <2>2, <2>3, <3>3, <3>4
    <3>6. Inserts(Signed, InsertAt(s, i, e), s, i, e)
      BY <2>1, Inserted
    <3>7. /\ t \in Seq(Signed) /\ Len(t) = Len(s) + 1
          /\ \A j \in 1..(Len(s) + 1) :
               t[j] = IF j < i THEN s[j] ELSE IF j = i THEN e ELSE s[j - 1]
      BY <3>5, <3>6 DEF Inserts
    <3>8. Len(t) = (k + 1) + (f - w)
      BY <2>1, <2>3, <3>2, <3>7
    <3>9. ASSUME NEW j \in 1..((k + 1) + (f - w))
          PROVE  t[j] = IF j <= k + 1 THEN Blob(P, j) ELSE F[j - (k + 1) + w]
      <4>0. j \in Int /\ 1 <= j /\ j <= k + 1 + f - u /\ j \in 1..(Len(s) + 1) /\ u \in Int
        BY <2>1, <2>3, <3>2
      <4>1. CASE j <= k
        <5>1. j < i /\ j \in 1..(k + (f - u)) /\ j <= k + 1
          BY <4>0, <4>1, <2>1, <2>3, <3>5
        <5>2. t[j] = s[j]
          BY <4>0, <5>1, <3>7
        <5>. QED  BY <4>1, <5>1, <5>2, <2>1
      <4>2. CASE j = k + 1
        <5>1. t[j] = e /\ j <= k + 1
          BY <4>0, <4>2, <2>3, <3>5, <3>7
        <5>. QED  BY <4>2, <5>1, <3>3
      <4>3. CASE j > k + 1
        <5>1. t[j] = s[j - 1] /\ ~(j <= k + 1)
          BY <4>0, <4>3, <2>3, <3>5, <3>7
        <5>2. j - 1 \in 1..(k + (f - u)) /\ ~(j - 1 <= k) /\ (j - 1) - k + u = j - (k + 1) + w
          BY <4>0, <4>3, <2>3, <3>2
        <5>3. s[j - 1] = F[(j - 1) - k + u]
          BY <5>2, <2>1
        <5>. QED  BY <5>1, <5>2, <5>3
      <4>. QED  BY <4>0, <2>3, <4>1, <4>2, <4>3
    <3>10. FilledAt(P, F, w, k + 1)
      BY <2>3, <3>7, <3>8, <3>9 DEF FilledAt, t, f
    <3>. QED  BY <2>3, <3>10 DEF w
  <2>6. CASE ~Lsig(P, k + 1)
    <3>1. A[k + 1] = Blob(P, k + 1)
      BY <2>3, <2>6 DEF Answered
    <3>2. PICK x \in Seq(Signed) : x = U(k)
      BY <2>3
    <3>3. PICK e \in Signed : e = Blob(P, k + 1)
      BY <2>4
    <3>4. U(k + 1) = Append(x, e)
      BY <2>3, <2>4, <3>1, <3>2, <3>3 DEF OneMorePresent
    <3>5. Len(Append(x, e)) = Len(x) + 1 /\ Append(x, e)[Len(x) + 1] = e
      BY AppendProperties
    <3>6. w = u + 1 /\ U(k + 1)[u + 1] = e
      BY <3>2, <3>4, <3>5
    <3>7. F[u + 1] = e
      <4>1. u + 1 \in 1..w
        BY <2>1, <3>6
      <4>. QED  BY <4>1, <2>3, <3>6, <1>3
    <3>. HIDE DEF u, w
    <3>8. t = s
      BY <2>1, <2>2, <2>3, <2>6, SpliceStep
    <3>9. (k + 1) + (f - w) = k + (f - u) /\ u \in Int
      BY <2>1, <2>3, <3>6
    <3>10. ASSUME NEW j \in 1..(k + (f - u))
           PROVE  t[j] = IF j <= k + 1 THEN Blob(P, j) ELSE F[j - (k + 1) + w]
      <4>0. j \in Int
        BY <3>9, <2>3
      <4>1. CASE j <= k
        <5>1. j <= k + 1
          BY <4>0, <4>1, <2>3
        <5>. QED  BY <4>1, <5>1, <2>1, <3>8
      <4>2. CASE j = k + 1
        <5>1. ~(j <= k) /\ j - k + u = u + 1 /\ j <= k + 1
          BY <4>2, <2>3, <3>9
        <5>2. s[j] = F[j - k + u]
          BY <5>1, <2>1
        <5>. QED  BY <4>2, <5>1, <5>2, <3>3, <3>7, <3>8
      <4>3. CASE j > k + 1
        <5>1. ~(j <= k) /\ ~(j <= k + 1) /\ j - k + u = j - (k + 1) + w
          BY <4>0, <4>3, <2>3, <3>6, <3>9
        <5>2. s[j] = F[j - k + u]
          BY <5>1, <2>1
        <5>. QED  BY <5>1, <5>2, <3>8
      <4>. QED  BY <4>0, <2>3, <4>1, <4>2, <4>3
    <3>11. FilledAt(P, F, w, k + 1)
      BY <2>1, <2>3, <3>8, <3>9, <3>10 DEF FilledAt, t, f
    <3>. QED  BY <2>3, <3>11 DEF w
  <2>. QED  BY <2>5, <2>6
<1>. HIDE DEF G
<1>8. \A k \in 0..n : k \in G
  <2>1. 0 \in Int /\ n \in Int
    BY <1>0
  <2>. QED  BY <2>1, <1>6, <1>7, Throughout
<1>9. FilledAt(P, F, Len(U(n)), n)
  BY <1>0, <1>8 DEF G
<1>. DEFINE z == Spliced(P, F, n)
<1>10. z \in Seq(Signed) /\ Len(z) = n /\ \A j \in 1..n : z[j] = Blob(P, j)
  <2>1. Len(F) \in Nat /\ Len(U(n)) = Len(F) /\ n + (Len(F) - Len(F)) = n
    BY <1>0, <1>2, <1>4
  <2>2. /\ z \in Seq(Signed) /\ Len(z) = n + (Len(F) - Len(F))
        /\ \A j \in 1..(n + (Len(F) - Len(F))) :
             z[j] = IF j <= n THEN Blob(P, j) ELSE F[j - n + Len(F)]
    BY <1>9, <2>1 DEF FilledAt
  <2>3. \A j \in 1..n : j <= n
    BY <1>0
  <2>. HIDE DEF z
  <2>. QED  BY <2>1, <2>2, <2>3
<1>. HIDE DEF z
<1>11. z = [j \in 1..n |-> Blob(P, j)]
  BY <1>10
<1>. QED  BY <1>11 DEF z, F, GroupOf, IsGroup

\* If there are only logic signatures, splicing them into nothing makes the group.
LEMMA SplicingMakes ==
  ASSUME NEW n, NEW P, IsGroup(P, n), \A k \in 1..n : Lsig(P, k)
  PROVE  Spliced(P, <<>>, n) = GroupOf(P)
<1>. DEFINE A == [k \in 1..n |-> None]
            W == [k \in 1..0 |-> Blob(P, k)]
<1>0. n \in Nat
  BY DEF IsGroup
<1>1. A \in Seq(Maybe) /\ Len(A) = n
  BY <1>0 DEF Maybe
<1>2. Answered(P, n, A)
  BY <1>1 DEF Answered
<1>3. Present(A) = W
  <2>1. /\ 0 \in Nat /\ W \in [1..0 -> Signed] /\ 0 \in 0..0 /\ Len(A) = 0 + n
        /\ \A j \in 1..(0 + n) : j <= 0 + n /\ ~(j <= 0) /\ A[j] = None
    BY <1>0, <1>1
  <2>2. \A j \in 1..(0 + n) : A[j] = IF j <= 0 THEN W[j] ELSE IF j <= 0 + n THEN None ELSE W[j - n]
    BY <2>1
  <2>. HIDE DEF A, W
  <2>3. 0 \in Nat /\ n \in Nat /\ 0 \in 0..0 /\ W \in [1..0 -> Signed] /\ A \in Seq(Maybe)
    BY <1>0, <1>1, <2>1
  <2>4. Len(A) = 0 + n
    BY <2>1
  <2>5. GapIn(A, W, 0, n, 0)
    BY <2>2 DEF GapIn
  <2>. QED  BY <2>3, <2>4, <2>5, PresentIsWhole
<1>4. W = <<>>
  OBVIOUS
<1>. HIDE DEF A, W
<1>5. Spliced(P, Present(A), n) = GroupOf(P)
  BY <1>2, SplicingFills
<1>. QED  BY <1>3, <1>4, <1>5

-----------------------------------------------------------------------------
(* What the sessions send                                                  *)

\* What is sent is signed as it was asked, as far as SentAsAsked says so.
SignedPart ==
  /\ call.kind \in {"algob", "myalgo"} => call.signed \in {Whole, None}
  /\ call.kind = "web" /\ ~Enclosed /\ (Multisig => AsksWallet) => call.signed = Whole
  /\ /\ call.kind = "wc" /\ ~Enclosed /\ ~Multisig
     /\ \A k \in DOMAIN call.params : IsLsig(k) => ~InWallet(k)
     => call.signed \in {Whole, None}

\* The terms of SentAsAsked are those of the lemmas on groups.
LEMMA SameTerms ==
  /\ Whole = GroupOf(call.params)
  /\ Enclosed <=> EnclosedIn(call.params)
  /\ \A k : IsLsig(k) <=> Lsig(call.params, k)
  /\ \A k : BySession(k) = Blob(call.params, k)
BY DEF Whole, GroupOf, Enclosed, EnclosedIn, IsLsig, Lsig, BySession, Blob

\* A group that is signed has no gaps.
LEMMA PresentOfGroup ==
  ASSUME NEW n, NEW P, IsGroup(P, n)
  PROVE  Present(GroupOf(P)) = GroupOf(P) /\ GroupOf(P) \in Seq(Signed)
<1>. DEFINE W == GroupOf(P)
<1>0. n \in Nat /\ DOMAIN P = 1..n
  BY DEF IsGroup
<1>1. W \in [1..n -> Signed]
  BY <1>0, BlobSigned DEF GroupOf
<1>. HIDE DEF W
<1>2. W \in Seq(Signed) /\ W \in Seq(Maybe) /\ Len(W) = n
  BY <1>0, <1>1 DEF Maybe
<1>3. n + 0 = n /\ 0 \in Nat /\ n \in 0..n /\ \A j \in 1..(n + 0) : j <= n
  BY <1>0
<1>4. GapIn(W, W, n, 0, n)
  BY <1>3 DEF GapIn
<1>5. Len(W) = n + 0
  BY <1>2, <1>3
<1>6. Present(W) = W
  <2>1. n \in Nat /\ 0 \in Nat /\ n \in 0..n /\ W \in [1..n -> Signed] /\ W \in Seq(Maybe)
    BY <1>0, <1>1, <1>2, <1>3
  <2>. QED  BY <2>1, <1>4, <1>5, PresentIsWhole
<1>. QED  BY <1>2, <1>6 DEF W

\* What signs is distinguished.
LEMMA OneSign ==
  ASSUME NEW n, IsGroup(call.params, n), NEW k \in 1..n
  PROVE  /\ call.params[k].sign \in Signs
         /\ call.params[k].sign = "SecretKey" => ~IsLsig(k)
         /\ call.params[k].sign = "MultiSignature" => ~IsLsig(k)
         /\ ~IsLsig(k) => call.params[k].sign \in {"SecretKey", "MultiSignature"}
BY DEF IsGroup, IsLsig, Signs

Replies == [k \in DOMAIN call.params |-> Reply(k)]

\* The wallet signs everything but the logic signatures: that of AlgoSigner
\* always, that of MyAlgo if it answers, that of WalletConnect if there are no
\* multisignatures and it has no account of a logic signature.
LEMMA WalletAnswers ==
  ASSUME NEW n, IsGroup(call.params, n),
         \/ call.kind = "web"
         \/ call.kind = "myalgo" /\ \A k \in NotLsig : Reply(k) # None
         \/ call.kind = "wc" /\ ~Multisig /\ \A k \in DOMAIN call.params : IsLsig(k) => ~InWallet(k)
  PROVE  Answered(call.params, n, Replies)
<1>0. n \in Nat /\ DOMAIN call.params = 1..n
  BY DEF IsGroup
<1>1. ASSUME NEW k \in 1..n
      PROVE  Reply(k) = IF Lsig(call.params, k) THEN None ELSE Blob(call.params, k)
  <2>0. IsLsig(k) <=> Lsig(call.params, k)
    BY SameTerms
  <2>00. BySession(k) = Blob(call.params, k)
    BY SameTerms
  <2>1. CASE IsLsig(k)
    <3>1. call.params[k].sign = "LogicSignature"
      BY <2>1 DEF IsLsig
    <3>2. ~(call.kind = "wc" /\ InWallet(k))
      BY <2>1, <1>0
    <3>. QED  BY <2>0, <2>1, <3>1, <3>2 DEF Reply
  <2>2. CASE call.params[k].sign = "SecretKey"
    BY <2>0, <2>00, <2>2, OneSign DEF Reply
  <2>3. CASE call.params[k].sign = "MultiSignature"
    <3>1. ~IsLsig(k) /\ k \in NotLsig
      BY <2>3, <1>0, OneSign DEF NotLsig
    <3>2. CASE call.kind = "web"
      BY <2>0, <2>00, <2>3, <3>1, <3>2 DEF Reply
    <3>3. CASE call.kind = "myalgo" /\ \A q \in NotLsig : Reply(q) # None
      <4>1. Reply(k) # None
        BY <3>1, <3>3
      <4>. QED  BY <4>1, <2>3, <3>3 DEF Reply
    <3>4. CASE ~Multisig
      BY <3>4, <2>3, <1>0 DEF Multisig
    <3>. QED  BY <3>2, <3>3, <3>4
  <2>. QED  BY <2>1, <2>2, <2>3, OneSign
<1>2. \A k \in 1..n : Blob(call.params, k) \in Signed
  BY BlobSigned
<1>3. Replies \in [1..n -> Maybe]
  BY <1>0, <1>1, <1>2 DEF Replies, Maybe
<1>4. Replies \in Seq(Maybe) /\ Len(Replies) = n
  BY <1>0, <1>3
<1>5. \A k \in 1..n : Replies[k] = Reply(k)
  BY <1>0 DEF Replies
<1>. QED  BY <1>1, <1>4, <1>5 DEF Answered

\* The answer of a wallet that is asked is one.
LEMMA AnAnswer ==
  ASSUME NEW n, IsGroup(call.params, n), NEW A \in Seq(Maybe)
  PROVE  SignedGroup(A) = Present(Spliced(call.params, A, n))
<1>1. A # None
  BY NoneAssumption DEF Maybe
<1>2. n \in Nat /\ DOMAIN call.params = 1..n
  BY DEF IsGroup
<1>3. InsertLsigs(A) = Spliced(call.params, A, n)
  BY <1>2, InsertLsigsIsFold
<1>. QED  BY <1>1, <1>3 DEF SignedGroup, Default

\* If the wallet is not asked, the logic signatures are the group, or nothing is.
LEMMA NoAnswer ==
  ASSUME NEW n, IsGroup(call.params, n)
  PROVE  /\ (\A k \in 1..n : ~IsLsig(k)) => SignedGroup(None) = None
         /\ (\E k \in 1..n : IsLsig(k)) => SignedGroup(None) = Present(Spliced(call.params, <<>>, n))
<1>1. n \in Nat /\ DOMAIN call.params = 1..n
  BY DEF IsGroup
<1>2. InsertLsigs(<<>>) = Spliced(call.params, <<>>, n)
  BY <1>1, InsertLsigsIsFold
<1>. QED  BY <1>1, <1>2 DEF SignedGroup, Default

\* Of a call that the sessions of the browser sign, the part of SentAsAsked that
\* is about signatures.
LEMMA SignGroupSigns ==
  ASSUME NEW n, IsGroup(call.params, n), call.kind \in Kinds, call.kind # "algob",
         call.kind = "web" => n # 0,
         DOMAIN call = {"kind", "params", "grouped", "built", "signed", "from", "at", "receipt", "outcome"},
         SignGroup, pc' = "sending"
  PROVE  SignedPart'
<1>. DEFINE P == call.params
            x == call'.signed
<1>0. n \in Nat /\ DOMAIN P = 1..n
  BY DEF IsGroup
<1>1. /\ call'.kind = call.kind /\ call'.params = call.params /\ call'.built = call.built
      /\ \/ AsksWallet /\ WalletSigns /\ x = SignedGroup(Answer)
         \/ ~AsksWallet /\ x = SignedGroup(None)
  BY DEF SignGroup, Throw
<1>2. /\ Whole' = GroupOf(P) /\ (Enclosed' <=> EnclosedIn(P)) /\ (Multisig' <=> Multisig)
      /\ (AsksWallet' <=> AsksWallet) /\ \A k : (IsLsig(k)' <=> IsLsig(k)) /\ (InWallet(k)' <=> InWallet(k))
  BY <1>1 DEF Whole, GroupOf, Enclosed, EnclosedIn, IsLsig, Lsig, BySession, Blob, Multisig,
              AsksWallet, NotLsig, InWallet
<1>3. /\ GroupOf(P) \in Seq(Signed) /\ Present(GroupOf(P)) = GroupOf(P)
  BY PresentOfGroup
<1>4. \A k \in 1..n : IsLsig(k) <=> Lsig(P, k)
  BY SameTerms
<1>5. ASSUME AsksWallet, WalletSigns, x = SignedGroup(Answer)
      PROVE  SignedPart'
  <2>1. CASE call.kind = "web"
    <3>1. Answered(P, n, Replies)
      BY <2>1, WalletAnswers
    <3>2. Answer = Replies
      BY <2>1 DEF Answer, Replies
    <3>3. x = Present(Spliced(P, Replies, n))
      BY <1>5, <3>1, <3>2, AnAnswer DEF Answered
    <3>4. ~Enclosed' => x = Whole'
      BY <1>2, <3>1, <3>3, WholeUnlessEnclosed
    <3>. QED  BY <1>1, <1>2, <1>5, <2>1, <3>4 DEF SignedPart
  <2>2. CASE call.kind = "wc"
    <3>. SUFFICES ASSUME ~EnclosedIn(P), ~Multisig,
                         \A k \in DOMAIN call.params : IsLsig(k) => ~InWallet(k)
                  PROVE  x \in {Whole', None}
      BY <1>1, <1>2, <2>2 DEF SignedPart
    <3>1. Answered(P, n, Replies)
      BY <2>2, WalletAnswers
    <3>2. Answer = Replies
      BY <2>2 DEF Answer, Replies
    <3>3. x = Present(Spliced(P, Replies, n))
      BY <1>5, <3>1, <3>2, AnAnswer DEF Answered
    <3>4. x = GroupOf(P)
      BY <3>1, <3>3, WholeUnlessEnclosed
    <3>. QED  BY <1>2, <3>4
  <2>3. CASE call.kind = "myalgo"
    <3>1. \A k \in NotLsig : Reply(k) # None
      BY <1>5, <2>3 DEF WalletSigns
    <3>2. Answered(P, n, Replies)
      BY <2>3, <3>1, WalletAnswers
    <3>3. Answer = Present(Replies)
      BY <2>3 DEF Answer, Replies
    <3>4. Present(Replies) \in Seq(Maybe)
      <4>1. Present(Replies) \in Seq(Signed) /\ Signed \subseteq Maybe
        BY <3>2, PresentIsSigned DEF Answered, Maybe
      <4>. QED  BY <4>1
    <3>5. x = Present(Spliced(P, Present(Replies), n))
      BY <1>5, <3>3, <3>4, AnAnswer
    <3>6. x = GroupOf(P)
      BY <3>2, <3>5, <1>3, SplicingFills
    <3>. QED  BY <1>1, <1>2, <2>3, <3>6 DEF SignedPart
  <2>. QED  BY <2>1, <2>2, <2>3 DEF Kinds
<1>6. ASSUME ~AsksWallet, x = SignedGroup(None)
      PROVE  SignedPart'
  <2>1. ASSUME \A k \in 1..n : IsLsig(k)
        PROVE  /\ n # 0 => x = GroupOf(P)
               /\ n = 0 => x = None
    <3>2. Spliced(P, <<>>, n) = GroupOf(P)
      BY <1>4, <2>1, SplicingMakes
    <3>3. ASSUME n # 0 PROVE x = GroupOf(P)
      <4>1. 1 \in 1..n
        BY <1>0, <3>3
      <4>2. \E k \in 1..n : IsLsig(k)
        BY <2>1, <4>1
      <4>3. x = Present(Spliced(P, <<>>, n))
        BY <1>6, <4>2, NoAnswer
      <4>. QED  BY <4>3, <3>2, <1>3
    <3>4. ASSUME n = 0 PROVE x = None
      <4>1. \A k \in 1..n : ~IsLsig(k)
        BY <3>4
      <4>. QED  BY <1>6, <4>1, NoAnswer
    <3>. QED  BY <3>3, <3>4
  <2>2. CASE call.kind \in {"wc", "myalgo"}
    <3>1. \A k \in 1..n : IsLsig(k)
      BY <1>0, <1>6, <2>2 DEF AsksWallet, NotLsig
    <3>2. x \in {GroupOf(P), None}
      BY <2>1, <3>1
    <3>. QED  BY <1>1, <1>2, <2>2, <3>2 DEF SignedPart
  <2>3. CASE call.kind = "web"
    <3>0. \A k \in 1..n : call.params[k].sign # "SecretKey"
      BY <1>0, <1>6, <2>3 DEF AsksWallet
    <3>. SUFFICES ASSUME ~Multisig PROVE x = GroupOf(P)
      BY <1>1, <1>2, <1>6, <2>3 DEF SignedPart
    <3>1. \A k \in 1..n : IsLsig(k)
      BY <1>0, <3>0, OneSign DEF Multisig
    <3>. QED  BY <2>1, <2>3, <3>1
  <2>. QED  BY <2>2, <2>3 DEF Kinds
<1>. QED  BY <1>1, <1>5, <1>6

\* The deployer signs everything itself.
LEMMA SignWithKeysSigns ==
  ASSUME DOMAIN call = {"kind", "params", "grouped", "built", "signed", "from", "at", "receipt", "outcome"},
         SignWithKeys, pc' = "sending"
  PROVE  SignedPart'
<1>1. /\ call.kind = "algob" /\ call'.kind = call.kind /\ call'.params = call.params
      /\ call'.signed = [k \in DOMAIN call.params |-> BySession(k)]
  BY DEF SignWithKeys, Throw
<1>2. Whole' = call'.signed
  BY <1>1 DEF Whole, BySession
<1>. QED  BY <1>1, <1>2 DEF SignedPart

-----------------------------------------------------------------------------
(* What the transactions mean                                              *)

CommonNames == {"type", "snd", "fv", "lv", "fee", "note", "rekey"}

\* The transaction tx is made of the parameters p.
MadeOf(tx, p) ==
  /\ tx.type = Kind(p) /\ tx.snd = GetFromAddress(p)
  /\ Of(tx, "rekey") = Of(p.payFlags, "rekeyTo")
  /\ \A x : x \notin CommonNames =>
       /\ Of(tx, x) = Of(Body(p), x)
       /\ x \in DOMAIN tx <=> x \in DOMAIN Body(p)
       /\ tx[x] = Body(p)[x] \/ x \notin DOMAIN Body(p)

\* Reading a field of what is put together.
LEMMA OfJoined ==
  ASSUME NEW f, NEW g, NEW x
  PROVE  /\ Of(f ++ g, x) = IF x \in DOMAIN f THEN f[x] ELSE Of(g, x)
         /\ x \in DOMAIN (f ++ g) <=> x \in DOMAIN f \/ x \in DOMAIN g
         /\ x \in DOMAIN f => (f ++ g)[x] = f[x]
         /\ x \in DOMAIN g /\ x \notin DOMAIN f => (f ++ g)[x] = g[x]
<1>1. CASE x \in DOMAIN f
  BY <1>1 DEF Of, ++
<1>2. CASE x \notin DOMAIN f
  BY <1>2 DEF Of, ++
<1>. QED  BY <1>1, <1>2

\* What is common to all transactions, and what is not.
LEMMA Made ==
  ASSUME NEW p, NEW s
  PROVE  LET tx == MkTransaction(p, s)
         IN  /\ MadeOf(tx, p)
             /\ tx.fv = s.firstRound /\ tx.lv = s.lastRound
             /\ Of(tx, "fee") = NonZero(Fee(p, s))
<1>. DEFINE f == Common(p, s, Kind(p))
            g == Body(p)
            tx == MkTransaction(p, s)
<1>1. /\ DOMAIN f = CommonNames /\ f["type"] = Kind(p) /\ f["snd"] = GetFromAddress(p)
      /\ f["fv"] = s.firstRound /\ f["lv"] = s.lastRound /\ f["fee"] = NonZero(Fee(p, s))
      /\ f["rekey"] = Of(p.payFlags, "rekeyTo")
  BY DEF Common, CommonNames
<1>2. tx = f ++ g
  BY DEF MkTransaction
<1>. HIDE DEF f, g, tx
<1>3. ASSUME NEW x \in CommonNames PROVE Of(tx, x) = f[x] /\ tx[x] = f[x]
  BY <1>1, <1>2, OfJoined
<1>4. ASSUME NEW x, x \notin CommonNames
      PROVE  /\ Of(tx, x) = Of(g, x)
             /\ x \in DOMAIN tx <=> x \in DOMAIN g
             /\ tx[x] = g[x] \/ x \notin DOMAIN g
  BY <1>1, <1>2, <1>4, OfJoined
<1>5. /\ tx["type"] = Kind(p) /\ tx["snd"] = GetFromAddress(p) /\ tx["fv"] = s.firstRound
      /\ tx["lv"] = s.lastRound /\ Of(tx, "fee") = NonZero(Fee(p, s))
      /\ Of(tx, "rekey") = Of(p.payFlags, "rekeyTo")
  BY <1>1, <1>3 DEF CommonNames
<1>6. MadeOf(tx, p)
  BY <1>4, <1>5 DEF MadeOf, g
<1>. QED  BY <1>5, <1>6 DEF tx

\* The kind of a transaction.
LEMMA KindOfTransaction ==
  ASSUME NEW p
  PROVE  /\ p.type = "TransferAlgo" => Kind(p) = "pay"
         /\ p.type \in {"TransferAsset", "RevokeAsset", "OptInASA"} => Kind(p) = "axfer"
         /\ p.type \in {"DeployASA", "ModifyAsset", "DestroyAsset"} => Kind(p) = "acfg"
         /\ p.type = "FreezeAsset" => Kind(p) = "afrz"
         /\ p.type = "KeyRegistration" => Kind(p) = "keyreg"
         /\ p.type \in {"CallApp", "DeployApp", "OptInToApp", "CloseApp", "ClearApp", "UpdateApp",
                         "DeleteApp"} => Kind(p) = "appl"
<1>1. AppType = {"CallApp", "DeployApp", "OptInToApp", "CloseApp", "ClearApp", "UpdateApp",
                 "DeleteApp"}
  BY DEF AppType, OnCompletion
<1>. QED  BY <1>1 DEF Kind, PaymentType, TransferType, ConfigType

\* A payment.
LEMMA PaymentMeans ==
  ASSUME NEW p, NEW tx, p.type = "TransferAlgo", MadeOf(tx, p), Of(p, "amountMicroAlgos") # None
  PROVE  /\ tx.type = "pay" /\ Of(tx, "close") = Of(p.payFlags, "closeRemainderTo")
         /\ Of(tx, "aclose") = None
         /\ Of(tx, "rcv") = p.toAccountAddr /\ tx.rcv = p.toAccountAddr
         /\ Effect(tx) = AskedFor(p)
<1>1. tx.type = "pay"
  BY KindOfTransaction DEF MadeOf
<1>2. Body(p) = [rcv |-> p.toAccountAddr, amt |-> NonZero(p.amountMicroAlgos),
                 close |-> Of(p.payFlags, "closeRemainderTo")]
  BY DEF Body
<1>3. /\ tx["rcv"] = p.toAccountAddr /\ Of(tx, "rcv") = p.toAccountAddr
      /\ Of(tx, "amt") = NonZero(p.amountMicroAlgos)
      /\ Of(tx, "close") = Of(p.payFlags, "closeRemainderTo") /\ Of(tx, "aclose") = None
  <2>. DEFINE g == Body(p)
  <2>1. /\ DOMAIN g = {"rcv", "amt", "close"} /\ g["rcv"] = p.toAccountAddr
        /\ g["amt"] = NonZero(p.amountMicroAlgos) /\ g["close"] = Of(p.payFlags, "closeRemainderTo")
    BY <1>2
  <2>2. /\ "rcv" \notin CommonNames /\ "amt" \notin CommonNames /\ "close" \notin CommonNames
        /\ "aclose" \notin CommonNames
    BY DEF CommonNames
  <2>. HIDE DEF g
  <2>3. \A x : x \notin CommonNames => /\ Of(tx, x) = Of(g, x)
                                       /\ tx[x] = g[x] \/ x \notin DOMAIN g
    BY DEF MadeOf, g
  <2>4. /\ Of(g, "rcv") = g["rcv"] /\ Of(g, "amt") = g["amt"]
        /\ Of(g, "close") = g["close"] /\ Of(g, "aclose") = None
    BY <2>1 DEF Of
  <2>. QED  BY <2>1, <2>2, <2>3, <2>4
<1>4. Default(NonZero(p.amountMicroAlgos), 0) = p.amountMicroAlgos
  BY NoneAssumption DEF Default, NonZero, Of
<1>5. Effect(tx) = [op |-> "transferAlgo", to |-> tx.rcv, amount |-> Default(Of(tx, "amt"), 0),
                    close |-> Of(tx, "close")]
  BY <1>1 DEF Effect, IsEncTxAssetCreate, IsEncTxAssetReconfigure, IsEncTxAssetDeletion,
              IsEncTxApplicationCreate
<1>6. AskedFor(p) = [op |-> "transferAlgo", to |-> p.toAccountAddr, amount |-> p.amountMicroAlgos,
                     close |-> Of(p.payFlags, "closeRemainderTo")]
  BY DEF AskedFor
<1>. QED  BY <1>1, <1>3, <1>4, <1>5, <1>6

\* A field that is not common to all transactions.
LEMMA FieldOfMade ==
  ASSUME NEW p, NEW tx, MadeOf(tx, p), NEW g, Body(p) = g, NEW x, x \notin CommonNames
  PROVE  /\ x \in DOMAIN g => tx[x] = g[x] /\ Of(tx, x) = g[x]
         /\ x \notin DOMAIN g => Of(tx, x) = None
         /\ x \in DOMAIN tx <=> x \in DOMAIN g
BY DEF MadeOf, Of

\* Who sends a transaction is given.
LEMMA SenderGiven ==
  ASSUME NEW p, IsParams(p)
  PROVE  GetFromAddress(p) # None
BY DEF IsParams, GetFromAddress, Of

\* What is required is there.
LEMMA RequiredGiven ==
  ASSUME NEW p, NEW f, Of(p, f) # None
  PROVE  p[f] # None /\ p[f] = Of(p, f)
BY DEF Of

\* Numbers are read as they were written.
LEMMA NumberRead ==
  ASSUME NEW n, n # None
  PROVE  /\ Default(NonZero(n), 0) = n /\ (NonZero(n) = None <=> n = 0)
         /\ n # 0 => NonZero(n) = n
BY NoneAssumption DEF Default, NonZero

\* The fields of a transfer of an asset.
LEMMA TransferFields ==
  ASSUME NEW p, NEW tx, MadeOf(tx, p), Of(p, "assetID") # None, Of(p, "assetID") # 0,
         NEW to, NEW amount, NEW close, NEW from, amount # None,
         Body(p) = AssetTransfer(p, to, amount, close, from)
  PROVE  /\ tx.xaid = p.assetID /\ Of(tx, "xaid") = p.assetID /\ tx.arcv = to /\ Of(tx, "arcv") = to
         /\ tx.asnd = from /\ Of(tx, "asnd") = from /\ Of(tx, "aclose") = close
         /\ Of(tx, "close") = None
         /\ Default(Of(tx, "aamt"), 0) = amount /\ (Of(tx, "aamt") = None <=> amount = 0)
         /\ Of(tx, "aamt") # 0
<1>. DEFINE g == [arcv |-> to, aamt |-> NonZero(amount), aclose |-> close, asnd |-> from,
                  xaid |-> NonZero(p.assetID)]
<1>1. Body(p) = g
  BY DEF AssetTransfer
<1>2. /\ DOMAIN g = {"arcv", "aamt", "aclose", "asnd", "xaid"} /\ g["arcv"] = to
      /\ g["aamt"] = NonZero(amount) /\ g["aclose"] = close /\ g["asnd"] = from
      /\ g["xaid"] = NonZero(p.assetID)
  OBVIOUS
<1>. HIDE DEF g
<1>3. \A x \in {"arcv", "aamt", "aclose", "asnd", "xaid"} : tx[x] = g[x] /\ Of(tx, x) = g[x]
  <2>1. \A x \in {"arcv", "aamt", "aclose", "asnd", "xaid"} : x \notin CommonNames
    BY DEF CommonNames
  <2>. QED  BY <1>1, <1>2, <2>1, FieldOfMade
<1>4. Of(tx, "close") = None
  <2>1. "close" \notin CommonNames
    BY DEF CommonNames
  <2>. QED  BY <1>1, <1>2, <2>1, FieldOfMade
<1>5. NonZero(p.assetID) = p.assetID
  BY RequiredGiven, NumberRead
<1>6. NonZero(amount) # 0
  BY NoneAssumption DEF NonZero
<1>. QED  BY <1>2, <1>3, <1>4, <1>5, <1>6, NumberRead

\* A transfer of an asset, or an opt-in.
LEMMA TransferMeans ==
  ASSUME NEW p, NEW tx, p.type \in {"TransferAsset", "OptInASA"}, MadeOf(tx, p), IsParams(p)
  PROVE  /\ Effect(tx) = AskedFor(p) /\ tx.type = "axfer"
         /\ Of(tx, "asnd") = None /\ Of(tx, "arcv") # None /\ tx.arcv = Of(tx, "arcv")
         /\ Of(tx, "xaid") = p.assetID /\ tx.xaid = p.assetID /\ Of(tx, "aamt") # 0
<1>. DEFINE from == GetFromAddress(p)
            to == IF p.type = "OptInASA" THEN from ELSE p.toAccountAddr
            amount == IF p.type = "OptInASA" THEN 0 ELSE p.amount
            close == IF p.type = "OptInASA" THEN None ELSE Of(p.payFlags, "closeRemainderTo")
<1>1. tx.type = "axfer" /\ tx.snd = from
  BY KindOfTransaction DEF MadeOf
<1>2. Of(p, "assetID") # None /\ Of(p, "assetID") # 0
  BY DEF IsParams, Required, AppType, OnCompletion
<1>3. to # None /\ amount # None
  <2>1. CASE p.type = "OptInASA"
    BY <2>1, SenderGiven, NoneAssumption
  <2>2. CASE p.type = "TransferAsset"
    <3>1. Of(p, "toAccountAddr") # None /\ Of(p, "amount") # None
      BY <2>2 DEF IsParams, Required, AppType, OnCompletion
    <3>2. p["toAccountAddr"] # None /\ p["amount"] # None
      BY <3>1, RequiredGiven
    <3>. QED  BY <2>2, <3>2
  <2>. QED  BY <2>1, <2>2
<1>4. Body(p) = AssetTransfer(p, to, amount, close, None)
  BY DEF Body
<1>. HIDE DEF to, amount, close
<1>5. /\ tx.xaid = p.assetID /\ Of(tx, "xaid") = p.assetID /\ tx.arcv = to
      /\ Of(tx, "arcv") = to /\ Of(tx, "aamt") # 0 /\ Of(tx, "asnd") = None /\ Of(tx, "aclose") = close
      /\ Default(Of(tx, "aamt"), 0) = amount /\ (Of(tx, "aamt") = None <=> amount = 0)
  BY <1>2, <1>3, <1>4, TransferFields
<1>6. IsEncTxAssetTransfer(tx) /\ (IsEncTxAssetOptIn(tx) <=> to = from)
  BY <1>1, <1>3, <1>5 DEF IsEncTxAssetTransfer, IsEncTxAssetOptIn
<1>7. Effect(tx) = [op |-> IF to = from /\ amount = 0 THEN "optInToASA" ELSE "transferAsset",
                    asset |-> p.assetID, to |-> to, amount |-> amount, close |-> close]
  <2>1. Effect(tx) = [op |-> IF IsEncTxAssetOptIn(tx) /\ Of(tx, "aamt") = None
                             THEN "optInToASA" ELSE "transferAsset",
                      asset |-> tx.xaid, to |-> tx.arcv, amount |-> Default(Of(tx, "aamt"), 0),
                      close |-> Of(tx, "aclose")]
    BY <1>1, <1>6 DEF Effect, IsEncTxAssetCreate, IsEncTxAssetReconfigure, IsEncTxAssetDeletion,
                      IsEncTxApplicationCreate, IsEncTxAssetRevoke, IsEncTxAssetTransfer
  <2>. QED  BY <1>5, <1>6, <2>1
<1>8. AskedFor(p) = [op |-> IF to = from /\ amount = 0 THEN "optInToASA" ELSE "transferAsset",
                     asset |-> p.assetID, to |-> to, amount |-> amount, close |-> close]
  BY DEF AskedFor, to, amount, close
<1>. QED  BY <1>1, <1>3, <1>5, <1>7, <1>8

\* A revocation.
LEMMA RevocationMeans ==
  ASSUME NEW p, NEW tx, p.type = "RevokeAsset", MadeOf(tx, p), IsParams(p)
  PROVE  /\ Effect(tx) = AskedFor(p) /\ tx.type = "axfer"
         /\ Of(tx, "asnd") # None /\ tx.asnd = Of(tx, "asnd")
         /\ Of(tx, "arcv") # None /\ tx.arcv = Of(tx, "arcv")
         /\ Of(tx, "xaid") = p.assetID /\ tx.xaid = p.assetID
<1>. DEFINE close == Of(p.payFlags, "closeRemainderTo")
<1>1. tx.type = "axfer"
  BY KindOfTransaction DEF MadeOf
<1>2. /\ Of(p, "assetID") # None /\ Of(p, "assetID") # 0 /\ Of(p, "recipient") # None
      /\ Of(p, "revocationTarget") # None /\ Of(p, "amount") # None
  BY DEF IsParams, Required, AppType, OnCompletion
<1>3. p["recipient"] # None /\ p["revocationTarget"] # None /\ p["amount"] # None
  BY <1>2, RequiredGiven
<1>4. Body(p) = AssetTransfer(p, p.recipient, p.amount, close, p.revocationTarget)
  BY DEF Body
<1>. HIDE DEF close
<1>5. /\ tx.xaid = p.assetID /\ Of(tx, "xaid") = p.assetID
      /\ tx.arcv = p.recipient /\ Of(tx, "arcv") = p.recipient /\ tx.asnd = p.revocationTarget
      /\ Of(tx, "asnd") = p.revocationTarget /\ Of(tx, "aclose") = close
      /\ Default(Of(tx, "aamt"), 0) = p.amount
  BY <1>2, <1>3, <1>4, TransferFields
<1>6. Effect(tx) = [op |-> IF Of(tx, "aclose") # None THEN "throw" ELSE "revokeAsset",
                    asset |-> tx.xaid, to |-> tx.arcv, amount |-> Default(Of(tx, "aamt"), 0),
                    target |-> tx.asnd]
  BY <1>1, <1>3, <1>5 DEF Effect, IsEncTxAssetCreate, IsEncTxAssetReconfigure,
       IsEncTxAssetDeletion, IsEncTxApplicationCreate, IsEncTxAssetRevoke, IsEncTxAssetTransfer
<1>7. AskedFor(p) = [op |-> IF close = None THEN "revokeAsset" ELSE "throw",
                     asset |-> p.assetID, to |-> p.recipient, amount |-> p.amount,
                     target |-> p.revocationTarget]
  BY DEF AskedFor, close
<1>. QED  BY <1>1, <1>3, <1>5, <1>6, <1>7

\* A freeze.
LEMMA FreezeMeans ==
  ASSUME NEW p, NEW tx, p.type = "FreezeAsset", MadeOf(tx, p), IsParams(p)
  PROVE  /\ Effect(tx) = AskedFor(p) /\ tx.type = "afrz"
         /\ Of(tx, "close") = None /\ Of(tx, "aclose") = None
         /\ Of(tx, "faid") = p.assetID /\ tx.faid = p.assetID
         /\ Of(tx, "fadd") = p.freezeTarget /\ tx.fadd = p.freezeTarget
<1>1. tx.type = "afrz"
  BY KindOfTransaction DEF MadeOf
<1>2. Of(p, "assetID") # None /\ Of(p, "assetID") # 0 /\ p.freezeState \in BOOLEAN
  BY DEF IsParams, Required, AppType, OnCompletion
<1>. DEFINE g == [fadd |-> p.freezeTarget, faid |-> NonZero(p.assetID), afrz |-> Set(p.freezeState)]
<1>3. Body(p) = g
  BY DEF Body
<1>4. /\ DOMAIN g = {"fadd", "faid", "afrz"} /\ g["fadd"] = p.freezeTarget
      /\ g["faid"] = NonZero(p.assetID) /\ g["afrz"] = Set(p.freezeState)
  OBVIOUS
<1>. HIDE DEF g
<1>5. /\ \A x \in {"fadd", "faid", "afrz"} : tx[x] = g[x] /\ Of(tx, x) = g[x]
      /\ Of(tx, "close") = None /\ Of(tx, "aclose") = None
  <2>1. \A x \in {"fadd", "faid", "afrz", "close", "aclose"} : x \notin CommonNames
    BY DEF CommonNames
  <2>. QED  BY <1>3, <1>4, <2>1, FieldOfMade
<1>6. NonZero(p.assetID) = p.assetID
  BY <1>2, RequiredGiven, NumberRead
<1>7. (Set(p.freezeState) = TRUE) = p.freezeState
  <2>1. CASE p.freezeState = TRUE
    BY <2>1 DEF Set
  <2>2. CASE p.freezeState = FALSE
    BY <2>2, NoneAssumption DEF Set
  <2>. QED  BY <1>2, <2>1, <2>2
<1>8. Effect(tx) = [op |-> "freezeAsset", asset |-> tx.faid, target |-> tx.fadd,
                    state |-> Of(tx, "afrz") = TRUE]
  BY <1>1 DEF Effect, IsEncTxAssetCreate, IsEncTxAssetReconfigure,
              IsEncTxAssetDeletion, IsEncTxApplicationCreate
<1>9. AskedFor(p) = [op |-> "freezeAsset", asset |-> p.assetID, target |-> p.freezeTarget,
                     state |-> p.freezeState]
  BY DEF AskedFor
<1>. QED  BY <1>1, <1>4, <1>5, <1>6, <1>7, <1>8, <1>9

\* A registration of keys.
LEMMA RegistrationMeans ==
  ASSUME NEW p, NEW tx, p.type = "KeyRegistration", MadeOf(tx, p)
  PROVE  Effect(tx) = AskedFor(p)
<1>1. tx.type = "keyreg"
  BY KindOfTransaction DEF MadeOf
<1>2. Effect(tx) = [op |-> "nothing"]
  BY <1>1 DEF Effect, IsEncTxAssetCreate, IsEncTxAssetReconfigure,
              IsEncTxAssetDeletion, IsEncTxApplicationCreate
<1>3. AskedFor(p) = [op |-> "nothing"]
  BY DEF AskedFor
<1>. QED  BY <1>2, <1>3

\* The four addresses of an asset.
LEMMA FourRoles ==
  /\ DOMAIN AssetRoles = {"m", "r", "f", "c"}
  /\ \A a \in DOMAIN AssetRoles :
       (CHOOSE b \in DOMAIN AssetRoles : AssetRoles[b] = AssetRoles[a]) = a
<1>1. /\ DOMAIN AssetRoles = {"m", "r", "f", "c"}
      /\ AssetRoles["m"] = "manager" /\ AssetRoles["r"] = "reserve"
      /\ AssetRoles["f"] = "freeze" /\ AssetRoles["c"] = "clawback"
  BY DEF AssetRoles
<1>2. \A a, b \in DOMAIN AssetRoles : AssetRoles[a] = AssetRoles[b] => a = b
  BY <1>1
<1>3. ASSUME NEW a \in DOMAIN AssetRoles
      PROVE  (CHOOSE b \in DOMAIN AssetRoles : AssetRoles[b] = AssetRoles[a]) = a
  <2>1. \E b \in DOMAIN AssetRoles : AssetRoles[b] = AssetRoles[a]
    OBVIOUS
  <2>2. PICK c : c = CHOOSE b \in DOMAIN AssetRoles : AssetRoles[b] = AssetRoles[a]
    OBVIOUS
  <2>3. c \in DOMAIN AssetRoles /\ AssetRoles[c] = AssetRoles[a]
    BY <2>1, <2>2
  <2>. QED  BY <1>2, <2>2, <2>3
<1>. QED  BY <1>1, <1>3

\* The addresses that are given, and how they are read.
LEMMA RolesGiven ==
  ASSUME NEW d
  PROVE  /\ DOMAIN RoleParams(d) \subseteq DOMAIN AssetRoles
         /\ \A a \in DOMAIN AssetRoles :
              Of(RoleParams(d), a) = IF Of(d, AssetRoles[a]) \in {None, Blank} THEN None
                                     ELSE d[AssetRoles[a]]
BY DEF RoleParams, Of

\* A transaction that carries them says the same.
LEMMA RolesRead ==
  ASSUME NEW tx, NEW d, NEW missing,
         \A a \in DOMAIN AssetRoles : Of(ConfigOf(tx), a) = Of(RoleParams(d), a)
  PROVE  RolesOf(tx, missing) = RolesAsked(d, missing)
<1>. DEFINE R == {AssetRoles[a] : a \in DOMAIN AssetRoles}
            key(r) == CHOOSE a \in DOMAIN AssetRoles : AssetRoles[a] = r
<1>1. ASSUME NEW r \in R
      PROVE  Default(Of(ConfigOf(tx), key(r)), missing)
               = IF Of(d, r) \in {None, Blank} THEN missing ELSE d[r]
  <2>1. PICK a \in DOMAIN AssetRoles : r = AssetRoles[a]
    OBVIOUS
  <2>2. key(r) = a
    BY <2>1, FourRoles
  <2>. HIDE DEF key, R
  <2>3. Of(ConfigOf(tx), key(r)) = IF Of(d, r) \in {None, Blank} THEN None ELSE d[r]
    BY <2>1, <2>2, RolesGiven
  <2>4. Of(d, r) \notin {None, Blank} => d[r] # None
    BY RequiredGiven
  <2>. QED  BY <2>3, <2>4 DEF Default
<1>2. RolesOf(tx, missing) = [r \in R |-> Default(Of(ConfigOf(tx), key(r)), missing)]
  BY DEF RolesOf
<1>3. RolesAsked(d, missing) = [r \in R |-> IF Of(d, r) \in {None, Blank} THEN missing ELSE d[r]]
  BY DEF RolesAsked
<1>. HIDE DEF R, key
<1>. QED  BY <1>1, <1>2, <1>3

\* No address is given if and only if what is asked is to give none.
LEMMA NoRoles ==
  ASSUME NEW d
  PROVE  DOMAIN RoleParams(d) = {} <=> RolesAsked(d, Blank) = RolesAsked(<<>>, Blank)
<1>. DEFINE R == {AssetRoles[a] : a \in DOMAIN AssetRoles}
            given(e, r) == IF Of(e, r) \in {None, Blank} THEN Blank ELSE e[r]
<1>1. DOMAIN RoleParams(d) = {} <=> \A r \in R : Of(d, r) \in {None, Blank}
  BY DEF RoleParams
<1>2. \A e : RolesAsked(e, Blank) = [r \in R |-> given(e, r)]
  BY DEF RolesAsked
<1>3. \A r \in R : given(<<>>, r) = Blank
  BY DEF Of
<1>4. \A r \in R : given(d, r) = Blank <=> Of(d, r) \in {None, Blank}
  BY DEF Of
<1>. HIDE DEF R, given
<1>5. ([r \in R |-> given(d, r)] = [r \in R |-> given(<<>>, r)])
        <=> \A r \in R : given(d, r) = given(<<>>, r)
  <2>1. ASSUME [r \in R |-> given(d, r)] = [r \in R |-> given(<<>>, r)], NEW r \in R
        PROVE  given(d, r) = given(<<>>, r)
    <3>1. [q \in R |-> given(d, q)][r] = [q \in R |-> given(<<>>, q)][r]
      BY <2>1
    <3>. QED  BY <3>1
  <2>2. ASSUME \A r \in R : given(d, r) = given(<<>>, r)
        PROVE  [r \in R |-> given(d, r)] = [r \in R |-> given(<<>>, r)]
    BY <2>2
  <2>. QED  BY <2>1, <2>2
<1>. QED  BY <1>1, <1>2, <1>3, <1>4, <1>5

\* The fields of a transaction that configures an asset.
LEMMA ConfigFields ==
  ASSUME NEW p, NEW tx, MadeOf(tx, p), NEW asset, NEW apar, Body(p) = Config(asset, apar)
  PROVE  /\ Of(tx, "caid") = NonZero(asset) /\ tx.caid = NonZero(asset)
         /\ "apar" \in DOMAIN tx <=> DOMAIN apar # {}
         /\ DOMAIN apar # {} => tx.apar = apar
         /\ Of(tx, "close") = None /\ Of(tx, "aclose") = None
<1>0. \A x \in {"caid", "apar", "close", "aclose"} : x \notin CommonNames
  BY DEF CommonNames
<1>1. CASE DOMAIN apar = {}
  <2>. DEFINE g == [caid |-> NonZero(asset)]
  <2>1. Body(p) = g
    BY <1>1 DEF Config
  <2>2. DOMAIN g = {"caid"} /\ g["caid"] = NonZero(asset)
    OBVIOUS
  <2>. HIDE DEF g
  <2>3. \A x \in {"caid", "apar", "close", "aclose"} :
          /\ x \in DOMAIN g => tx[x] = g[x] /\ Of(tx, x) = g[x]
          /\ x \notin DOMAIN g => Of(tx, x) = None
          /\ x \in DOMAIN tx <=> x \in DOMAIN g
    BY <1>0, <2>1, FieldOfMade
  <2>. QED  BY <1>1, <2>2, <2>3
<1>2. CASE DOMAIN apar # {}
  <2>. DEFINE g == [caid |-> NonZero(asset), apar |-> apar]
  <2>1. Body(p) = g
    BY <1>2 DEF Config
  <2>2. DOMAIN g = {"caid", "apar"} /\ g["caid"] = NonZero(asset) /\ g["apar"] = apar
    OBVIOUS
  <2>. HIDE DEF g
  <2>3. \A x \in {"caid", "apar", "close", "aclose"} :
          /\ x \in DOMAIN g => tx[x] = g[x] /\ Of(tx, x) = g[x]
          /\ x \notin DOMAIN g => Of(tx, x) = None
          /\ x \in DOMAIN tx <=> x \in DOMAIN g
    BY <1>0, <2>1, FieldOfMade
  <2>. QED  BY <1>2, <2>2, <2>3
<1>. QED  BY <1>1, <1>2

\* A change of the addresses of an asset, or its end.
LEMMA ChangeMeans ==
  ASSUME NEW p, NEW tx, p.type \in {"ModifyAsset", "DestroyAsset"}, MadeOf(tx, p), IsParams(p)
  PROVE  /\ Effect(tx) = AskedFor(p) /\ tx.type = "acfg" /\ HasAsset(tx) /\ tx.caid = p.assetID
         /\ Of(tx, "close") = None /\ Of(tx, "aclose") = None
         /\ SetRoles(tx) # {} => \E d : /\ RolesOf(tx, Blank) = RolesAsked(d, Blank)
                                       /\ RolesAsked(d, Blank) # RolesAsked(<<>>, Blank)
<1>. DEFINE apar == IF p.type = "ModifyAsset" THEN RoleParams(p.fields) ELSE <<>>
<1>1. tx.type = "acfg"
  BY KindOfTransaction DEF MadeOf
<1>2. Of(p, "assetID") # None /\ Of(p, "assetID") # 0
  BY DEF IsParams, Required, AppType, OnCompletion
<1>3. Body(p) = Config(p.assetID, apar)
  BY DEF Body
<1>4. p["assetID"] # None /\ NonZero(p.assetID) = p.assetID
  BY <1>2, RequiredGiven, NumberRead
<1>. HIDE DEF apar
<1>5. /\ Of(tx, "caid") = p.assetID /\ tx.caid = p.assetID
      /\ "apar" \in DOMAIN tx <=> DOMAIN apar # {}
      /\ DOMAIN apar # {} => tx.apar = apar
      /\ Of(tx, "close") = None /\ Of(tx, "aclose") = None
  BY <1>3, <1>4, ConfigFields
<1>6. HasAsset(tx)
  BY <1>2, <1>4, <1>5, RequiredGiven DEF HasAsset
<1>7. DOMAIN ConfigOf(tx) = DOMAIN apar /\ (DOMAIN apar # {} => ConfigOf(tx) = apar)
  BY <1>5 DEF ConfigOf
<1>8. CASE p.type = "ModifyAsset"
  <2>. DEFINE d == p.fields
  <2>1. apar = RoleParams(d)
    BY <1>8 DEF apar
  <2>. HIDE DEF d
  <2>2. SetRoles(tx) = DOMAIN RoleParams(d)
    BY <1>7, <2>1, RolesGiven DEF SetRoles
  <2>3. ASSUME DOMAIN RoleParams(d) = {} PROVE Effect(tx) = AskedFor(p)
    <3>1. Effect(tx) = [op |-> "destroyAsset", asset |-> tx.caid]
      BY <1>1, <1>5, <1>6, <2>2, <2>3 DEF Effect, IsEncTxAssetCreate, IsEncTxAssetReconfigure,
           IsEncTxAssetDeletion, IsEncTxApplicationCreate, HasAsset
    <3>2. AskedFor(p) = [op |-> "destroyAsset", asset |-> p.assetID]
      <4>1. RolesAsked(p.fields, Blank) = RolesAsked(<<>>, Blank)
        BY <2>3, NoRoles DEF d
      <4>. QED  BY <1>8, <4>1 DEF AskedFor
    <3>. QED  BY <1>5, <3>1, <3>2
  <2>4. ASSUME DOMAIN RoleParams(d) # {} PROVE Effect(tx) = AskedFor(p)
    <3>1. Effect(tx) = [op |-> "modifyAsset", asset |-> tx.caid,
                        fields |-> GetAssetReconfigureFields(tx)]
      BY <1>1, <1>5, <1>6, <2>2, <2>4 DEF Effect, IsEncTxAssetCreate, IsEncTxAssetReconfigure,
           IsEncTxAssetDeletion, IsEncTxApplicationCreate, HasAsset
    <3>2. AskedFor(p) = [op |-> "modifyAsset", asset |-> p.assetID, fields |-> RolesAsked(d, Blank)]
      <4>1. RolesAsked(p.fields, Blank) # RolesAsked(<<>>, Blank)
        BY <2>4, NoRoles DEF d
      <4>. QED  BY <1>8, <4>1 DEF AskedFor, d
    <3>3. GetAssetReconfigureFields(tx) = RolesAsked(d, Blank)
      <4>1. ConfigOf(tx) = RoleParams(d)
        BY <1>7, <2>1, <2>4
      <4>. QED  BY <4>1, RolesRead DEF GetAssetReconfigureFields
    <3>. QED  BY <1>5, <3>1, <3>2, <3>3
  <2>5. SetRoles(tx) # {} => /\ RolesOf(tx, Blank) = RolesAsked(d, Blank)
                             /\ RolesAsked(d, Blank) # RolesAsked(<<>>, Blank)
    <3>. SUFFICES ASSUME SetRoles(tx) # {}
                  PROVE  /\ RolesOf(tx, Blank) = RolesAsked(d, Blank)
                         /\ RolesAsked(d, Blank) # RolesAsked(<<>>, Blank)
      OBVIOUS
    <3>1. DOMAIN RoleParams(d) # {}
      BY <2>2
    <3>2. ConfigOf(tx) = RoleParams(d)
      BY <1>7, <2>1, <3>1
    <3>. QED  BY <3>1, <3>2, NoRoles, RolesRead
  <2>6. Effect(tx) = AskedFor(p)
    BY <2>3, <2>4
  <2>. QED  BY <1>1, <1>5, <1>6, <2>5, <2>6
<1>9. CASE p.type = "DestroyAsset"
  <2>1. DOMAIN apar = {}
    BY <1>9 DEF apar
  <2>2. SetRoles(tx) = {}
    BY <1>7, <2>1 DEF SetRoles
  <2>3. Effect(tx) = [op |-> "destroyAsset", asset |-> tx.caid]
    BY <1>1, <1>5, <1>6, <2>2 DEF Effect, IsEncTxAssetCreate, IsEncTxAssetReconfigure,
         IsEncTxAssetDeletion, IsEncTxApplicationCreate, HasAsset
  <2>4. AskedFor(p) = [op |-> "destroyAsset", asset |-> p.assetID]
    BY <1>9 DEF AskedFor
  <2>. QED  BY <1>1, <1>5, <1>6, <2>2, <2>3, <2>4
<1>. QED  BY <1>8, <1>9

\* What a creation asks for, if the number of units is one that was read.
CreationOf(name, d) ==
  [op |-> "deployASA",
   def |-> RolesAsked(d, None)
           ++ [total |-> Default(NonZero(Of(d, "total")), 0), asaName |-> name,
               defaultFrozen |-> Of(d, "defaultFrozen") = TRUE]]

\* A creation of an asset.
LEMMA CreationMeans ==
  ASSUME NEW p, NEW tx, p.type = "DeployASA", MadeOf(tx, p)
  PROVE  /\ Effect(tx) = CreationOf(p.asaName, p.asaDef) /\ tx.type = "acfg" /\ ~HasAsset(tx)
         /\ Of(tx, "close") = None /\ Of(tx, "aclose") = None
         /\ \A a \in DOMAIN AssetRoles : Of(ConfigOf(tx), a) = Of(RoleParams(p.asaDef), a)
         /\ Of(ConfigOf(tx), "an") = p.asaName
         /\ Of(ConfigOf(tx), "t") = NonZero(Of(p.asaDef, "total"))
         /\ (Of(ConfigOf(tx), "df") = TRUE) = (Of(p.asaDef, "defaultFrozen") = TRUE)
<1>. DEFINE d == p.asaDef
            rest == [t |-> NonZero(Of(d, "total")), dc |-> NonZero(Of(d, "decimals")),
                     df |-> Set(Of(d, "defaultFrozen") = TRUE), an |-> p.asaName,
                     un |-> Of(d, "unitName")]
            apar == CreationParams(p.asaName, d)
<1>1. tx.type = "acfg"
  BY KindOfTransaction DEF MadeOf
<1>2. Body(p) = Config(0, apar)
  BY DEF Body
<1>3. /\ DOMAIN rest = {"t", "dc", "df", "an", "un"} /\ rest["t"] = NonZero(Of(d, "total"))
      /\ rest["df"] = Set(Of(d, "defaultFrozen") = TRUE) /\ rest["an"] = p.asaName
  OBVIOUS
<1>4. apar = RoleParams(d) ++ rest
  BY DEF CreationParams
<1>. HIDE DEF d, rest, apar
<1>5. /\ "t" \in DOMAIN apar /\ Of(apar, "t") = rest["t"] /\ Of(apar, "df") = rest["df"]
      /\ Of(apar, "an") = rest["an"]
      /\ \A a \in DOMAIN AssetRoles : Of(apar, a) = Of(RoleParams(d), a)
  <2>1. DOMAIN RoleParams(d) \subseteq {"m", "r", "f", "c"} /\ DOMAIN AssetRoles = {"m", "r", "f", "c"}
    BY RolesGiven, FourRoles
  <2>2. \A x \in {"t", "df", "an"} : x \in DOMAIN rest /\ x \notin DOMAIN RoleParams(d)
    BY <1>3, <2>1
  <2>3. \A x \in {"t", "df", "an"} : x \in DOMAIN apar /\ Of(apar, x) = rest[x]
    BY <1>4, <2>2, OfJoined DEF Of
  <2>4. ASSUME NEW a \in DOMAIN AssetRoles
        PROVE  Of(apar, a) = Of(RoleParams(d), a)
    <3>1. a \notin DOMAIN rest
      BY <1>3, <2>1
    <3>2. Of(rest, a) = None
      BY <3>1 DEF Of
    <3>3. Of(apar, a) = IF a \in DOMAIN RoleParams(d) THEN RoleParams(d)[a] ELSE Of(rest, a)
      BY <1>4, OfJoined
    <3>. QED  BY <3>2, <3>3 DEF Of
  <2>. QED  BY <2>3, <2>4
<1>6. /\ Of(tx, "caid") = None /\ "apar" \in DOMAIN tx /\ tx.apar = apar
      /\ Of(tx, "close") = None /\ Of(tx, "aclose") = None
  <2>1. NonZero(0) = None
    BY DEF NonZero
  <2>. QED  BY <1>2, <1>5, <2>1, ConfigFields
<1>7. ~HasAsset(tx) /\ IsEncTxAssetCreate(tx) /\ ConfigOf(tx) = apar
  BY <1>1, <1>6 DEF HasAsset, IsEncTxAssetCreate, ConfigOf
<1>8. Effect(tx) = [op |-> "deployASA", def |-> GetTxASADefinition(tx)]
  BY <1>1, <1>6, <1>7 DEF Effect, IsEncTxAssetReconfigure, IsEncTxAssetDeletion,
                          IsEncTxApplicationCreate
<1>9. (Of(apar, "df") = TRUE) = (Of(d, "defaultFrozen") = TRUE)
  BY <1>3, <1>5, NoneAssumption DEF Set
<1>10. RolesOf(tx, None) = RolesAsked(d, None)
  BY <1>5, <1>7, RolesRead
<1>11. GetTxASADefinition(tx)
         = RolesAsked(d, None)
           ++ [total |-> Default(NonZero(Of(d, "total")), 0), asaName |-> p.asaName,
               defaultFrozen |-> Of(d, "defaultFrozen") = TRUE]
  BY <1>3, <1>5, <1>6, <1>9, <1>10 DEF GetTxASADefinition
<1>. QED  BY <1>1, <1>3, <1>5, <1>6, <1>7, <1>8, <1>9, <1>11 DEF CreationOf, d

\* The fields of a call of an application.
LEMMA AppFieldsMade ==
  ASSUME NEW p, NEW tx, p.type \in AppType, MadeOf(tx, p), NEW d,
         d = IF p.type = "DeployApp" THEN p.appDefinition ELSE p
  PROVE  /\ Of(tx, "apid") = NonZero(Of(p, "appID")) /\ tx.apid = NonZero(Of(p, "appID"))
         /\ Of(tx, "apan") = NonZero(OnCompletion[p.type])
         /\ tx.apan = NonZero(OnCompletion[p.type])
         /\ Of(tx, "apaa") = NonEmpty(ArgsOf(d)) /\ tx.apaa = NonEmpty(ArgsOf(d))
         /\ Of(tx, "apat") = NonEmpty(Of(d, "accounts"))
         /\ Of(tx, "close") = None /\ Of(tx, "aclose") = None
<1>. DEFINE f == AppFields(p, d)
            names == {"apid", "apan", "apaa", "apat", "apfa", "apas", "lx"}
            read == {"apid", "apan", "apaa", "apat"}
<1>1. /\ DOMAIN f = names /\ f["apid"] = NonZero(Of(p, "appID"))
      /\ f["apan"] = NonZero(OnCompletion[p.type]) /\ f["apaa"] = NonEmpty(ArgsOf(d))
      /\ f["apat"] = NonEmpty(Of(d, "accounts"))
  BY DEF AppFields
<1>2. \A x \in read \cup {"close", "aclose"} : x \notin CommonNames
  BY DEF CommonNames
<1>3. /\ \A x \in read : x \in DOMAIN Body(p) /\ Body(p)[x] = f[x]
      /\ \A x \in {"close", "aclose"} : x \notin DOMAIN Body(p)
  <2>1. DOMAIN Programs(d) = {"apap", "apsu"}
    BY DEF Programs
  <2>2. DOMAIN SchemaFields(d) = {"apls", "apgs", "apep"}
    BY DEF SchemaFields
  <2>3. \A x \in read : x \in DOMAIN f
    BY <1>1
  <2>4. \A x \in {"close", "aclose"} : x \notin DOMAIN f /\ x \notin DOMAIN Programs(d)
                                       /\ x \notin DOMAIN SchemaFields(d)
    BY <1>1, <2>1, <2>2
  <2>. HIDE DEF f, read
  <2>5. CASE p.type = "DeployApp"
    <3>1. Body(p) = f ++ (Programs(d) ++ SchemaFields(d))
      BY <2>5 DEF Body, f
    <3>. QED  BY <3>1, <2>3, <2>4, OfJoined
  <2>6. CASE p.type = "UpdateApp"
    <3>. DEFINE e == p.newAppCode
    <3>1. Body(p) = f ++ Programs(e)
      BY <2>6 DEF Body, f
    <3>2. DOMAIN Programs(e) = {"apap", "apsu"}
      BY DEF Programs
    <3>. HIDE DEF e
    <3>3. \A x \in {"close", "aclose"} : x \notin DOMAIN Programs(e)
      BY <3>2
    <3>. QED  BY <3>1, <3>3, <2>3, <2>4, OfJoined
  <2>7. CASE p.type \notin {"DeployApp", "UpdateApp"}
    <3>1. Body(p) = f
      BY <2>7 DEF Body, f, AppType, OnCompletion
    <3>. QED  BY <3>1, <2>3, <2>4
  <2>. QED  BY <2>5, <2>6, <2>7
<1>. HIDE DEF f
<1>4. \A x \in read : tx[x] = f[x] /\ Of(tx, x) = f[x]
  BY <1>2, <1>3, FieldOfMade
<1>5. \A x \in {"close", "aclose"} : Of(tx, x) = None
  BY <1>2, <1>3, FieldOfMade
<1>. QED  BY <1>1, <1>4, <1>5

\* A call of an application, or its creation.
LEMMA AppCallMeans ==
  ASSUME NEW p, NEW tx, p.type \in AppType, MadeOf(tx, p), IsParams(p)
  PROVE  Effect(tx) = AskedFor(p)
<1>. DEFINE d == IF p.type = "DeployApp" THEN p.appDefinition ELSE p
<1>0. AppType = {"CallApp", "DeployApp", "OptInToApp", "CloseApp", "ClearApp", "UpdateApp",
                 "DeleteApp"}
  BY DEF AppType, OnCompletion
<1>1. tx.type = "appl"
  BY <1>0, KindOfTransaction DEF MadeOf
<1>2. /\ Of(tx, "apid") = NonZero(Of(p, "appID")) /\ Of(tx, "apan") = NonZero(OnCompletion[p.type])
      /\ tx.apan = NonZero(OnCompletion[p.type])
      /\ Of(tx, "apaa") = NonEmpty(ArgsOf(d)) /\ Of(tx, "apat") = NonEmpty(Of(d, "accounts"))
  BY AppFieldsMade
<1>3. CASE p.type = "DeployApp"
  <2>1. Of(p, "appID") = None
    BY <1>3 DEF IsParams, Of
  <2>2. Of(tx, "apid") = None /\ Of(tx, "apan") = None
    BY <1>2, <1>3, <2>1, NoneAssumption DEF NonZero, OnCompletion
  <2>3. Effect(tx) = [op |-> "deployApp", args |-> Of(tx, "apaa")]
    BY <1>1, <2>2 DEF Effect, IsEncTxAssetCreate, IsEncTxAssetReconfigure, IsEncTxAssetDeletion,
                      IsEncTxApplicationCreate, Default
  <2>4. AskedFor(p) = [op |-> "deployApp", args |-> NonEmpty(ArgsOf(p.appDefinition))]
    BY <1>3 DEF AskedFor
  <2>. QED  BY <1>2, <1>3, <2>3, <2>4
<1>4. CASE p.type # "DeployApp"
  <2>1. Of(p, "appID") # None /\ Of(p, "appID") # 0
    BY <1>0, <1>4 DEF IsParams, Required
  <2>2. NonZero(Of(p, "appID")) = p.appID /\ p.appID # None
    BY <2>1, NumberRead, RequiredGiven
  <2>3. ~IsEncTxApplicationCreate(tx)
    BY <1>2, <2>2 DEF IsEncTxApplicationCreate
  <2>4. Effect(tx) = [op |-> IF Of(tx, "apan") = None THEN "callApp" ELSE AppOperation[tx.apan],
                      app |-> Of(tx, "apid"), args |-> Of(tx, "apaa"), accounts |-> Of(tx, "apat")]
    BY <1>1, <2>3 DEF Effect, IsEncTxAssetCreate, IsEncTxAssetReconfigure, IsEncTxAssetDeletion
  <2>5. AskedFor(p) = [op |-> OpOf[p.type], app |-> p.appID, args |-> NonEmpty(ArgsOf(p)),
                       accounts |-> NonEmpty(Of(p, "accounts"))]
    BY <1>0, <1>4 DEF AskedFor
  <2>6. (IF Of(tx, "apan") = None THEN "callApp" ELSE AppOperation[tx.apan]) = OpOf[p.type]
    <3>1. CASE p.type = "CallApp"
      BY <1>2, <3>1, NoneAssumption DEF NonZero, OnCompletion, OpOf
    <3>2. CASE p.type \in {"OptInToApp", "CloseApp", "ClearApp", "UpdateApp", "DeleteApp"}
      <4>1. OnCompletion[p.type] \in 1..5 /\ AppOperation[OnCompletion[p.type]] = OpOf[p.type]
        BY <3>2 DEF OnCompletion, OpOf, AppOperation
      <4>2. PICK n \in 1..5 : n = OnCompletion[p.type]
        BY <4>1
      <4>3. n # 0 /\ n # None
        BY NoneAssumption
      <4>4. Of(tx, "apan") = n /\ tx.apan = n
        BY <1>2, <4>2, <4>3 DEF NonZero
      <4>. QED  BY <4>1, <4>2, <4>3, <4>4
    <3>. QED  BY <1>0, <1>4, <3>1, <3>2
  <2>. QED  BY <1>2, <1>4, <2>2, <2>4, <2>5, <2>6
<1>. QED  BY <1>3, <1>4

\* What can be made means what was asked.
LEMMA EffectMeans ==
  ASSUME NEW p, NEW tx, MadeOf(tx, p), IsParams(p), CanMake(p)
  PROVE  Effect(tx) = AskedFor(p)
<1>1. CASE p.type = "TransferAlgo"
  <2>1. Of(p, "amountMicroAlgos") # None
    BY <1>1 DEF IsParams, Required, AppType, OnCompletion
  <2>. QED  BY <1>1, <2>1, PaymentMeans
<1>2. CASE p.type \in {"TransferAsset", "OptInASA"}
  BY <1>2, TransferMeans
<1>3. CASE p.type = "RevokeAsset"
  BY <1>3, RevocationMeans
<1>4. CASE p.type = "FreezeAsset"
  BY <1>4, FreezeMeans
<1>5. CASE p.type = "KeyRegistration"
  BY <1>5, RegistrationMeans
<1>6. CASE p.type \in {"ModifyAsset", "DestroyAsset"}
  BY <1>6, ChangeMeans
<1>7. CASE p.type = "DeployASA"
  <2>1. Effect(tx) = CreationOf(p.asaName, p.asaDef)
    BY <1>7, CreationMeans
  <2>2. Of(p.asaDef, "total") # None
    BY <1>7 DEF IsParams, CanMake
  <2>3. Default(NonZero(Of(p.asaDef, "total")), 0) = p.asaDef.total
    <3>. DEFINE d == p.asaDef
    <3>1. Of(d, "total") # None
      BY <2>2
    <3>. HIDE DEF d
    <3>2. Default(NonZero(Of(d, "total")), 0) = d.total
      BY <3>1, NumberRead, RequiredGiven
    <3>. QED  BY <3>2 DEF d
  <2>4. AskedFor(p) = [op |-> "deployASA",
                       def |-> RolesAsked(p.asaDef, None)
                               ++ [total |-> p.asaDef.total, asaName |-> p.asaName,
                                   defaultFrozen |-> Of(p.asaDef, "defaultFrozen") = TRUE]]
    BY <1>7 DEF AskedFor
  <2>. QED  BY <2>1, <2>3, <2>4 DEF CreationOf
<1>8. CASE p.type \in AppType
  BY <1>8, AppCallMeans
<1>. QED  BY <1>1, <1>2, <1>3, <1>4, <1>5, <1>6, <1>7, <1>8
          DEF IsParams, ParamTypes, PaymentType, TransferType, ConfigType

\* What signs the transactions of parameters.
SignOf(p) ==
  [sign |-> p.sign, fromAccount |-> Of(p, "fromAccount"),
   fromAccountAddr |-> Of(p, "fromAccountAddr")]

\* The parameters that are read from a transaction.
ReadOf(tx, p) == EncTxToExecParams(tx, SignOf(p))

SignNames == {"payFlags", "sign", "fromAccount", "fromAccountAddr"}

\* The conversion says who sends a payment, and nothing else that the
\* parameters hold.
Plain(c, tx) ==
  \A x \in SignNames \cap DOMAIN c : x = "fromAccountAddr" /\ c[x] = tx.snd

\* The fields that are read.
LEMMA ReadFields ==
  ASSUME NEW tx, NEW p, NEW c, c = Converted(tx), Plain(c, tx)
  PROVE  LET read == ReadOf(tx, p)
         IN  /\ \A x \in DOMAIN c : read[x] = c[x] /\ Of(read, x) = c[x]
             /\ \A x : x \notin DOMAIN c /\ x \notin SignNames =>
                  x \notin DOMAIN read /\ Of(read, x) = None
             /\ SignNames \subseteq DOMAIN read
             /\ read.payFlags = ConvertedFlags(tx) /\ read.sign = p.sign
             /\ read.fromAccount = Of(p, "fromAccount")
             /\ "fromAccountAddr" \notin DOMAIN c => read.fromAccountAddr = Of(p, "fromAccountAddr")
<1>. DEFINE g == [payFlags |-> ConvertedFlags(tx)]
            h == SignOf(p)
            read == ReadOf(tx, p)
<1>1. read = (c ++ g) ++ h
  BY DEF ReadOf, EncTxToExecParams
<1>2. DOMAIN g = {"payFlags"} /\ g["payFlags"] = ConvertedFlags(tx)
  OBVIOUS
<1>3. /\ DOMAIN h = {"sign", "fromAccount", "fromAccountAddr"} /\ h["sign"] = p.sign
      /\ h["fromAccount"] = Of(p, "fromAccount") /\ h["fromAccountAddr"] = Of(p, "fromAccountAddr")
  BY DEF SignOf
<1>. HIDE DEF g, h, read
<1>4. \A x : /\ Of(read, x) = IF x \in DOMAIN (c ++ g) THEN (c ++ g)[x] ELSE Of(h, x)
             /\ x \in DOMAIN read <=> x \in DOMAIN (c ++ g) \/ x \in DOMAIN h
             /\ x \in DOMAIN (c ++ g) => read[x] = (c ++ g)[x]
             /\ x \in DOMAIN h /\ x \notin DOMAIN (c ++ g) => read[x] = h[x]
  BY <1>1, OfJoined
<1>5. \A x : /\ x \in DOMAIN (c ++ g) <=> x \in DOMAIN c \/ x \in DOMAIN g
             /\ x \in DOMAIN c => (c ++ g)[x] = c[x]
             /\ x \in DOMAIN g /\ x \notin DOMAIN c => (c ++ g)[x] = g[x]
  BY OfJoined
<1>6. /\ "payFlags" \notin DOMAIN c /\ "sign" \notin DOMAIN c /\ "fromAccount" \notin DOMAIN c
  BY DEF Plain, SignNames
<1>7. \A x \in DOMAIN c : read[x] = c[x] /\ Of(read, x) = c[x]
  BY <1>4, <1>5
<1>8. ASSUME NEW x, x \notin DOMAIN c, x \notin SignNames
      PROVE  x \notin DOMAIN read /\ Of(read, x) = None
  <2>1. x \notin DOMAIN g /\ x \notin DOMAIN h
    BY <1>2, <1>3, <1>8 DEF SignNames
  <2>. QED  BY <1>4, <1>5, <1>8, <2>1 DEF Of
<1>9. read["payFlags"] = ConvertedFlags(tx) /\ read["sign"] = p.sign
      /\ read["fromAccount"] = Of(p, "fromAccount")
  BY <1>2, <1>3, <1>4, <1>5, <1>6
<1>10. "fromAccountAddr" \notin DOMAIN c => read["fromAccountAddr"] = Of(p, "fromAccountAddr")
  BY <1>2, <1>3, <1>4, <1>5
<1>11. SignNames \subseteq DOMAIN read
  BY <1>2, <1>3, <1>4, <1>5 DEF SignNames
<1>. QED  BY <1>7, <1>8, <1>9, <1>10, <1>11 DEF read

\* Who sends what is read is who sent it.
LEMMA SenderKept ==
  ASSUME NEW tx, NEW p, MadeOf(tx, p), IsParams(p), NEW c, c = Converted(tx), Plain(c, tx)
  PROVE  LET read == ReadOf(tx, p)
         IN  /\ GetFromAddress(read) = tx.snd
             /\ {"sign", "payFlags"} \subseteq DOMAIN read /\ read.sign \in Signs
             /\ Of(read, IF read.sign = "SecretKey" THEN "fromAccount" ELSE "fromAccountAddr") # None
<1>. DEFINE read == ReadOf(tx, p)
<1>1. /\ \A x \in DOMAIN c : read[x] = c[x]
      /\ SignNames \subseteq DOMAIN read /\ read.sign = p.sign
      /\ read.fromAccount = Of(p, "fromAccount")
      /\ "fromAccountAddr" \notin DOMAIN c => read.fromAccountAddr = Of(p, "fromAccountAddr")
  BY ReadFields
<1>. HIDE DEF read
<1>2. /\ p.sign \in Signs /\ tx.snd = GetFromAddress(p) /\ tx.snd # None
      /\ Of(p, IF p.sign = "SecretKey" THEN "fromAccount" ELSE "fromAccountAddr") # None
  BY SenderGiven DEF IsParams, MadeOf
<1>3. \A x \in SignNames : x \in DOMAIN read /\ Of(read, x) = read[x]
  BY <1>1 DEF Of
<1>4. Of(read, "fromAccount") = Of(p, "fromAccount")
  BY <1>1, <1>3 DEF SignNames
<1>5. CASE "fromAccountAddr" \in DOMAIN c
  <2>1. c["fromAccountAddr"] = tx.snd
    BY <1>5 DEF Plain, SignNames
  <2>2. read["fromAccountAddr"] = tx.snd /\ Of(read, "fromAccountAddr") = tx.snd
    BY <1>1, <1>3, <1>5, <2>1 DEF SignNames
  <2>. QED  BY <1>1, <1>2, <1>4, <2>2 DEF GetFromAddress, SignNames, read
<1>6. CASE "fromAccountAddr" \notin DOMAIN c
  <2>1. /\ read["fromAccountAddr"] = Of(p, "fromAccountAddr")
        /\ Of(read, "fromAccountAddr") = Of(p, "fromAccountAddr")
    BY <1>1, <1>3, <1>6 DEF SignNames
  <2>2. GetFromAddress(read) = GetFromAddress(p)
    <3>1. CASE p.sign = "SecretKey" /\ Of(p, "fromAccountAddr") = None
      <4>1. Of(p, "fromAccount") = p.fromAccount
        BY <1>2, <3>1, RequiredGiven
      <4>. QED  BY <1>1, <2>1, <3>1, <4>1 DEF GetFromAddress
    <3>2. CASE ~(p.sign = "SecretKey" /\ Of(p, "fromAccountAddr") = None)
      <4>1. Of(p, "fromAccountAddr") # None
        BY <1>2, <3>2
      <4>2. Of(p, "fromAccountAddr") = p.fromAccountAddr
        BY <4>1, RequiredGiven
      <4>. QED  BY <1>1, <2>1, <3>2, <4>1, <4>2 DEF GetFromAddress
    <3>. QED  BY <3>1, <3>2
  <2>. QED  BY <1>1, <1>2, <1>4, <2>1, <2>2 DEF SignNames, read
<1>. QED  BY <1>5, <1>6

\* What is read are parameters, if the conversion gives what is required.
LEMMA ReadIsParams ==
  ASSUME NEW tx, NEW p, MadeOf(tx, p), IsParams(p), NEW c, c = Converted(tx), Plain(c, tx),
         "type" \in DOMAIN c, c.type \in ParamTypes \ {"DeployASA", "DeployApp"},
         \A f \in Required(c.type) : f \in DOMAIN c /\ c[f] # None,
         "assetID" \in DOMAIN c => c.assetID # 0, "appID" \in DOMAIN c => c.appID # 0,
         c.type = "FreezeAsset" => "freezeState" \in DOMAIN c /\ c.freezeState \in BOOLEAN,
         c.type = "ModifyAsset" => "fields" \in DOMAIN c
  PROVE  IsParams(ReadOf(tx, p))
<1>. DEFINE read == ReadOf(tx, p)
<1>1. /\ {"sign", "payFlags"} \subseteq DOMAIN read /\ read.sign \in Signs
      /\ Of(read, IF read.sign = "SecretKey" THEN "fromAccount" ELSE "fromAccountAddr") # None
  BY SenderKept
<1>2. /\ \A x \in DOMAIN c : read[x] = c[x] /\ Of(read, x) = c[x]
      /\ \A x : x \notin DOMAIN c /\ x \notin SignNames => Of(read, x) = None
  BY ReadFields
<1>. HIDE DEF read
<1>3. read.type = c.type /\ Of(read, "type") = c.type
  BY <1>2
<1>4. \A x \in DOMAIN c : x \in DOMAIN read
  BY DEF read, ReadOf, EncTxToExecParams, ++
<1>5. \A f \in Required(read.type) : Of(read, f) # None
  BY <1>2, <1>3
<1>6. Of(read, "assetID") # 0 /\ Of(read, "appID") # 0
  <2>1. "assetID" \notin SignNames /\ "appID" \notin SignNames
    BY DEF SignNames
  <2>. QED  BY <1>2, <2>1, NoneAssumption
<1>7. read.type = "FreezeAsset" => read.freezeState \in BOOLEAN
  BY <1>2, <1>3
<1>. QED  BY <1>1, <1>3, <1>4, <1>5, <1>6, <1>7 DEF IsParams, read

\* The flags that are read.
LEMMA ReadFlags ==
  ASSUME NEW tx
  PROVE  /\ tx.type = "pay" => Of(ConvertedFlags(tx), "closeRemainderTo") = Of(tx, "close")
         /\ tx.type = "axfer" => Of(ConvertedFlags(tx), "closeRemainderTo") = Of(tx, "aclose")
<1>. DEFINE g == ConvertedFlags(tx)
<1>1. /\ "closeRemainderTo" \in DOMAIN g
      /\ tx.type = "pay" => g["closeRemainderTo"] = Of(tx, "close")
      /\ tx.type = "axfer" => g["closeRemainderTo"] = Of(tx, "aclose")
  BY DEF ConvertedFlags
<1>. HIDE DEF g
<1>2. Of(g, "closeRemainderTo") = g["closeRemainderTo"]
  BY <1>1 DEF Of
<1>. QED  BY <1>1, <1>2 DEF g

\* The expected effect of what is read.
SameEffect(tx) ==
  IF tx.type = "appl" THEN [Effect(tx) EXCEPT !.op = "callApp", !.accounts = None] ELSE Effect(tx)

\* A payment is read as it stands.
LEMMA PaymentRead ==
  ASSUME NEW tx, NEW p, p.type = "TransferAlgo", MadeOf(tx, p), IsParams(p)
  PROVE  LET read == ReadOf(tx, p)
         IN  /\ GetFromAddress(read) = tx.snd /\ IsParams(read)
             /\ AskedFor(read) = Effect(tx) /\ tx.type = "pay"
<1>. DEFINE read == ReadOf(tx, p)
            c == [type |-> "TransferAlgo", fromAccountAddr |-> tx.snd,
                  toAccountAddr |-> Default(Of(tx, "rcv"), ZeroAddress),
                  amountMicroAlgos |-> Default(Of(tx, "amt"), 0)]
<1>1. Of(p, "amountMicroAlgos") # None /\ Of(p, "toAccountAddr") # None
  BY DEF IsParams, Required, AppType, OnCompletion
<1>2. p["toAccountAddr"] # None
  BY <1>1, RequiredGiven
<1>3. tx.type = "pay" /\ Of(tx, "rcv") = p.toAccountAddr /\ tx.rcv = p.toAccountAddr
  BY <1>1, PaymentMeans
<1>4. c = Converted(tx)
  BY <1>3 DEF Converted, IsEncTxAssetDeletion, IsEncTxAssetConfig, IsEncTxApplicationCreate,
              IsEncTxApplicationCall
<1>5. /\ DOMAIN c = {"type", "fromAccountAddr", "toAccountAddr", "amountMicroAlgos"}
      /\ c["type"] = "TransferAlgo" /\ c["fromAccountAddr"] = tx.snd
      /\ c["toAccountAddr"] = Default(Of(tx, "rcv"), ZeroAddress)
      /\ c["amountMicroAlgos"] = Default(Of(tx, "amt"), 0)
  OBVIOUS
<1>. HIDE DEF c, read
<1>6. Plain(c, tx)
  BY <1>5 DEF Plain, SignNames
<1>7. c["toAccountAddr"] = tx.rcv /\ c["amountMicroAlgos"] # None /\ c["toAccountAddr"] # None
  BY <1>2, <1>3, <1>5, NoneAssumption DEF Default
<1>8. GetFromAddress(read) = tx.snd
  BY <1>4, <1>6, SenderKept DEF read
<1>9. IsParams(read)
  <2>1. c.type \in ParamTypes \ {"DeployASA", "DeployApp"}
    BY <1>5 DEF ParamTypes, PaymentType
  <2>2. Required(c.type) = {"toAccountAddr", "amountMicroAlgos"}
    BY <1>5 DEF Required, AppType, OnCompletion
  <2>3. \A f \in Required(c.type) : f \in DOMAIN c /\ c[f] # None
    BY <1>5, <1>7, <2>2
  <2>4. /\ "type" \in DOMAIN c /\ "assetID" \notin DOMAIN c /\ "appID" \notin DOMAIN c
        /\ c.type \notin {"FreezeAsset", "ModifyAsset"}
    BY <1>5
  <2>. QED  BY <1>4, <1>6, <2>1, <2>3, <2>4, ReadIsParams DEF read
<1>10. /\ read.type = "TransferAlgo" /\ read.toAccountAddr = tx.rcv
       /\ read.amountMicroAlgos = Default(Of(tx, "amt"), 0)
       /\ read.payFlags = ConvertedFlags(tx)
  <2>1. (\A x \in DOMAIN c : read[x] = c[x]) /\ read.payFlags = ConvertedFlags(tx)
    BY <1>4, <1>6, ReadFields DEF read
  <2>. QED  BY <1>5, <1>7, <2>1
<1>11. AskedFor(read) = [op |-> "transferAlgo", to |-> tx.rcv, amount |-> Default(Of(tx, "amt"), 0),
                         close |-> Of(tx, "close")]
  <2>1. AskedFor(read) = [op |-> "transferAlgo", to |-> read.toAccountAddr,
                          amount |-> read.amountMicroAlgos,
                          close |-> Of(read.payFlags, "closeRemainderTo")]
    BY <1>10 DEF AskedFor
  <2>. QED  BY <1>3, <1>10, <2>1, ReadFlags
<1>12. Effect(tx) = [op |-> "transferAlgo", to |-> tx.rcv, amount |-> Default(Of(tx, "amt"), 0),
                     close |-> Of(tx, "close")]
  BY <1>3 DEF Effect, IsEncTxAssetCreate, IsEncTxAssetReconfigure, IsEncTxAssetDeletion,
              IsEncTxApplicationCreate
<1>. QED  BY <1>3, <1>8, <1>9, <1>11, <1>12 DEF read

\* A transfer of an asset is read as it stands.
LEMMA TransferRead ==
  ASSUME NEW tx, NEW p, p.type \in {"TransferAsset", "OptInASA"}, MadeOf(tx, p), IsParams(p)
  PROVE  LET read == ReadOf(tx, p)
         IN  /\ GetFromAddress(read) = tx.snd /\ IsParams(read)
             /\ AskedFor(read) = Effect(tx) /\ tx.type = "axfer"
<1>. DEFINE read == ReadOf(tx, p)
            c == [type |-> "TransferAsset", toAccountAddr |-> Default(Of(tx, "arcv"), ZeroAddress),
                  amount |-> Default(Of(tx, "aamt"), 0), assetID |-> Default(Of(tx, "xaid"), 0)]
<1>1. Of(p, "assetID") # None /\ Of(p, "assetID") # 0
  BY DEF IsParams, Required, AppType, OnCompletion
<1>2. p["assetID"] # None /\ p["assetID"] = Of(p, "assetID")
  BY <1>1, RequiredGiven
<1>3. /\ tx.type = "axfer" /\ Of(tx, "asnd") = None /\ Of(tx, "arcv") # None
      /\ tx.arcv = Of(tx, "arcv") /\ Of(tx, "xaid") = p.assetID /\ tx.xaid = p.assetID
      /\ Of(tx, "aamt") # 0
  BY TransferMeans
<1>4. c = Converted(tx)
  BY <1>3 DEF Converted, IsEncTxAssetDeletion, IsEncTxAssetConfig, IsEncTxApplicationCreate,
              IsEncTxApplicationCall
<1>5. /\ DOMAIN c = {"type", "toAccountAddr", "amount", "assetID"}
      /\ c["type"] = "TransferAsset" /\ c["toAccountAddr"] = Default(Of(tx, "arcv"), ZeroAddress)
      /\ c["amount"] = Default(Of(tx, "aamt"), 0) /\ c["assetID"] = Default(Of(tx, "xaid"), 0)
  OBVIOUS
<1>. HIDE DEF c, read
<1>6. Plain(c, tx)
  BY <1>5 DEF Plain, SignNames
<1>7. /\ c["toAccountAddr"] = tx.arcv /\ c["amount"] # None /\ c["toAccountAddr"] # None
      /\ c["assetID"] = tx.xaid /\ c["assetID"] # 0 /\ c["assetID"] # None
  BY <1>1, <1>2, <1>3, <1>5, NoneAssumption DEF Default
<1>8. GetFromAddress(read) = tx.snd
  BY <1>4, <1>6, SenderKept DEF read
<1>9. IsParams(read)
  <2>1. c.type \in ParamTypes \ {"DeployASA", "DeployApp"}
    BY <1>5 DEF ParamTypes, TransferType
  <2>2. Required(c.type) = {"toAccountAddr", "amount", "assetID"}
    BY <1>5 DEF Required, AppType, OnCompletion
  <2>3. \A f \in Required(c.type) : f \in DOMAIN c /\ c[f] # None
    BY <1>5, <1>7, <2>2
  <2>4. /\ "type" \in DOMAIN c /\ c.assetID # 0 /\ "appID" \notin DOMAIN c
        /\ c.type \notin {"FreezeAsset", "ModifyAsset"}
    BY <1>5, <1>7
  <2>. QED  BY <1>4, <1>6, <2>1, <2>3, <2>4, ReadIsParams DEF read
<1>10. /\ read.type = "TransferAsset" /\ read.toAccountAddr = tx.arcv
       /\ read.amount = Default(Of(tx, "aamt"), 0) /\ read.assetID = tx.xaid
       /\ read.payFlags = ConvertedFlags(tx)
  <2>1. (\A x \in DOMAIN c : read[x] = c[x]) /\ read.payFlags = ConvertedFlags(tx)
    BY <1>4, <1>6, ReadFields DEF read
  <2>. QED  BY <1>5, <1>7, <2>1
<1>11. AskedFor(read) = [op |-> IF Default(Of(tx, "aamt"), 0) = 0 /\ tx.arcv = tx.snd
                                THEN "optInToASA" ELSE "transferAsset",
                         asset |-> tx.xaid, to |-> tx.arcv, amount |-> Default(Of(tx, "aamt"), 0),
                         close |-> Of(tx, "aclose")]
  <2>1. AskedFor(read) = [op |-> IF read.amount = 0 /\ read.toAccountAddr = GetFromAddress(read)
                                 THEN "optInToASA" ELSE "transferAsset",
                          asset |-> read.assetID, to |-> read.toAccountAddr, amount |-> read.amount,
                          close |-> Of(read.payFlags, "closeRemainderTo")]
    BY <1>10 DEF AskedFor
  <2>. QED  BY <1>3, <1>8, <1>10, <2>1, ReadFlags
<1>12. Effect(tx) = [op |-> IF IsEncTxAssetOptIn(tx) /\ Of(tx, "aamt") = None
                            THEN "optInToASA" ELSE "transferAsset",
                     asset |-> tx.xaid, to |-> tx.arcv, amount |-> Default(Of(tx, "aamt"), 0),
                     close |-> Of(tx, "aclose")]
  <2>1. IsEncTxAssetTransfer(tx)
    BY <1>3 DEF IsEncTxAssetTransfer
  <2>. QED  BY <1>3, <2>1 DEF Effect, IsEncTxAssetCreate, IsEncTxAssetReconfigure,
                 IsEncTxAssetDeletion, IsEncTxApplicationCreate, IsEncTxAssetRevoke
<1>13. /\ IsEncTxAssetOptIn(tx) <=> tx.arcv = tx.snd
       /\ Of(tx, "aamt") = None <=> Default(Of(tx, "aamt"), 0) = 0
  BY <1>3 DEF IsEncTxAssetOptIn, Default
<1>. QED  BY <1>3, <1>8, <1>9, <1>11, <1>12, <1>13 DEF read

\* A revocation is read as it stands.
LEMMA RevocationRead ==
  ASSUME NEW tx, NEW p, p.type = "RevokeAsset", MadeOf(tx, p), IsParams(p)
  PROVE  LET read == ReadOf(tx, p)
         IN  /\ GetFromAddress(read) = tx.snd /\ IsParams(read)
             /\ AskedFor(read) = Effect(tx) /\ tx.type = "axfer"
<1>. DEFINE read == ReadOf(tx, p)
            c == [type |-> "RevokeAsset", recipient |-> Default(Of(tx, "arcv"), ZeroAddress),
                  revocationTarget |-> tx.asnd, amount |-> Default(Of(tx, "aamt"), 0),
                  assetID |-> Default(Of(tx, "xaid"), 0)]
<1>1. Of(p, "assetID") # None /\ Of(p, "assetID") # 0
  BY DEF IsParams, Required, AppType, OnCompletion
<1>2. p["assetID"] # None /\ p["assetID"] = Of(p, "assetID")
  BY <1>1, RequiredGiven
<1>3. /\ tx.type = "axfer" /\ Of(tx, "asnd") # None /\ Of(tx, "arcv") # None
      /\ tx.asnd = Of(tx, "asnd")
      /\ tx.arcv = Of(tx, "arcv") /\ Of(tx, "xaid") = p.assetID /\ tx.xaid = p.assetID
  BY RevocationMeans
<1>4. c = Converted(tx)
  BY <1>3 DEF Converted, IsEncTxAssetDeletion, IsEncTxAssetConfig, IsEncTxApplicationCreate,
              IsEncTxApplicationCall
<1>5. /\ DOMAIN c = {"type", "recipient", "revocationTarget", "amount", "assetID"}
      /\ c["type"] = "RevokeAsset" /\ c["recipient"] = Default(Of(tx, "arcv"), ZeroAddress)
      /\ c["revocationTarget"] = tx.asnd
      /\ c["amount"] = Default(Of(tx, "aamt"), 0) /\ c["assetID"] = Default(Of(tx, "xaid"), 0)
  OBVIOUS
<1>. HIDE DEF c, read
<1>6. Plain(c, tx)
  BY <1>5 DEF Plain, SignNames
<1>7. /\ c["recipient"] = tx.arcv /\ c["amount"] # None /\ c["recipient"] # None
      /\ c["revocationTarget"] # None
      /\ c["assetID"] = tx.xaid /\ c["assetID"] # 0 /\ c["assetID"] # None
  BY <1>1, <1>2, <1>3, <1>5, NoneAssumption DEF Default
<1>8. GetFromAddress(read) = tx.snd
  BY <1>4, <1>6, SenderKept DEF read
<1>9. IsParams(read)
  <2>1. c.type \in ParamTypes \ {"DeployASA", "DeployApp"}
    BY <1>5 DEF ParamTypes, TransferType
  <2>2. Required(c.type) = {"recipient", "revocationTarget", "amount", "assetID"}
    BY <1>5 DEF Required, AppType, OnCompletion
  <2>3. \A f \in Required(c.type) : f \in DOMAIN c /\ c[f] # None
    BY <1>5, <1>7, <2>2
  <2>4. /\ "type" \in DOMAIN c /\ c.assetID # 0 /\ "appID" \notin DOMAIN c
        /\ c.type \notin {"FreezeAsset", "ModifyAsset"}
    BY <1>5, <1>7
  <2>. QED  BY <1>4, <1>6, <2>1, <2>3, <2>4, ReadIsParams DEF read
<1>10. /\ read.type = "RevokeAsset" /\ read.recipient = tx.arcv /\ read.revocationTarget = tx.asnd
       /\ read.amount = Default(Of(tx, "aamt"), 0) /\ read.assetID = tx.xaid
       /\ read.payFlags = ConvertedFlags(tx)
  <2>1. (\A x \in DOMAIN c : read[x] = c[x]) /\ read.payFlags = ConvertedFlags(tx)
    BY <1>4, <1>6, ReadFields DEF read
  <2>. QED  BY <1>5, <1>7, <2>1
<1>11. AskedFor(read) = [op |-> IF Of(tx, "aclose") = None THEN "revokeAsset" ELSE "throw",
                         asset |-> tx.xaid, to |-> tx.arcv, amount |-> Default(Of(tx, "aamt"), 0),
                         target |-> tx.asnd]
  <2>1. AskedFor(read) = [op |-> IF Of(read.payFlags, "closeRemainderTo") = None
                                 THEN "revokeAsset" ELSE "throw",
                          asset |-> read.assetID, to |-> read.recipient, amount |-> read.amount,
                          target |-> read.revocationTarget]
    BY <1>10 DEF AskedFor
  <2>. QED  BY <1>3, <1>10, <2>1, ReadFlags
<1>12. Effect(tx) = [op |-> IF Of(tx, "aclose") # None THEN "throw" ELSE "revokeAsset",
                     asset |-> tx.xaid, to |-> tx.arcv, amount |-> Default(Of(tx, "aamt"), 0),
                     target |-> tx.asnd]
  BY <1>3 DEF Effect, IsEncTxAssetCreate, IsEncTxAssetReconfigure,
       IsEncTxAssetDeletion, IsEncTxApplicationCreate, IsEncTxAssetRevoke, IsEncTxAssetTransfer
<1>. QED  BY <1>3, <1>8, <1>9, <1>11, <1>12 DEF read

\* A freeze is read as it stands.
LEMMA FreezeRead ==
  ASSUME NEW tx, NEW p, p.type = "FreezeAsset", MadeOf(tx, p), IsParams(p)
  PROVE  LET read == ReadOf(tx, p)
         IN  /\ GetFromAddress(read) = tx.snd /\ IsParams(read)
             /\ AskedFor(read) = Effect(tx) /\ tx.type = "afrz"
<1>. DEFINE read == ReadOf(tx, p)
            c == [type |-> "FreezeAsset", assetID |-> Of(tx, "faid"), freezeTarget |-> Of(tx, "fadd"),
                  freezeState |-> Of(tx, "afrz") = TRUE]
<1>1. Of(p, "assetID") # None /\ Of(p, "assetID") # 0 /\ Of(p, "freezeTarget") # None
  BY DEF IsParams, Required, AppType, OnCompletion
<1>2. p["assetID"] = Of(p, "assetID") /\ p["freezeTarget"] = Of(p, "freezeTarget")
  BY <1>1, RequiredGiven
<1>3. /\ tx.type = "afrz" /\ Of(tx, "faid") = p.assetID /\ tx.faid = p.assetID
      /\ Of(tx, "fadd") = p.freezeTarget /\ tx.fadd = p.freezeTarget
  BY FreezeMeans
<1>4. c = Converted(tx)
  BY <1>3 DEF Converted, IsEncTxAssetDeletion, IsEncTxAssetConfig, IsEncTxApplicationCreate,
              IsEncTxApplicationCall
<1>5. /\ DOMAIN c = {"type", "assetID", "freezeTarget", "freezeState"}
      /\ c["type"] = "FreezeAsset" /\ c["assetID"] = Of(tx, "faid")
      /\ c["freezeTarget"] = Of(tx, "fadd") /\ c["freezeState"] = (Of(tx, "afrz") = TRUE)
      /\ c["freezeState"] \in BOOLEAN
  OBVIOUS
<1>. HIDE DEF c, read
<1>6. Plain(c, tx)
  BY <1>5 DEF Plain, SignNames
<1>7. /\ c["assetID"] = tx.faid /\ c["assetID"] # 0 /\ c["assetID"] # None
      /\ c["freezeTarget"] = tx.fadd /\ c["freezeTarget"] # None
  BY <1>1, <1>2, <1>3, <1>5
<1>8. GetFromAddress(read) = tx.snd
  BY <1>4, <1>6, SenderKept DEF read
<1>9. IsParams(read)
  <2>1. c.type \in ParamTypes \ {"DeployASA", "DeployApp"}
    BY <1>5 DEF ParamTypes
  <2>2. Required(c.type) = {"freezeTarget", "assetID"}
    BY <1>5 DEF Required, AppType, OnCompletion
  <2>3. \A f \in Required(c.type) : f \in DOMAIN c /\ c[f] # None
    BY <1>5, <1>7, <2>2
  <2>4. /\ "type" \in DOMAIN c /\ c.assetID # 0 /\ "appID" \notin DOMAIN c
        /\ "freezeState" \in DOMAIN c /\ c.freezeState \in BOOLEAN
        /\ c.type # "ModifyAsset"
    BY <1>5, <1>7
  <2>. QED  BY <1>4, <1>6, <2>1, <2>3, <2>4, ReadIsParams DEF read
<1>10. /\ read.type = "FreezeAsset" /\ read.assetID = tx.faid /\ read.freezeTarget = tx.fadd
       /\ read.freezeState = (Of(tx, "afrz") = TRUE)
  <2>1. \A x \in DOMAIN c : read[x] = c[x]
    BY <1>4, <1>6, ReadFields DEF read
  <2>. QED  BY <1>5, <1>7, <2>1
<1>11. AskedFor(read) = [op |-> "freezeAsset", asset |-> tx.faid, target |-> tx.fadd,
                         state |-> Of(tx, "afrz") = TRUE]
  <2>1. AskedFor(read) = [op |-> "freezeAsset", asset |-> read.assetID,
                          target |-> read.freezeTarget, state |-> read.freezeState]
    BY <1>10 DEF AskedFor
  <2>. QED  BY <1>10, <2>1
<1>12. Effect(tx) = [op |-> "freezeAsset", asset |-> tx.faid, target |-> tx.fadd,
                     state |-> Of(tx, "afrz") = TRUE]
  BY <1>3 DEF Effect, IsEncTxAssetCreate, IsEncTxAssetReconfigure,
              IsEncTxAssetDeletion, IsEncTxApplicationCreate
<1>. QED  BY <1>3, <1>8, <1>9, <1>11, <1>12 DEF read

\* Asking twice for addresses changes nothing.
LEMMA AskedTwice ==
  ASSUME NEW d, NEW e, NEW missing, \A r \in {AssetRoles[a] : a \in DOMAIN AssetRoles} :
           Of(e, r) = RolesAsked(d, Blank)[r]
  PROVE  RolesAsked(e, missing) = RolesAsked(d, missing)
<1>. DEFINE R == {AssetRoles[a] : a \in DOMAIN AssetRoles}
            asked(x, m, r) == IF Of(x, r) \in {None, Blank} THEN m ELSE x[r]
<1>1. \A x, m : RolesAsked(x, m) = [r \in R |-> asked(x, m, r)]
  BY DEF RolesAsked
<1>2. ASSUME NEW r \in R
      PROVE  asked(e, missing, r) = asked(d, missing, r)
  <2>1. RolesAsked(d, Blank)[r] = asked(d, Blank, r)
    BY <1>1
  <2>2. Of(e, r) = IF Of(d, r) \in {None, Blank} THEN Blank ELSE d[r]
    BY <2>1
  <2>3. /\ Of(e, r) # None => e[r] = Of(e, r)
        /\ Of(d, r) # None => d[r] = Of(d, r)
    BY RequiredGiven
  <2>. QED  BY <2>2, <2>3
<1>. HIDE DEF R, asked
<1>. QED  BY <1>1, <1>2

\* A change of the addresses of an asset, and its end, are read as they stand.
LEMMA ChangeRead ==
  ASSUME NEW tx, NEW p, p.type \in {"ModifyAsset", "DestroyAsset"}, MadeOf(tx, p), IsParams(p)
  PROVE  LET read == ReadOf(tx, p)
         IN  /\ GetFromAddress(read) = tx.snd /\ IsParams(read)
             /\ AskedFor(read) = Effect(tx) /\ tx.type = "acfg"
<1>. DEFINE read == ReadOf(tx, p)
<1>1. Of(p, "assetID") # None /\ Of(p, "assetID") # 0
  BY DEF IsParams, Required, AppType, OnCompletion
<1>2. p["assetID"] = Of(p, "assetID")
  BY <1>1, RequiredGiven
<1>3. /\ tx.type = "acfg" /\ HasAsset(tx) /\ tx.caid = p.assetID
      /\ SetRoles(tx) # {} => \E d : /\ RolesOf(tx, Blank) = RolesAsked(d, Blank)
                                     /\ RolesAsked(d, Blank) # RolesAsked(<<>>, Blank)
  BY ChangeMeans
<1>4. Of(tx, "caid") # None
  BY <1>3 DEF HasAsset
<1>. HIDE DEF read
<1>5. CASE SetRoles(tx) = {}
  <2>. DEFINE c == [type |-> "DestroyAsset", assetID |-> tx.caid]
  <2>1. c = Converted(tx)
    BY <1>3, <1>5 DEF Converted, IsEncTxAssetDeletion, IsEncTxAssetConfig, IsEncTxApplicationCreate,
                      IsEncTxApplicationCall
  <2>2. DOMAIN c = {"type", "assetID"} /\ c["type"] = "DestroyAsset" /\ c["assetID"] = tx.caid
    OBVIOUS
  <2>. HIDE DEF c
  <2>3. Plain(c, tx)
    BY <2>2 DEF Plain, SignNames
  <2>4. GetFromAddress(read) = tx.snd
    BY <2>1, <2>3, SenderKept DEF read
  <2>5. IsParams(read)
    <3>1. c.type \in ParamTypes \ {"DeployASA", "DeployApp"}
      BY <2>2 DEF ParamTypes, ConfigType
    <3>2. Required(c.type) = {"assetID"}
      BY <2>2 DEF Required, AppType, OnCompletion
    <3>3. \A f \in Required(c.type) : f \in DOMAIN c /\ c[f] # None
      BY <1>1, <1>2, <1>3, <2>2, <3>2
    <3>4. /\ "type" \in DOMAIN c /\ c.assetID # 0 /\ "appID" \notin DOMAIN c
          /\ c.type \notin {"FreezeAsset", "ModifyAsset"}
      BY <1>1, <1>2, <1>3, <2>2
    <3>. QED  BY <2>1, <2>3, <3>1, <3>3, <3>4, ReadIsParams DEF read
  <2>6. read.type = "DestroyAsset" /\ read.assetID = tx.caid
    <3>1. \A x \in DOMAIN c : read[x] = c[x]
      BY <2>1, <2>3, ReadFields DEF read
    <3>. QED  BY <2>2, <3>1
  <2>7. AskedFor(read) = [op |-> "destroyAsset", asset |-> read.assetID]
    BY <2>6 DEF AskedFor
  <2>8. Effect(tx) = [op |-> "destroyAsset", asset |-> tx.caid]
    BY <1>3, <1>4, <1>5 DEF Effect, IsEncTxAssetCreate, IsEncTxAssetReconfigure,
         IsEncTxAssetDeletion, IsEncTxApplicationCreate
  <2>. QED  BY <1>3, <2>4, <2>5, <2>6, <2>7, <2>8 DEF read
<1>6. CASE SetRoles(tx) # {}
  <2>. DEFINE fields == RolesOf(tx, Blank)
              c == [type |-> "ModifyAsset", assetID |-> tx.caid, fields |-> fields]
  <2>0. PICK d : fields = RolesAsked(d, Blank) /\ RolesAsked(d, Blank) # RolesAsked(<<>>, Blank)
    BY <1>3, <1>6
  <2>1. c = Converted(tx)
    BY <1>3, <1>6 DEF Converted, IsEncTxAssetDeletion, IsEncTxAssetConfig, IsEncTxApplicationCreate,
                      IsEncTxApplicationCall
  <2>. HIDE DEF fields
  <2>2. /\ DOMAIN c = {"type", "assetID", "fields"} /\ c["type"] = "ModifyAsset"
        /\ c["assetID"] = tx.caid /\ c["fields"] = fields
    OBVIOUS
  <2>. HIDE DEF c
  <2>3. Plain(c, tx)
    BY <2>2 DEF Plain, SignNames
  <2>4. GetFromAddress(read) = tx.snd
    BY <2>1, <2>3, SenderKept DEF read
  <2>5. IsParams(read)
    <3>1. c.type \in ParamTypes \ {"DeployASA", "DeployApp"}
      BY <2>2 DEF ParamTypes, ConfigType
    <3>2. Required(c.type) = {"assetID"}
      BY <2>2 DEF Required, AppType, OnCompletion
    <3>3. \A f \in Required(c.type) : f \in DOMAIN c /\ c[f] # None
      BY <1>1, <1>2, <1>3, <2>2, <3>2
    <3>4. "type" \in DOMAIN c /\ c.assetID # 0 /\ "appID" \notin DOMAIN c /\ "fields" \in DOMAIN c
      BY <1>1, <1>2, <1>3, <2>2
    <3>5. c.type # "FreezeAsset"
      BY <2>2
    <3>. QED  BY <2>1, <2>3, <3>1, <3>3, <3>4, <3>5, ReadIsParams DEF read
  <2>6. read.type = "ModifyAsset" /\ read.assetID = tx.caid /\ read.fields = fields
    <3>1. \A x \in DOMAIN c : read[x] = c[x]
      BY <2>1, <2>3, ReadFields DEF read
    <3>. QED  BY <2>2, <3>1
  <2>7. RolesAsked(fields, Blank) = fields
    <3>1. ASSUME NEW r \in {AssetRoles[a] : a \in DOMAIN AssetRoles}
          PROVE  Of(fields, r) = RolesAsked(d, Blank)[r]
      BY <2>0 DEF RolesAsked, Of
    <3>. QED  BY <2>0, <3>1, AskedTwice
  <2>8. AskedFor(read) = [op |-> "modifyAsset", asset |-> tx.caid, fields |-> fields]
    <3>1. RolesAsked(read.fields, Blank) = fields
      BY <2>6, <2>7
    <3>2. RolesAsked(read.fields, Blank) # RolesAsked(<<>>, Blank)
      BY <2>0, <3>1
    <3>3. AskedFor(read) = [op |-> "modifyAsset", asset |-> read.assetID,
                            fields |-> RolesAsked(read.fields, Blank)]
      BY <2>6, <3>2 DEF AskedFor
    <3>. QED  BY <2>6, <3>1, <3>3
  <2>9. Effect(tx) = [op |-> "modifyAsset", asset |-> tx.caid, fields |-> fields]
    BY <1>3, <1>4, <1>6 DEF Effect, IsEncTxAssetCreate, IsEncTxAssetReconfigure,
         IsEncTxAssetDeletion, IsEncTxApplicationCreate, GetAssetReconfigureFields, fields
  <2>. QED  BY <1>3, <2>4, <2>5, <2>8, <2>9 DEF read
<1>. QED  BY <1>5, <1>6

\* A plain call of an application that names no accounts is read as it stands.
LEMMA AppCallRead ==
  ASSUME NEW tx, NEW p, p.type \in AppType \ {"DeployApp"}, MadeOf(tx, p), IsParams(p)
  PROVE  LET read == ReadOf(tx, p)
         IN  /\ GetFromAddress(read) = tx.snd /\ IsParams(read) /\ tx.type = "appl"
             /\ Effect(tx).op = "callApp" /\ Effect(tx).accounts = None
                  => AskedFor(read) = Effect(tx)
<1>. DEFINE read == ReadOf(tx, p)
            first == [type |-> "CallApp", appID |-> tx.apid]
            args == [k \in DOMAIN tx.apaa |-> [kind |-> "bytes", value |-> tx.apaa[k]]]
            second == IF Of(tx, "apaa") = None THEN <<>> ELSE [appArgs |-> args]
            c == first ++ second
<1>0. AppType = {"CallApp", "DeployApp", "OptInToApp", "CloseApp", "ClearApp", "UpdateApp",
                 "DeleteApp"}
  BY DEF AppType, OnCompletion
<1>1. Of(p, "appID") # None /\ Of(p, "appID") # 0
  BY <1>0 DEF IsParams, Required
<1>2. p["appID"] = Of(p, "appID") /\ NonZero(Of(p, "appID")) = Of(p, "appID")
  BY <1>1, RequiredGiven, NumberRead
<1>3. tx.type = "appl"
  BY <1>0, KindOfTransaction DEF MadeOf
<1>4. /\ Of(tx, "apid") = p.appID /\ tx.apid = p.appID
      /\ Of(tx, "apaa") = NonEmpty(ArgsOf(p)) /\ tx.apaa = NonEmpty(ArgsOf(p))
  BY <1>2, AppFieldsMade
<1>5. ~IsEncTxApplicationCreate(tx) /\ IsEncTxApplicationCall(tx)
  BY <1>1, <1>2, <1>3, <1>4 DEF IsEncTxApplicationCreate, IsEncTxApplicationCall
<1>6. c = Converted(tx)
  BY <1>3, <1>5 DEF Converted, IsEncTxAssetDeletion, IsEncTxAssetConfig
<1>7. /\ DOMAIN first = {"type", "appID"} /\ first["type"] = "CallApp" /\ first["appID"] = tx.apid
  OBVIOUS
<1>8. /\ Of(tx, "apaa") = None => DOMAIN second = {}
      /\ Of(tx, "apaa") # None => DOMAIN second = {"appArgs"} /\ second["appArgs"] = args
  OBVIOUS
<1>. HIDE DEF c, read, first, second
<1>9. /\ c["type"] = "CallApp" /\ c["appID"] = tx.apid
      /\ \A x \in DOMAIN c : x \in {"type", "appID", "appArgs"}
      /\ "type" \in DOMAIN c /\ "appID" \in DOMAIN c
      /\ "appArgs" \in DOMAIN c <=> Of(tx, "apaa") # None
      /\ Of(tx, "apaa") # None => c["appArgs"] = args
  <2>1. \A x : /\ x \in DOMAIN c <=> x \in DOMAIN first \/ x \in DOMAIN second
               /\ x \in DOMAIN first => c[x] = first[x]
               /\ x \in DOMAIN second /\ x \notin DOMAIN first => c[x] = second[x]
    BY OfJoined DEF c
  <2>. HIDE DEF args
  <2>2. "appArgs" \notin DOMAIN first
    BY <1>7
  <2>. QED  BY <1>7, <1>8, <2>1, <2>2
<1>10. Plain(c, tx)
  BY <1>9 DEF Plain, SignNames
<1>11. GetFromAddress(read) = tx.snd
  BY <1>6, <1>10, SenderKept DEF read
<1>12. IsParams(read)
  <2>1. c.type \in ParamTypes \ {"DeployASA", "DeployApp"}
    BY <1>0, <1>9 DEF ParamTypes
  <2>2. Required(c.type) = {"appID"}
    BY <1>0, <1>9 DEF Required
  <2>3. \A f \in Required(c.type) : f \in DOMAIN c /\ c[f] # None
    BY <1>1, <1>2, <1>4, <1>9, <2>2
  <2>4. /\ "type" \in DOMAIN c /\ c.appID # 0 /\ "assetID" \notin DOMAIN c
        /\ c.type \notin {"FreezeAsset", "ModifyAsset"}
    BY <1>1, <1>2, <1>4, <1>9
  <2>. QED  BY <1>6, <1>10, <2>1, <2>3, <2>4, ReadIsParams DEF read
<1>13. /\ read.type = "CallApp" /\ read.appID = tx.apid
       /\ "appArgs" \in DOMAIN read <=> Of(tx, "apaa") # None
       /\ Of(tx, "apaa") # None => read.appArgs = args
       /\ Of(read, "accounts") = None
  <2>1. /\ \A x \in DOMAIN c : read[x] = c[x]
        /\ \A x : x \notin DOMAIN c /\ x \notin SignNames => x \notin DOMAIN read /\ Of(read, x) = None
    BY <1>6, <1>10, ReadFields DEF read
  <2>2. \A x \in DOMAIN c : x \in DOMAIN read
    BY <1>6 DEF read, ReadOf, EncTxToExecParams, ++
  <2>3. "appArgs" \notin SignNames /\ "accounts" \notin SignNames /\ "accounts" \notin DOMAIN c
    BY <1>9 DEF SignNames
  <2>. HIDE DEF args
  <2>. QED  BY <1>9, <2>1, <2>2, <2>3
<1>14. NonEmpty(ArgsOf(read)) = Of(tx, "apaa")
  <2>1. CASE Of(tx, "apaa") = None
    <3>1. ArgsOf(read) = <<>>
      BY <1>13, <2>1 DEF ArgsOf
    <3>. QED  BY <2>1, <3>1 DEF NonEmpty
  <2>2. CASE Of(tx, "apaa") # None
    <3>1. tx.apaa = ArgsOf(p) /\ ArgsOf(p) # <<>> /\ Of(tx, "apaa") = tx.apaa
      BY <1>4, <2>2 DEF NonEmpty
    <3>2. ArgsOf(p) = [k \in DOMAIN p.appArgs |-> ParseArg(p.appArgs[k])]
      BY <3>1 DEF ArgsOf, ParseAppArgs
    <3>3. ArgsOf(p) = [k \in DOMAIN ArgsOf(p) |-> ArgsOf(p)[k]]
      BY <3>2
    <3>4. ArgsOf(read) = [k \in DOMAIN args |-> ParseArg(args[k])]
      BY <1>13, <2>2 DEF ArgsOf, ParseAppArgs
    <3>5. DOMAIN args = DOMAIN tx.apaa /\ \A k \in DOMAIN tx.apaa : ParseArg(args[k]) = tx.apaa[k]
      BY DEF ParseArg
    <3>. HIDE DEF args
    <3>6. ArgsOf(read) = [k \in DOMAIN tx.apaa |-> tx.apaa[k]]
      BY <3>4, <3>5
    <3>7. ArgsOf(read) = tx.apaa
      BY <3>1, <3>3, <3>6
    <3>. QED  BY <3>1, <3>7 DEF NonEmpty
  <2>. QED  BY <2>1, <2>2
<1>15. AskedFor(read) = [op |-> "callApp", app |-> tx.apid, args |-> Of(tx, "apaa"),
                         accounts |-> None]
  <2>1. AskedFor(read) = [op |-> OpOf["CallApp"], app |-> read.appID,
                          args |-> NonEmpty(ArgsOf(read)),
                          accounts |-> NonEmpty(Of(read, "accounts"))]
    BY <1>13 DEF AskedFor
  <2>2. OpOf["CallApp"] = "callApp" /\ NonEmpty(None) = None
    BY DEF OpOf, NonEmpty
  <2>. QED  BY <1>13, <1>14, <2>1, <2>2
<1>16. \E op, accounts : Effect(tx) = [op |-> op, app |-> tx.apid, args |-> Of(tx, "apaa"),
                                       accounts |-> accounts]
  <2>1. Effect(tx) = [op |-> IF Of(tx, "apan") = None THEN "callApp" ELSE AppOperation[tx.apan],
                      app |-> Of(tx, "apid"), args |-> Of(tx, "apaa"), accounts |-> Of(tx, "apat")]
    BY <1>3, <1>5 DEF Effect, IsEncTxAssetCreate, IsEncTxAssetReconfigure, IsEncTxAssetDeletion
  <2>. QED  BY <1>4, <2>1
<1>17. Effect(tx).op = "callApp" /\ Effect(tx).accounts = None => AskedFor(read) = Effect(tx)
  BY <1>15, <1>16
<1>. QED  BY <1>3, <1>11, <1>12, <1>15, <1>17 DEF read

\* The creation of an asset is read as it stands.
LEMMA CreationRead ==
  ASSUME NEW tx, NEW p, p.type = "DeployASA", MadeOf(tx, p), IsParams(p),
         NEW again, MadeOf(again, ReadOf(tx, p))
  PROVE  GetFromAddress(ReadOf(tx, p)) = tx.snd /\ Effect(again) = Effect(tx) /\ tx.type = "acfg"
<1>. DEFINE read == ReadOf(tx, p)
            d == p.asaDef
            roles == RolesOf(tx, Blank)
            rest == [total |-> Of(ConfigOf(tx), "t"), unitName |-> Of(ConfigOf(tx), "un"),
                     decimals |-> Default(Of(ConfigOf(tx), "dc"), 0),
                     defaultFrozen |-> Of(ConfigOf(tx), "df") = TRUE]
            def == roles ++ rest
            c == [type |-> "DeployASA", asaName |-> Of(ConfigOf(tx), "an"), asaDef |-> def]
            R == {AssetRoles[a] : a \in DOMAIN AssetRoles}
<1>1. /\ Effect(tx) = CreationOf(p.asaName, d) /\ tx.type = "acfg" /\ ~HasAsset(tx)
      /\ \A a \in DOMAIN AssetRoles : Of(ConfigOf(tx), a) = Of(RoleParams(d), a)
      /\ Of(ConfigOf(tx), "an") = p.asaName
      /\ Of(ConfigOf(tx), "t") = NonZero(Of(d, "total"))
      /\ (Of(ConfigOf(tx), "df") = TRUE) = (Of(d, "defaultFrozen") = TRUE)
  BY CreationMeans
<1>2. c = Converted(tx)
  BY <1>1 DEF Converted, IsEncTxAssetDeletion, IsEncTxAssetConfig, IsEncTxApplicationCreate,
              IsEncTxApplicationCall
<1>3. /\ DOMAIN rest = {"total", "unitName", "decimals", "defaultFrozen"}
      /\ rest["total"] = Of(ConfigOf(tx), "t")
      /\ rest["defaultFrozen"] = (Of(ConfigOf(tx), "df") = TRUE)
  OBVIOUS
<1>. HIDE DEF d, rest, roles
<1>4. roles = RolesAsked(d, Blank)
  BY <1>1, RolesRead DEF roles
<1>5. DOMAIN roles = R /\ R = {"manager", "reserve", "freeze", "clawback"}
  <2>1. DOMAIN roles = R
    BY <1>4 DEF RolesAsked
  <2>2. R = {"manager", "reserve", "freeze", "clawback"}
    BY DEF AssetRoles
  <2>. QED  BY <2>1, <2>2
<1>6. /\ \A r \in R : Of(def, r) = RolesAsked(d, Blank)[r]
      /\ Of(def, "total") = rest["total"] /\ Of(def, "defaultFrozen") = rest["defaultFrozen"]
  <2>1. \A x : Of(def, x) = IF x \in DOMAIN roles THEN roles[x] ELSE Of(rest, x)
    BY OfJoined
  <2>2. Of(rest, "total") = rest["total"] /\ Of(rest, "defaultFrozen") = rest["defaultFrozen"]
    BY <1>3 DEF Of
  <2>3. "total" \notin DOMAIN roles /\ "defaultFrozen" \notin DOMAIN roles
    BY <1>5
  <2>. HIDE DEF def, R
  <2>. QED  BY <1>4, <1>5, <2>1, <2>2, <2>3
<1>. HIDE DEF def
<1>7. DOMAIN c = {"type", "asaName", "asaDef"} /\ c["type"] = "DeployASA"
      /\ c["asaName"] = p.asaName /\ c["asaDef"] = def
  BY <1>1
<1>. HIDE DEF c, read
<1>8. Plain(c, tx)
  BY <1>7 DEF Plain, SignNames
<1>9. GetFromAddress(read) = tx.snd
  BY <1>2, <1>8, SenderKept DEF read
<1>10. read.type = "DeployASA" /\ read.asaName = p.asaName /\ read.asaDef = def
  <2>1. \A x \in DOMAIN c : read[x] = c[x]
    BY <1>2, <1>8, ReadFields DEF read
  <2>. QED  BY <1>7, <2>1
<1>11. Effect(again) = CreationOf(p.asaName, def)
  BY <1>10, CreationMeans DEF read
<1>12. RolesAsked(def, None) = RolesAsked(d, None)
  BY <1>6, AskedTwice
<1>13. Default(NonZero(Of(def, "total")), 0) = Default(NonZero(Of(d, "total")), 0)
  <2>1. NonZero(NonZero(Of(d, "total"))) = NonZero(Of(d, "total"))
    BY DEF NonZero
  <2>. QED  BY <1>1, <1>3, <1>6, <2>1
<1>14. (Of(def, "defaultFrozen") = TRUE) = (Of(d, "defaultFrozen") = TRUE)
  BY <1>1, <1>3, <1>6
<1>15. CreationOf(p.asaName, def) = CreationOf(p.asaName, d)
  BY <1>12, <1>13, <1>14 DEF CreationOf
<1>. QED  BY <1>1, <1>9, <1>11, <1>15 DEF read

\* What can be made is read alike.
LEMMA ReadsAlike ==
  ASSUME NEW tx, NEW p, MadeOf(tx, p), IsParams(p), CanMake(p)
  PROVE  ReadAlike(tx, p)
<1>. DEFINE read == ReadOf(tx, p)
            again == MkTransaction(read, MkTxParams(read.payFlags, tx.fv))
<1>1. SUFFICES ASSUME Effect(tx).op \notin {"nothing", "deployApp"},
                      tx.type = "appl" => Effect(tx).op = "callApp" /\ Effect(tx).accounts = None,
                      CanMake(read)
               PROVE  again.snd = tx.snd /\ Effect(again) = Effect(tx)
  BY DEF ReadAlike, ReadsWhole, ReadOf, SignOf
<1>2. MadeOf(again, read)
  BY Made
<1>. HIDE DEF read, again
<1>3. again.snd = GetFromAddress(read)
  BY <1>2 DEF MadeOf
<1>4. IsParams(read) => Effect(again) = AskedFor(read)
  BY <1>1, <1>2, EffectMeans
<1>5. CASE p.type = "TransferAlgo"
  BY <1>3, <1>4, <1>5, PaymentRead DEF read
<1>6. CASE p.type \in {"TransferAsset", "OptInASA"}
  BY <1>3, <1>4, <1>6, TransferRead DEF read
<1>7. CASE p.type = "RevokeAsset"
  BY <1>3, <1>4, <1>7, RevocationRead DEF read
<1>8. CASE p.type = "FreezeAsset"
  BY <1>3, <1>4, <1>8, FreezeRead DEF read
<1>9. CASE p.type \in {"ModifyAsset", "DestroyAsset"}
  BY <1>3, <1>4, <1>9, ChangeRead DEF read
<1>10. CASE p.type = "DeployASA"
  BY <1>2, <1>3, <1>10, CreationRead DEF read
<1>11. CASE p.type \in AppType \ {"DeployApp"}
  BY <1>1, <1>3, <1>4, <1>11, AppCallRead DEF read
<1>12. CASE p.type \in {"DeployApp", "KeyRegistration"}
  <2>1. Effect(tx) = AskedFor(p)
    BY EffectMeans
  <2>2. AskedFor(p).op \in {"nothing", "deployApp"}
    BY <1>12 DEF AskedFor
  <2>. QED  BY <1>1, <2>1, <2>2
<1>. QED  BY <1>5, <1>6, <1>7, <1>8, <1>9, <1>10, <1>11, <1>12
          DEF IsParams, ParamTypes, PaymentType, TransferType, ConfigType

\* The transaction tx is what p asks for, in the terms of SentAsAsked.
Meant(tx, p) ==
  LET flags == p.payFlags
      closes == Of(tx, "close") # None \/ Of(tx, "aclose") # None
  IN  /\ tx.snd = GetFromAddress(p) /\ Effect(tx) = AskedFor(p)
      /\ RekeyOf(tx) = IF closes THEN tx.snd ELSE Of(flags, "rekeyTo")
      /\ Of(flags, "totalFee") # None => Default(Of(tx, "fee"), 0) = flags.totalFee
      /\ Truthy(Of(flags, "firstValid")) =>
           /\ tx.fv = flags.firstValid
           /\ Of(flags, "validRounds") # None => tx.lv = tx.fv + flags.validRounds

\* The rounds of the suggested parameters.
LEMMA RoundsKept ==
  ASSUME NEW kind, NEW flags, NEW round
  PROVE  LET s == ParamsFor(kind, flags, round)
             w == Window(flags, round)
         IN  s.firstRound = w.firstRound /\ s.lastRound = w.lastRound
<1>. DEFINE w == Window(flags, round)
<1>1. DOMAIN w = {"firstRound", "lastRound"}
  BY DEF Window
<1>. HIDE DEF w
<1>2. \A g : (w ++ g)["firstRound"] = w["firstRound"] /\ (w ++ g)["lastRound"] = w["lastRound"]
  BY <1>1, OfJoined
<1>3. \E g : ParamsFor(kind, flags, round) = w ++ g
  BY DEF ParamsFor, GetSuggestedParams, MkTxParams, w
<1>. QED  BY <1>2, <1>3 DEF w

\* What is built of parameters is what they ask for, and is read alike.
LEMMA BuiltIsMeant ==
  ASSUME NEW p, NEW kind, NEW round, IsParams(p), CanMake(p),
         NEW tx, tx = MkTransaction(p, ParamsFor(kind, p.payFlags, round))
  PROVE  Meant(tx, p) /\ ReadAlike(tx, p)
<1>. DEFINE flags == p.payFlags
            s == ParamsFor(kind, flags, round)
<1>1. /\ MadeOf(tx, p) /\ tx.fv = s.firstRound /\ tx.lv = s.lastRound
      /\ Of(tx, "fee") = NonZero(Fee(p, s))
  BY Made
<1>2. /\ s.firstRound = Or(Of(flags, "firstValid"), round)
      /\ s.lastRound = IF Of(flags, "firstValid") = None \/ Of(flags, "validRounds") = None
                       THEN round + Life
                       ELSE flags.firstValid + flags.validRounds
  BY RoundsKept DEF Window
<1>3. ReadAlike(tx, p) /\ Effect(tx) = AskedFor(p)
  BY <1>1, ReadsAlike, EffectMeans
<1>. HIDE DEF s
<1>4. tx.snd = GetFromAddress(p) /\ Of(tx, "rekey") = Of(flags, "rekeyTo")
  BY <1>1 DEF MadeOf
<1>5. ASSUME Of(flags, "totalFee") # None
      PROVE  Default(Of(tx, "fee"), 0) = flags.totalFee
  <2>1. Fee(p, s) = Of(flags, "totalFee")
    BY <1>5 DEF Fee, Default
  <2>2. Default(NonZero(Of(flags, "totalFee")), 0) = Of(flags, "totalFee")
    BY <1>5, NumberRead
  <2>3. Of(flags, "totalFee") = flags.totalFee
    BY <1>5, RequiredGiven
  <2>. QED  BY <1>1, <2>1, <2>2, <2>3
<1>6. ASSUME Truthy(Of(flags, "firstValid"))
      PROVE  /\ tx.fv = flags.firstValid
             /\ Of(flags, "validRounds") # None => tx.lv = tx.fv + flags.validRounds
  <2>1. Of(flags, "firstValid") # None /\ tx.fv = Of(flags, "firstValid")
    BY <1>1, <1>2, <1>6 DEF Or, Truthy
  <2>2. Of(flags, "firstValid") = flags.firstValid
    BY <2>1, RequiredGiven
  <2>. QED  BY <1>1, <1>2, <2>1, <2>2
<1>7. RekeyOf(tx) = IF Of(tx, "close") # None \/ Of(tx, "aclose") # None
                    THEN tx.snd ELSE Of(flags, "rekeyTo")
  BY <1>4 DEF RekeyOf
<1>. QED  BY <1>3, <1>4, <1>5, <1>6, <1>7 DEF Meant

\* What mkTx of the deployer adds to parameters leaves the rest of them.
LEMMA CompletedRest ==
  ASSUME NEW p, IsParams(p), NEW kind
  PROVE  LET q == Completed(kind, p)
         IN  /\ q.type = p.type /\ q.payFlags = p.payFlags /\ q.sign = p.sign
             /\ DOMAIN q = DOMAIN p
             /\ \A x : x # "fields" => Of(q, x) = Of(p, x)
             /\ \A x \in DOMAIN p : x # "fields" => q[x] = p[x]
             /\ q # p => p.type = "ModifyAsset"
<1>1. CASE kind = "algob" /\ p.type = "ModifyAsset"
  <2>. DEFINE f == [r \in {AssetRoles[a] : a \in DOMAIN AssetRoles} |->
                      IF Of(p.fields, r) = Blank THEN None ELSE Default(Of(p.fields, r), AssetInfo[r])]
              q == [p EXCEPT !.fields = f]
  <2>1. Completed(kind, p) = q
    BY <1>1 DEF Completed
  <2>. HIDE DEF f
  <2>2. DOMAIN q = DOMAIN p /\ \A x \in DOMAIN p : x # "fields" => q[x] = p[x]
    OBVIOUS
  <2>. HIDE DEF q
  <2>3. {"type", "payFlags", "sign"} \subseteq DOMAIN p
    BY DEF IsParams
  <2>4. q["type"] = p["type"] /\ q["payFlags"] = p["payFlags"] /\ q["sign"] = p["sign"]
    BY <2>2, <2>3
  <2>5. \A x : x # "fields" => Of(q, x) = Of(p, x)
    BY <2>2 DEF Of
  <2>. QED  BY <1>1, <2>1, <2>2, <2>4, <2>5
<1>2. CASE ~(kind = "algob" /\ p.type = "ModifyAsset")
  <2>1. Completed(kind, p) = p
    BY <1>2 DEF Completed
  <2>. QED  BY <2>1
<1>. QED  BY <1>1, <1>2

\* They are parameters still.
LEMMA CompletedIsParams ==
  ASSUME NEW p, IsParams(p), NEW kind
  PROVE  IsParams(Completed(kind, p))
<1>. DEFINE q == Completed(kind, p)
<1>1. /\ q.type = p.type /\ q.payFlags = p.payFlags /\ q.sign = p.sign /\ DOMAIN q = DOMAIN p
      /\ \A x : x # "fields" => Of(q, x) = Of(p, x)
      /\ q # p => p.type = "ModifyAsset"
  BY CompletedRest
<1>. HIDE DEF q
<1>2. CASE q = p
  BY <1>2 DEF q
<1>3. CASE q # p
  <2>1. p.type = "ModifyAsset" /\ Required(p.type) = {"assetID"}
    BY <1>1, <1>3 DEF Required, AppType, OnCompletion
  <2>2. \A f \in Required(q.type) : Of(q, f) # None
    BY <1>1, <2>1 DEF IsParams
  <2>3. Of(q, IF q.sign = "SecretKey" THEN "fromAccount" ELSE "fromAccountAddr") # None
    BY <1>1 DEF IsParams
  <2>4. Of(q, "assetID") # 0 /\ Of(q, "appID") # 0
    BY <1>1 DEF IsParams
  <2>5. {"type", "sign", "payFlags", "fields"} \subseteq DOMAIN q /\ q.type \in ParamTypes /\ q.sign \in Signs
    BY <1>1, <2>1 DEF IsParams
  <2>. QED  BY <1>1, <2>1, <2>2, <2>3, <2>4, <2>5 DEF IsParams, q
<1>. QED  BY <1>2, <1>3

\* Of a transaction of the SDK, what the deployer would have added is there.
LEMMA CompletedSame ==
  ASSUME NEW p, IsParams(p), IsMade(p), NEW kind, NEW tx, Meant(tx, p), ReadAlike(tx, p)
  PROVE  Meant(tx, Completed(kind, p)) /\ ReadAlike(tx, Completed(kind, p))
<1>. DEFINE q == Completed(kind, p)
<1>0. CASE q = p
  BY <1>0
<1>1. CASE q # p
  <2>1. /\ q.type = "ModifyAsset" /\ p.type = "ModifyAsset" /\ q.payFlags = p.payFlags
        /\ q.sign = p.sign /\ DOMAIN q = DOMAIN p
        /\ \A x : x # "fields" => Of(q, x) = Of(p, x)
        /\ \A x \in DOMAIN p : x # "fields" => q[x] = p[x]
    BY <1>1, CompletedRest
  <2>2. GetFromAddress(q) = GetFromAddress(p)
    <3>. HIDE DEF q
    <3>1. CASE p.sign = "SecretKey" /\ Of(p, "fromAccountAddr") = None
      <4>1. "fromAccount" \in DOMAIN p
        BY <3>1 DEF IsParams, Of
      <4>. QED  BY <2>1, <3>1, <4>1 DEF GetFromAddress
    <3>2. CASE ~(p.sign = "SecretKey" /\ Of(p, "fromAccountAddr") = None)
      <4>1. "fromAccountAddr" \in DOMAIN p
        BY <3>2 DEF IsParams, Of
      <4>. QED  BY <2>1, <3>2, <4>1 DEF GetFromAddress
    <3>. QED  BY <3>1, <3>2
  <2>3. "assetID" \in DOMAIN p /\ "fields" \in DOMAIN p
    BY <2>1 DEF IsParams, Of, Required, AppType, OnCompletion
  <2>4. RolesAsked(q.fields, Blank) = RolesAsked(p.fields, Blank)
    <3>. DEFINE d == p.fields
                R == {AssetRoles[a] : a \in DOMAIN AssetRoles}
                f == [r \in R |->
                        IF Of(d, r) = Blank THEN None ELSE Default(Of(d, r), AssetInfo[r])]
                asked(x, r) == IF Of(x, r) \in {None, Blank} THEN Blank ELSE x[r]
    <3>1. q = [p EXCEPT !.fields = f]
      BY <1>1 DEF Completed
    <3>. HIDE DEF f, q
    <3>2. q.fields = f
      BY <2>3, <3>1
    <3>3. ASSUME NEW r \in R
          PROVE  asked(f, r) = asked(d, r)
      <4>1. Of(d, r) # None
        BY <2>1 DEF IsMade
      <4>2. Of(f, r) = IF Of(d, r) = Blank THEN None ELSE Of(d, r)
        BY <4>1 DEF f, Of, Default
      <4>3. /\ Of(d, r) = d[r]
            /\ Of(f, r) # None => f[r] = Of(f, r)
        BY <4>1, RequiredGiven
      <4>. HIDE DEF d
      <4>. QED  BY <4>1, <4>2, <4>3
    <3>4. \A x : RolesAsked(x, Blank) = [r \in R |-> asked(x, r)]
      BY DEF RolesAsked
    <3>. HIDE DEF R, d, asked
    <3>5. RolesAsked(f, Blank) = RolesAsked(d, Blank)
      BY <3>3, <3>4
    <3>. QED  BY <3>2, <3>5 DEF d
  <2>. HIDE DEF q
  <2>5. AskedFor(q) = AskedFor(p)
    <3>1. q.assetID = p.assetID
      BY <2>1, <2>3
    <3>2. CASE RolesAsked(p.fields, Blank) = RolesAsked(<<>>, Blank)
      <4>1. AskedFor(p) = [op |-> "destroyAsset", asset |-> p.assetID]
        BY <2>1, <3>2 DEF AskedFor
      <4>2. AskedFor(q) = [op |-> "destroyAsset", asset |-> q.assetID]
        BY <2>1, <2>4, <3>2 DEF AskedFor
      <4>. QED  BY <3>1, <4>1, <4>2
    <3>3. CASE RolesAsked(p.fields, Blank) # RolesAsked(<<>>, Blank)
      <4>1. AskedFor(p) = [op |-> "modifyAsset", asset |-> p.assetID,
                           fields |-> RolesAsked(p.fields, Blank)]
        BY <2>1, <3>3 DEF AskedFor
      <4>2. AskedFor(q) = [op |-> "modifyAsset", asset |-> q.assetID,
                           fields |-> RolesAsked(q.fields, Blank)]
        BY <2>1, <2>4, <3>3 DEF AskedFor
      <4>. QED  BY <2>4, <3>1, <4>1, <4>2
    <3>. QED  BY <3>2, <3>3
  <2>6. Meant(tx, q)
    BY <2>1, <2>2, <2>5 DEF Meant
  <2>7. ReadAlike(tx, q)
    <3>1. Of(q, "fromAccount") = Of(p, "fromAccount")
          /\ Of(q, "fromAccountAddr") = Of(p, "fromAccountAddr")
      BY <2>1
    <3>. QED  BY <2>1, <3>1 DEF ReadAlike
  <2>. QED  BY <2>6, <2>7 DEF q
<1>. QED  BY <1>0, <1>1

-----------------------------------------------------------------------------
(* What is sent is what was asked                                          *)

\* The transaction k of b is what the session of that kind was asked for.
Good(b, k, kind, P) == Meant(b[k], Completed(kind, P[k])) /\ ReadAlike(b[k], Completed(kind, P[k]))

\* A call under way was asked for, and what is built of it is good.
Asked ==
  /\ call.grouped /\ call.kind \in Kinds
  /\ IsGroup(call.params, Len(call.params))
  /\ \A k \in DOMAIN call.params : IsParams(call.params[k])
  /\ call.kind = "web" => Len(call.params) # 0
BuiltWell ==
  /\ \E S : call.built \in Seq(S)
  /\ \A k \in 1..Len(call.built) : Good(call.built, k, call.kind, call.params)
  /\ pc = "building" => Len(call.built) < Len(call.params)
  /\ pc = "signing" => Len(call.built) = Len(call.params)

\* The inductive invariant of SentAsAsked.
SInv ==
  /\ DOMAIN call = {"kind", "params", "grouped", "built", "signed", "from", "at", "receipt", "outcome"}
  /\ pc = "idle" => call.built = <<>>
  /\ pc \in {"idle", "making"} => ~call.grouped
  /\ pc \in {"building", "signing"} => Asked /\ BuiltWell
  /\ SentAsAsked

\* What may be asked is a group of parameters.
LEMMA AsksGroups ==
  ASSUME NEW a \in Asks \cup SDKAsks
  PROVE  /\ IsGroup(a.params, Len(a.params)) /\ Len(a.params) \in Nat
         /\ DOMAIN a.params = 1..Len(a.params)
         /\ \A k \in DOMAIN a.params : IsParams(a.params[k])
         /\ a.params = <<>> <=> Len(a.params) = 0
<1>. DEFINE P == a.params
<1>1. (\E S : P \in Seq(S)) /\ \A k \in DOMAIN P : IsParams(P[k])
  BY AsksAssumption
<1>. HIDE DEF P
<1>2. Len(P) \in Nat /\ DOMAIN P = 1..Len(P) /\ (P = <<>> <=> Len(P) = 0)
  BY <1>1
<1>3. \A k \in DOMAIN P : P[k].sign \in Signs
  BY <1>1 DEF IsParams
<1>. QED  BY <1>1, <1>2, <1>3 DEF IsGroup, P

\* Nothing is asked at first.
LEMMA InitSInv == Init => SInv
BY DEF Init, SInv, SentAsAsked

\* A step that ends in a state of no interest.
LEMMA Elsewhere ==
  ASSUME SInv, DOMAIN call' = DOMAIN call,
         pc' \notin {"idle", "building", "signing", "making", "sending"}
  PROVE  SInv'
BY DEF SInv, SentAsAsked

\* A call that begins.
LEMMA ExecuteTxSInv ==
  ASSUME SInv, ExecuteTx
  PROVE  SInv'
<1>1. pc = "idle" /\ call.built = <<>>
  BY DEF SInv, ExecuteTx
<1>2. PICK a \in Asks :
        LET asked == [call EXCEPT !.kind = a.kind, !.params = a.params, !.grouped = TRUE] IN
        IF \/ Len(a.params) > MaxGroup
           \/ a.params = <<>> /\ a.kind \in {"web", "algob"}
        THEN pc' = "threw" /\ call' = [asked EXCEPT !.outcome = "length"]
        ELSE pc' = (IF a.params = <<>> THEN "signing" ELSE "building") /\ call' = asked
  BY DEF ExecuteTx
<1>3. CASE pc' = "threw"
  <2>1. DOMAIN call' = DOMAIN call
    BY <1>2
  <2>. QED  BY <1>3, <2>1, Elsewhere
<1>4. CASE pc' # "threw"
  <2>1. /\ pc' = IF a.params = <<>> THEN "signing" ELSE "building"
        /\ call' = [call EXCEPT !.kind = a.kind, !.params = a.params, !.grouped = TRUE]
        /\ ~(a.params = <<>> /\ a.kind \in {"web", "algob"})
    BY <1>2, <1>4
  <2>2. /\ DOMAIN call' = DOMAIN call /\ call'.kind = a.kind /\ call'.params = a.params
        /\ call'.grouped = TRUE /\ call'.built = <<>>
    BY <1>1, <2>1 DEF SInv
  <2>3. /\ IsGroup(a.params, Len(a.params)) /\ Len(a.params) \in Nat
        /\ DOMAIN a.params = 1..Len(a.params)
        /\ \A k \in DOMAIN a.params : IsParams(a.params[k])
        /\ a.params = <<>> <=> Len(a.params) = 0
    BY AsksGroups
  <2>4. a.kind \in Kinds
    BY AsksAssumption
  <2>5. Asked'
    BY <2>1, <2>2, <2>3, <2>4 DEF Asked, IsGroup
  <2>6. BuiltWell'
    <3>1. \A x : x = <<>> => x \in Seq({}) /\ Len(x) = 0
      OBVIOUS
    <3>2. call'.built \in Seq({}) /\ Len(call'.built) = 0
      BY <2>2, <3>1
    <3>3. \E S : call'.built \in Seq(S)
      BY <3>2
    <3>4. \A k \in 1..Len(call'.built) : Good(call'.built, k, call'.kind, call'.params)
      BY <3>2
    <3>5. /\ pc' = "building" => Len(call'.built) < Len(call'.params)
          /\ pc' = "signing" => Len(call'.built) = Len(call'.params)
      BY <2>1, <2>2, <2>3, <3>2
    <3>. QED  BY <3>3, <3>4, <3>5 DEF BuiltWell
  <2>. QED  BY <2>1, <2>2, <2>5, <2>6 DEF SInv, SentAsAsked
<1>. QED  BY <1>3, <1>4

\* A call with transactions of the SDK.
LEMMA ExecuteSDKTxSInv ==
  ASSUME SInv, ExecuteSDKTx
  PROVE  SInv'
<1>1. PICK a \in SDKAsks :
        LET asked == [call EXCEPT !.kind = a.kind, !.params = a.params, !.grouped = TRUE] IN
        IF a.kind # "algob"
        THEN pc' = "threw" /\ call' = [asked EXCEPT !.outcome = "unsupported"]
        ELSE /\ pc' = "signing"
             /\ call' = [asked EXCEPT !.built =
                  [k \in DOMAIN a.params |->
                     MkTransaction(a.params[k], MkTxParams(a.params[k].payFlags, node.round))]]
  BY DEF ExecuteSDKTx
<1>2. CASE pc' = "threw"
  <2>1. DOMAIN call' = DOMAIN call
    BY <1>1
  <2>. QED  BY <1>2, <2>1, Elsewhere
<1>3. CASE pc' # "threw"
  <2>. DEFINE P == a.params
              B == [k \in DOMAIN P |-> MkTransaction(P[k], MkTxParams(P[k].payFlags, node.round))]
              asked == [call EXCEPT !.kind = a.kind, !.params = P, !.grouped = TRUE]
  <2>1. pc' = "signing" /\ a.kind = "algob" /\ call' = [asked EXCEPT !.built = B]
    BY <1>1, <1>3
  <2>2. /\ IsGroup(P, Len(P)) /\ Len(P) \in Nat /\ DOMAIN P = 1..Len(P)
        /\ \A k \in DOMAIN P : IsParams(P[k])
    BY AsksGroups
  <2>3. \A k \in DOMAIN P : IsMade(P[k])
    BY AsksAssumption
  <2>. HIDE DEF P, B
  <2>4. /\ DOMAIN call' = DOMAIN call /\ call'.kind = "algob" /\ call'.params = P
        /\ call'.grouped = TRUE /\ call'.built = B
    BY <2>1 DEF SInv
  <2>5. Asked'
    BY <2>2, <2>4 DEF Asked, IsGroup, Kinds
  <2>6. ASSUME NEW k \in DOMAIN P
        PROVE  Good(B, k, "algob", P)
    <3>1. B[k] = MkTransaction(P[k], ParamsFor("algob", P[k].payFlags, node.round))
      BY DEF B, ParamsFor
    <3>2. IsParams(P[k]) /\ IsMade(P[k]) /\ CanMake(P[k])
      BY <2>2, <2>3 DEF IsMade
    <3>3. PICK p, tx, round : p = P[k] /\ tx = B[k] /\ round = node.round
      OBVIOUS
    <3>4. IsParams(p) /\ CanMake(p) /\ tx = MkTransaction(p, ParamsFor("algob", p.payFlags, round))
      BY <3>1, <3>2, <3>3
    <3>5. Meant(tx, p) /\ ReadAlike(tx, p)
      BY <3>4, BuiltIsMeant
    <3>6. Meant(tx, Completed("algob", p)) /\ ReadAlike(tx, Completed("algob", p))
      BY <3>2, <3>3, <3>5, CompletedSame
    <3>. QED  BY <3>3, <3>6 DEF Good
  <2>7. /\ Len(B) = Len(P) /\ B \in Seq({B[k] : k \in DOMAIN P})
    <3>. DEFINE S == {B[k] : k \in DOMAIN P}
    <3>1. B \in [1..Len(P) -> S]
      BY <2>2 DEF B
    <3>. HIDE DEF S
    <3>2. B \in Seq(S) /\ Len(B) = Len(P)
      BY <2>2, <3>1
    <3>. QED  BY <3>2 DEF S
  <2>8. BuiltWell'
    <3>1. \E S : call'.built \in Seq(S)
      BY <2>4, <2>7
    <3>2. \A k \in 1..Len(call'.built) : Good(call'.built, k, call'.kind, call'.params)
      BY <2>2, <2>4, <2>6, <2>7
    <3>3. Len(call'.built) = Len(call'.params)
      BY <2>4, <2>7
    <3>. QED  BY <2>1, <3>1, <3>2, <3>3 DEF BuiltWell
  <2>. QED  BY <2>1, <2>4, <2>5, <2>8 DEF SInv, SentAsAsked
<1>. QED  BY <1>2, <1>3

\* One more transaction is built.
LEMMA BuildTxSInv ==
  ASSUME SInv, BuildTx
  PROVE  SInv'
<1>. DEFINE k == Len(call.built) + 1
            p == Completed(call.kind, call.params[k])
            tx == MkTransaction(p, ParamsFor(call.kind, p.payFlags, node.round))
<1>1. pc = "building" /\ Asked /\ BuiltWell
  BY DEF SInv, BuildTx
<1>2. \/ /\ CanMake(p) /\ call' = [call EXCEPT !.built = Append(@, tx)]
         /\ pc' = IF k = Len(call.params) THEN "signing" ELSE "building"
      \/ pc' = "threw" /\ DOMAIN call' = DOMAIN call
  BY DEF BuildTx, Throw
<1>3. CASE pc' = "threw" /\ DOMAIN call' = DOMAIN call
  BY <1>3, Elsewhere
<1>4. CASE /\ CanMake(p) /\ call' = [call EXCEPT !.built = Append(@, tx)]
           /\ pc' = IF k = Len(call.params) THEN "signing" ELSE "building"
  <2>1. PICK S : call.built \in Seq(S)
    BY <1>1 DEF BuiltWell
  <2>2. Len(call.params) \in Nat /\ DOMAIN call.params = 1..Len(call.params)
    BY <1>1 DEF Asked, IsGroup
  <2>3. Len(call.built) \in Nat /\ k \in DOMAIN call.params /\ k <= Len(call.params)
    BY <1>1, <2>1, <2>2 DEF BuiltWell
  <2>4. IsParams(p)
    <3>1. IsParams(call.params[k])
      BY <1>1, <2>3 DEF Asked
    <3>. QED  BY <3>1, CompletedIsParams
  <2>5. Meant(tx, p) /\ ReadAlike(tx, p)
    <3>1. PICK q, t, round, kind : q = p /\ t = tx /\ round = node.round /\ kind = call.kind
      OBVIOUS
    <3>. HIDE DEF p
    <3>2. IsParams(q) /\ CanMake(q) /\ t = MkTransaction(q, ParamsFor(kind, q.payFlags, round))
      BY <1>4, <2>4, <3>1
    <3>3. Meant(t, q) /\ ReadAlike(t, q)
      BY <3>2, BuiltIsMeant
    <3>. QED  BY <3>1, <3>3
  <2>6. PICK t, b : t = tx /\ b = call.built
    OBVIOUS
  <2>7. /\ DOMAIN call' = DOMAIN call /\ call'.kind = call.kind /\ call'.params = call.params
        /\ call'.grouped = call.grouped /\ call'.built = Append(b, t)
    BY <1>4, <2>6 DEF SInv
  <2>8. /\ Append(b, t) \in Seq(S \cup {t}) /\ Len(Append(b, t)) = Len(b) + 1
        /\ \A j \in 1..(Len(b) + 1) : Append(b, t)[j] = IF j = Len(b) + 1 THEN t ELSE b[j]
    <3>1. b \in Seq(S \cup {t}) /\ t \in S \cup {t}
      BY <2>1, <2>6
    <3>. QED  BY <3>1
  <2>9. ASSUME NEW j \in 1..Len(call'.built)
        PROVE  Good(call'.built, j, call.kind, call.params)
    <3>1. j \in 1..(Len(b) + 1) /\ Len(b) \in Nat
      BY <2>3, <2>6, <2>7, <2>8
    <3>2. call'.built[j] = IF j = Len(b) + 1 THEN t ELSE b[j]
      BY <2>7, <2>8, <3>1
    <3>3. CASE j = Len(b) + 1
      <4>1. call'.built[j] = tx /\ j = k
        BY <2>6, <3>2, <3>3
      <4>. QED  BY <2>5, <4>1 DEF Good
    <3>4. CASE j # Len(b) + 1
      <4>1. j \in 1..Len(call.built) /\ call'.built[j] = call.built[j]
        BY <2>6, <3>1, <3>2, <3>4
      <4>2. Good(call.built, j, call.kind, call.params)
        BY <1>1, <4>1 DEF BuiltWell
      <4>. QED  BY <4>1, <4>2 DEF Good
    <3>. QED  BY <3>3, <3>4
  <2>10. Asked'
    BY <1>1, <2>7 DEF Asked, IsGroup
  <2>11. BuiltWell'
    <3>1. \E T : call'.built \in Seq(T)
      BY <2>7, <2>8
    <3>2. Len(call'.built) = k
      BY <2>6, <2>7, <2>8
    <3>3. /\ pc' = "building" => Len(call'.built) < Len(call'.params)
          /\ pc' = "signing" => Len(call'.built) = Len(call'.params)
      BY <1>4, <2>2, <2>3, <2>7, <3>2
    <3>4. \A j \in 1..Len(call'.built) : Good(call'.built, j, call'.kind, call'.params)
      BY <2>7, <2>9
    <3>. QED  BY <3>1, <3>3, <3>4 DEF BuiltWell
  <2>12. pc' \in {"building", "signing"}
    BY <1>4
  <2>. QED  BY <2>7, <2>10, <2>11, <2>12 DEF SInv, SentAsAsked
<1>. QED  BY <1>2, <1>3, <1>4

\* What was built well is sent as it was asked, if it is signed as it was.
LEMMA SignedIsSent ==
  ASSUME SInv, pc = "signing", DOMAIN call' = DOMAIN call, call'.kind = call.kind,
         call'.params = call.params, call'.built = call.built, pc' = "sending", SignedPart'
  PROVE  SInv'
<1>1. Asked /\ BuiltWell
  BY DEF SInv
<1>2. DOMAIN call.params = 1..Len(call.built)
  BY <1>1 DEF Asked, BuiltWell, IsGroup
<1>3. ASSUME NEW k \in DOMAIN call.params
      PROVE  /\ MeansWhat(call.built[k], Completed(call.kind, call.params[k]))'
             /\ ReadAlike(call'.built[k], Completed(call'.kind, call'.params[k]))
  <2>. DEFINE p == Completed(call.kind, call.params[k])
  <2>1. k \in 1..Len(call.built)
    BY <1>2
  <2>2. Good(call.built, k, call.kind, call.params)
    BY <1>1, <2>1 DEF BuiltWell
  <2>3. Meant(call.built[k], p) /\ ReadAlike(call.built[k], p)
    BY <2>2 DEF Good
  <2>. HIDE DEF p
  <2>4. MeansWhat(call.built[k], p)
    BY <2>3 DEF Meant, MeansWhat
  <2>5. call.grouped
    BY <1>1 DEF Asked
  <2>6. MeansWhat(call.built[k], Completed(call.kind, call.params[k]))'
    BY <2>4, <2>5 DEF MeansWhat, p
  <2>. QED  BY <2>3, <2>6 DEF p
<1>4. SentAsAsked'
  BY <1>3 DEF SentAsAsked, SignedPart
<1>. QED  BY <1>4 DEF SInv

\* A group is signed.
LEMMA SignSInv ==
  ASSUME SInv, SignGroup \/ SignWithKeys
  PROVE  SInv'
<1>1. pc = "signing" /\ Asked
  BY DEF SInv, SignGroup, SignWithKeys
<1>2. /\ pc' \in {"threw", "sending"} /\ DOMAIN call' = DOMAIN call
      /\ call'.kind = call.kind /\ call'.params = call.params /\ call'.built = call.built
  <2>1. \/ pc' = "threw" /\ \E why : call' = [call EXCEPT !.outcome = why]
        \/ pc' = "sending" /\ \E signed : call' = [call EXCEPT !.signed = signed]
    BY DEF SignGroup, SignWithKeys, Throw
  <2>. QED  BY <2>1 DEF SInv
<1>3. CASE pc' = "threw"
  BY <1>2, <1>3, Elsewhere
<1>4. CASE pc' = "sending"
  <2>1. CASE SignGroup
    <3>1. call.kind # "algob"
      BY <2>1 DEF SignGroup
    <3>2. PICK n : n = Len(call.params)
      OBVIOUS
    <3>3. /\ IsGroup(call.params, n) /\ call.kind \in Kinds /\ (call.kind = "web" => n # 0)
          /\ DOMAIN call = {"kind", "params", "grouped", "built", "signed", "from", "at", "receipt", "outcome"}
      BY <1>1, <3>2 DEF Asked, SInv
    <3>4. SignedPart'
      BY <1>4, <2>1, <3>1, <3>3, SignGroupSigns
    <3>. QED  BY <1>1, <1>2, <1>4, <3>4, SignedIsSent
  <2>2. CASE SignWithKeys
    <3>1. DOMAIN call = {"kind", "params", "grouped", "built", "signed", "from", "at", "receipt", "outcome"}
      BY DEF SInv
    <3>2. SignedPart'
      BY <1>4, <2>2, <3>1, SignWithKeysSigns
    <3>. QED  BY <1>1, <1>2, <1>4, <3>2, SignedIsSent
  <2>. QED  BY <2>1, <2>2
<1>. QED  BY <1>2, <1>3, <1>4

\* What is made and signed at once is no group.
LEMMA MadeSInv ==
  ASSUME SInv, MakeTx \/ SignMade
  PROVE  SInv'
<1>1. ~call.grouped
  BY DEF SInv, MakeTx, SignMade
<1>2. /\ pc' \in {"making", "sending", "threw"} /\ DOMAIN call' = DOMAIN call
      /\ call'.grouped = call.grouped
  <2>1. CASE MakeTx
    <3>1. PICK a \in Asks :
            LET asked == [call EXCEPT !.kind = a.kind, !.params = a.params]
                s == MkTxParams(<<>>, node.round)
            IN  IF \A k \in DOMAIN a.params : CanMake(a.params[k])
                THEN /\ pc' = "making"
                     /\ call' = [asked EXCEPT !.signed = <<>>,
                          !.built = [k \in DOMAIN a.params |-> MkTransaction(a.params[k], s)]]
                ELSE pc' = "threw" /\ call' = [asked EXCEPT !.outcome = "parameters"]
      BY <2>1 DEF MakeTx
    <3>. QED  BY <3>1 DEF SInv
  <2>2. CASE SignMade
    <3>1. /\ pc' \in {"making", "sending", "threw"}
          /\ \/ \E why : call' = [call EXCEPT !.outcome = why]
             \/ \E signed : call' = [call EXCEPT !.signed = signed]
      BY <2>2 DEF SignMade, Throw
    <3>. QED  BY <3>1 DEF SInv
  <2>. QED  BY <2>1, <2>2
<1>. QED  BY <1>1, <1>2 DEF SInv, SentAsAsked

\* What comes after is of no interest.
LEMMA AfterSInv ==
  ASSUME SInv, Send \/ Poll \/ WaitForBlock
  PROVE  SInv'
<1>1. /\ pc' \in {"polling", "waiting", "returned", "threw"}
      /\ \/ UNCHANGED call
         \/ \E why : call' = [call EXCEPT !.outcome = why]
         \/ \E from, at : call' = [call EXCEPT !.from = from, !.at = at]
         \/ \E at : call' = [call EXCEPT !.at = at]
         \/ \E round : call' = [call EXCEPT !.receipt = round]
  BY DEF Send, Poll, WaitForBlock, Throw
<1>2. DOMAIN call' = DOMAIN call
  BY <1>1
<1>. QED  BY <1>1, <1>2, Elsewhere

\* The network and the connection of the wallet have no part in this.
LEMMA OthersSInv ==
  ASSUME SInv, UNCHANGED <<pc, call>>
  PROVE  SInv'
<1>1. (Asked /\ BuiltWell)' <=> (Asked /\ BuiltWell)
  BY DEF Asked, BuiltWell
<1>2. SentAsAsked' <=> SentAsAsked
  BY DEF SentAsAsked, Whole, BySession, Enclosed, IsLsig, Multisig, AsksWallet, NotLsig, InWallet,
         MeansWhat
<1>. QED  BY <1>1, <1>2 DEF SInv

\* Every step keeps the invariant.
LEMMA NextSInv == SInv /\ [Next]_vars => SInv'
<1>. SUFFICES ASSUME SInv, [Next]_vars PROVE SInv'
  OBVIOUS
<1>1. CASE ExecuteTx
  BY <1>1, ExecuteTxSInv
<1>2. CASE ExecuteSDKTx
  BY <1>2, ExecuteSDKTxSInv
<1>3. CASE BuildTx
  BY <1>3, BuildTxSInv
<1>4. CASE MakeTx \/ SignMade
  BY <1>4, MadeSInv
<1>5. CASE SignGroup \/ SignWithKeys
  BY <1>5, SignSInv
<1>6. CASE Send \/ Poll \/ WaitForBlock
  BY <1>6, AfterSInv
<1>7. CASE NextRound
  BY <1>7, OthersSInv DEF NextRound
<1>8. CASE Create \/ Close \/ OnConnect \/ OnUpdate \/ OnDisconnect
  BY <1>8, OthersSInv DEF Create, Close, OnConnect, OnUpdate, OnDisconnect
<1>9. CASE Done \/ UNCHANGED vars
  BY <1>9, OthersSInv DEF Done, vars
<1>. QED  BY <1>1, <1>2, <1>3, <1>4, <1>5, <1>6, <1>7, <1>8, <1>9 DEF Next

\* What a session sends is the group that was asked for: every transaction in
\* order, signed as asked as far as the property says so of that session,
\* meaning what was asked, and read by the runtime as it stands.
THEOREM SentIsAsked == Spec => []SentAsAsked
<1>1. SInv => SentAsAsked
  BY DEF SInv
<1>. QED  BY <1>1, InitSInv, NextSInv, PTL DEF Spec
=============================================================================
