------------------------------- MODULE MCTeal -------------------------------
(***************************************************************************)
(* Small instances of Teal: bytes of two bits and integers of two bytes.   *)
(* The programs are every filling of a few shapes, in which control may go *)
(* any way, and for every opcode that computes a program that pushes its   *)
(* operands first.                                                         *)
(***************************************************************************)
EXTENDS Teal, TLC

Op(op) == [op |-> op]
I(n) == [op |-> "int", x |-> n]
Bytes(s) == [op |-> "pushbytes", bytes |-> s]
To(op, to) == [op |-> op, to |-> to]
At(op, k) == [op |-> op, x |-> k]
At2(op, j, k) == [op |-> op, x |-> j, y |-> k]

\* A ledger with nothing but the transaction that runs the program.
Nothing == <<>>
Alone ==
  [self |-> 1, group |-> <<[type |-> "appl", id |-> <<1>>, f |-> [Sender |-> <<0, 1>>]]>>,
   accounts |-> Nothing, apps |-> Nothing, assets |-> Nothing, receipts |-> Nothing,
   shared |-> Nothing, building |-> <<>>, zero |-> Ref(1), lastLog |-> Ref(2), isInner |-> FALSE]

\* Every one of the codes in every one of the versions.
RunsOn(arrays, world, versions, w, codes) ==
  [version : versions, mode : {w}, code : codes, args : {<<<<1, 2>>>>}, pooled : {0},
   arrays : {arrays}, ctx : {world}]
Runs(versions, w, codes) == RunsOn(<<<<0, 0>>, <<>>>>, Alone, versions, w, codes)
Apps(codes) == Runs({8}, "application", codes)

-----------------------------------------------------------------------------
(* Control                                                                 *)

Moves ==
  {I(0), I(1), Op("pop"), Op("dup"), Op("retsub"), Op("return"), Op("assert"), Op("err"),
   To("b", "L"), To("bz", "L"), To("bnz", "L"), To("callsub", "L"),
   [op |-> "switch", list |-> <<"L", "M">>]}

L == To("label", "L")
M == To("label", "M")

Later ==
  {I(1), Op("dup"), Op("retsub"), Op("return"), To("b", "L"), To("bnz", "L")}

ControlCodes ==
  {<<a, b, L, c, d>> : a, b \in Moves, c, d \in Later}
  \cup {<<a, L, b, M, L>> : a, b \in Moves}
  \cup {<<a, L, M, b, L, c>> : a, b \in Moves, c \in Later}

ControlPrograms ==
  Runs({2, 8}, "application", ControlCodes)
  \cup Runs({6}, "signature", {<<a, b, L, c, At("arg", 0)>> : a, b, c \in Moves})
  \cup {[p EXCEPT !.pooled = 6] : p \in Apps({<<a, I(1), I(1), L>> : a \in Moves})}
  \cup Runs({1}, "signature", {<<Op("#pragma"), Bytes(<<1>>), Op(h), L>> :
                                h \in {"sha256", "keccak256"}})

-----------------------------------------------------------------------------
(* Computation                                                             *)

Some == {0, 1, 2, 3, 7, 15}
Arrays0 == {<<>>, <<0>>, <<3>>, <<1, 2>>, <<0, 1>>, <<3, 3>>}
Short == {<<>>, <<2>>, <<0, 3>>}
Long == {<<1, 0, 0>>, <<1, 2, 1>>, <<3, 3, 3>>, <<0, 0, 0, 0, 0, 0>>}
\* Operands of a square root: below 16, below ExactSqrt, past it, and round the
\* square of ExactSqrt - 1.
Radicands == 0..63 \cup {(ExactSqrt - 1)^2 + k : k \in (0 - 10)..62}

Unary ==
  {<<I(n), Op(op)>> : n \in 0..MaxUint,
                      op \in {"!", "~", "sqrt", "bitlen", "itob", "bzero", "loads"}}
  \cup {<<Bytes(s), Op(op)>> : s \in Arrays0,
          op \in {"len", "btoi", "bitlen", "b~", "bsqrt", "sha512_256", "sha3_256"}}
  \cup {<<Bytes(s), Op(op)>> : s \in Long, op \in {"len", "btoi", "b~", "bsqrt"}}
  \cup {<<Bytes(ShortestBytes(n)), Op("bsqrt")>> : n \in Radicands}
Binary ==
  {<<I(x), I(y), Op(op)>> : x, y \in 0..MaxUint,
     op \in {"+", "-", "*", "/", "%", "addw", "mulw", "stores"}}
  \cup {<<I(x), I(y), Op(op)>> : x, y \in Some,
          op \in {"|", "&", "^", "<", ">", "<=", ">=", "&&", "||", "==", "!=", "shl", "shr",
                  "getbit", "swap", "dup2"}}
  \cup {<<I(x), I(y), Op(op)>> : x \in Some, y \in 0..3, op \in {"exp", "expw"}}
  \cup {<<Bytes(s), I(x), Op(op)>> : s \in Arrays0, x \in 0..4,
          op \in {"getbit", "getbyte", "extract_uint16", "extract_uint32", "extract_uint64"}}
  \cup {<<Bytes(s), Bytes(t), Op(op)>> : s, t \in Arrays0,
          op \in {"b+", "b-", "b*", "b/", "b%", "b<", "b>", "b<=", "b>=", "b==", "b!=", "b|",
                  "b&", "b^", "==", "concat"}}
  \cup {<<Bytes(s), Bytes(t), Op(op)>> : s, t \in Long, op \in {"b+", "b*", "b&", "concat"}}
  \cup {<<Bytes(s), Bytes(t), At("replace2", k)>> : s, t \in Arrays0, k \in 0..2}
  \cup {<<Bytes(s), At2(op, j, k)>> : s \in Arrays0, op \in {"substring", "extract"}, j, k \in 0..2}
Ternary ==
  {<<I(x), I(y), I(z), Op(op)>> : x, y, z \in Some, op \in {"divw", "select", "setbit"}}
  \cup {<<Bytes(s), I(x), I(y), Op(op)>> : s \in Arrays0, x, y \in 0..4,
          op \in {"substring3", "extract3", "setbit", "setbyte"}}
  \cup {<<Bytes(s), I(x), Bytes(t), Op("replace3")>> : s, t \in Arrays0, x \in 0..2}
  \cup {<<Bytes(s), Bytes(t), Bytes(s), Op("ed25519verify_bare")>> : s, t \in Arrays0}
Quaternary == {<<I(w), I(x), I(y), I(z), Op("divmodw")>> : w, x, y, z \in Some}

\* An operation and its inverse.
Inverses ==
  {<<I(n), Op("itob"), Op("btoi")>> : n \in 0..MaxUint}
  \cup {<<Bytes(s), Bytes(t), Op("b+"), Bytes(t), Op("b-")>> : s, t \in Arrays0}
  \cup {<<Bytes(s), Op("b~"), Op("b~")>> : s \in Arrays0}
  \cup {<<I(1), I(2), I(3), At("cover", k), At("uncover", k)>> : k \in 0..3}
  \cup {<<I(n), I(k), I(b), Op("setbit"), I(k), Op("getbit")>> : n, k \in 0..MaxUint, b \in 0..1}
  \cup {<<Bytes(s), I(k), I(b), Op("setbit"), I(k), Op("getbit")>> :
          s \in Arrays0, k \in 0..4, b \in 0..1}
  \cup {<<I(n), At("store", 1), At("load", 1)>> : n \in Some}

\* Two references to one array, and instructions that keep what they computed.
Shared ==
  {<<Bytes(<<1, 2>>), Op("dup"), I(k), I(1), Op("setbyte"), Op("concat"), Op("len")>> : k \in 0..1}
  \cup {<<[op |-> "bytecblock", list |-> <<s>>], At("bytec", 0), I(0), I(1), Op("setbit"),
           At("bytec", 0), Op("==")>> : s \in Short}
  \cup {<<[op |-> "intcblock", list |-> <<5, 17>>], At("intc", k), At("dig", k)>> : k \in 0..2}
  \cup {<<To("callsub", "M"), To("callsub", "M"), To("b", "L"),
           M, Bytes(s), At2("extract", k, 0), Op("len"), Op("retsub"),
           L, Op("pop")>> : s \in Short, k \in 0..1}

ComputingPrograms ==
  Apps(Unary) \cup Apps(Binary) \cup Apps(Ternary) \cup Apps(Quaternary) \cup Apps(Inverses)
  \cup Apps(Shared)
  \cup Runs({8}, "signature", {<<I(k), Op("args"), Op("keccak256"), Op("len")>> : k \in 0..1}
                              \cup {<<I(1), I(1), Op("==")>>})

-----------------------------------------------------------------------------
(* The ledger: the transaction of sara calls application 1 and names bob,  *)
(* application 2 and asset 1.  It does not name carl, application 3 and    *)
(* asset 2: of these there are numbers that nothing else has.              *)

sara == <<0, 1>>
bob == <<0, 2>>
carl == <<0, 3>>
MCAppAddress(n) == <<3, n>>
MCGlobalValues == [MinTxnFee |-> 1, MinBalance |-> 10, MaxTxnLife |-> 3, LogicSigVersion |-> 8]

Secrets == 12..15

Hold(n) == [AssetBalance |-> n, AssetFrozen |-> 1]
Kept(kv, n) == [kv |-> kv, uints |-> n, slices |-> 1]
Account(balance, min, local, hold) ==
  [balance |-> balance, min |-> min, auth |-> sara, local |-> local, hold |-> hold]
Application(creator, kv, n) ==
  [creator |-> creator, kv |-> kv,
   schema |-> [AppGlobalNumUint |-> n, AppGlobalNumByteSlice |-> 1, AppLocalNumUint |-> n,
               AppLocalNumByteSlice |-> 1],
   programs |-> [AppApprovalProgram |-> <<1>>, AppClearStateProgram |-> <<2>>]]

\* Places 2 and 3 of the heap are arrays of the ledger, 4 and 5 logs.
WorldArrays == <<<<0, 0>>, <<1>>, <<2, 3>>, <<1, 1>>, <<2>>>>

CallFields ==
  [Sender |-> sara, Fee |-> 1, FirstValid |-> 4, LastValid |-> 6, Note |-> <<1>>,
   ApplicationID |-> 1, OnCompletion |-> 0, ApplicationArgs |-> <<<<1>>, <<>>>>,
   Accounts |-> <<bob>>, Applications |-> <<2>>, Assets |-> <<1>>,
   ApprovalProgram |-> <<1, 2, 3, 1, 2>>, ClearStateProgram |-> <<1, 2, 3, 1, 2, 3, 1>>]
Tx(type, id, f) == [type |-> type, id |-> id, f |-> f]

World ==
  [ self |-> 2,
    group |-> << Tx("axfer", <<1>>, [Sender |-> bob, FirstValid |-> 0, LastValid |-> 4]),
                 Tx("appl", <<2>>, CallFields),
                 Tx("acfg", <<3>>, [Sender |-> sara, ConfigAssetTotal |-> 9,
                                    ConfigAssetName |-> <<1, 1, 1, 1, 1>>]) >>,
    inner |-> <<<<Tx("pay", <<>>, [Sender |-> MCAppAddress(1), Note |-> <<>>])>>,
                <<Tx("pay", <<>>, [Sender |-> MCAppAddress(1), Amount |-> 1]),
                  Tx("appl", <<1, 1>>, [Sender |-> MCAppAddress(1), ApplicationID |-> 2])>>>>,
    accounts |->
      (sara :> Account(5, 2, (1 :> Kept((<<1>> :> Uint(4)) @@ (<<2>> :> Ref(2)), 2)),
                       (1 :> Hold(3)) @@ (2 :> Hold(13)))) @@
      (bob :> Account(6, 3, (1 :> Kept(Nothing, 0)) @@ (2 :> Kept(<<1>> :> Uint(3), 1)), Nothing)) @@
      (carl :> Account(13, 12, (1 :> Kept(<<1>> :> Uint(13), 1)), (1 :> Hold(14)))) @@
      (MCAppAddress(1) :> Account(7, 1, Nothing, Nothing)) @@
      (MCAppAddress(2) :> Account(8, 1, (1 :> Kept(<<1>> :> Uint(9), 1)), Nothing)) @@
      (MCAppAddress(3) :> Account(12, 13, Nothing, Nothing)),
    apps |->
      (1 :> Application(sara, (<<1>> :> Uint(2)) @@ (<<2>> :> Ref(3)), 2)) @@
      (2 :> Application(bob, (<<1>> :> Uint(9)), 1)) @@
      (3 :> Application(carl, (<<1>> :> Uint(14)), 1)),
    assets |->
      (1 :> [AssetTotal |-> 10, AssetDecimals |-> 0, AssetDefaultFrozen |-> 1,
             AssetCreator |-> sara]) @@
      (2 :> [AssetTotal |-> 15, AssetDecimals |-> 13, AssetDefaultFrozen |-> 0,
             AssetCreator |-> carl]),
    receipts |-> (<<1>> :> [assetIndex |-> 2]) @@ (<<2>> :> [logs |-> <<Ref(5)>>])
                 @@ (<<1, 1>> :> [logs |-> <<Ref(4), Ref(5)>>]),
    lastLog |-> Ref(5), zero |-> Ref(1),
    shared |-> (0 :> ((0 :> Uint(1)) @@ (1 :> Ref(3)))),
    knowableID |-> (0 :> 3),
    calls |-> <<2, 1>>,
    blocks |-> [r \in 1..3 |-> [seed |-> <<r>>, timestamp |-> r]],
    round |-> 4, timestamp |-> 5, groupID |-> <<1, 2>>, appCounter |-> 3, isInner |-> FALSE,
    building |-> <<>>, credit |-> 1 ]

AllInWorld(versions, w, codes) == RunsOn(WorldArrays, World, versions, w, codes)
InWorld(v, w, code) ==
  [version |-> v, mode |-> w, code |-> code, args |-> <<<<1, 2>>>>, pooled |-> 0,
   arrays |-> WorldArrays, ctx |-> World]

With1(op, field) == [op |-> op, field |-> field]
Read(op, field, t, k) == [op |-> op, field |-> field, t |-> t, x |-> k]
From(op, t, k) == [op |-> op, t |-> t, x |-> k]

Reference ==
  {I(n) : n \in 0..3}
  \cup {Bytes(a) : a \in {sara, bob, carl, <<1, 1>>} \cup {MCAppAddress(n) : n \in 1..3}}
Key == {Bytes(<<>>), Bytes(<<1>>), Bytes(<<2>>), Bytes(<<3>>), Bytes(<<1, 1, 1>>)}
Item == {I(0), I(7), Bytes(<<>>), Bytes(<<1, 2>>)}
Number0 == {I(n) : n \in 0..4}

LedgerCodes ==
  {<<a, Op(op)>> : a \in Reference, op \in {"balance", "min_balance"}}
  \cup {<<a, n, With1("asset_holding_get", f)>> :
          a \in Reference, n \in Number0, f \in {"AssetBalance", "AssetFrozen", "AssetTotal"}}
  \cup {<<n, With1("asset_params_get", f)>> :
          n \in Number0, f \in {"AssetTotal", "AssetDecimals", "AssetCreator", "AssetName"}}
  \cup {<<n, With1("app_params_get", f)>> :
          n \in Number0, f \in {"AppCreator", "AppAddress", "AppApprovalProgram",
                                "AppGlobalNumUint", "AppExtraProgramPages"}}
  \cup {<<a, With1("acct_params_get", f)>> :
          a \in Reference, f \in {"AcctBalance", "AcctMinBalance", "AcctAuthAddr"}}
  \cup {<<a, n, Op("app_opted_in")>> : a \in Reference, n \in Number0}
  \cup {<<a, k, Op(op)>> : a \in Reference, k \in Key, op \in {"app_local_get", "app_local_del"}}
  \cup {<<a, n, k, Op("app_local_get_ex")>> : a \in Reference, n \in Number0, k \in Key}
  \cup {<<k, Op(op)>> : k \in Key, op \in {"app_global_get", "app_global_del"}}
  \cup {<<n, k, Op("app_global_get_ex")>> : n \in Number0, k \in Key}
  \cup {<<a, k, x, Op("app_local_put")>> : a \in Reference, k \in Key, x \in Item}
  \cup {<<k, x, Op("app_global_put"), j, y, Op("app_global_put")>> : j, k \in Key, x, y \in Item}
  \cup {<<x, Op("log"), y, Op("log")>> : x, y \in Item}
  \cup {<<k, Op("app_global_get"), I(0), I(1), Op("setbyte"), Op("log")>> : k \in Key}

FieldCodes ==
  {<<Read("txn", f, 0, k)>> : f \in TxnFields(8) \cup {"Logs"}, k \in 0..2}
  \cup {<<Read("gtxn", f, t, 0)>> : f \in TxnFields(8), t \in {0, 2, 3}}
  \cup {<<I(t), Read("gtxns", f, 0, 0)>> : f \in {"Sender", "TypeEnum"}, t \in {0, 3}}
  \cup {<<I(n), Read(op, f, 1, n)>> : f \in TxArrFields(8), n \in 0..2,
          op \in {"txna", "txnas", "gtxna", "gtxnas", "gtxnsa", "gitxna", "gitxnas"}}
  \cup {<<I(t), I(n), Read("gtxnsas", f, 0, 0)>> : f \in TxArrFields(8), t, n \in 0..2}
  \cup {<<Read(op, f, 0, 0)>> : f \in TxnFields(8) \cup {"Logs", "NumLogs"}, op \in {"itxn", "gitxn"}}
  \cup {<<I(n), Read(op, "Logs", 0, n)>> : n \in 0..2, op \in {"itxna", "itxnas"}}
  \cup {<<With1("global", f)>> : f \in GlobalFields(8) \ {"OpcodeBudget"}}
  \cup {<<From("gload", t, k)>> : t, k \in 0..2}
  \cup {<<I(t), I(k), From(op, t, k)>> : t, k \in 0..2, op \in {"gloads", "gloadss", "gaid", "gaids"}}
  \cup {<<I(r), With1("block", f)>> : r \in 0..4, f \in {"BlkSeed", "BlkTimestamp", "BlkHash"}}
  \cup {<<[op |-> "addr", bytes |-> carl], Op("balance")>>}

LedgerPrograms ==
  AllInWorld({3, 8}, "application", LedgerCodes)
  \cup AllInWorld({8}, "application", FieldCodes)
  \cup AllInWorld({2, 7}, "signature", {<<Read("txn", f, 0, 0)>> : f \in {"Sender", "FirstValidTime"}})
  \cup {InWorld(8, "signature", <<Bytes(sara), Op("balance")>>)}
  \cup {InWorld(6, "signature", <<With1("global", "OpcodeBudget"), With1("global", "ZeroAddress")>>)}
  \cup {[InWorld(8, "application", <<With1("global", "OpcodeBudget"), Op("dup")>>)
           EXCEPT !.pooled = k] : k \in {57, 58, 59}}
  \cup {[InWorld(v, "application", <<Read("itxn", "Fee", 0, 0)>>) EXCEPT !.ctx.inner = <<>>] : v \in {5, 6}}
  \cup {[InWorld(v, "application", <<I(1)>>) EXCEPT !.ctx.isInner = TRUE] : v \in {5, 6}}
  \cup {[InWorld(8, "application", <<I(1)>>) EXCEPT !.ctx.group[2].f[f] = [k \in 1..n |-> bob]] :
          f \in {"ApplicationArgs", "Accounts"}, n \in 2..3}
  \cup {[InWorld(8, "application", <<I(1)>>) EXCEPT !.ctx.group[2].f["Assets"] = [k \in 1..n |-> 1]] :
          n \in 2..3}
  \cup {[InWorld(8, "application", <<I(1), Op("log")>>) EXCEPT !.ctx.receipts = Nothing]}

-----------------------------------------------------------------------------
(* Inner transactions                                                      *)

MCTypeNames == (<<1>> :> "pay") @@ (<<1, 1>> :> "appl") @@ (<<3>> :> "unheard")
MCExactLength == [ConfigAssetMetadataHash |-> 2, VotePK |-> 2, SelectionPK |-> 2]
MCMaxLength ==
  [ConfigAssetUnitName |-> 1, ConfigAssetName |-> 2, ConfigAssetURL |-> 3, Note |-> 2,
   ApprovalProgramPages |-> 4, ClearStateProgramPages |-> 3]

Begin == Op("itxn_begin")
SetField(f) == With1("itxn_field", f)
Settings ==
  {I(n) : n \in 0..3}
  \cup {Bytes(a) : a \in {sara, bob, carl, MCAppAddress(1), MCAppAddress(2), <<>>, <<1>>,
                          <<1, 1>>, <<3>>, <<1, 2, 1>>}}

Pages == {Bytes(s) : s \in {<<>>, <<1>>, <<3>>, <<1, 2, 1>>}}
InnerCodes ==
  {<<Begin, x, SetField("Fee"), Op("itxn_next"), y, SetField("Fee"), Op("itxn_next")>> :
     x, y \in {I(0), I(1), I(2)}}
  \cup {<<Begin, x, SetField(f), y, SetField(g)>> :
          x, y \in Pages, f \in PageFields \cup ProgramFields, g \in PageFields}
  \cup {<<Begin, x, SetField(f), y, SetField(f)>> :
          x, y \in Pages, f \in {"ApplicationArgs", "Receiver"}}
  \cup {<<Begin, x, Op("dup"), SetField("Note"), I(0), I(1), Op("setbyte")>> : x \in Pages}
  \cup {<<Begin, Begin>>, <<Op("itxn_next")>>, <<I(1), SetField("Amount")>>, <<Begin, SetField("Amount")>>}
OneField(v) == {<<Begin, x, SetField(f)>> : x \in Settings, f \in TxnFields(v)}

InnerPrograms ==
  AllInWorld({8}, "application", InnerCodes)
  \cup AllInWorld({5}, "application", OneField(5))
  \cup AllInWorld({8}, "application", OneField(8))
  \cup AllInWorld({6}, "application", {<<Begin, x, SetField(f)>> : x \in Pages, f \in TxnFields(6)})
  \cup {[InWorld(8, "application", <<Begin, Op("itxn_next")>>) EXCEPT !.ctx.credit = k] : k \in 0..2}
  \cup {[InWorld(8, "application", <<Begin>>) EXCEPT !.ctx.group[2].f["OnCompletion"] = 3],
        [InWorld(8, "application", <<Begin>>) EXCEPT !.ctx.inner = @ \o @],
        InWorld(8, "signature", <<Begin>>)}

-----------------------------------------------------------------------------
(* Libraries                                                               *)

LibraryCodes ==
  {<<Bytes(s), With1("base64_decode", "StdEncoding")>> : s \in Arrays0}
  \cup {<<Bytes(s), Bytes(t), With1("json_ref", f)>> : s, t \in Short,
          f \in {"JSONString", "JSONUint64", "JSONObject"}}
  \cup {<<Bytes(s), Bytes(t), Op(op)>> : s, t \in Arrays0,
          op \in {"bn254_add", "bn254_scalar_mul"}}
  \cup {<<Bytes(s), Bytes(t \o t), Op("bn254_pairing"), Op("dup")>> : s, t \in Arrays0}
  \cup {<<Bytes(s), Bytes(t), Bytes(<<1>>), With1("vrf_verify", f)>> :
          s, t \in Arrays0, f \in {"VrfAlgorand", "VrfStandard"}}
  \cup {<<Bytes(s), With1("ecdsa_pk_decompress", "secp256k1")>> : s \in Short}
  \cup {<<Bytes(s), I(k), Bytes(t), Bytes(t), With1("ecdsa_pk_recover", "secp256r1")>> :
          s, t \in Short, k \in 0..1}

LibraryPrograms == Apps(LibraryCodes)

MCPrograms == ControlPrograms \cup ComputingPrograms \cup LedgerPrograms \cup LibraryPrograms
              \cup InnerPrograms

\* A hash of one byte; text in which the upper half of the bytes is replaced; a
\* triple is valid if its ends agree.
MCDigest(bytes) == <<Number(bytes) % ByteSize>>
MCText(bytes) == [k \in DOMAIN bytes |-> IF bytes[k] < 2 THEN bytes[k] ELSE 3]
MCVerifies(parts) == parts[1] = parts[Len(parts)]

\* Libraries throw for arrays that begin with zero.
MCLibrary(name, parts) ==
  IF \E k \in DOMAIN parts : parts[k] # <<>> /\ parts[k][1] = 0 THEN <<>>
  ELSE IF name \in {"decompress", "recover"} THEN <<MCDigest(parts[1]), <<1>>>>
  ELSE <<MCDigest(parts[1])>>
\* What an object of one member has; it may be a number of any size.
MCJson(object, key) ==
  CASE object = <<>> -> [kind |-> "invalid"]
    [] object = key -> [kind |-> "JSONUint64", value |-> 16]
    [] key = <<2>> -> [kind |-> "JSONUint64", value |-> 0 - 1]
    [] key = <<>> -> [kind |-> "JSONString", value |-> <<1>>]
    [] OTHER -> [kind |-> "undefined"]

-----------------------------------------------------------------------------
(* Properties of what is read and computed                                 *)

\* From version 4 a program learns nothing of accounts, assets and applications
\* that its transaction does not name: no number that only they have gets onto
\* its stack.  (app_params_get takes any application: it reads no such number.)
ReadsWithinReach ==
  version >= 4 /\ vm.ctx.accounts # Nothing
  => \A v \in Values : IsUint(v) => v.u \notin Secrets

\* The program has just run the last of its instructions, which are ops.
Ended(ops) ==
  LET n == Len(vm.code)
  IN  /\ status = "running" /\ vm.pc = n + 1 /\ n >= Len(ops)
      /\ \A k \in 1..Len(ops) : vm.code[n - Len(ops) + k].op = ops[k]

\* What the instruction k from the end has as its parameter.
Given(k) == vm.code[Len(vm.code) - k].x
GivenBytes(k) == vm.code[Len(vm.code) - k].bytes
Double(hi, lo) == hi * Word + lo

\* Results of two words and square roots are exact: high and low part make up
\* the sum, product or power, quotient times divisor and remainder make up the
\* dividend, and a root is the floor of the root, with one exception.  Where it is
\* ExactSqrt - 1, Newton's iteration starts one below it and may end at once, since
\* the next value is one above: the root of (2^52 - 1)^2 comes out as 2^52 - 2
\* (math.ts:16-24).
ArithmeticExact ==
  /\ Ended(<<"int", "int", "addw">>) => Double(U(vm, 1), U(vm, 0)) = Given(2) + Given(1)
  /\ Ended(<<"int", "int", "mulw">>) => Double(U(vm, 1), U(vm, 0)) = Given(2) * Given(1)
  /\ Ended(<<"int", "int", "expw">>) => Double(U(vm, 1), U(vm, 0)) = Given(2)^Given(1)
  /\ Ended(<<"int", "int", "int", "int", "divmodw">>) =>
       LET d == Double(Given(2), Given(1))
           r == Double(U(vm, 1), U(vm, 0))
       IN  r < d /\ Double(Given(4), Given(3)) = Double(U(vm, 3), U(vm, 2)) * d + r
  /\ Ended(<<"int", "int", "int", "divw">>) =>
       LET q == U(vm, 0) * Given(1)
       IN  q <= Double(Given(3), Given(2)) /\ Double(Given(3), Given(2)) < q + Given(1)
  /\ Ended(<<"int", "sqrt">>) =>
       LET r == U(vm, 0) IN r * r <= Given(1) /\ Given(1) < (r + 1) * (r + 1)
  /\ Ended(<<"pushbytes", "bsqrt">>) =>
       LET r == Number(B(vm, 0))
           n == Number(GivenBytes(1))
       IN  /\ r * r <= n
           /\ n < (r + 1)^2 \/ (r = ExactSqrt - 2 /\ n < (r + 2)^2)

\* What one opcode does another undoes: conversions to bytes and back, sums and
\* differences of bytes, cover and uncover, a bit that is set and read.
RoundTrips ==
  /\ Ended(<<"int", "itob", "btoi">>) => U(vm, 0) = Given(2)
  /\ Ended(<<"pushbytes", "pushbytes", "b+", "pushbytes", "b-">>) =>
       Number(B(vm, 0)) = Number(GivenBytes(4))
  /\ Ended(<<"pushbytes", "b~", "b~">>) => B(vm, 0) = GivenBytes(2)
  /\ Ended(<<"int", "int", "int", "cover", "uncover">>) =>
       vm.stack = <<Uint(1), Uint(2), Uint(3)>>
  /\ Ended(<<"int", "int", "setbit", "int", "getbit">>) => U(vm, 0) = Given(3)

\* What opcodes compute agrees with what they are for, and no integer leaves the
\* range of 64 bits on the way, in results of one word or of two.
ComputesRight == ArithmeticExact /\ RoundTrips /\ UintsFit
=============================================================================
