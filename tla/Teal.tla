-------------------------------- MODULE Teal --------------------------------
(***************************************************************************)
(* The TEAL interpreter of @algo-builder/runtime as a machine that runs    *)
(* one program: what the parser refuses (packages/runtime/src/parser/      *)
(* parser.ts), the loop of Interpreter.executeWithResult, the opcodes that *)
(* move the instruction pointer (interpreter/opcode-list.ts) and the cost. *)
(* The opcodes that compute are the operators of TealData and TealLibrary, *)
(* those that read and write transactions and the ledger the ones of       *)
(* TealFields and TealLedger, those that build inner transactions the ones *)
(* of TealInner.  Submitting them is an action of AppCalls.                *)
(*                                                                         *)
(* A program is a sequence of records: op, and the parameters x, y, bytes, *)
(* list, or the label "to".  A line that defines a label has op "label".   *)
(***************************************************************************)
EXTENDS TealInner

CONSTANTS
  Programs,      \* records [version, mode, code, args, pooled, arrays, ctx] to run
  Slots,         \* places of the scratch space, 256 in the code
  Budget,        \* ctx.budget
  MaxAppCost,    \* MAX_APP_PROGRAM_COST
  MaxLsigCost    \* LOGIC_SIG_MAX_COST

VARIABLES
  vm,            \* fields of the interpreter
  version,       \* tealVersion
  mode,          \* "signature" or "application"
  cost,          \* cost of the instructions so far
  pooled,        \* ctx.pooledApplCost, with what earlier programs of the group took
  status         \* "parsing", "running", "approved", "rejected" or "failed"

vars == <<vm, version, mode, cost, pooled, status>>

Blank == [k \in 0..(Slots - 1) |-> Uint(0)]

-----------------------------------------------------------------------------
(* What a program is given                                                 *)

\* s is a sequence, of whatever.
IsSequence(s) == s \in Seq({s[k] : k \in DOMAIN s})

\* If the value v is an array, it is on the heap h.
OnHeap(h, v) == IsBytes(v) => v.b \in DOMAIN h
AllOnHeap(h, s) == IsSequence(s) /\ \A k \in DOMAIN s : OnHeap(h, s[k])

\* A state keeps to its schema, and its arrays are on the heap h.
StateSound(h, kv, uints, slices) ==
  /\ {uints, slices} \subseteq Int
  /\ IsFiniteSet(DOMAIN kv) /\ \A key \in DOMAIN kv : OnHeap(h, kv[key])
  /\ ValidSchema([heap |-> h], kv, uints, slices)

AppSound(h, app) ==
  /\ {"kv", "schema"} \subseteq DOMAIN app
  /\ StateSound(h, app.kv, app.schema["AppGlobalNumUint"], app.schema["AppGlobalNumByteSlice"])

LocalSound(h, s) ==
  {"kv", "uints", "slices"} \subseteq DOMAIN s /\ StateSound(h, s.kv, s.uints, s.slices)

\* What a program sees of the ledger and of the other programs of its group.
CtxSound(h, c) ==
  /\ {"self", "group", "accounts", "apps", "receipts", "zero", "lastLog", "shared", "building"}
       \subseteq DOMAIN c
  /\ OnHeap(h, c.zero) /\ OnHeap(h, c.lastLog)
  /\ \A t \in DOMAIN c.shared : \A k \in DOMAIN c.shared[t] : OnHeap(h, c.shared[t][k])
  /\ \A n \in DOMAIN c.apps : AppSound(h, c.apps[n])
  /\ \A a \in DOMAIN c.accounts :
       /\ "local" \in DOMAIN c.accounts[a]
       /\ \A n \in DOMAIN c.accounts[a].local : LocalSound(h, c.accounts[a].local[n])
  /\ \A id \in DOMAIN c.receipts : AllOnHeap(h, Get(c.receipts[id], "logs", <<>>))

InstructionSound(i) ==
  /\ "op" \in DOMAIN i
  /\ i.op \in {"bytecblock", "switch"} => IsSequence(i.list)
  /\ i.op \in {"dig", "cover", "uncover"} => i.x \in Nat
  /\ i.op = "acct_params_get" => i.field \in {"AcctBalance", "AcctMinBalance", "AcctAuthAddr"}

CodeSound(code) == IsSequence(code) /\ \A k \in DOMAIN code : InstructionSound(code[k])

ASSUME ProgramsAssumption ==
  \A p \in Programs :
    /\ p.version \in 1..8 /\ p.mode \in {"signature", "application"} /\ p.pooled \in Nat
    /\ CodeSound(p.code) /\ IsSequence(p.args) /\ IsSequence(p.arrays)
    /\ CtxSound(p.arrays, p.ctx) /\ p.ctx.building = <<>>

-----------------------------------------------------------------------------
(* The parser                                                              *)

\* The opcodes that version v adds to those before it.
Introduced ==
  << {"#pragma", "label", "len", "err", "+", "-", "/", "*", "arg", "bytecblock", "bytec",
      "intcblock", "intc", "%", "|", "&", "^", "~", "store", "load", "sha256",
      "sha512_256", "keccak256", "ed25519verify", "<", ">", "<=", ">=", "&&", "||",
      "==", "!=", "!", "itob", "btoi", "mulw", "pop", "dup", "int", "byte", "bnz", "addr",
      "txn", "gtxn", "global"},
     {"addw", "b", "bz", "return", "dup2", "concat", "substring", "substring3", "txna",
      "gtxna", "app_opted_in", "app_local_get", "app_local_get_ex", "app_global_get",
      "app_global_get_ex", "app_local_put", "app_global_put", "app_local_del",
      "app_global_del", "balance", "asset_holding_get", "asset_params_get"},
     {"assert", "swap", "pushint", "pushbytes", "getbit", "setbit", "getbyte", "setbyte",
      "dig", "select", "gtxns", "gtxnsa", "min_balance"},
     {"callsub", "retsub", "b+", "b-", "b*", "b/", "b%", "b<", "b>", "b<=", "b>=", "b==",
      "b!=", "b|", "b&", "b^", "b~", "bzero", "divmodw", "exp", "expw", "shl", "shr",
      "sqrt", "bitlen", "gload", "gloads", "gaid", "gaids"},
     {"cover", "uncover", "loads", "stores", "ecdsa_verify", "extract", "extract3",
      "extract_uint16", "extract_uint32", "extract_uint64", "args", "ecdsa_pk_decompress",
      "ecdsa_pk_recover", "itxn", "itxna", "txnas", "gtxnas", "gtxnsas", "log",
      "app_params_get", "itxn_begin", "itxn_field"},
     {"divw", "bsqrt", "gloadss", "acct_params_get", "gitxn", "gitxna", "gitxnas", "itxnas",
      "itxn_next"},
     {"replace2", "replace3", "sha3_256", "ed25519verify_bare", "base64_decode", "json_ref",
      "block", "vrf_verify"},
     {"switch", "bn254_add", "bn254_scalar_mul", "bn254_pairing"} >>

Opcodes(v) == UNION {Introduced[n] : n \in 1..v}

SignatureOps == {"arg", "args"}
ApplicationOps ==
  (LedgerOps \cup InnerOps \cup {"gload", "gloads", "gloadss", "gaid", "gaids", "itxn", "itxna", "itxnas",
                   "gitxn", "gitxna", "gitxnas"})

Allowed(code, v, w) ==
  \A k \in DOMAIN code :
    /\ code[k].op \in Opcodes(v)
    /\ code[k].op \notin IF w = "application" THEN SignatureOps ELSE ApplicationOps
    /\ FieldAllowed(v, code[k]) /\ ParamAllowed(v, code[k])
    /\ code[k].op = "#pragma" => k = 1
    /\ code[k].op \in {"int", "pushint"} => code[k].x \in 0..MaxUint
    /\ code[k].op = "switch" => Len(code[k].list) < ByteSize

\* Mutant: jumps are free.
OpCostFreeJumps(v, i) ==
  IF i.op \in {"label", "#pragma", "b", "bz", "bnz", "switch"} THEN 0 ELSE 1

\* OpGasCost, and computeCost of the opcodes when they are parsed.
OpCost(v, i) ==
  CASE i.op \in {"label", "#pragma"} -> 0
    [] i.op \in {"b+", "b-"} -> 10
    [] i.op \in {"b*", "b/", "b%"} -> 20
    [] i.op \in {"b|", "b&", "b^"} -> 6
    [] i.op = "b~" -> 4
    [] i.op = "bsqrt" -> 40
    [] OTHER -> LibraryCost(v, i, 1)

\* interpreter.gas after parsing.
StaticGas(code, v) == MapThenSumSet(LAMBDA k : OpCost(v, code[k]), DOMAIN code)

CostLimit(w) == IF w = "signature" THEN MaxLsigCost ELSE MaxAppCost

\* A constant that two instructions push is put into a block at the cost of
\* one, unless the program starts with a block of its own.
AddsBlock(code, v, push, block) ==
  /\ v >= 4
  /\ \A k \in {1, 2} \cap DOMAIN code : code[k].op # block
  /\ \E j, k \in DOMAIN code :
       j # k /\ code[j].op = push /\ code[k].op = push /\ code[j] = code[k]

Parse ==
  LET blocks == Cardinality({p \in {<<"int", "intcblock">>, <<"byte", "bytecblock">>} :
                               AddsBlock(vm.code, version, p[1], p[2])})
  IN  /\ status = "parsing"
      /\ IF Allowed(vm.code, version, mode)
              /\ (version <= 3 => StaticGas(vm.code, version) <= CostLimit(mode))
              /\ (mode = "application" => TxArraysValid(vm))
         THEN status' = "running" /\ cost' = blocks /\ pooled' = pooled + blocks
         ELSE status' = "failed" /\ UNCHANGED <<cost, pooled>>
      /\ UNCHANGED <<vm, version, mode>>

-----------------------------------------------------------------------------
(* Jumps                                                                   *)

IsLabel(code, k) == code[k].op = "label"
LabelsOf(code, to) == {k \in DOMAIN code : IsLabel(code, k) /\ code[k].to = to}

\* The last of the labels that follow one another from k on.
LastLabel(code, k) ==
  Max({j \in k..Len(code) : \A i \in k..j : IsLabel(code, i)})

\* bz, bnz and b before version 4: the next definition of the label.
JumpForward(m, to) ==
  LET targets == {k \in LabelsOf(m.code, to) : k > m.pc}
  IN  IF targets = {} THEN Fail(m) ELSE [m EXCEPT !.pc = LastLabel(m.code, Min(targets))]

\* Mutant: the pointer is set behind the labels and raised once more.
JumpPast(m, to) ==
  LET targets == LabelsOf(m.code, to)
      landing == LastLabel(m.code, Max(targets))
  IN  IF targets = {} THEN Fail(m)
      ELSE IF landing = Len(m.code) THEN m
      ELSE [m EXCEPT !.pc = landing + 1]

\* From version 4: the last definition.  When only labels follow it, the loop
\* ends before the pointer is set.
JumpToLabel(m, to) ==
  LET targets == LabelsOf(m.code, to)
      landing == LastLabel(m.code, Max(targets))
  IN  IF targets = {} THEN Fail(m)
      ELSE IF landing = Len(m.code) THEN m
      ELSE [m EXCEPT !.pc = landing]

Jump(m, to) == IF version < 4 THEN JumpForward(m, to) ELSE JumpToLabel(m, to)

-----------------------------------------------------------------------------
(* The opcodes that compute, by name                                       *)

Constants(m, i) ==
  CASE i.op \in {"int", "pushint"} -> PushInt(m, i)
    [] i.op \in {"byte", "pushbytes", "addr"} -> PushBytes(m, i)
    [] i.op = "arg" -> Arg(m, i.x)
    [] i.op = "args" ->
         IF UintAt(m, 0) THEN Arg(Put(m, 1, <<>>), U(m, 0)) ELSE Fail(m)
    [] i.op = "intcblock" -> Intcblock(m, i)
    [] i.op = "intc" -> Intc(m, i)
    [] i.op = "bytecblock" -> Bytecblock(m, i)
    [] i.op = "bytec" -> Bytec(m, i)
    [] i.op = "store" -> Store(m, i)
    [] i.op = "load" -> Load(m, i)
    [] i.op = "stores" -> Stores(m)
    [] i.op = "loads" -> Loads(m)
ConstantOps ==
  {"int", "pushint", "byte", "pushbytes", "addr", "arg", "args", "intcblock", "intc", "bytecblock",
   "bytec", "store", "load", "stores", "loads"}

StackOps == {"pop", "dup", "dup2", "swap", "dig", "select", "cover", "uncover"}
Shuffle(m, i) ==
  CASE i.op = "pop" -> Pop(m)
    [] i.op = "dup" -> Dup(m)
    [] i.op = "dup2" -> Dup2(m)
    [] i.op = "swap" -> Swap(m)
    [] i.op = "dig" -> Dig(m, i)
    [] i.op = "select" -> Select(m)
    [] i.op = "cover" -> Cover(m, i)
    [] i.op = "uncover" -> Uncover(m, i)

IntegerOps ==
  {"+", "-", "*", "/", "%", "|", "&", "^", "~", "<", ">", "<=", ">=", "&&", "||", "!",
   "==", "!=", "addw", "mulw", "divw", "divmodw", "exp", "expw", "shl", "shr", "sqrt",
   "bitlen"}
Calculate(m, op) ==
  CASE op = "+" -> Add(m)
    [] op = "-" -> Sub(m)
    [] op = "*" -> Mul(m)
    [] op = "/" -> Div(m)
    [] op = "%" -> Mod(m)
    [] op = "|" -> BitwiseOr(m)
    [] op = "&" -> BitwiseAnd(m)
    [] op = "^" -> BitwiseXor(m)
    [] op = "~" -> BitwiseNot(m)
    [] op = "<" -> LessThan(m)
    [] op = ">" -> GreaterThan(m)
    [] op = "<=" -> LessThanEqualTo(m)
    [] op = ">=" -> GreaterThanEqualTo(m)
    [] op = "&&" -> And(m)
    [] op = "||" -> Or(m)
    [] op = "!" -> Not(m)
    [] op = "==" -> EqualTo(m)
    [] op = "!=" -> NotEqualTo(m)
    [] op = "addw" -> Addw(m)
    [] op = "mulw" -> Mulw(m)
    [] op = "divw" -> Divw(m)
    [] op = "divmodw" -> DivModw(m)
    [] op = "exp" -> Exp(m)
    [] op = "expw" -> Expw(m)
    [] op = "shl" -> Shl(m)
    [] op = "shr" -> Shr(m)
    [] op = "sqrt" -> Sqrt(m)
    [] op = "bitlen" -> BitLen(m)

ArrayOps ==
  {"len", "itob", "btoi", "concat", "substring", "substring3", "extract", "extract3",
   "extract_uint16", "extract_uint32", "extract_uint64", "replace2", "replace3", "getbit",
   "setbit", "getbyte", "setbyte"}
HandleArray(m, i) ==
  CASE i.op = "len" -> LenOp(m)
    [] i.op = "itob" -> Itob(m)
    [] i.op = "btoi" -> Btoi(m)
    [] i.op = "concat" -> Concat(m)
    [] i.op = "substring" -> Substring(m, i)
    [] i.op = "substring3" -> Substring3(m)
    [] i.op = "extract" -> Extract(m, i)
    [] i.op = "extract3" -> Extract3(m)
    [] i.op = "extract_uint16" -> ExtractUintN(m, 2)
    [] i.op = "extract_uint32" -> ExtractUintN(m, 4)
    [] i.op = "extract_uint64" -> ExtractUintN(m, 8)
    [] i.op = "replace2" -> Replace2(m, i)
    [] i.op = "replace3" -> Replace3(m)
    [] i.op = "getbit" -> GetBit(m)
    [] i.op = "setbit" -> SetBit(m)
    [] i.op = "getbyte" -> GetByte(m)
    [] i.op = "setbyte" -> SetByte(m)

ByteOps ==
  {"b+", "b-", "b*", "b/", "b%", "b<", "b>", "b<=", "b>=", "b==", "b!=", "b|", "b&", "b^",
   "b~", "bzero", "bsqrt"}
HandleBytes(m, op) ==
  CASE op \in {"b+", "b-", "b*", "b/", "b%"} -> ByteOp(m, op)
    [] op \in {"b<", "b>", "b<=", "b>=", "b==", "b!="} -> ByteCompare(m, op)
    [] op \in {"b|", "b&", "b^"} -> ByteBitwise(m, op)
    [] op = "b~" -> ByteBitwiseInvert(m)
    [] op = "bzero" -> ByteZero(m)
    [] op = "bsqrt" -> Bsqrt(m)

-----------------------------------------------------------------------------
(* The loop of executeWithResult                                           *)

Here == vm.code[vm.pc]

\* What the instruction costs now that it is run.
RunCost ==
  CASE Here.op = "base64_decode" /\ BytesAt(vm, 0) -> LibraryCost(version, Here, Len(B(vm, 0)))
    [] Here.op = "json_ref" /\ Arrays(vm, 2) -> LibraryCost(version, Here, Len(B(vm, 1)))
    [] OTHER -> OpCost(version, Here)

\* An inner application call runs programs from version 6 only.
VersionSupported == vm.ctx.isInner => version >= 6

\* Mutant: the cost is compared before the instruction is added.
AdvanceLate(ops, m) ==
  /\ status = "running" /\ vm.pc <= Len(vm.code) /\ Here.op \in ops
  /\ IF m.ok
     THEN /\ vm' = [m EXCEPT !.pc = @ + 1]
          /\ cost' = cost + RunCost
          /\ pooled' = IF version >= 4 /\ mode = "application" THEN pooled + RunCost ELSE pooled
          /\ status' = IF version >= 4 /\ pooled > Budget THEN "failed" ELSE status
     ELSE status' = "failed" /\ UNCHANGED <<vm, cost, pooled>>
  /\ UNCHANGED <<version, mode>>

\* The instruction at the pointer, one of ops, leads to m.
Advance(ops, m) ==
  LET spent == (IF mode = "signature" THEN cost ELSE pooled) + RunCost
      limit == IF mode = "signature" THEN MaxLsigCost ELSE Budget
  IN  /\ status = "running" /\ vm.pc <= Len(vm.code) /\ Here.op \in ops
      /\ IF VersionSupported /\ m.ok
         THEN /\ vm' = [m EXCEPT !.pc = @ + 1]
              /\ cost' = cost + RunCost
              /\ pooled' = IF version >= 4 /\ mode = "application" THEN pooled + RunCost ELSE pooled
              /\ status' = IF version < 4 \/ spent <= limit THEN status ELSE "failed"
         ELSE status' = "failed" /\ UNCHANGED <<vm, cost, pooled>>
      /\ UNCHANGED <<version, mode>>

PushConstant == Advance(ConstantOps, Constants(vm, Here))
ShuffleStack == Advance(StackOps, Shuffle(vm, Here))
ComputeIntegers == Advance(IntegerOps, Calculate(vm, Here.op))
ComputeArrays == Advance(ArrayOps, HandleArray(vm, Here))
ComputeBytes == Advance(ByteOps, HandleBytes(vm, Here.op))
CallLibrary == Advance(LibraryOps, UseLibrary(vm, Here))
ReadTransaction == Advance(TxnOps, ReadTxn(vm, version, Here))
AccessLedger == Advance(LedgerOps, UseLedger(vm, version, Here))
BuildTransactions == Advance(InnerOps, BuildInner(vm, version, Here))

\* OpcodeBudget is what is left when this instruction is paid.
ReadGlobal ==
  LET limit == IF mode = "signature" THEN MaxLsigCost ELSE Budget
      spent == (IF mode = "signature" THEN cost ELSE pooled) + 1
  IN  Advance({"global"}, IF Here.field = "OpcodeBudget" THEN Put(vm, 0, <<Uint(limit - spent)>>)
                          ELSE Global(vm, Here.field))

ReadGroup ==
  \/ Advance({"gload"}, Gload(vm, Here))
  \/ Advance({"gloads"}, Gloads(vm, Here))
  \/ Advance({"gloadss"}, Gloadss(vm))
  \/ Advance({"gaid"}, Gaid(vm, Here))
  \/ Advance({"gaids"}, Gaids(vm))
  \/ Advance({"block"}, Block(vm, Here))

Mark == Advance({"label", "#pragma"}, vm)

Branch == Advance({"b"}, Jump(vm, Here.to))

\* bz and bnz: pops an integer and jumps when it is zero, or is not.
BranchIf ==
  Advance({"bz", "bnz"},
          IF ~UintAt(vm, 0) THEN Fail(vm)
          ELSE IF (U(vm, 0) = 0) = (Here.op = "bz") THEN Jump(Put(vm, 1, <<>>), Here.to)
          ELSE Put(vm, 1, <<>>))

\* An index that is the number of labels, or below zero, finds no label.
Switch ==
  Advance({"switch"},
          IF ~UintAt(vm, 0) THEN Fail(vm)
          ELSE IF Here.list = <<>> \/ U(vm, 0) > Len(Here.list) THEN Put(vm, 1, <<>>)
          ELSE IF U(vm, 0) + 1 \notin DOMAIN Here.list THEN Fail(vm)
          ELSE JumpToLabel(Put(vm, 1, <<>>), Here.list[U(vm, 0) + 1]))

\* The stack of callers is a Stack like the others.
Callsub ==
  Advance({"callsub"},
          IF Len(vm.calls) = StackCapacity THEN Fail(vm)
          ELSE JumpToLabel([vm EXCEPT !.calls = Append(@, vm.pc)], Here.to))

Retsub ==
  Advance({"retsub"},
          IF vm.calls = <<>> THEN Fail(vm)
          ELSE [vm EXCEPT !.pc = vm.calls[Len(vm.calls)],
                          !.calls = SubSeq(@, 1, Len(@) - 1)])

\* Keeps the top of the stack only and goes to the end.
Return ==
  Advance({"return"},
          IF vm.stack = <<>> THEN Fail(vm)
          ELSE [vm EXCEPT !.stack = <<Top(vm, 0)>>, !.pc = Len(vm.code)])

AssertOp ==
  Advance({"assert"}, IF UintAt(vm, 0) /\ U(vm, 0) # 0 THEN Put(vm, 1, <<>>) ELSE Fail(vm))

Err == Advance({"err"}, Fail(vm))

\* execute: approved if the stack holds one positive integer.
Finish ==
  /\ status = "running" /\ vm.pc > Len(vm.code)
  /\ status' = IF Len(vm.stack) = 1 /\ IsUint(vm.stack[1]) /\ vm.stack[1].u > 0
               THEN "approved" ELSE "rejected"
  /\ UNCHANGED <<vm, version, mode, cost, pooled>>

Init ==
  \E p \in Programs :
    /\ vm = NewMachine(p.code, p.args, Blank, p.arrays, p.ctx)
    /\ version = p.version /\ mode = p.mode
    /\ cost = 0 /\ pooled = p.pooled
    /\ status = "parsing"

Next ==
  \/ Parse \/ PushConstant \/ ShuffleStack \/ ComputeIntegers \/ ComputeArrays
  \/ ComputeBytes \/ CallLibrary \/ ReadTransaction \/ AccessLedger \/ BuildTransactions
  \/ ReadGlobal \/ ReadGroup \/ Mark \/ Branch \/ BranchIf \/ Switch \/ Callsub \/ Retsub
  \/ Return \/ AssertOp \/ Err \/ Finish

\* The loop is synchronous: it goes on until the program ends.
Spec == Init /\ [][Next]_vars /\ WF_vars(Next)

-----------------------------------------------------------------------------
(* Properties                                                              *)

Values == {vm.stack[k] : k \in DOMAIN vm.stack} \cup {vm.scratch[k] : k \in DOMAIN vm.scratch}

\* No transaction logs more often or more bytes than it may.
LogsKept ==
  \A id \in DOMAIN vm.ctx.receipts :
    LET logs == Get(vm.ctx.receipts[id], "logs", <<>>)
    IN  Len(logs) <= MaxLogs /\ LogBytes(vm, logs) <= MaxLogBytes

\* The machine keeps to its types: references lead to arrays of bytes, the
\* stacks and the logs to their capacity, and a caller is an instruction callsub.
TypeOK ==
  /\ status \in {"parsing", "running", "approved", "rejected", "failed"}
  /\ mode \in {"signature", "application"} /\ version \in 1..8
  /\ {cost, pooled} \subseteq Nat /\ vm.pc \in Nat
  /\ Len(vm.stack) <= StackCapacity /\ Len(vm.calls) <= StackCapacity
  /\ CodeSound(vm.code) /\ CtxSound(vm.heap, vm.ctx) /\ LogsKept
  /\ \A v \in Values : IF IsUint(v) THEN v.u \in Int ELSE OnHeap(vm.heap, v)
  /\ \A r \in DOMAIN vm.heap : \A k \in DOMAIN vm.heap[r] : vm.heap[r][k] \in 0..(ByteSize - 1)
  /\ \A k \in DOMAIN vm.calls : vm.code[vm.calls[k]].op = "callsub"

\* The integers out of the range of 64 bits that the interpreter lets through: the
\* operator ~ of JavaScript has no width, the values of intcblock are not looked
\* at, and json_ref takes a number below zero.
LetThrough(i, n) ==
  \/ i.op = "~" /\ n \in (0 - Word)..(0 - 1)
  \/ i.op = "intcblock" /\ (\E j \in DOMAIN i.list : n = i.list[j])
  \/ i.op = "json_ref" /\ n < 0

\* Overflow: no integer of the stack or the scratch space is out of the range
\* of 64 bits, whatever was computed, but for the values of those three.
UintsFit ==
  \A v \in Values :
    IsUint(v) /\ v.u \notin 0..MaxUint => \E k \in DOMAIN vm.code : LetThrough(vm.code[k], v.u)

\* Up to version 3 the cost is compared once, before the program runs: it has
\* to cover what running it costs, whichever way it goes.
StaticGasCovers ==
  version < 4 /\ status # "parsing" => cost <= StaticGas(vm.code, version)

\* From version 4 the cost is compared as the program goes: a program that goes
\* on, or was approved, has not taken more than the group or a signature may.
BudgetHeld ==
  version >= 4 /\ status \in {"running", "approved"} /\ vm.pc > 1
  => IF mode = "signature" THEN cost <= MaxLsigCost ELSE pooled <= Budget

\* The state of an application keeps to its schema in every account and in the
\* application itself, whatever is put into it.
SchemasKept ==
  /\ \A n \in DOMAIN vm.ctx.apps :
       LET app == vm.ctx.apps[n]
       IN  ValidSchema(vm, app.kv, app.schema["AppGlobalNumUint"],
                       app.schema["AppGlobalNumByteSlice"])
  /\ \A a \in DOMAIN vm.ctx.accounts :
       LET local == vm.ctx.accounts[a].local
       IN  \A n \in DOMAIN local : ValidSchema(vm, local[n].kv, local[n].uints, local[n].slices)

\* The transactions that a program builds name no account and no asset but those
\* of its own transaction.  The addresses of an asset that is configured may be
\* any.
BuildsWithinReach ==
  \A k \in DOMAIN vm.ctx.building :
    LET f == vm.ctx.building[k].f
    IN  /\ \A x \in DOMAIN f \cap AccountFields(version) : f[x] \in Named(vm, version, TRUE)
        /\ \A x \in DOMAIN f \cap AssetFields : f[x] \in Elements(ForeignAssets(vm))

\* Every limit that the interpreter sets a program is kept while it runs: its
\* cost, the state it may take, and whom its transactions may name.
ResourcesHeld == StaticGasCovers /\ BudgetHeld /\ SchemasKept /\ BuildsWithinReach

\* Arrays are shared between the stack, the scratch space and the blocks of
\* constants.  Only setbit and setbyte change one, the one they pop; its length
\* and every other array stay.
ArraysStay ==
  [][\A r \in DOMAIN vm.heap :
       /\ r \in DOMAIN vm'.heap /\ Len(vm'.heap[r]) = Len(vm.heap[r])
       /\ vm'.heap[r] # vm.heap[r]
          => Here.op \in {"setbit", "setbyte"} /\ BytesAt(vm, 2) /\ Top(vm, 2).b = r]_vars

\* A program changes the state of its own application only: no global state of
\* another, no local state of another in any account, no balance and no holding;
\* an account that it makes known has nothing.
OwnStateOnly ==
  [][ /\ \A n \in DOMAIN vm.ctx.apps : vm'.ctx.apps[n] # vm.ctx.apps[n] => n = AppID(vm)
      /\ DOMAIN vm.ctx.apps = DOMAIN vm'.ctx.apps
      /\ \A a \in DOMAIN vm'.ctx.accounts :
           IF a \in DOMAIN vm.ctx.accounts
           THEN LET before == vm.ctx.accounts[a]
                    after == vm'.ctx.accounts[a]
                IN  /\ [before EXCEPT !.local = <<>>] = [after EXCEPT !.local = <<>>]
                    /\ DOMAIN before.local = DOMAIN after.local
                    /\ \A n \in DOMAIN before.local :
                         after.local[n] # before.local[n] => n = AppID(vm)
           ELSE vm'.ctx.accounts[a] = NewAccount(a) ]_vars

\* What an instruction may jump to.
Destinations(i) ==
  IF i.op = "switch" THEN {i.list[k] : k \in DOMAIN i.list}
  ELSE IF i.op \in {"b", "bz", "bnz", "callsub"} THEN {i.to} ELSE {}

\* The instruction at the pointer has to jump to the label.
JumpsTo(to) ==
  \/ Here.op \in {"b", "callsub"} /\ to = Here.to
  \/ Here.op = "bz" /\ U(vm, 0) = 0 /\ to = Here.to
  \/ Here.op = "bnz" /\ U(vm, 0) # 0 /\ to = Here.to
  \/ /\ Here.op = "switch" /\ ~(U(vm, 0) > Len(Here.list)) /\ U(vm, 0) + 1 \in DOMAIN Here.list
     /\ to = Here.list[U(vm, 0) + 1]

\* The definition of the label that counts: up to version 3 the next one, later
\* the last.
Counts(k, to) ==
  LET labels == LabelsOf(vm.code, to)
  IN  /\ k \in labels
      /\ IF version < 4 THEN k > vm.pc /\ \A j \in labels : j > vm.pc => k <= j
         ELSE \A j \in labels : j <= k

\* Every jump that is taken and does not fail lands behind the definition of its
\* label that counts, and behind the labels that follow it.  Only from version 4,
\* and only where nothing but labels follows to the end of the program, may it go
\* on with the next instruction instead, as jumpToLabel does
\* (interpreter.ts:426-443).  What does not jump goes on with the next one.
JumpsLand ==
  [][ status = "running" /\ status' = "running" =>
        /\ \A to \in Destinations(Here) : JumpsTo(to) =>
             \E k \in LabelsOf(vm.code, to) :
               /\ Counts(k, to)
               /\ \/ /\ vm'.pc > k /\ \A j \in k..(vm'.pc - 1) : IsLabel(vm.code, j)
                     /\ vm'.pc \in DOMAIN vm.code => ~IsLabel(vm.code, vm'.pc)
                  \/ /\ version >= 4 /\ \A j \in k..Len(vm.code) : IsLabel(vm.code, j)
                     /\ vm'.pc = vm.pc + 1
        /\ (\A to \in Destinations(Here) : ~JumpsTo(to)) /\ Here.op \notin {"return", "retsub"}
             => vm'.pc = vm.pc + 1 ]_vars

\* Every program ends: up to version 3 it only goes forward, later every way
\* round a loop takes from the budget.
Terminates == <>(status \notin {"parsing", "running"})
=============================================================================
