------------------------------ MODULE TealData ------------------------------
(***************************************************************************)
(* The opcodes of the TEAL interpreter that compute                        *)
(* (packages/runtime/src/interpreter/opcode-list.ts): one operator per     *)
(* class, or per family of classes that differ in one expression, from a   *)
(* state m of the interpreter to the state after execute.  A state with    *)
(* ok = FALSE is an exception; the order of the checks that lead to one is *)
(* left out, since nothing in the interpreter is used after it.            *)
(*                                                                         *)
(* Most opcodes make a new array for their result.  SetBit and SetByte     *)
(* write into the array they pop, which Dup, Load, Bytec and others may    *)
(* have made visible elsewhere.                                            *)
(***************************************************************************)
EXTENDS TealValues

\* The interpreter (Interpreter's fields, as far as opcodes use them).
NewMachine(code, args, blank, arrays, ctx) ==
  [ code |-> code,      \* instructions, whose fields execute may change
    pc |-> 1,           \* instructionIndex + 1
    stack |-> <<>>,     \* top at the end
    heap |-> arrays \o args,  \* byte arrays, those that ctx refers to first
    ctx |-> ctx,        \* runtime.ctx, see TealFields and TealLedger
    args |-> [k \in 1..Len(args) |-> Ref(Len(arrays) + k)],
    scratch |-> blank,  \* a function from 0..n-1
    calls |-> <<>>,     \* callStack
    ints |-> <<>>,      \* intcblock
    bytecs |-> <<>>,    \* bytecblock
    ok |-> TRUE ]

Fail(m) == [m EXCEPT !.ok = FALSE]

\* The k-th element from the top, 0 for the top, and what it stands for.
Top(m, k) == m.stack[Len(m.stack) - k]
U(m, k) == Top(m, k).u
B(m, k) == m.heap[Top(m, k).b]

Holds(m, n) == Len(m.stack) >= n
UintAt(m, k) == Holds(m, k + 1) /\ IsUint(Top(m, k))
BytesAt(m, k) == Holds(m, k + 1) /\ IsBytes(Top(m, k))
Uints(m, n) == Holds(m, n) /\ \A k \in 0..(n - 1) : IsUint(Top(m, k))
Arrays(m, n) == Holds(m, n) /\ \A k \in 0..(n - 1) : IsBytes(Top(m, k))

\* Mutant: the capacity is not looked at.
PutUnbounded(m, n, vs) == [m EXCEPT !.stack = SubSeq(@, 1, Len(@) - n) \o vs]

\* Pops n values and pushes vs.
Put(m, n, vs) ==
  LET s == SubSeq(m.stack, 1, Len(m.stack) - n) \o vs
  IN  IF Len(s) <= StackCapacity THEN [m EXCEPT !.stack = s] ELSE Fail(m)

\* Pops n values and pushes a new array.
PutNew(m, n, bytes) ==
  Put([m EXCEPT !.heap = Append(@, bytes)], n, <<Ref(Len(m.heap) + 1)>>)

\* Pops n values and pushes vs if the checks hold.
When(checks, m, n, vs) == IF checks THEN Put(m, n, vs) ELSE Fail(m)
WhenNew(checks, m, n, bytes) == IF checks THEN PutNew(m, n, bytes) ELSE Fail(m)

-----------------------------------------------------------------------------
(* Constants, arguments, scratch space                                     *)

PushInt(m, i) == Put(m, 0, <<Uint(i.x)>>)
PushBytes(m, i) == PutNew(m, 0, i.bytes)
Arg(m, k) == When(k + 1 \in DOMAIN m.args, m, 0, <<m.args[k + 1]>>)

Intcblock(m, i) ==
  IF Len(i.list) \in 1..ByteSize THEN [m EXCEPT !.ints = i.list] ELSE Fail(m)
Intc(m, i) == When(i.x + 1 \in DOMAIN m.ints, m, 0, <<Uint(m.ints[i.x + 1])>>)

\* The arrays of the block are made when the program is parsed.
Bytecblock(m, i) ==
  IF Len(i.list) \in 1..ByteSize
  THEN [m EXCEPT !.heap = @ \o i.list,
                 !.bytecs = [k \in 1..Len(i.list) |-> Ref(Len(m.heap) + k)]]
  ELSE Fail(m)
Bytec(m, i) == When(i.x + 1 \in DOMAIN m.bytecs, m, 0, <<m.bytecs[i.x + 1]>>)

Store(m, i) ==
  IF i.x \in DOMAIN m.scratch /\ Holds(m, 1)
  THEN Put([m EXCEPT !.scratch[i.x] = Top(m, 0)], 1, <<>>)
  ELSE Fail(m)
Load(m, i) == When(i.x \in DOMAIN m.scratch, m, 0, <<m.scratch[i.x]>>)

Stores(m) ==
  IF UintAt(m, 1) /\ U(m, 1) \in DOMAIN m.scratch
  THEN Put([m EXCEPT !.scratch[U(m, 1)] = Top(m, 0)], 2, <<>>)
  ELSE Fail(m)
Loads(m) ==
  When(UintAt(m, 0) /\ U(m, 0) \in DOMAIN m.scratch, m, 1, <<m.scratch[U(m, 0)]>>)

-----------------------------------------------------------------------------
(* The stack                                                               *)

Pop(m) == When(Holds(m, 1), m, 1, <<>>)
Dup(m) == When(Holds(m, 1), m, 0, <<Top(m, 0)>>)
Dup2(m) == When(Holds(m, 2), m, 0, <<Top(m, 1), Top(m, 0)>>)
Swap(m) == When(Holds(m, 2), m, 2, <<Top(m, 0), Top(m, 1)>>)
Dig(m, i) == When(Holds(m, i.x + 1), m, 0, <<Top(m, i.x)>>)
Select(m) ==
  When(UintAt(m, 0) /\ Holds(m, 3), m, 3, <<Top(m, IF U(m, 0) # 0 THEN 1 ELSE 2)>>)

\* The top n values, the deepest first.
TopValues(m, n) == SubSeq(m.stack, Len(m.stack) - n + 1, Len(m.stack))

Cover(m, i) ==
  When(Holds(m, i.x + 1), m, i.x + 1,
       <<Top(m, 0)>> \o SubSeq(TopValues(m, i.x + 1), 1, i.x))
Uncover(m, i) ==
  When(Holds(m, i.x + 1), m, i.x + 1, TopValues(m, i.x) \o <<Top(m, i.x)>>)

-----------------------------------------------------------------------------
(* Integers                                                                *)

Add(m) == When(Uints(m, 2) /\ U(m, 1) + U(m, 0) <= MaxUint, m, 2, <<Uint(U(m, 1) + U(m, 0))>>)
Sub(m) == When(Uints(m, 2) /\ U(m, 1) >= U(m, 0), m, 2, <<Uint(U(m, 1) - U(m, 0))>>)
Mul(m) == When(Uints(m, 2) /\ U(m, 1) * U(m, 0) <= MaxUint, m, 2, <<Uint(U(m, 1) * U(m, 0))>>)
Div(m) == When(Uints(m, 2) /\ U(m, 0) # 0, m, 2, <<Uint(U(m, 1) \div U(m, 0))>>)
Mod(m) == When(Uints(m, 2) /\ U(m, 0) # 0, m, 2, <<Uint(U(m, 1) % U(m, 0))>>)

BitwiseOr(m) == When(Uints(m, 2), m, 2, <<Uint(BitOr(U(m, 1), U(m, 0)))>>)
BitwiseAnd(m) == When(Uints(m, 2), m, 2, <<Uint(BitAnd(U(m, 1), U(m, 0)))>>)
BitwiseXor(m) == When(Uints(m, 2), m, 2, <<Uint(BitXor(U(m, 1), U(m, 0)))>>)
\* The operator ~ of JavaScript on a bigint, which has no width.
BitwiseNot(m) == When(Uints(m, 1), m, 1, <<Uint(-U(m, 0) - 1)>>)

LessThan(m) == When(Uints(m, 2), m, 2, <<Bool(U(m, 1) < U(m, 0))>>)
GreaterThan(m) == When(Uints(m, 2), m, 2, <<Bool(U(m, 1) > U(m, 0))>>)
LessThanEqualTo(m) == When(Uints(m, 2), m, 2, <<Bool(U(m, 1) <= U(m, 0))>>)
GreaterThanEqualTo(m) == When(Uints(m, 2), m, 2, <<Bool(U(m, 1) >= U(m, 0))>>)
And(m) == When(Uints(m, 2), m, 2, <<Bool(U(m, 1) # 0 /\ U(m, 0) # 0)>>)
Or(m) == When(Uints(m, 2), m, 2, <<Bool(U(m, 1) # 0 \/ U(m, 0) # 0)>>)
Not(m) == When(Uints(m, 1), m, 1, <<Bool(U(m, 0) = 0)>>)

Same(m) == IF IsUint(Top(m, 0)) THEN U(m, 1) = U(m, 0) ELSE B(m, 1) = B(m, 0)
EqualTo(m) == When(Uints(m, 2) \/ Arrays(m, 2), m, 2, <<Bool(Same(m))>>)
NotEqualTo(m) == When(Uints(m, 2) \/ Arrays(m, 2), m, 2, <<Bool(~Same(m))>>)

\* High and low part of an integer of two words.
Halves(n) == <<Uint(n \div Word), Uint(n % Word)>>

Addw(m) ==
  LET c == U(m, 1) + U(m, 0)
  IN  When(Uints(m, 2), m, 2,
           IF c > MaxUint THEN <<Uint(1), Uint(c - MaxUint - 1)>> ELSE <<Uint(0), Uint(c)>>)
Mulw(m) == When(Uints(m, 2), m, 2, Halves(U(m, 1) * U(m, 0)))
Divw(m) ==
  LET q == (U(m, 2) * Word + U(m, 1)) \div U(m, 0)
  IN  When(Uints(m, 3) /\ U(m, 0) # 0 /\ q <= MaxUint, m, 3, <<Uint(q)>>)
DivModw(m) ==
  LET dividend == U(m, 3) * Word + U(m, 2)
      divisor == U(m, 1) * Word + U(m, 0)
  IN  When(Uints(m, 4) /\ divisor # 0, m, 4,
           Halves(dividend \div divisor) \o Halves(dividend % divisor))

Exp(m) ==
  LET r == U(m, 1)^U(m, 0)
  IN  When(Uints(m, 2) /\ ~(U(m, 1) = 0 /\ U(m, 0) = 0) /\ r <= MaxUint, m, 2, <<Uint(r)>>)
Expw(m) ==
  LET r == U(m, 1)^U(m, 0)
  IN  When(Uints(m, 2) /\ ~(U(m, 1) = 0 /\ U(m, 0) = 0) /\ r < Word * Word, m, 2, Halves(r))
Shl(m) == When(Uints(m, 2), m, 2, <<Uint((U(m, 1) * 2^U(m, 0)) % Word)>>)
Shr(m) == When(Uints(m, 2), m, 2, <<Uint(U(m, 1) \div 2^U(m, 0))>>)
Sqrt(m) == When(Uints(m, 1), m, 1, <<Uint(BigintSqrt(U(m, 0)))>>)

BitLen(m) ==
  LET n == IF IsUint(Top(m, 0)) THEN IF U(m, 0) = 0 THEN 0 ELSE BinaryLength(U(m, 0))
           ELSE IF B(m, 0) = <<>> THEN 0
           ELSE (Len(B(m, 0)) - 1) * ByteBits + BinaryLength(B(m, 0)[1])
  IN  When(UintAt(m, 0) \/ BytesAt(m, 0), m, 1, <<Uint(n)>>)

-----------------------------------------------------------------------------
(* Byte arrays                                                             *)

LenOp(m) == When(BytesAt(m, 0), m, 1, <<Uint(Len(B(m, 0)))>>)
Itob(m) == WhenNew(Uints(m, 1), m, 1, FixedBytes(U(m, 0), WordBytes))
\* decodeUint64 of algosdk takes one to eight bytes.
Btoi(m) == When(BytesAt(m, 0) /\ Len(B(m, 0)) \in 1..WordBytes, m, 1, <<Uint(Number(B(m, 0)))>>)

Concat(m) ==
  WhenNew(Arrays(m, 2) /\ Len(B(m, 1)) + Len(B(m, 0)) <= MaxConcat, m, 2, B(m, 1) \o B(m, 0))

\* slice(start, end), and when the opcodes allow it.
Slice(bytes, start, end) == SubSeq(bytes, start + 1, end)
InRange(bytes, start, end) == start <= end /\ end <= Len(bytes)

Substring(m, i) ==
  WhenNew(BytesAt(m, 0) /\ {i.x, i.y} \subseteq 0..(ByteSize - 1) /\ InRange(B(m, 0), i.x, i.y),
          m, 1, Slice(B(m, 0), i.x, i.y))
Substring3(m) ==
  WhenNew(Uints(m, 2) /\ BytesAt(m, 2) /\ InRange(B(m, 2), U(m, 1), U(m, 0)),
          m, 3, Slice(B(m, 2), U(m, 1), U(m, 0)))

\* A length of zero means the rest of the array; the instruction keeps the
\* length that this comes to.
Extract(m, i) ==
  LET length == IF i.y = 0 THEN Len(B(m, 0)) - i.x ELSE i.y
  IN  WhenNew(BytesAt(m, 0) /\ i.x <= Len(B(m, 0)) /\ i.x + length <= Len(B(m, 0)),
              [m EXCEPT !.code[m.pc].y = IF BytesAt(m, 0) THEN length ELSE @],
              1, Slice(B(m, 0), i.x, i.x + length))
Extract3(m) ==
  WhenNew(Uints(m, 2) /\ BytesAt(m, 2) /\ U(m, 1) + U(m, 0) <= Len(B(m, 2)),
          m, 3, Slice(B(m, 2), U(m, 1), U(m, 1) + U(m, 0)))
\* extract_uint16, extract_uint32 and extract_uint64, with n bytes.
ExtractUintN(m, n) ==
  When(UintAt(m, 0) /\ BytesAt(m, 1) /\ U(m, 0) + n <= Len(B(m, 1)),
       m, 2, <<Uint(Number(Slice(B(m, 1), U(m, 0), U(m, 0) + n)))>>)

\* original with the bytes from start on replaced.
Replaced(original, start, new) ==
  [k \in 1..Len(original) |->
     IF k \in (start + 1)..(start + Len(new)) THEN new[k - start] ELSE original[k]]

\* Mutant: the bytes are replaced in the array itself.
Replace2InPlace(m, i) ==
  IF Arrays(m, 2) /\ i.x + Len(B(m, 0)) <= Len(B(m, 1))
  THEN Put([m EXCEPT !.heap[Top(m, 1).b] = Replaced(@, i.x, B(m, 0))], 2, <<Top(m, 1)>>)
  ELSE Fail(m)

Replace2(m, i) ==
  WhenNew(Arrays(m, 2) /\ i.x + Len(B(m, 0)) <= Len(B(m, 1)),
          m, 2, Replaced(B(m, 1), i.x, B(m, 0)))
Replace3(m) ==
  WhenNew(BytesAt(m, 0) /\ UintAt(m, 1) /\ BytesAt(m, 2) /\ U(m, 1) + Len(B(m, 0)) <= Len(B(m, 2)),
          m, 3, Replaced(B(m, 2), U(m, 1), B(m, 0)))

-----------------------------------------------------------------------------
(* Bits and bytes of a value                                               *)

\* Bit k of an array, the first bit of the first byte is bit 0.
ArrayBit(bytes, k) == BitOf(bytes[k \div ByteBits + 1], ByteBits - 1 - (k % ByteBits))
WithBit(n, k, bit) == n + (bit - BitOf(n, k)) * 2^k

\* The digits are not padded: a bit above the highest one of the integer is
\* undefined, and BigInt(undefined) throws.
GetBit(m) ==
  IF ~(UintAt(m, 0) /\ Holds(m, 2)) THEN Fail(m)
  ELSE IF IsUint(Top(m, 1))
  THEN When(U(m, 0) < WordBits /\ U(m, 0) < BinaryLength(U(m, 1)), m, 2,
            <<Uint(BitOf(U(m, 1), U(m, 0)))>>)
  ELSE When(BytesAt(m, 1) /\ U(m, 0) \div ByteBits < Len(B(m, 1)), m, 2, <<Uint(ArrayBit(B(m, 1), U(m, 0)))>>)

\* On an array, in place.
SetBit(m) ==
  LET byte == U(m, 1) \div ByteBits + 1
      place == ByteBits - 1 - (U(m, 1) % ByteBits)
  IN  IF ~(Uints(m, 2) /\ Holds(m, 3) /\ U(m, 0) <= 1) THEN Fail(m)
      ELSE IF IsUint(Top(m, 2))
      THEN When(U(m, 1) < WordBits, m, 3, <<Uint(WithBit(U(m, 2), U(m, 1), U(m, 0)))>>)
      ELSE IF ~BytesAt(m, 2) \/ byte > Len(B(m, 2)) THEN Fail(m)
      ELSE Put([m EXCEPT !.heap[Top(m, 2).b][byte] = WithBit(@, place, U(m, 0))],
               3, <<Top(m, 2)>>)

GetByte(m) ==
  When(UintAt(m, 0) /\ BytesAt(m, 1) /\ U(m, 0) < Len(B(m, 1)), m, 2,
       <<Uint(B(m, 1)[U(m, 0) + 1])>>)

\* In place.
SetByte(m) ==
  IF Uints(m, 2) /\ BytesAt(m, 2) /\ U(m, 0) < ByteSize /\ U(m, 1) < Len(B(m, 2))
  THEN Put([m EXCEPT !.heap[Top(m, 2).b][U(m, 1) + 1] = U(m, 0)], 3, <<Top(m, 2)>>)
  ELSE Fail(m)

-----------------------------------------------------------------------------
(* Arithmetic on byte arrays                                               *)

ByteOperands(m, n) == Arrays(m, n) /\ \A k \in 0..(n - 1) : Len(B(m, k)) <= MaxInput

\* b+, b-, b*, b/ and b%, with the result r; zero is the empty array.
ByteResult(checks, m, r) ==
  LET bytes == IF r = 0 THEN <<>> ELSE ShortestBytes(r)
  IN  WhenNew(checks /\ Len(bytes) <= MaxOutput, m, 2, bytes)

ByteOp(m, op) ==
  LET x == Number(B(m, 1))
      y == Number(B(m, 0))
  IN  IF ~ByteOperands(m, 2) THEN Fail(m)
      ELSE CASE op = "b+" -> ByteResult(TRUE, m, x + y)
             [] op = "b-" -> ByteResult(x >= y, m, x - y)
             [] op = "b*" -> ByteResult(TRUE, m, x * y)
             [] op = "b/" -> ByteResult(y # 0, m, x \div y)
             [] op = "b%" -> ByteResult(y # 0, m, x % y)

ByteCompare(m, op) ==
  LET x == Number(B(m, 1))
      y == Number(B(m, 0))
  IN  When(ByteOperands(m, 2), m, 2,
           <<Bool(CASE op = "b<" -> x < y   [] op = "b>" -> x > y
                    [] op = "b<=" -> x <= y [] op = "b>=" -> x >= y
                    [] op = "b==" -> x = y  [] op = "b!=" -> x # y)>>)

\* b|, b& and b^: the result is as long as the longer operand.
ByteBitwise(m, op) ==
  LET x == Number(B(m, 1))
      y == Number(B(m, 0))
      r == CASE op = "b|" -> BitOr(x, y) [] op = "b&" -> BitAnd(x, y) [] op = "b^" -> BitXor(x, y)
  IN  WhenNew(ByteOperands(m, 2), m, 2, FixedBytes(r, Max({Len(B(m, 1)), Len(B(m, 0))})))

ByteBitwiseInvert(m) ==
  WhenNew(ByteOperands(m, 1), m, 1, [k \in 1..Len(B(m, 0)) |-> ByteSize - 1 - B(m, 0)[k]])
ByteZero(m) ==
  WhenNew(UintAt(m, 0) /\ U(m, 0) <= MaxConcat, m, 1, [k \in 1..U(m, 0) |-> 0])
Bsqrt(m) ==
  WhenNew(ByteOperands(m, 1), m, 1, ShortestBytes(BigintSqrt(Number(B(m, 0)))))
=============================================================================
