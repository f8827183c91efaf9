----------------------------- MODULE TealValues -----------------------------
(***************************************************************************)
(* The values of the TEAL interpreter of @algo-builder/runtime and the     *)
(* conversions between them (packages/runtime/src/lib/parsing.ts,          *)
(* lib/math.ts, lib/stack.ts).                                             *)
(*                                                                         *)
(* A value is an integer or a byte array.  Byte arrays are JavaScript      *)
(* objects: what the stack, the scratch space and the constant blocks hold *)
(* are references, and two of them may be one array.  [u |-> n] is the     *)
(* integer n; [b |-> r] is the array at place r of the heap.  An integer   *)
(* has WordBytes bytes of ByteBits bits, 8 of 8 in the code.               *)
(***************************************************************************)
EXTENDS Integers, Sequences, FiniteSets, FiniteSetsExt

CONSTANTS
  ByteBits,       \* bits of a byte
  WordBytes,      \* bytes of an integer
  StackCapacity,  \* places of a Stack
  MaxConcat,      \* bytes that concat may return, and bzero
  MaxInput,       \* bytes of an operand of byte arithmetic
  MaxOutput,      \* bytes of its result
  ExactSqrt       \* below, the square root of a float is exact: 2^52

ASSUME TealValuesAssumption ==
  /\ ByteBits \in Nat \ {0} /\ WordBytes \in Nat \ {0}
  /\ StackCapacity \in Nat \ {0}
  /\ MaxConcat \in Nat /\ MaxInput \in Nat /\ MaxOutput \in Nat
  /\ ExactSqrt \in Nat \ (0..15)

ByteSize == 2^ByteBits
WordBits == ByteBits * WordBytes
Word == 2^WordBits
MaxUint == Word - 1

Uint(n) == [u |-> n]
Ref(r) == [b |-> r]
\* A value of JavaScript that is neither, which some opcodes let through.
Other(x) == [other |-> x]
IsUint(v) == DOMAIN v = {"u"}
IsBytes(v) == DOMAIN v = {"b"}

Bool(p) == Uint(IF p THEN 1 ELSE 0)

-----------------------------------------------------------------------------
(* Conversions                                                             *)

\* The integer that big-endian bytes stand for.
Number(bytes) ==
  MapThenSumSet(LAMBDA i : bytes[i] * ByteSize^(Len(bytes) - i), 1..Len(bytes))

\* The n big-endian bytes of an integer.
FixedBytes(k, n) == [i \in 1..n |-> (k \div ByteSize^(n - i)) % ByteSize]

\* As few bytes as the integer needs, one for zero: the hexadecimal digits are
\* padded to an even number.
ShortestBytes(k) ==
  FixedBytes(k, CHOOSE n \in 1..(k + 1) : k < ByteSize^n /\ (n = 1 \/ ByteSize^(n - 1) <= k))

\* Bit i of an integer, and the integer with the given bits.
BitOf(k, i) == (k \div 2^i) % 2
OfBits(bits) == MapThenSumSet(LAMBDA i : bits[i] * 2^i, DOMAIN bits)

\* Digits of an integer in base two, one for zero.
BinaryLength(k) == CHOOSE n \in 1..(k + 1) : k < 2^n /\ (n = 1 \/ 2^(n - 1) <= k)

BitsNeeded(x, y) == Max({BinaryLength(x), BinaryLength(y)})
BitOr(x, y) ==
  OfBits([i \in 0..(BitsNeeded(x, y) - 1) |-> Max({BitOf(x, i), BitOf(y, i)})])
BitAnd(x, y) ==
  OfBits([i \in 0..(BitsNeeded(x, y) - 1) |-> BitOf(x, i) * BitOf(y, i)])
BitXor(x, y) ==
  OfBits([i \in 0..(BitsNeeded(x, y) - 1) |-> (BitOf(x, i) + BitOf(y, i)) % 2])

-----------------------------------------------------------------------------
(* The square root                                                         *)

FloorSqrt(k) == Max({r \in 0..k : r * r <= k})

\* Mutant: one round too few.
NewtonStopsEarly(k, guess) ==
  LET next(x) == (k \div x + x) \div 2
      newton[n \in Nat, x \in Nat] ==
        IF n = 0 \/ next(x) <= x + 1 THEN x ELSE newton[n - 1, next(x)]
  IN  newton[k, guess]

\* Newton's iteration from a guess, until it stays or rises by one.  It ends
\* within k rounds.
Newton(k, guess) ==
  LET next(x) == (k \div x + x) \div 2
      newton[n \in Nat, x \in Nat] ==
        IF n = 0 \/ next(x) \in {x, x + 1} THEN x ELSE newton[n - 1, next(x)]
  IN  newton[k, guess]

BigintSqrt(k) ==
  IF k < 16 THEN FloorSqrt(k)
  ELSE Newton(k, IF k < ExactSqrt THEN FloorSqrt(k) - 3 ELSE ExactSqrt - 2)
=============================================================================
