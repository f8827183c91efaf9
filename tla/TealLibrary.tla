----------------------------- MODULE TealLibrary -----------------------------
(***************************************************************************)
(* The opcodes of the TEAL interpreter whose work a library does: hashes,  *)
(* signatures, curves, base64, JSON and verifiable random functions        *)
(* (packages/runtime/src/interpreter/opcode-list.ts).  The libraries are   *)
(* constants; what the opcodes ask of their operands, what they do with    *)
(* the result and what they cost is here.                                  *)
(***************************************************************************)
EXTENDS TealData

CONSTANTS
  Digest(_),      \* the hash of an array
  Text(_),        \* the bytes of the text an array is decoded to
  Verifies(_),    \* whether data, signature and key belong together
  Library(_, _),  \* what a function returns for its arrays: a sequence of
                  \* arrays, the empty one if it throws
  Json(_, _),     \* the member of an object: [kind, value], the kind "invalid"
                  \* if there is no object, "undefined" if it has no such member
  ProofLength, KeyLength,  \* bytes of a proof and a key of a random function
  PointLength     \* bytes of a point of G1, 64; one of G2 has twice as many

\* Arrays n to 1 from the top, the deepest first.
Operands(m, n) == [k \in 1..n |-> B(m, n - k)]

\* Pops n values and pushes the array that a library has made.
PutMade(m, n, made) == IF made = <<>> THEN Fail(m) ELSE PutNew(m, n, made[1])

\* Pops n values and pushes the two coordinates of a point.
PutPoint(m, n, made) ==
  IF made = <<>> THEN Fail(m)
  ELSE Put([m EXCEPT !.heap = Append(Append(@, made[1]), made[2])], n,
           <<Ref(Len(m.heap) + 1), Ref(Len(m.heap) + 2)>>)

-----------------------------------------------------------------------------
(* Hashes, signatures, curves                                              *)

\* sha256 and sha512_256.
HashOp(m) == WhenNew(BytesAt(m, 0), m, 1, Digest(B(m, 0)))
\* keccak256 and sha3_256 hash the text that the bytes are decoded to.
HashOpSHA3(m) == WhenNew(BytesAt(m, 0), m, 1, Digest(Text(B(m, 0))))

\* ed25519verify and ed25519verify_bare; ecdsa_verify has two more operands.
Verify(m, n) == When(Arrays(m, n), m, n, <<Bool(Verifies(Operands(m, n)))>>)

\* Both coordinates of a public key.
EcdsaPkDecompress(m) ==
  IF BytesAt(m, 0) THEN PutPoint(m, 1, Library("decompress", Operands(m, 1))) ELSE Fail(m)
EcdsaPkRecover(m) ==
  IF Arrays(m, 2) /\ UintAt(m, 2) /\ BytesAt(m, 3)
  THEN PutPoint(m, 4, Library("recover", <<B(m, 3), <<U(m, 2)>>, B(m, 1), B(m, 0)>>))
  ELSE Fail(m)

Bn254Add(m) ==
  IF Arrays(m, 2) /\ Len(B(m, 0)) = PointLength /\ Len(B(m, 1)) = PointLength
  THEN PutMade(m, 2, Library("add", Operands(m, 2))) ELSE Fail(m)
\* The point is on top.
Bn254ScalarMul(m) ==
  IF Arrays(m, 2) /\ Len(B(m, 0)) = PointLength
  THEN PutMade(m, 2, Library("mul", Operands(m, 2))) ELSE Fail(m)
\* Pushes a number of JavaScript, which is no bigint.
Bn254Pairing(m) ==
  LET made == Library("pairing", Operands(m, 2))
  IN  When(Arrays(m, 2) /\ Len(B(m, 1)) = PointLength /\ Len(B(m, 0)) = 2 * PointLength
           /\ made # <<>>,
           m, 2, <<Other(made[1][Len(made[1])])>>)

\* The message is popped first, then the proof and the key.  Every proof is
\* taken to be right.
VrfVerify(m, i) ==
  IF Arrays(m, 3) /\ Len(B(m, 1)) = ProofLength /\ Len(B(m, 2)) = KeyLength
     /\ i.field = "VrfAlgorand"
  THEN Put([m EXCEPT !.heap = Append(@, Digest(B(m, 1)))], 3,
           <<Ref(Len(m.heap) + 1), Uint(1)>>)
  ELSE Fail(m)

-----------------------------------------------------------------------------
(* Encodings                                                               *)

\* Of text that is no base64 the regular expression finds out.
Base64Decode(m) ==
  IF BytesAt(m, 0) THEN PutMade(m, 1, Library("base64", Operands(m, 1))) ELSE Fail(m)

\* The kind has to be the one asked for.  The value of an object is its text.
JsonRef(m, i) ==
  LET member == Json(B(m, 1), B(m, 0))
  IN  IF ~Arrays(m, 2) \/ member.kind # i.field THEN Fail(m)
      ELSE IF i.field = "JSONUint64"
      THEN When(member.value <= MaxUint, m, 2, <<Uint(member.value)>>)
      ELSE PutNew(m, 2, member.value)

-----------------------------------------------------------------------------
(* By name                                                                 *)

LibraryOps ==
  {"sha256", "sha512_256", "keccak256", "sha3_256", "ed25519verify", "ed25519verify_bare",
   "ecdsa_verify", "ecdsa_pk_decompress", "ecdsa_pk_recover", "bn254_add",
   "bn254_scalar_mul", "bn254_pairing", "vrf_verify", "base64_decode", "json_ref"}
UseLibrary(m, i) ==
  CASE i.op \in {"sha256", "sha512_256"} -> HashOp(m)
    [] i.op \in {"keccak256", "sha3_256"} -> HashOpSHA3(m)
    [] i.op \in {"ed25519verify", "ed25519verify_bare"} -> Verify(m, 3)
    [] i.op = "ecdsa_verify" -> Verify(m, 5)
    [] i.op = "ecdsa_pk_decompress" -> EcdsaPkDecompress(m)
    [] i.op = "ecdsa_pk_recover" -> EcdsaPkRecover(m)
    [] i.op = "bn254_add" -> Bn254Add(m)
    [] i.op = "bn254_scalar_mul" -> Bn254ScalarMul(m)
    [] i.op = "bn254_pairing" -> Bn254Pairing(m)
    [] i.op = "vrf_verify" -> VrfVerify(m, i)
    [] i.op = "base64_decode" -> Base64Decode(m)
    [] i.op = "json_ref" -> JsonRef(m, i)

\* Cost of the instruction i, after it was run with length bytes of base64 or
\* JSON; before, the length is one.  The cost of a curve is that of version 7 if
\* it is secp256r1.
LibraryCost(v, i, length) ==
  CASE i.op = "sha256" -> IF v = 1 THEN 7 ELSE 35
    [] i.op = "sha512_256" -> IF v = 1 THEN 9 ELSE 45
    [] i.op = "keccak256" -> IF v = 1 THEN 26 ELSE 130
    [] i.op = "sha3_256" -> 130
    [] i.op \in {"ed25519verify", "ed25519verify_bare"} -> 1900
    [] i.op = "ecdsa_verify" -> IF i.field = "secp256k1" THEN 1700 ELSE 2500
    [] i.op = "ecdsa_pk_decompress" -> IF i.field = "secp256k1" THEN 650 ELSE 2400
    [] i.op = "ecdsa_pk_recover" -> 2000
    [] i.op = "vrf_verify" -> 5700
    [] i.op = "base64_decode" -> 1 + (length + 15) \div 16
    [] i.op = "json_ref" -> 25 + 2 * ((length + 6) \div 7)
    [] OTHER -> 1
=============================================================================
