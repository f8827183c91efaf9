----------------------------- MODULE TealProofs -----------------------------
(***************************************************************************)
(* What the interpreter of Teal keeps to for every program, every context, *)
(* all limits and all libraries.                                           *)
(***************************************************************************)
EXTENDS Teal, SequenceTheorems, FiniteSetTheorems, TLAPS

-----------------------------------------------------------------------------
(* Sequences                                                               *)

\* The length of a sequence, and where it is defined.
LEMMA SequenceDomain ==
  ASSUME NEW s, IsSequence(s)
  PROVE  Len(s) \in Nat /\ DOMAIN s = 1..Len(s)
BY DEF IsSequence

\* What is a sequence of something is one of its own elements.
LEMMA SequenceOf == ASSUME NEW S, NEW s \in Seq(S) PROVE IsSequence(s)
<1>1. DOMAIN s = 1..Len(s) /\ Len(s) \in Nat
  OBVIOUS
<1>2. s = [k \in 1..Len(s) |-> s[k]]
  OBVIOUS
<1>3. s \in [1..Len(s) -> {s[k] : k \in DOMAIN s}]
  BY <1>1, <1>2
<1>. QED  BY <1>1, <1>3, SeqDef DEF IsSequence

\* The empty sequence.
LEMMA EmptySequence == IsSequence(<<>>) /\ DOMAIN <<>> = {} /\ Len(<<>>) = 0
<1>1. <<>> \in Seq({}) /\ DOMAIN <<>> = {} /\ Len(<<>>) = 0
  OBVIOUS
<1>2. IsSequence(<<>>)
  BY <1>1, SequenceOf
<1>. QED  BY <1>1, <1>2

\* A sequence with one element more.
LEMMA AppendSequence ==
  ASSUME NEW s, IsSequence(s), NEW x
  PROVE  /\ IsSequence(Append(s, x)) /\ Len(Append(s, x)) = Len(s) + 1
         /\ \A k \in DOMAIN s : Append(s, x)[k] = s[k]
         /\ Append(s, x)[Len(s) + 1] = x
<1>. DEFINE S == {s[k] : k \in DOMAIN s} \cup {x}
<1>1. s \in Seq(S)
  BY SeqMonotonic DEF IsSequence
<1>2. x \in S
  OBVIOUS
<1>3. Append(s, x) \in Seq(S)
  BY <1>1, <1>2
<1>4. IsSequence(Append(s, x))
  BY <1>3, SequenceOf
<1>. QED  BY <1>1, <1>2, <1>4

\* h is s and then t.
Joins(h, s, t) ==
  /\ IsSequence(h) /\ Len(h) = Len(s) + Len(t)
  /\ \A k \in DOMAIN s : h[k] = s[k]
  /\ \A k \in DOMAIN t : h[Len(s) + k] = t[k]

\* Two sequences one after the other.
LEMMA ConcatSequence ==
  ASSUME NEW s, NEW t, IsSequence(s), IsSequence(t)
  PROVE  Joins(s \o t, s, t)
<1>. DEFINE S == {s[k] : k \in DOMAIN s} \cup {t[k] : k \in DOMAIN t}
<1>1. s \in Seq(S) /\ t \in Seq(S)
  BY SeqMonotonic DEF IsSequence
<1>2. s \o t \in Seq(S)
  BY <1>1
<1>3. IsSequence(s \o t)
  BY <1>2, SequenceOf
<1>. QED  BY <1>1, <1>3 DEF Joins

\* A sequence without its last n elements.
LEMMA FrontSequence ==
  ASSUME NEW s, IsSequence(s), NEW n \in Nat
  PROVE  LET t == SubSeq(s, 1, Len(s) - n)
         IN  IsSequence(t) /\ \A k \in DOMAIN t : k \in DOMAIN s /\ t[k] = s[k]
<1>. DEFINE S == {s[k] : k \in DOMAIN s}
            t == SubSeq(s, 1, Len(s) - n)
<1>1. s \in Seq(S) /\ Len(s) \in Nat
  BY DEF IsSequence
<1>2. t \in Seq(S)
  BY <1>1
<1>3. IsSequence(t)
  BY <1>2, SequenceOf
<1>. QED  BY <1>1, <1>3

\* A sequence with one element changed.
LEMMA ExceptSequence ==
  ASSUME NEW s, IsSequence(s), NEW k, NEW x
  PROVE  LET t == [s EXCEPT ![k] = x]
         IN  IsSequence(t) /\ Len(t) = Len(s) /\ DOMAIN t = DOMAIN s
<1>. DEFINE S == {s[j] : j \in DOMAIN s} \cup {x}
            t == [s EXCEPT ![k] = x]
<1>1. s \in Seq(S)
  BY SeqMonotonic DEF IsSequence
<1>2. DOMAIN t = 1..Len(s) /\ \A j \in 1..Len(s) : t[j] \in S
  BY <1>1
<1>3. t \in [1..Len(s) -> S]
  BY <1>2
<1>4. t \in Seq(S)
  BY <1>1, <1>3, SeqDef
<1>5. IsSequence(t)
  BY <1>4, SequenceOf
<1>. QED  BY <1>1, <1>2, <1>4, <1>5

\* A part of a sequence has elements of it.
LEMMA PartSequence ==
  ASSUME NEW s, IsSequence(s), NEW a \in Nat, NEW b \in Nat, a >= 1, b <= Len(s)
  PROVE  LET t == SubSeq(s, a, b)
         IN  /\ IsSequence(t) /\ (a <= b + 1 => Len(t) = b + 1 - a)
             /\ \A k \in DOMAIN t : a + k - 1 \in DOMAIN s /\ t[k] = s[a + k - 1]
<1>. DEFINE S == {s[k] : k \in DOMAIN s}
            t == SubSeq(s, a, b)
<1>1. s \in Seq(S) /\ Len(s) \in Nat
  BY DEF IsSequence
<1>2. t \in Seq(S)
  BY <1>1
<1>3. IsSequence(t)
  BY <1>2, SequenceOf
<1>. QED  BY <1>1, <1>3

-----------------------------------------------------------------------------
(* Arrays that are added to the heap or keep their length                  *)

\* The heap g has what h has, and may have more.
Longer(h, g) == DOMAIN h \subseteq DOMAIN g /\ \A r \in DOMAIN h : g[r] = h[r]

\* The arrays of h are on g, as long as they were.
Grown(h, g) == DOMAIN h \subseteq DOMAIN g /\ \A r \in DOMAIN h : Len(g[r]) = Len(h[r])

\* A longer heap keeps the lengths.
LEMMA LongerGrown == \A h, g : Longer(h, g) => Grown(h, g)
BY DEF Longer, Grown

\* What is on the heap stays there.
LEMMA StillOnHeap ==
  ASSUME NEW h, NEW g, Grown(h, g)
  PROVE  /\ \A v : OnHeap(h, v) => OnHeap(g, v)
         /\ \A s : AllOnHeap(h, s) => AllOnHeap(g, s)
<1>1. \A v : OnHeap(h, v) => OnHeap(g, v)
  BY DEF OnHeap, Grown
<1>. QED  BY <1>1 DEF AllOnHeap

\* A state keeps to its schema when its arrays keep their lengths.
LEMMA StateStays ==
  ASSUME NEW h, NEW g, Grown(h, g)
  PROVE  \A kv, uints, slices : StateSound(h, kv, uints, slices) => StateSound(g, kv, uints, slices)
<1>. SUFFICES ASSUME NEW kv, NEW uints, NEW slices, StateSound(h, kv, uints, slices)
              PROVE  StateSound(g, kv, uints, slices)
  OBVIOUS
<1>1. \A key \in DOMAIN kv : OnHeap(g, kv[key])
  BY StillOnHeap DEF StateSound
<1>2. ASSUME NEW key \in DOMAIN kv, IsBytes(kv[key])
      PROVE  Len(g[kv[key].b]) = Len(h[kv[key].b])
  BY <1>2 DEF StateSound, OnHeap, Grown
<1>3. ValidSchema([heap |-> g], kv, uints, slices)
  BY <1>2 DEF StateSound, ValidSchema
<1>. QED  BY <1>1, <1>3 DEF StateSound

\* What a program sees of the ledger is sound when arrays keep their lengths.
LEMMA CtxStays ==
  ASSUME NEW h, NEW g, Grown(h, g)
  PROVE  \A c : CtxSound(h, c) => CtxSound(g, c)
<1>. SUFFICES ASSUME NEW c, CtxSound(h, c)
              PROVE  CtxSound(g, c)
  OBVIOUS
<1>1. OnHeap(g, c.zero) /\ OnHeap(g, c.lastLog)
      /\ \A t \in DOMAIN c.shared : \A k \in DOMAIN c.shared[t] : OnHeap(g, c.shared[t][k])
  BY StillOnHeap DEF CtxSound
<1>2. \A n \in DOMAIN c.apps : AppSound(g, c.apps[n])
  BY StateStays DEF CtxSound, AppSound
<1>3. ASSUME NEW a \in DOMAIN c.accounts
      PROVE  /\ "local" \in DOMAIN c.accounts[a]
             /\ \A n \in DOMAIN c.accounts[a].local : LocalSound(g, c.accounts[a].local[n])
  BY StateStays DEF CtxSound, LocalSound
<1>4. \A id \in DOMAIN c.receipts : AllOnHeap(g, Get(c.receipts[id], "logs", <<>>))
  BY StillOnHeap DEF CtxSound
<1>. QED  BY <1>1, <1>2, <1>3, <1>4 DEF CtxSound

-----------------------------------------------------------------------------
(* Values                                                                  *)

\* Numbers and what is neither number nor array refer to nothing.
LEMMA PlainOnHeap == \A h, x : OnHeap(h, Uint(x)) /\ OnHeap(h, Other(x)) /\ OnHeap(h, Bool(x))
BY DEF OnHeap, Uint, Other, Bool, IsBytes

\* A reference to what is on the heap.
LEMMA RefOnHeap == \A h, r : r \in DOMAIN h => OnHeap(h, Ref(r))
BY DEF OnHeap, Ref, IsBytes

\* No value, and one.
LEMMA OneOnHeap ==
  ASSUME NEW h
  PROVE  AllOnHeap(h, <<>>) /\ \A u : OnHeap(h, u) => AllOnHeap(h, <<u>>)
<1>1. AllOnHeap(h, <<>>)
  BY EmptySequence DEF AllOnHeap
<1>2. ASSUME NEW u, OnHeap(h, u)
      PROVE  AllOnHeap(h, <<u>>)
  <2>. DEFINE s == <<u>>
  <2>1. s \in Seq({u}) /\ DOMAIN s = 1..1 /\ s[1] = u
    OBVIOUS
  <2>2. IsSequence(s)
    BY <2>1, SequenceOf
  <2>. HIDE DEF s
  <2>3. AllOnHeap(h, s)
    BY <1>2, <2>1, <2>2 DEF AllOnHeap
  <2>. QED  BY <2>3 DEF s
<1>. QED  BY <1>1, <1>2

\* Values one after the other.
LEMMA ConcatOnHeap ==
  ASSUME NEW h, NEW s, NEW t, AllOnHeap(h, s), AllOnHeap(h, t)
  PROVE  AllOnHeap(h, s \o t)
<1>1. IsSequence(s) /\ IsSequence(t)
  BY DEF AllOnHeap
<1>2. /\ IsSequence(s \o t) /\ Len(s \o t) = Len(s) + Len(t)
      /\ \A k \in DOMAIN s : (s \o t)[k] = s[k]
      /\ \A k \in DOMAIN t : (s \o t)[Len(s) + k] = t[k]
  BY <1>1, ConcatSequence DEF Joins
<1>. DEFINE u == s \o t
<1>. HIDE DEF u
<1>3. ASSUME NEW k \in DOMAIN u PROVE OnHeap(h, u[k])
  <2>1. /\ Len(u) \in Nat /\ DOMAIN u = 1..Len(u) /\ Len(s) \in Nat /\ DOMAIN s = 1..Len(s)
        /\ Len(t) \in Nat /\ DOMAIN t = 1..Len(t)
    BY <1>1, <1>2, SequenceDomain DEF u
  <2>2. CASE k \in DOMAIN s
    BY <1>2, <2>2 DEF AllOnHeap, u
  <2>3. CASE k \notin DOMAIN s
    <3>1. k - Len(s) \in DOMAIN t /\ Len(s) + (k - Len(s)) = k
      BY <1>2, <1>3, <2>1, <2>3 DEF u
    <3>2. u[k] = t[k - Len(s)]
      BY <1>2, <3>1 DEF u
    <3>. QED  BY <3>1, <3>2 DEF AllOnHeap
  <2>. QED  BY <2>2, <2>3
<1>. QED  BY <1>2, <1>3 DEF AllOnHeap, u

\* All but the last n values.
LEMMA FrontOnHeap ==
  ASSUME NEW h, NEW s, AllOnHeap(h, s), NEW n \in Nat
  PROVE  AllOnHeap(h, SubSeq(s, 1, Len(s) - n))
<1>. DEFINE t == SubSeq(s, 1, Len(s) - n)
<1>1. IsSequence(s)
  BY DEF AllOnHeap
<1>2. IsSequence(t) /\ \A k \in DOMAIN t : k \in DOMAIN s /\ t[k] = s[k]
  BY <1>1, FrontSequence
<1>. HIDE DEF t
<1>3. AllOnHeap(h, t)
  BY <1>2 DEF AllOnHeap
<1>. QED  BY <1>3 DEF t

\* Two values.
LEMMA TwoOnHeap ==
  ASSUME NEW h
  PROVE  \A u, v : OnHeap(h, u) /\ OnHeap(h, v) => AllOnHeap(h, <<u, v>>)
<1>1. SUFFICES ASSUME NEW u, NEW v, OnHeap(h, u), OnHeap(h, v)
               PROVE  AllOnHeap(h, <<u, v>>)
  OBVIOUS
<1>. DEFINE s == <<u, v>>
<1>2. s \in Seq({u, v}) /\ DOMAIN s = 1..2 /\ s[1] = u /\ s[2] = v
  OBVIOUS
<1>3. IsSequence(s)
  BY <1>2, SequenceOf
<1>. HIDE DEF s
<1>4. AllOnHeap(h, s)
  BY <1>1, <1>2, <1>3 DEF AllOnHeap
<1>. QED  BY <1>4 DEF s

-----------------------------------------------------------------------------
(* Machines                                                                *)

Fields ==
  {"code", "pc", "stack", "heap", "ctx", "args", "scratch", "calls", "ints", "bytecs", "ok"}

\* References lead to arrays.
Sound(m) ==
  /\ DOMAIN m = Fields
  /\ IsSequence(m.heap)
  /\ AllOnHeap(m.heap, m.stack) /\ AllOnHeap(m.heap, m.args) /\ AllOnHeap(m.heap, m.bytecs)
  /\ \A k \in DOMAIN m.scratch : OnHeap(m.heap, m.scratch[k])
  /\ CtxSound(m.heap, m.ctx)

\* r has the instructions of m and is at the same one.
SameCode(m, r) == r.code = m.code /\ r.pc = m.pc /\ r.calls = m.calls

\* r is what an instruction makes of m that computes: a stack and arrays.
Computes(m, r) == Sound(r) /\ Longer(m.heap, r.heap) /\ SameCode(m, r) /\ r.ctx = m.ctx

\* One instruction's work goes on from another's.
LEMMA ComputesOn ==
  ASSUME NEW m, NEW n, NEW r, Computes(m, n), Computes(n, r)
  PROVE  Computes(m, r)
BY DEF Computes, Longer, SameCode

\* An exception.
LEMMA FailComputes ==
  ASSUME NEW m, Sound(m)
  PROVE  Computes(m, Fail(m)) /\ ~Fail(m).ok
BY DEF Computes, Fail, Sound, Fields, Longer, SameCode

\* What is on the stack.
LEMMA TopOnHeap ==
  ASSUME NEW m, Sound(m)
  PROVE  \A k \in Nat : Holds(m, k + 1) => OnHeap(m.heap, Top(m, k))
<1>1. IsSequence(m.stack)
  BY DEF Sound, AllOnHeap
<1>2. ASSUME NEW k \in Nat, Holds(m, k + 1)
      PROVE  Len(m.stack) - k \in DOMAIN m.stack
  BY <1>1, <1>2, SequenceDomain DEF Holds
<1>. QED  BY <1>2 DEF Sound, AllOnHeap, Top

\* Put.
LEMMA PutComputes ==
  ASSUME NEW m, Sound(m)
  PROVE  \A n \in Nat : \A vs : AllOnHeap(m.heap, vs) => Computes(m, Put(m, n, vs))
<1>. SUFFICES ASSUME NEW n \in Nat, NEW vs, AllOnHeap(m.heap, vs)
              PROVE  Computes(m, Put(m, n, vs))
  OBVIOUS
<1>1. PICK t : t = SubSeq(m.stack, 1, Len(m.stack) - n) /\ AllOnHeap(m.heap, t)
  BY FrontOnHeap DEF Sound
<1>2. PICK s : s = t \o vs /\ AllOnHeap(m.heap, s)
  BY <1>1, ConcatOnHeap
<1>3. CASE Len(s) <= StackCapacity
  <2>1. Put(m, n, vs) = [m EXCEPT !.stack = s]
    BY <1>1, <1>2, <1>3 DEF Put
  <2>. QED  BY <1>2, <2>1 DEF Computes, Sound, Fields, Longer, SameCode
<1>4. CASE ~(Len(s) <= StackCapacity)
  <2>1. Put(m, n, vs) = Fail(m)
    BY <1>1, <1>2, <1>4 DEF Put
  <2>. QED  BY <2>1, FailComputes
<1>. QED  BY <1>3, <1>4

\* A machine with more on its heap.
LEMMA HeapComputes ==
  ASSUME NEW m, Sound(m), NEW h, IsSequence(h), Longer(m.heap, h)
  PROVE  Computes(m, [m EXCEPT !.heap = h])
<1>. DEFINE g == [m EXCEPT !.heap = h]
<1>1. Grown(m.heap, h)
  BY LongerGrown
<1>2. /\ \A s : AllOnHeap(m.heap, s) => AllOnHeap(h, s)
      /\ \A v : OnHeap(m.heap, v) => OnHeap(h, v)
      /\ \A c : CtxSound(m.heap, c) => CtxSound(h, c)
  BY <1>1, StillOnHeap, CtxStays
<1>3. /\ DOMAIN g = Fields /\ g.heap = h /\ g.ctx = m.ctx /\ g.stack = m.stack
      /\ g.args = m.args /\ g.bytecs = m.bytecs /\ g.scratch = m.scratch
      /\ g.code = m.code /\ g.pc = m.pc /\ g.calls = m.calls
  BY DEF Sound, Fields
<1>. HIDE DEF g
<1>4. Sound(g)
  BY <1>2, <1>3 DEF Sound
<1>5. Computes(m, g)
  BY <1>3, <1>4 DEF Computes, SameCode
<1>. QED  BY <1>5 DEF g

\* A new array on the heap.
LEMMA NewArray ==
  ASSUME NEW m, Sound(m), NEW bytes
  PROVE  LET g == [m EXCEPT !.heap = Append(@, bytes)]
         IN  Computes(m, g) /\ OnHeap(g.heap, Ref(Len(m.heap) + 1))
<1>. DEFINE h == Append(m.heap, bytes)
            g == [m EXCEPT !.heap = h]
<1>1. /\ IsSequence(h) /\ Longer(m.heap, h) /\ Len(m.heap) + 1 \in DOMAIN h
  <2>1. IsSequence(m.heap)
    BY DEF Sound
  <2>2. IsSequence(h) /\ Len(h) = Len(m.heap) + 1 /\ \A k \in DOMAIN m.heap : h[k] = m.heap[k]
    BY <2>1, AppendSequence
  <2>. QED  BY <2>1, <2>2, SequenceDomain DEF Longer
<1>2. Computes(m, g)
  BY <1>1, HeapComputes
<1>3. g.heap = h
  BY DEF Sound, Fields
<1>. QED  BY <1>1, <1>2, <1>3, RefOnHeap

\* PutNew.
LEMMA PutNewComputes ==
  ASSUME NEW m, Sound(m)
  PROVE  \A n \in Nat : \A bytes : Computes(m, PutNew(m, n, bytes))
<1>. SUFFICES ASSUME NEW n \in Nat, NEW bytes PROVE Computes(m, PutNew(m, n, bytes))
  OBVIOUS
<1>1. PICK g : /\ g = [m EXCEPT !.heap = Append(@, bytes)]
               /\ Computes(m, g) /\ OnHeap(g.heap, Ref(Len(m.heap) + 1))
  BY NewArray
<1>2. Sound(g)
  BY <1>1 DEF Computes
<1>3. Computes(g, Put(g, n, <<Ref(Len(m.heap) + 1)>>))
  BY <1>1, <1>2, OneOnHeap, PutComputes
<1>4. PutNew(m, n, bytes) = Put(g, n, <<Ref(Len(m.heap) + 1)>>)
  BY <1>1 DEF PutNew
<1>. QED  BY <1>1, <1>3, <1>4, ComputesOn

\* When and WhenNew.
LEMMA WhenComputes ==
  ASSUME NEW m, Sound(m)
  PROVE  /\ \A checks, vs : \A n \in Nat :
              (checks => AllOnHeap(m.heap, vs)) => Computes(m, When(checks, m, n, vs))
         /\ \A checks, bytes : \A n \in Nat : Computes(m, WhenNew(checks, m, n, bytes))
BY FailComputes, PutComputes, PutNewComputes DEF When, WhenNew

\* Numbers and truth values as results.
LEMMA NumbersComputed ==
  ASSUME NEW m, Sound(m)
  PROVE  /\ \A x : \A n \in Nat : Computes(m, Put(m, n, <<Uint(x)>>))
         /\ \A x, y : \A n \in Nat : Computes(m, Put(m, n, <<Uint(x), Uint(y)>>))
         /\ \A n \in Nat : Computes(m, Put(m, n, <<>>))
         /\ \A c, x : \A n \in Nat : Computes(m, When(c, m, n, <<Uint(x)>>))
         /\ \A c, x : \A n \in Nat : Computes(m, When(c, m, n, <<Bool(x)>>))
<1>1. \A x, y : /\ AllOnHeap(m.heap, <<Uint(x)>>) /\ AllOnHeap(m.heap, <<Uint(x), Uint(y)>>)
                /\ AllOnHeap(m.heap, <<Bool(x)>>) /\ AllOnHeap(m.heap, <<>>)
  BY PlainOnHeap, OneOnHeap, TwoOnHeap
<1>. QED  BY <1>1, PutComputes, WhenComputes

\* A new array and a value.
LEMMA ArrayAndValue ==
  ASSUME NEW m, Sound(m)
  PROVE  \A n \in Nat : \A bytes, v : OnHeap(m.heap, v) =>
           Computes(m, Put([m EXCEPT !.heap = Append(@, bytes)], n, <<Ref(Len(m.heap) + 1), v>>))
<1>. SUFFICES ASSUME NEW n \in Nat, NEW bytes, NEW v, OnHeap(m.heap, v)
              PROVE  Computes(m, Put([m EXCEPT !.heap = Append(@, bytes)], n,
                                     <<Ref(Len(m.heap) + 1), v>>))
  OBVIOUS
<1>1. PICK g : /\ g = [m EXCEPT !.heap = Append(@, bytes)]
               /\ Computes(m, g) /\ OnHeap(g.heap, Ref(Len(m.heap) + 1))
  BY NewArray
<1>2. Sound(g) /\ OnHeap(g.heap, v)
  BY <1>1, LongerGrown, StillOnHeap DEF Computes
<1>3. Computes(g, Put(g, n, <<Ref(Len(m.heap) + 1), v>>))
  BY <1>1, <1>2, TwoOnHeap, PutComputes
<1>. QED  BY <1>1, <1>3, ComputesOn

\* Two new arrays.
LEMMA TwoArrays ==
  ASSUME NEW m, Sound(m)
  PROVE  \A n \in Nat : \A x, y :
           Computes(m, Put([m EXCEPT !.heap = Append(Append(@, x), y)], n,
                           <<Ref(Len(m.heap) + 1), Ref(Len(m.heap) + 2)>>))
<1>. SUFFICES ASSUME NEW n \in Nat, NEW x, NEW y
              PROVE  Computes(m, Put([m EXCEPT !.heap = Append(Append(@, x), y)], n,
                                     <<Ref(Len(m.heap) + 1), Ref(Len(m.heap) + 2)>>))
  OBVIOUS
<1>1. PICK g : /\ g = [m EXCEPT !.heap = Append(@, x)]
               /\ Computes(m, g) /\ OnHeap(g.heap, Ref(Len(m.heap) + 1))
  BY NewArray
<1>2. Sound(g) /\ g.heap = Append(m.heap, x)
  BY <1>1 DEF Computes, Sound, Fields
<1>3. Len(g.heap) + 1 = Len(m.heap) + 2
  <2>1. IsSequence(m.heap)
    BY DEF Sound
  <2>2. Len(Append(m.heap, x)) = Len(m.heap) + 1 /\ Len(m.heap) \in Nat
    BY <2>1, AppendSequence, SequenceDomain
  <2>. QED  BY <1>2, <2>2
<1>4. PICK k : /\ k = [g EXCEPT !.heap = Append(@, y)]
               /\ Computes(g, k) /\ OnHeap(k.heap, Ref(Len(g.heap) + 1))
  BY <1>2, NewArray
<1>5. Sound(k) /\ OnHeap(k.heap, Ref(Len(m.heap) + 1)) /\ OnHeap(k.heap, Ref(Len(m.heap) + 2))
  BY <1>1, <1>3, <1>4, LongerGrown, StillOnHeap DEF Computes
<1>6. Computes(k, Put(k, n, <<Ref(Len(m.heap) + 1), Ref(Len(m.heap) + 2)>>))
  BY <1>5, TwoOnHeap, PutComputes
<1>7. Computes(m, Put(k, n, <<Ref(Len(m.heap) + 1), Ref(Len(m.heap) + 2)>>))
  BY <1>1, <1>4, <1>6, ComputesOn
<1>8. k = [m EXCEPT !.heap = Append(Append(@, x), y)]
  BY <1>1, <1>2, <1>4
<1>. QED  BY <1>7, <1>8

-----------------------------------------------------------------------------
(* Constants, arguments, scratch space                                     *)

\* What has the heap of m with a value of m in one place of the scratch space.
LEMMA ScratchComputes ==
  ASSUME NEW m, Sound(m), NEW k, NEW v, OnHeap(m.heap, v)
  PROVE  Computes(m, [m EXCEPT !.scratch[k] = v])
BY DEF Computes, Sound, Fields, Longer, SameCode

\* Positions in a sequence to which n elements are added.
LEMMA Positions ==
  ASSUME NEW k \in Nat, NEW n \in Nat
  PROVE  1..k \subseteq 1..(k + n) /\ \A j \in 1..n : k + j \in 1..(k + n)
OBVIOUS

\* The block of byte constants.
LEMMA BytecblockComputes ==
  ASSUME NEW m, Sound(m), NEW i, IsSequence(i.list)
  PROVE  Computes(m, Bytecblock(m, i))
<1>1. IsSequence(m.heap)
  BY DEF Sound
<1>2. PICK h : /\ h = m.heap \o i.list /\ IsSequence(h) /\ Len(h) = Len(m.heap) + Len(i.list)
               /\ \A k \in DOMAIN m.heap : h[k] = m.heap[k]
  <2>1. /\ IsSequence(m.heap \o i.list) /\ Len(m.heap \o i.list) = Len(m.heap) + Len(i.list)
        /\ \A k \in DOMAIN m.heap : (m.heap \o i.list)[k] = m.heap[k]
    BY <1>1, ConcatSequence, Zenon DEF Joins
  <2>. QED  BY <2>1, Zenon
<1>3. /\ Len(m.heap) \in Nat /\ Len(i.list) \in Nat /\ Len(h) \in Nat
      /\ DOMAIN m.heap = 1..Len(m.heap) /\ DOMAIN h = 1..Len(h)
      /\ IsSequence(h) /\ Len(h) = Len(m.heap) + Len(i.list)
      /\ \A k \in DOMAIN m.heap : h[k] = m.heap[k]
  <2>1. IsSequence(m.heap) /\ IsSequence(h) /\ IsSequence(i.list)
    BY <1>1, <1>2
  <2>. QED  BY <1>2, <2>1, SequenceDomain, Zenon
<1>4. Longer(m.heap, h)
  <2>1. DOMAIN m.heap \subseteq DOMAIN h
    BY <1>3, Positions, Zenon
  <2>. QED  BY <1>3, <2>1 DEF Longer
<1>5. PICK g : g = [m EXCEPT !.heap = h] /\ Computes(m, g) /\ Sound(g) /\ g.heap = h
  <2>1. Computes(m, [m EXCEPT !.heap = h])
    BY <1>2, <1>4, HeapComputes
  <2>2. [m EXCEPT !.heap = h].heap = h
    BY DEF Sound, Fields
  <2>. QED  BY <2>1, <2>2 DEF Computes
<1>6. PICK c : c = [k \in 1..Len(i.list) |-> Ref(Len(m.heap) + k)] /\ AllOnHeap(h, c)
  <2>. DEFINE c == [k \in 1..Len(i.list) |-> Ref(Len(m.heap) + k)]
  <2>1. c \in [1..Len(i.list) -> {c[k] : k \in 1..Len(i.list)}]
    OBVIOUS
  <2>2. c \in Seq({c[k] : k \in 1..Len(i.list)})
    BY <1>3, <2>1, SeqDef
  <2>3. IsSequence(c)
    BY <2>2, SequenceOf
  <2>4. ASSUME NEW k \in DOMAIN c PROVE OnHeap(h, c[k])
    <3>1. k \in 1..Len(i.list)
      OBVIOUS
    <3>2. Len(m.heap) + k \in DOMAIN h
      BY <1>3, <3>1, Positions, Zenon
    <3>. QED  BY <3>2, RefOnHeap
  <2>. QED  BY <2>3, <2>4 DEF AllOnHeap
<1>7. Computes(g, [g EXCEPT !.bytecs = c])
  BY <1>5, <1>6 DEF Computes, Sound, Fields, Longer, SameCode
<1>8. Computes(m, [g EXCEPT !.bytecs = c])
  BY <1>5, <1>7, ComputesOn
<1>9. [m EXCEPT !.heap = @ \o i.list, !.bytecs = c] = [g EXCEPT !.bytecs = c]
  BY <1>2, <1>5
<1>. QED  BY <1>6, <1>8, <1>9, FailComputes DEF Bytecblock

\* Constants, arguments and the scratch space.
LEMMA ConstantsCompute ==
  ASSUME NEW m, Sound(m), NEW i, i.op \in ConstantOps, i.op = "bytecblock" => IsSequence(i.list)
  PROVE  Computes(m, Constants(m, i))
<1>1. Computes(m, PushInt(m, i)) /\ Computes(m, PushBytes(m, i))
  BY NumbersComputed, PutNewComputes DEF PushInt, PushBytes
<1>2. ASSUME NEW n, Sound(n), NEW k PROVE Computes(n, Arg(n, k))
  <2>1. k + 1 \in DOMAIN n.args => AllOnHeap(n.heap, <<n.args[k + 1]>>)
    BY <1>2, OneOnHeap DEF Sound, AllOnHeap
  <2>. QED  BY <1>2, <2>1, WhenComputes DEF Arg
<1>3. Computes(m, Arg(Put(m, 1, <<>>), U(m, 0)))
  <2>1. Computes(m, Put(m, 1, <<>>))
    BY NumbersComputed
  <2>. QED  BY <1>2, <2>1, ComputesOn DEF Computes
<1>4. Computes(m, Intcblock(m, i))
  BY FailComputes DEF Intcblock, Computes, Sound, Fields, Longer, SameCode
<1>5. Computes(m, Intc(m, i))
  BY NumbersComputed DEF Intc
<1>6. Computes(m, Bytec(m, i))
  <2>1. i.x + 1 \in DOMAIN m.bytecs => AllOnHeap(m.heap, <<m.bytecs[i.x + 1]>>)
    BY OneOnHeap DEF Sound, AllOnHeap
  <2>. QED  BY <2>1, WhenComputes DEF Bytec
<1>7. ASSUME NEW k, NEW n \in Nat, Holds(m, 1)
      PROVE  Computes(m, Put([m EXCEPT !.scratch[k] = Top(m, 0)], n, <<>>))
  <2>1. OnHeap(m.heap, Top(m, 0))
    BY <1>7, TopOnHeap
  <2>2. Computes(m, [m EXCEPT !.scratch[k] = Top(m, 0)])
    BY <2>1, ScratchComputes
  <2>3. Computes([m EXCEPT !.scratch[k] = Top(m, 0)],
                 Put([m EXCEPT !.scratch[k] = Top(m, 0)], n, <<>>))
    BY <2>2, NumbersComputed DEF Computes
  <2>. QED  BY <2>2, <2>3, ComputesOn
<1>8. Computes(m, Store(m, i))
  BY <1>7, FailComputes DEF Store
<1>9. Computes(m, Stores(m))
  <2>1. UintAt(m, 1) => Holds(m, 1)
    <3>1. Len(m.stack) \in Nat
      BY SequenceDomain DEF Sound, AllOnHeap
    <3>. QED  BY <3>1 DEF UintAt, Holds
  <2>. QED  BY <1>7, <2>1, FailComputes DEF Stores
<1>10. Computes(m, Load(m, i)) /\ Computes(m, Loads(m))
  <2>1. \A k \in DOMAIN m.scratch : AllOnHeap(m.heap, <<m.scratch[k]>>)
    BY OneOnHeap DEF Sound
  <2>. QED  BY <2>1, WhenComputes DEF Load, Loads
<1>. QED
  BY <1>1, <1>2, <1>3, <1>4, <1>5, <1>6, <1>8, <1>9, <1>10, BytecblockComputes, FailComputes
     DEF Constants, ConstantOps

-----------------------------------------------------------------------------
(* The stack                                                               *)

\* Some of the topmost values.
LEMMA TopsOnHeap ==
  ASSUME NEW m, Sound(m)
  PROVE  /\ Holds(m, 1) => OnHeap(m.heap, Top(m, 0))
         /\ Holds(m, 2) => OnHeap(m.heap, Top(m, 0)) /\ OnHeap(m.heap, Top(m, 1))
         /\ Holds(m, 3) => /\ OnHeap(m.heap, Top(m, 0)) /\ OnHeap(m.heap, Top(m, 1))
                           /\ OnHeap(m.heap, Top(m, 2))
<1>1. Len(m.stack) \in Nat
  BY SequenceDomain DEF Sound, AllOnHeap
<1>. QED  BY <1>1, TopOnHeap DEF Holds

\* A part of the values.
LEMMA PartOnHeap ==
  ASSUME NEW h, NEW s, AllOnHeap(h, s), NEW a \in Nat, NEW b \in Nat, a >= 1, b <= Len(s)
  PROVE  AllOnHeap(h, SubSeq(s, a, b)) /\ (a <= b + 1 => Len(SubSeq(s, a, b)) = b + 1 - a)
<1>. DEFINE t == SubSeq(s, a, b)
<1>1. IsSequence(s)
  BY DEF AllOnHeap
<1>2. /\ IsSequence(t) /\ (a <= b + 1 => Len(t) = b + 1 - a)
      /\ \A k \in DOMAIN t : a + k - 1 \in DOMAIN s /\ t[k] = s[a + k - 1]
  BY <1>1, PartSequence
<1>. HIDE DEF t
<1>3. AllOnHeap(h, t)
  BY <1>2 DEF AllOnHeap
<1>. QED  BY <1>2, <1>3 DEF t

\* The topmost values.
LEMMA TopValuesOnHeap ==
  ASSUME NEW m, Sound(m), NEW n \in Nat, Holds(m, n)
  PROVE  AllOnHeap(m.heap, TopValues(m, n)) /\ Len(TopValues(m, n)) = n
<1>1. AllOnHeap(m.heap, m.stack) /\ Len(m.stack) \in Nat /\ Len(m.stack) >= n
  BY SequenceDomain DEF Sound, AllOnHeap, Holds
<1>. DEFINE a == Len(m.stack) - n + 1
            b == Len(m.stack)
<1>2. a \in Nat /\ b \in Nat /\ a >= 1 /\ a <= b + 1 /\ b + 1 - a = n /\ b <= Len(m.stack)
  BY <1>1
<1>. HIDE DEF a, b
<1>3. AllOnHeap(m.heap, SubSeq(m.stack, a, b)) /\ Len(SubSeq(m.stack, a, b)) = n
  BY <1>1, <1>2, PartOnHeap
<1>. QED  BY <1>3 DEF TopValues, a, b

\* The opcodes that move values on the stack.
LEMMA ShuffleComputes ==
  ASSUME NEW m, Sound(m), NEW i, i.op \in StackOps,
         i.op \in {"dig", "cover", "uncover"} => i.x \in Nat
  PROVE  Computes(m, Shuffle(m, i))
<1>1. Computes(m, Pop(m))
  BY OneOnHeap, WhenComputes DEF Pop
<1>2. Computes(m, Dup(m))
  BY TopsOnHeap, OneOnHeap, WhenComputes DEF Dup
<1>3. Computes(m, Dup2(m)) /\ Computes(m, Swap(m))
  BY TopsOnHeap, TwoOnHeap, WhenComputes DEF Dup2, Swap
<1>4. Computes(m, Select(m))
  <2>1. Holds(m, 3) => AllOnHeap(m.heap, <<Top(m, IF U(m, 0) # 0 THEN 1 ELSE 2)>>)
    BY TopsOnHeap, OneOnHeap
  <2>. QED  BY <2>1, WhenComputes DEF Select
<1>5. ASSUME i.x \in Nat
      PROVE  Computes(m, Dig(m, i)) /\ Computes(m, Cover(m, i)) /\ Computes(m, Uncover(m, i))
  <2>1. Holds(m, i.x + 1) => /\ AllOnHeap(m.heap, <<Top(m, 0)>>)
                             /\ AllOnHeap(m.heap, <<Top(m, i.x)>>) /\ Holds(m, i.x)
    <3>1. Len(m.stack) \in Nat
      BY SequenceDomain DEF Sound, AllOnHeap
    <3>2. Holds(m, i.x + 1) => Holds(m, 1) /\ Holds(m, i.x)
      BY <1>5, <3>1 DEF Holds
    <3>. QED  BY <1>5, <3>2, TopOnHeap, TopsOnHeap, OneOnHeap
  <2>2. Computes(m, Dig(m, i))
    BY <1>5, <2>1, WhenComputes DEF Dig
  <2>3. Holds(m, i.x + 1) =>
          AllOnHeap(m.heap, <<Top(m, 0)>> \o SubSeq(TopValues(m, i.x + 1), 1, i.x))
    <3>1. Holds(m, i.x + 1) =>
            AllOnHeap(m.heap, TopValues(m, i.x + 1)) /\ Len(TopValues(m, i.x + 1)) = i.x + 1
      BY <1>5, TopValuesOnHeap
    <3>2. Holds(m, i.x + 1) => AllOnHeap(m.heap, SubSeq(TopValues(m, i.x + 1), 1, i.x))
      BY <1>5, <3>1, PartOnHeap
    <3>. QED  BY <2>1, <3>2, ConcatOnHeap
  <2>4. i.x + 1 \in Nat
    BY <1>5
  <2>5. Computes(m, Cover(m, i))
    BY <2>3, <2>4, WhenComputes DEF Cover
  <2>6. Holds(m, i.x + 1) => AllOnHeap(m.heap, TopValues(m, i.x) \o <<Top(m, i.x)>>)
    BY <1>5, <2>1, TopValuesOnHeap, ConcatOnHeap
  <2>7. Computes(m, Uncover(m, i))
    BY <2>4, <2>6, WhenComputes DEF Uncover
  <2>. QED  BY <2>2, <2>5, <2>7
<1>. QED  BY <1>1, <1>2, <1>3, <1>4, <1>5 DEF Shuffle, StackOps

-----------------------------------------------------------------------------
(* Integers and byte arrays                                                *)

\* Numbers of two words.
LEMMA HalvesOnHeap ==
  \A h, x, y : AllOnHeap(h, Halves(x)) /\ AllOnHeap(h, Halves(x) \o Halves(y))
BY PlainOnHeap, TwoOnHeap, ConcatOnHeap DEF Halves

\* The opcodes that compute with integers.
LEMMA CalculateComputes ==
  ASSUME NEW m, Sound(m), NEW op \in IntegerOps
  PROVE  Computes(m, Calculate(m, op))
<1>1. /\ Computes(m, Add(m)) /\ Computes(m, Sub(m)) /\ Computes(m, Mul(m))
      /\ Computes(m, Div(m)) /\ Computes(m, Mod(m))
  BY NumbersComputed DEF Add, Sub, Mul, Div, Mod
<1>2. /\ Computes(m, BitwiseOr(m)) /\ Computes(m, BitwiseAnd(m)) /\ Computes(m, BitwiseXor(m))
      /\ Computes(m, BitwiseNot(m))
  BY NumbersComputed DEF BitwiseOr, BitwiseAnd, BitwiseXor, BitwiseNot
<1>3. /\ Computes(m, LessThan(m)) /\ Computes(m, GreaterThan(m))
      /\ Computes(m, LessThanEqualTo(m)) /\ Computes(m, GreaterThanEqualTo(m))
  BY NumbersComputed DEF LessThan, GreaterThan, LessThanEqualTo, GreaterThanEqualTo
<1>4. /\ Computes(m, And(m)) /\ Computes(m, Or(m)) /\ Computes(m, Not(m))
      /\ Computes(m, EqualTo(m)) /\ Computes(m, NotEqualTo(m))
  BY NumbersComputed DEF And, Or, Not, EqualTo, NotEqualTo
<1>5. Computes(m, Addw(m)) /\ Computes(m, Divw(m))
  <2>1. \A c, x, y : AllOnHeap(m.heap, IF c THEN <<Uint(1), Uint(x)>> ELSE <<Uint(0), Uint(y)>>)
    BY PlainOnHeap, TwoOnHeap
  <2>. QED  BY <2>1, NumbersComputed, WhenComputes DEF Addw, Divw
<1>6. Computes(m, Mulw(m)) /\ Computes(m, DivModw(m)) /\ Computes(m, Expw(m))
  BY HalvesOnHeap, WhenComputes DEF Mulw, DivModw, Expw
<1>7. /\ Computes(m, Exp(m)) /\ Computes(m, Shl(m)) /\ Computes(m, Shr(m))
      /\ Computes(m, Sqrt(m)) /\ Computes(m, BitLen(m))
  BY NumbersComputed DEF Exp, Shl, Shr, Sqrt, BitLen
<1>. QED  BY <1>1, <1>2, <1>3, <1>4, <1>5, <1>6, <1>7 DEF Calculate, IntegerOps

\* The opcodes that compute with byte arrays as numbers.
LEMMA BytesCompute ==
  ASSUME NEW m, Sound(m), NEW op \in ByteOps
  PROVE  Computes(m, HandleBytes(m, op))
<1>1. \A c, r : Computes(m, ByteResult(c, m, r))
  BY WhenComputes DEF ByteResult
<1>2. op \in {"b+", "b-", "b*", "b/", "b%"} => Computes(m, ByteOp(m, op))
  BY <1>1, FailComputes DEF ByteOp
<1>3. Computes(m, ByteCompare(m, op))
  BY NumbersComputed DEF ByteCompare
<1>4. Computes(m, ByteBitwise(m, op)) /\ Computes(m, ByteBitwiseInvert(m))
  BY WhenComputes DEF ByteBitwise, ByteBitwiseInvert
<1>5. Computes(m, ByteZero(m)) /\ Computes(m, Bsqrt(m))
  BY WhenComputes DEF ByteZero, Bsqrt
<1>. QED  BY <1>2, <1>3, <1>4, <1>5 DEF HandleBytes, ByteOps

\* The opcodes that a library works for.
LEMMA LibraryComputes ==
  ASSUME NEW m, Sound(m), NEW i, i.op \in LibraryOps
  PROVE  Computes(m, UseLibrary(m, i))
<1>1. Computes(m, HashOp(m)) /\ Computes(m, HashOpSHA3(m))
  BY WhenComputes DEF HashOp, HashOpSHA3
<1>2. \A n \in Nat : Computes(m, Verify(m, n))
  BY NumbersComputed DEF Verify
<1>3. \A n \in Nat : \A made : Computes(m, PutMade(m, n, made))
  BY FailComputes, PutNewComputes DEF PutMade
<1>4. \A n \in Nat : \A made : Computes(m, PutPoint(m, n, made))
  BY FailComputes, TwoArrays DEF PutPoint
<1>5. Computes(m, EcdsaPkDecompress(m)) /\ Computes(m, EcdsaPkRecover(m))
  BY <1>4, FailComputes DEF EcdsaPkDecompress, EcdsaPkRecover
<1>6. /\ Computes(m, Bn254Add(m)) /\ Computes(m, Bn254ScalarMul(m))
      /\ Computes(m, Base64Decode(m))
  BY <1>3, FailComputes DEF Bn254Add, Bn254ScalarMul, Base64Decode
<1>7. Computes(m, Bn254Pairing(m))
  BY PlainOnHeap, OneOnHeap, WhenComputes DEF Bn254Pairing
<1>8. Computes(m, VrfVerify(m, i))
  BY FailComputes, PlainOnHeap, ArrayAndValue DEF VrfVerify
<1>9. Computes(m, JsonRef(m, i))
  BY NumbersComputed, PutNewComputes, FailComputes DEF JsonRef
<1>. QED
  BY <1>1, <1>2, <1>5, <1>6, <1>7, <1>8, <1>9 DEF UseLibrary, LibraryOps

\* The opcodes on byte arrays that make a new array or a number.
LEMMA ArraysCompute ==
  ASSUME NEW m, Sound(m), NEW i, i.op \in ArrayOps \ {"extract", "setbit", "setbyte"}
  PROVE  Computes(m, HandleArray(m, i))
<1>1. Computes(m, LenOp(m)) /\ Computes(m, Itob(m)) /\ Computes(m, Btoi(m))
  BY NumbersComputed, WhenComputes DEF LenOp, Itob, Btoi
<1>2. Computes(m, Concat(m)) /\ Computes(m, Substring(m, i)) /\ Computes(m, Substring3(m))
  BY WhenComputes DEF Concat, Substring, Substring3
<1>3. Computes(m, Extract3(m)) /\ \A n : Computes(m, ExtractUintN(m, n))
  BY NumbersComputed, WhenComputes DEF Extract3, ExtractUintN
<1>4. Computes(m, Replace2(m, i)) /\ Computes(m, Replace3(m))
  BY WhenComputes DEF Replace2, Replace3
<1>5. Computes(m, GetBit(m)) /\ Computes(m, GetByte(m))
  BY NumbersComputed, FailComputes DEF GetBit, GetByte
<1>. QED  BY <1>1, <1>2, <1>3, <1>4, <1>5 DEF HandleArray, ArrayOps

\* extract, with the length that the instruction keeps.
LEMMA ExtractComputes ==
  ASSUME NEW m, Sound(m), NEW i
  PROVE  \E y : Computes([m EXCEPT !.code[m.pc].y = y], Extract(m, i))
<1>. DEFINE length == IF i.y = 0 THEN Len(B(m, 0)) - i.x ELSE i.y
            y == IF BytesAt(m, 0) THEN length ELSE m.code[m.pc].y
            n == [m EXCEPT !.code[m.pc].y = y]
<1>1. Sound(n)
  BY DEF Sound, Fields
<1>2. \A c, bytes : Computes(n, WhenNew(c, n, 1, bytes))
  BY <1>1, WhenComputes
<1>3. Computes(n, Extract(m, i))
  BY <1>2 DEF Extract
<1>. QED  BY <1>3

\* r is what an instruction makes of m that may change the array at its third
\* place.
Rewrites(m, r) ==
  /\ Sound(r) /\ SameCode(m, r) /\ r.ctx = m.ctx
  /\ Grown(m.heap, r.heap)
  /\ \A a \in DOMAIN m.heap : r.heap[a] # m.heap[a] => BytesAt(m, 2) /\ Top(m, 2).b = a

\* What computes changes no array.
LEMMA ComputesRewrites == \A m, r : Computes(m, r) => Rewrites(m, r)
BY LongerGrown DEF Computes, Rewrites, Longer

\* One byte of the array is changed, and a value of m pushed.
LEMMA ByteRewritten ==
  ASSUME NEW m, Sound(m), BytesAt(m, 2), NEW k, NEW x
  PROVE  Rewrites(m, Put([m EXCEPT !.heap[Top(m, 2).b][k] = x], 3, <<Top(m, 2)>>))
<1>. DEFINE a == Top(m, 2).b
            h == [m.heap EXCEPT ![a] = [m.heap[a] EXCEPT ![k] = x]]
            n == [m EXCEPT !.heap = h]
<1>1. IsSequence(m.heap)
  BY DEF Sound
<1>2. IsSequence(h) /\ DOMAIN h = DOMAIN m.heap
  BY <1>1, ExceptSequence
<1>3. \A r \in DOMAIN m.heap : r # a => h[r] = m.heap[r]
  OBVIOUS
<1>4. Grown(m.heap, h)
  <2>1. ASSUME NEW r \in DOMAIN m.heap PROVE Len(h[r]) = Len(m.heap[r])
    <3>1. CASE r = a
      <4>1. h[r] = [m.heap[a] EXCEPT ![k] = x]
        BY <3>1
      <4>2. Len([m.heap[a] EXCEPT ![k] = x]) = Len(m.heap[a])
        OBVIOUS
      <4>. QED  BY <3>1, <4>1, <4>2
    <3>2. CASE r # a
      BY <3>2
    <3>. QED  BY <3>1, <3>2
  <2>. QED  BY <1>2, <2>1 DEF Grown
<1>5. /\ DOMAIN n = Fields /\ n.heap = h /\ n.ctx = m.ctx /\ n.stack = m.stack
      /\ n.args = m.args /\ n.bytecs = m.bytecs /\ n.scratch = m.scratch
      /\ n.code = m.code /\ n.pc = m.pc /\ n.calls = m.calls
  BY DEF Sound, Fields
<1>6. n = [m EXCEPT !.heap[Top(m, 2).b][k] = x]
  OBVIOUS
<1>. HIDE DEF n, h
<1>7. /\ \A s : AllOnHeap(m.heap, s) => AllOnHeap(h, s)
      /\ \A v : OnHeap(m.heap, v) => OnHeap(h, v)
      /\ \A c : CtxSound(m.heap, c) => CtxSound(h, c)
  BY <1>4, StillOnHeap, CtxStays
<1>8. Sound(n)
  BY <1>2, <1>5, <1>7 DEF Sound
<1>9. OnHeap(m.heap, Top(m, 2))
  BY TopOnHeap DEF BytesAt
<1>10. AllOnHeap(n.heap, <<Top(m, 2)>>)
  BY <1>5, <1>7, <1>9, OneOnHeap
<1>11. Computes(n, Put(n, 3, <<Top(m, 2)>>))
  BY <1>8, <1>10, PutComputes
<1>12. Rewrites(m, Put(n, 3, <<Top(m, 2)>>))
  BY <1>2, <1>3, <1>4, <1>5, <1>11 DEF Computes, Rewrites, Longer, Grown, SameCode
<1>. QED  BY <1>6, <1>12

\* setbit and setbyte.
LEMMA SetRewrites ==
  ASSUME NEW m, Sound(m)
  PROVE  Rewrites(m, SetBit(m)) /\ Rewrites(m, SetByte(m))
<1>1. Rewrites(m, Fail(m))
  BY FailComputes, ComputesRewrites
<1>2. Rewrites(m, SetByte(m))
  BY <1>1, ByteRewritten DEF SetByte
<1>3. \A c, x : Rewrites(m, When(c, m, 3, <<Uint(x)>>))
  BY NumbersComputed, ComputesRewrites
<1>4. Rewrites(m, SetBit(m))
  BY <1>1, <1>3, ByteRewritten DEF SetBit
<1>. QED  BY <1>2, <1>4

-----------------------------------------------------------------------------
(* Transactions, globals and the group                                     *)

\* Values that the context refers to.
LEMMA CtxOnHeap ==
  ASSUME NEW m, Sound(m)
  PROVE  /\ AllOnHeap(m.heap, <<m.ctx.zero>>) /\ AllOnHeap(m.heap, <<m.ctx.lastLog>>)
         /\ \A tx : AllOnHeap(m.heap, Logs(m, tx))
         /\ \A tx : \A k \in DOMAIN Logs(m, tx) : AllOnHeap(m.heap, <<Logs(m, tx)[k]>>)
         /\ \A t \in DOMAIN m.ctx.shared : \A k \in DOMAIN m.ctx.shared[t] :
              AllOnHeap(m.heap, <<m.ctx.shared[t][k]>>)
<1>1. CtxSound(m.heap, m.ctx)
  BY DEF Sound
<1>2. \A tx : AllOnHeap(m.heap, Logs(m, tx))
  <2>1. ASSUME NEW tx, tx.id \in DOMAIN m.ctx.receipts PROVE AllOnHeap(m.heap, Logs(m, tx))
    BY <1>1, <2>1 DEF CtxSound, Logs, Receipt, Get
  <2>2. ASSUME NEW tx, tx.id \notin DOMAIN m.ctx.receipts PROVE AllOnHeap(m.heap, Logs(m, tx))
    <3>1. Logs(m, tx) = <<>>
      BY <2>2, EmptySequence DEF Logs, Receipt, Get
    <3>. QED  BY <3>1, OneOnHeap
  <2>. QED  BY <2>1, <2>2
<1>3. \A tx : \A k \in DOMAIN Logs(m, tx) : AllOnHeap(m.heap, <<Logs(m, tx)[k]>>)
  BY <1>2, OneOnHeap DEF AllOnHeap
<1>. QED  BY <1>1, <1>2, <1>3, OneOnHeap DEF CtxSound

\* Values of fields.
LEMMA FieldsCompute ==
  ASSUME NEW m, Sound(m)
  PROVE  /\ \A n \in Nat : \A field, raw : Computes(m, PutField(m, n, field, raw))
         /\ \A n \in Nat : \A field : Computes(m, PutDefault(m, n, field))
<1>1. \A n \in Nat : \A field, raw : Computes(m, PutField(m, n, field, raw))
  BY NumbersComputed, WhenComputes DEF PutField
<1>2. \A n \in Nat : \A field : Computes(m, PutDefault(m, n, field))
  BY CtxOnHeap, PutComputes, NumbersComputed, PutNewComputes DEF PutDefault
<1>. QED  BY <1>1, <1>2

\* One field of a transaction.
LEMMA TxnSpecComputes ==
  ASSUME NEW m, Sound(m), NEW n \in Nat, NEW tx, NEW pos, NEW field
  PROVE  Computes(m, TxnSpecByField(m, n, tx, pos, field))
<1>1. \A x : Computes(m, Put(m, n, <<Uint(x)>>))
  BY NumbersComputed
<1>2. \A bytes : Computes(m, PutNew(m, n, bytes))
  BY PutNewComputes
<1>3. \A c, x : Computes(m, When(c, m, n, <<Uint(x)>>))
  BY NumbersComputed
<1>4. Computes(m, Put(m, n, <<m.ctx.lastLog>>)) /\ Computes(m, Fail(m))
  BY CtxOnHeap, PutComputes, FailComputes
<1>5. \A raw : Computes(m, PutField(m, n, field, raw)) /\ Computes(m, PutDefault(m, n, field))
  BY FieldsCompute
<1>. QED  BY <1>1, <1>2, <1>3, <1>4, <1>5 DEF TxnSpecByField

\* One element of a field.
LEMMA TxAppArgComputes ==
  ASSUME NEW m, Sound(m), NEW n \in Nat, NEW tx, NEW field, NEW k
  PROVE  Computes(m, TxAppArg(m, n, tx, field, k))
<1>1. Computes(m, Put(m, n, <<Other("undefined")>>))
  BY PlainOnHeap, OneOnHeap, PutComputes
<1>2. Computes(m, When(k + 1 \in DOMAIN Logs(m, tx), m, n, <<Logs(m, tx)[k + 1]>>))
  BY CtxOnHeap, WhenComputes
<1>3. \A c, bytes : Computes(m, WhenNew(c, m, n, bytes))
  BY WhenComputes
<1>4. \A x : Computes(m, Put(m, n, <<Uint(x)>>)) /\ Computes(m, Fail(m))
  BY NumbersComputed, FailComputes
<1>5. \A raw : Computes(m, PutField(m, n, field, raw)) /\ Computes(m, PutDefault(m, n, field))
  BY FieldsCompute
<1>. QED  BY <1>1, <1>2, <1>3, <1>4, <1>5 DEF TxAppArg

\* txn, gtxn and their families.
LEMMA ReadsCompute ==
  ASSUME NEW m, Sound(m), NEW v, NEW i, i.op \in TxnOps
  PROVE  Computes(m, ReadTxn(m, v, i))
<1>1. \A n \in Nat : \A group, t, k : Computes(m, ReadTx(m, v, n, group, t, i, k))
  BY TxAppArgComputes, TxnSpecComputes, FailComputes DEF ReadTx
<1>2. \A n \in Nat : \A k : Computes(m, ReadInner(m, n, i, k))
  BY TxAppArgComputes, TxnSpecComputes, FailComputes, NumbersComputed DEF ReadInner
<1>3. Computes(m, Fail(m))
  BY FailComputes
<1>. QED
  BY <1>1, <1>2, <1>3
     DEF ReadTxn, TxnOps, Txn, Txnas, Gtxn, Gtxnas, Gtxns, Gtxnsas, Gitxn, Gitxnas, ITxn, ITxnas

\* Globals.
LEMMA GlobalsCompute ==
  ASSUME NEW m, Sound(m), NEW field
  PROVE  Computes(m, Global(m, field))
<1>1. \A c, x : Computes(m, When(c, m, 0, <<Uint(x)>>)) /\ Computes(m, Put(m, 0, <<Uint(x)>>))
  BY NumbersComputed
<1>2. \A bytes : Computes(m, PutNew(m, 0, bytes))
  BY PutNewComputes
<1>3. Computes(m, Put(m, 0, <<m.ctx.zero>>)) /\ Computes(m, Fail(m))
  BY CtxOnHeap, PutComputes, FailComputes
<1>. QED  BY <1>1, <1>2, <1>3 DEF Global

\* Scratch spaces and identifiers of the group, blocks.
LEMMA GroupComputes ==
  ASSUME NEW m, Sound(m), NEW i
  PROVE  /\ Computes(m, Gload(m, i)) /\ Computes(m, Gloads(m, i)) /\ Computes(m, Gloadss(m))
         /\ Computes(m, Gaid(m, i)) /\ Computes(m, Gaids(m)) /\ Computes(m, Block(m, i))
<1>1. \A n \in Nat : \A t, k : Computes(m, GloadFrom(m, n, t, k))
  BY CtxOnHeap, PutComputes, FailComputes DEF GloadFrom
<1>2. \A n \in Nat : \A t : Computes(m, GaidOf(m, n, t))
  BY NumbersComputed, FailComputes DEF GaidOf
<1>3. Computes(m, Block(m, i))
  BY NumbersComputed, PutNewComputes, FailComputes DEF Block
<1>4. Computes(m, Fail(m))
  BY FailComputes
<1>. QED  BY <1>1, <1>2, <1>3, <1>4 DEF Gload, Gloads, Gloadss, Gaid, Gaids

-----------------------------------------------------------------------------
(* The ledger                                                              *)

\* The ledger d is c but for the state of the application of m, and accounts
\* that have nothing.
OwnOnly(m, c, d) ==
  /\ \A n \in DOMAIN c.apps : d.apps[n] # c.apps[n] => n = AppID(m)
  /\ DOMAIN c.apps = DOMAIN d.apps
  /\ \A a \in DOMAIN d.accounts :
       IF a \in DOMAIN c.accounts
       THEN LET before == c.accounts[a]
                after == d.accounts[a]
            IN  /\ [before EXCEPT !.local = <<>>] = [after EXCEPT !.local = <<>>]
                /\ DOMAIN before.local = DOMAIN after.local
                /\ \A n \in DOMAIN before.local : after.local[n] # before.local[n] => n = AppID(m)
       ELSE d.accounts[a] = NewAccount(a)

\* The context d is one that an instruction may leave behind: the ledger changes
\* as it may, the transactions stay.
Follows(m, d) ==
  /\ CtxSound(m.heap, d) /\ OwnOnly(m, m.ctx, d)
  /\ d.self = m.ctx.self /\ d.group = m.ctx.group /\ d.building = m.ctx.building

\* r is what an instruction makes of m that reads or writes the ledger.
Manages(m, r) ==
  /\ Sound(r) /\ Longer(m.heap, r.heap) /\ SameCode(m, r)
  /\ OwnOnly(m, m.ctx, r.ctx)
  /\ r.ctx.self = m.ctx.self /\ r.ctx.group = m.ctx.group /\ r.ctx.building = m.ctx.building

\* What computes leaves the ledger alone.
LEMMA ComputesManages == \A m, r : Computes(m, r) => Manages(m, r)
BY DEF Computes, Manages, OwnOnly

\* A context that follows, and then a computation.
LEMMA CtxManages ==
  ASSUME NEW m, Sound(m), NEW d, Follows(m, d)
  PROVE  /\ Sound([m EXCEPT !.ctx = d]) /\ [m EXCEPT !.ctx = d].heap = m.heap
         /\ [m EXCEPT !.ctx = d].ctx = d
         /\ \A r : Computes([m EXCEPT !.ctx = d], r) => Manages(m, r)
<1>. DEFINE n == [m EXCEPT !.ctx = d]
<1>1. /\ DOMAIN n = Fields /\ n.heap = m.heap /\ n.ctx = d /\ n.stack = m.stack
      /\ n.args = m.args /\ n.bytecs = m.bytecs /\ n.scratch = m.scratch
      /\ n.code = m.code /\ n.pc = m.pc /\ n.calls = m.calls
  BY DEF Sound, Fields
<1>. HIDE DEF n
<1>2. Sound(n)
  BY <1>1 DEF Sound, Follows
<1>3. \A r : Computes(n, r) => Manages(m, r)
  BY <1>1 DEF Computes, Manages, SameCode, Follows
<1>. QED  BY <1>1, <1>2, <1>3 DEF n

\* A value is put into a state.
LEMMA WithSound ==
  ASSUME NEW h, NEW kv, NEW uints, NEW slices, StateSound(h, kv, uints, slices),
         NEW key, NEW v, OnHeap(h, v), ValidSchema([heap |-> h], With(kv, key, v), uints, slices)
  PROVE  StateSound(h, With(kv, key, v), uints, slices)
<1>1. IsFiniteSet(DOMAIN kv \cup {key})
  BY FS_AddElement DEF StateSound
<1>2. DOMAIN With(kv, key, v) = DOMAIN kv \cup {key}
  BY DEF With
<1>3. \A k \in DOMAIN kv \cup {key} : OnHeap(h, With(kv, key, v)[k])
  BY DEF With, StateSound
<1>. QED  BY <1>1, <1>2, <1>3 DEF StateSound

\* A key is taken out of a state.
LEMMA WithoutSound ==
  ASSUME NEW h, NEW kv, NEW uints, NEW slices, StateSound(h, kv, uints, slices), NEW key
  PROVE  StateSound(h, Without(kv, key), uints, slices)
<1>. DEFINE w == Without(kv, key)
            old == {k \in DOMAIN kv : IsBytes(kv[k])}
            new == {k \in DOMAIN w : IsBytes(w[k])}
<1>1. DOMAIN w = DOMAIN kv \ {key} /\ \A k \in DOMAIN w : w[k] = kv[k]
  BY DEF Without
<1>2. IsFiniteSet(DOMAIN kv) /\ uints \in Int /\ slices \in Int
  BY DEF StateSound
<1>3. new \subseteq old /\ DOMAIN w \ new \subseteq DOMAIN kv \ old /\ DOMAIN w \subseteq DOMAIN kv
  BY <1>1
<1>4. IsFiniteSet(old) /\ IsFiniteSet(DOMAIN kv \ old) /\ IsFiniteSet(DOMAIN w)
  BY <1>2, <1>3, FS_Subset
<1>5. Cardinality(new) <= Cardinality(old)
      /\ Cardinality(DOMAIN w \ new) <= Cardinality(DOMAIN kv \ old)
  BY <1>3, <1>4, FS_Subset
<1>6. /\ Cardinality(old) \in Nat /\ Cardinality(DOMAIN kv \ old) \in Nat
      /\ Cardinality(new) \in Nat /\ Cardinality(DOMAIN w \ new) \in Nat
  BY <1>3, <1>4, FS_Subset, FS_CardinalityType
<1>7. Cardinality(old) <= slices /\ Cardinality(DOMAIN kv \ old) <= uints
  BY DEF StateSound, ValidSchema
<1>8. Cardinality(new) <= slices /\ Cardinality(DOMAIN w \ new) <= uints
  BY <1>2, <1>5, <1>6, <1>7
<1>. HIDE DEF w
<1>9. /\ \A k \in DOMAIN w : StoredLength(k) <= MaxKeyBytes
      /\ \A k \in new : StoredLength(k) + Len(h[w[k].b]) <= MaxKeyVal
  BY <1>1, <1>3 DEF StateSound, ValidSchema
<1>10. ValidSchema([heap |-> h], w, uints, slices)
  BY <1>8, <1>9 DEF ValidSchema
<1>11. \A k \in DOMAIN w : OnHeap(h, w[k])
  BY <1>1 DEF StateSound
<1>12. StateSound(h, w, uints, slices)
  BY <1>2, <1>4, <1>10, <1>11 DEF StateSound
<1>. QED  BY <1>12 DEF w

\* The local state of the application in an account is set.
LEMMA LocalFollows ==
  ASSUME NEW m, Sound(m), NEW a \in DOMAIN m.ctx.accounts,
         NEW n \in DOMAIN m.ctx.accounts[a].local, n = AppID(m),
         NEW kv, StateSound(m.heap, kv, m.ctx.accounts[a].local[n].uints,
                            m.ctx.accounts[a].local[n].slices)
  PROVE  Follows(m, [m.ctx EXCEPT !.accounts[a].local[n].kv = kv])
<1>. DEFINE c == m.ctx
            old == c.accounts[a]
            state == [old.local[n] EXCEPT !.kv = kv]
            new == [old EXCEPT !.local[n].kv = kv]
            d == [c EXCEPT !.accounts[a].local[n].kv = kv]
<1>1. CtxSound(m.heap, c)
  BY DEF Sound
<1>2. LocalSound(m.heap, old.local[n]) /\ "local" \in DOMAIN old /\ "accounts" \in DOMAIN c
  BY <1>1 DEF CtxSound
<1>3. LocalSound(m.heap, state)
  BY <1>2 DEF LocalSound
<1>4. /\ new.local = [old.local EXCEPT ![n] = state] /\ DOMAIN new = DOMAIN old
      /\ \A x \in DOMAIN old : x # "local" => new[x] = old[x]
  BY <1>2
<1>5. /\ d.accounts = [c.accounts EXCEPT ![a] = new] /\ DOMAIN d = DOMAIN c
      /\ \A x \in DOMAIN c : x # "accounts" => d[x] = c[x]
  BY <1>2
<1>6. /\ d.apps = c.apps /\ d.receipts = c.receipts /\ d.zero = c.zero /\ d.lastLog = c.lastLog
      /\ d.shared = c.shared /\ d.self = c.self /\ d.group = c.group /\ d.building = c.building
  BY <1>1, <1>5 DEF CtxSound
<1>7. [old EXCEPT !.local = <<>>] = [new EXCEPT !.local = <<>>]
  BY <1>2
<1>. HIDE DEF state, new, d
<1>8. ASSUME NEW b \in DOMAIN d.accounts
      PROVE  /\ "local" \in DOMAIN d.accounts[b]
             /\ \A k \in DOMAIN d.accounts[b].local : LocalSound(m.heap, d.accounts[b].local[k])
  <2>1. CASE b = a
    <3>1. d.accounts[b] = new
      BY <1>5, <2>1
    <3>2. ASSUME NEW k \in DOMAIN new.local PROVE LocalSound(m.heap, new.local[k])
      <4>1. k \in DOMAIN old.local /\ LocalSound(m.heap, old.local[k])
        BY <1>1, <1>4 DEF CtxSound
      <4>. QED  BY <1>3, <1>4, <4>1
    <3>. QED  BY <1>2, <1>4, <3>1, <3>2
  <2>2. CASE b # a
    BY <1>1, <1>5, <2>2 DEF CtxSound
  <2>. QED  BY <2>1, <2>2
<1>9. CtxSound(m.heap, d)
  BY <1>1, <1>5, <1>6, <1>8 DEF CtxSound
<1>10. OwnOnly(m, c, d)
  <2>1. ASSUME NEW b \in DOMAIN d.accounts
        PROVE  /\ b \in DOMAIN c.accounts
               /\ [c.accounts[b] EXCEPT !.local = <<>>] = [d.accounts[b] EXCEPT !.local = <<>>]
               /\ DOMAIN c.accounts[b].local = DOMAIN d.accounts[b].local
               /\ \A k \in DOMAIN c.accounts[b].local :
                    d.accounts[b].local[k] # c.accounts[b].local[k] => k = n
    <3>1. CASE b = a
      <4>1. b \in DOMAIN c.accounts /\ c.accounts[b] = old /\ d.accounts[b] = new
        BY <1>5, <3>1
      <4>. QED  BY <1>4, <1>7, <4>1
    <3>2. CASE b # a
      BY <1>5, <3>2
    <3>. QED  BY <3>1, <3>2
  <2>. QED  BY <1>6, <2>1 DEF OwnOnly
<1>11. Follows(m, d)
  BY <1>6, <1>9, <1>10 DEF Follows
<1>. QED  BY <1>11 DEF d

\* The state of the application is set.
LEMMA AppFollows ==
  ASSUME NEW m, Sound(m), NEW n \in DOMAIN m.ctx.apps, n = AppID(m),
         NEW kv, StateSound(m.heap, kv, m.ctx.apps[n].schema["AppGlobalNumUint"],
                            m.ctx.apps[n].schema["AppGlobalNumByteSlice"])
  PROVE  Follows(m, [m.ctx EXCEPT !.apps[n].kv = kv])
<1>. DEFINE c == m.ctx
            new == [c.apps[n] EXCEPT !.kv = kv]
            d == [c EXCEPT !.apps[n].kv = kv]
<1>1. CtxSound(m.heap, c)
  BY DEF Sound
<1>2. AppSound(m.heap, c.apps[n]) /\ "apps" \in DOMAIN c
  BY <1>1 DEF CtxSound
<1>3. AppSound(m.heap, new)
  BY <1>2 DEF AppSound
<1>4. /\ d.apps = [c.apps EXCEPT ![n] = new] /\ DOMAIN d = DOMAIN c
      /\ \A x \in DOMAIN c : x # "apps" => d[x] = c[x]
  BY <1>2
<1>5. /\ d.accounts = c.accounts /\ d.receipts = c.receipts /\ d.zero = c.zero
      /\ d.lastLog = c.lastLog /\ d.shared = c.shared /\ d.self = c.self /\ d.group = c.group
      /\ d.building = c.building
  BY <1>1, <1>4 DEF CtxSound
<1>. HIDE DEF new, d
<1>6. \A k \in DOMAIN d.apps : AppSound(m.heap, d.apps[k])
  BY <1>1, <1>3, <1>4 DEF CtxSound
<1>7. CtxSound(m.heap, d)
  BY <1>1, <1>4, <1>5, <1>6 DEF CtxSound
<1>8. OwnOnly(m, c, d)
  BY <1>4, <1>5 DEF OwnOnly
<1>9. Follows(m, d)
  BY <1>5, <1>7, <1>8 DEF Follows
<1>. QED  BY <1>9 DEF d

\* An account is made known.
LEMMA AccountFollows ==
  ASSUME NEW m, Sound(m), NEW a, a \notin DOMAIN m.ctx.accounts
  PROVE  Follows(m, [m.ctx EXCEPT !.accounts = [b \in DOMAIN @ \cup {a} |->
                                                 IF b = a THEN NewAccount(a) ELSE @[b]]])
<1>. DEFINE c == m.ctx
            accounts == [b \in DOMAIN c.accounts \cup {a} |->
                          IF b = a THEN NewAccount(a) ELSE c.accounts[b]]
            d == [c EXCEPT !.accounts = accounts]
<1>1. CtxSound(m.heap, c)
  BY DEF Sound
<1>2. /\ d.accounts = accounts /\ DOMAIN d = DOMAIN c
      /\ \A x \in DOMAIN c : x # "accounts" => d[x] = c[x]
  BY <1>1 DEF CtxSound
<1>3. /\ d.apps = c.apps /\ d.receipts = c.receipts /\ d.zero = c.zero /\ d.lastLog = c.lastLog
      /\ d.shared = c.shared /\ d.self = c.self /\ d.group = c.group /\ d.building = c.building
  BY <1>1, <1>2 DEF CtxSound
<1>4. "local" \in DOMAIN NewAccount(a) /\ DOMAIN NewAccount(a).local = {}
  BY EmptySequence DEF NewAccount
<1>. HIDE DEF d
<1>5. ASSUME NEW b \in DOMAIN d.accounts
      PROVE  /\ "local" \in DOMAIN d.accounts[b]
             /\ \A k \in DOMAIN d.accounts[b].local : LocalSound(m.heap, d.accounts[b].local[k])
  BY <1>1, <1>2, <1>4 DEF CtxSound
<1>6. CtxSound(m.heap, d)
  BY <1>1, <1>2, <1>3, <1>5 DEF CtxSound
<1>7. OwnOnly(m, c, d)
  BY <1>2, <1>3 DEF OwnOnly
<1>8. Follows(m, d)
  BY <1>3, <1>6, <1>7 DEF Follows
<1>. QED  BY <1>8 DEF d

\* Something is logged, with or without a receipt.
LEMMA LogFollows ==
  ASSUME NEW m, Sound(m), NEW v, OnHeap(m.heap, v)
  PROVE  /\ Follows(m, [m.ctx EXCEPT !.lastLog = v])
         /\ Follows(m, [m.ctx EXCEPT !.lastLog = v,
                          !.receipts[Self(m).id] = With(@, "logs", Append(Logs(m, Self(m)), v))])
<1>. DEFINE c == m.ctx
            id == Self(m).id
            logs == Append(Logs(m, Self(m)), v)
            receipt == With(c.receipts[id], "logs", logs)
            d == [c EXCEPT !.lastLog = v]
            e == [c EXCEPT !.lastLog = v, !.receipts[id] = receipt]
<1>1. CtxSound(m.heap, c)
  BY DEF Sound
<1>2. /\ d.lastLog = v /\ DOMAIN d = DOMAIN c /\ d.receipts = c.receipts
      /\ d.apps = c.apps /\ d.accounts = c.accounts /\ d.zero = c.zero
      /\ d.shared = c.shared /\ d.self = c.self /\ d.group = c.group /\ d.building = c.building
  BY <1>1 DEF CtxSound
<1>3. /\ e.lastLog = v /\ DOMAIN e = DOMAIN c /\ e.receipts = [c.receipts EXCEPT ![id] = receipt]
      /\ e.apps = c.apps /\ e.accounts = c.accounts /\ e.zero = c.zero
      /\ e.shared = c.shared /\ e.self = c.self /\ e.group = c.group /\ e.building = c.building
  BY <1>1 DEF CtxSound
<1>4. AllOnHeap(m.heap, logs)
  <2>1. AllOnHeap(m.heap, Logs(m, Self(m)))
    BY CtxOnHeap
  <2>2. IsSequence(Logs(m, Self(m)))
    BY <2>1 DEF AllOnHeap
  <2>3. /\ IsSequence(logs) /\ Len(logs) = Len(Logs(m, Self(m))) + 1
        /\ \A k \in DOMAIN Logs(m, Self(m)) : logs[k] = Logs(m, Self(m))[k]
        /\ logs[Len(Logs(m, Self(m))) + 1] = v
    BY <2>2, AppendSequence
  <2>4. /\ DOMAIN logs = 1..Len(logs) /\ Len(Logs(m, Self(m))) \in Nat
        /\ DOMAIN Logs(m, Self(m)) = 1..Len(Logs(m, Self(m)))
    BY <2>2, <2>3, SequenceDomain
  <2>. HIDE DEF logs
  <2>5. \A k \in DOMAIN logs :
          k \in DOMAIN Logs(m, Self(m)) \/ k = Len(Logs(m, Self(m))) + 1
    BY <2>3, <2>4
  <2>. QED  BY <2>1, <2>3, <2>5 DEF AllOnHeap
<1>5. Get(receipt, "logs", <<>>) = logs
  BY DEF With, Get
<1>. HIDE DEF d, e, receipt, logs
<1>6. \A k \in DOMAIN e.receipts : AllOnHeap(m.heap, Get(e.receipts[k], "logs", <<>>))
  BY <1>1, <1>3, <1>4, <1>5 DEF CtxSound
<1>7. CtxSound(m.heap, d) /\ CtxSound(m.heap, e)
  BY <1>1, <1>2, <1>3, <1>6 DEF CtxSound
<1>8. OwnOnly(m, c, d) /\ OwnOnly(m, c, e)
  BY <1>2, <1>3 DEF OwnOnly
<1>9. Follows(m, d) /\ Follows(m, e)
  BY <1>2, <1>3, <1>7, <1>8 DEF Follows
<1>. QED  BY <1>9 DEF d, e, receipt, logs

\* What the getters find is on the heap.
LEMMA ValueOnHeap ==
  ASSUME NEW h, NEW kv, \A key \in DOMAIN kv : OnHeap(h, kv[key]), NEW key
  PROVE  AllOnHeap(h, Value(kv, key)) /\ \A x : AllOnHeap(h, Value(kv, key) \o <<Bool(x)>>)
<1>1. AllOnHeap(h, Value(kv, key))
  BY PlainOnHeap, OneOnHeap DEF Value, Found
<1>2. \A x : AllOnHeap(h, <<Bool(x)>>)
  BY PlainOnHeap, OneOnHeap
<1>. QED  BY <1>1, <1>2, ConcatOnHeap

\* An address that is known is one of the accounts.
LEMMA KnownAccount ==
  \A m, at : Known(m, at) => Only(at) \in at /\ Only(at) \in DOMAIN m.ctx.accounts
BY DEF Known, Only

\* The opcodes that read accounts, assets and applications.
LEMMA LedgerReads ==
  ASSUME NEW m, Sound(m), NEW v, NEW i
  PROVE  /\ Computes(m, Balance(m, v, i)) /\ Computes(m, GetAssetHolding(m, v, i))
         /\ Computes(m, GetAssetDef(m, v, i)) /\ Computes(m, AppParamsGet(m, i))
         /\ Computes(m, AppOptedIn(m, v))
<1>1. Computes(m, Fail(m)) /\ \A n \in Nat : Computes(m, Missing(m, n))
  BY FailComputes, NumbersComputed DEF Missing
<1>2. \A x : Computes(m, When(x, m, 1, <<Uint(0)>>))
  BY NumbersComputed
<1>3. Computes(m, Balance(m, v, i))
  BY NumbersComputed DEF Balance
<1>4. \A c, x : Computes(m, When(c, m, 2, <<Uint(x), Uint(1)>>))
  BY PlainOnHeap, TwoOnHeap, WhenComputes
<1>5. Computes(m, GetAssetHolding(m, v, i))
  BY <1>1, <1>4 DEF GetAssetHolding
<1>6. \A bytes : Computes(m, Put([m EXCEPT !.heap = Append(@, bytes)], 1,
                                 <<Ref(Len(m.heap) + 1), Uint(1)>>))
  BY PlainOnHeap, ArrayAndValue
<1>7. \A x : Computes(m, Put(m, 1, <<Uint(x), Uint(1)>>))
  BY NumbersComputed
<1>8. Computes(m, GetAssetDef(m, v, i)) /\ Computes(m, AppParamsGet(m, i))
  BY <1>1, <1>6, <1>7 DEF GetAssetDef, AppParamsGet
<1>9. \A x : Computes(m, Put(m, 2, <<Bool(x)>>))
  BY PlainOnHeap, OneOnHeap, PutComputes
<1>10. Computes(m, AppOptedIn(m, v))
  BY <1>1, <1>9 DEF AppOptedIn
<1>. QED  BY <1>3, <1>5, <1>8, <1>10

\* The opcodes that read the state of applications.
LEMMA StateReads ==
  ASSUME NEW m, Sound(m), NEW v
  PROVE  /\ Computes(m, AppLocalGet(m, v)) /\ Computes(m, AppLocalGetEx(m, v))
         /\ Computes(m, AppGlobalGet(m)) /\ Computes(m, AppGlobalGetEx(m, v))
<1>1. CtxSound(m.heap, m.ctx)
  BY DEF Sound
<1>2. ASSUME NEW at, Known(m, at), NEW n
      PROVE  \A key \in DOMAIN LocalState(m, Only(at), n) :
               OnHeap(m.heap, LocalState(m, Only(at), n)[key])
  <2>1. Only(at) \in DOMAIN m.ctx.accounts
    BY <1>2, KnownAccount
  <2>. QED  BY <1>1, <2>1, EmptySequence DEF LocalState, CtxSound, LocalSound, StateSound
<1>3. \A n \in DOMAIN m.ctx.apps : \A key \in DOMAIN m.ctx.apps[n].kv :
        OnHeap(m.heap, m.ctx.apps[n].kv[key])
  BY <1>1 DEF CtxSound, AppSound, StateSound
<1>4. ASSUME NEW at, Known(m, at), NEW n, NEW key
      PROVE  /\ AllOnHeap(m.heap, Value(LocalState(m, Only(at), n), key))
             /\ \A x : AllOnHeap(m.heap, Value(LocalState(m, Only(at), n), key) \o <<Bool(x)>>)
  BY <1>2, <1>4, ValueOnHeap
<1>5. ASSUME NEW n \in DOMAIN m.ctx.apps, NEW key
      PROVE  /\ AllOnHeap(m.heap, Value(m.ctx.apps[n].kv, key))
             /\ \A x : AllOnHeap(m.heap, Value(m.ctx.apps[n].kv, key) \o <<Bool(x)>>)
  BY <1>3, ValueOnHeap
<1>6. Computes(m, AppLocalGet(m, v)) /\ Computes(m, AppLocalGetEx(m, v))
  BY <1>4, WhenComputes DEF AppLocalGet, AppLocalGetEx
<1>7. Computes(m, AppGlobalGet(m))
  BY <1>5, WhenComputes DEF AppGlobalGet
<1>8. \A app : app # {} /\ app \subseteq DOMAIN m.ctx.apps => Only(app) \in DOMAIN m.ctx.apps
  BY DEF Only
<1>9. Computes(m, AppGlobalGetEx(m, v))
  BY <1>5, <1>8, WhenComputes DEF AppGlobalGetEx
<1>. QED  BY <1>6, <1>7, <1>9

\* The opcodes that write the state of the application.
LEMMA StateWrites ==
  ASSUME NEW m, Sound(m), NEW v
  PROVE  /\ Manages(m, AppLocalPut(m, v)) /\ Manages(m, AppLocalDel(m, v))
         /\ Manages(m, AppGlobalPut(m)) /\ Manages(m, AppGlobalDel(m))
<1>1. Manages(m, Fail(m)) /\ \A n \in Nat : Manages(m, Put(m, n, <<>>))
  BY FailComputes, NumbersComputed, ComputesManages
<1>2. ASSUME NEW d, Follows(m, d)
      PROVE  \A n \in Nat : Manages(m, Put([m EXCEPT !.ctx = d], n, <<>>))
  BY <1>2, CtxManages, NumbersComputed
<1>3. /\ \A n \in DOMAIN m.ctx.apps : AppSound(m.heap, m.ctx.apps[n])
      /\ \A a \in DOMAIN m.ctx.accounts : \A n \in DOMAIN m.ctx.accounts[a].local :
           LocalSound(m.heap, m.ctx.accounts[a].local[n])
  BY DEF Sound, CtxSound
<1>4. BytesAt(m, 1) => OnHeap(m.heap, Top(m, 0))
  <2>1. BytesAt(m, 1) => Holds(m, 2)
    BY DEF BytesAt
  <2>. QED  BY <2>1, TopsOnHeap
<1>5. \A kv, uints, slices :
        ValidSchema(m, kv, uints, slices) = ValidSchema([heap |-> m.heap], kv, uints, slices)
  BY DEF ValidSchema
<1>6. Manages(m, AppLocalPut(m, v))
  <2>. DEFINE at == AccountAt(m, v, 2, FALSE)
              a == Only(at)
              local == m.ctx.accounts[a].local
              state == local[AppID(m)]
              kv == With(state.kv, B(m, 1), Top(m, 0))
              fits == BytesAt(m, 1) /\ Known(m, at) /\ AppID(m) \in DOMAIN local
                        /\ ValidSchema(m, kv, state.uints, state.slices)
  <2>1. CASE fits
    <3>1. a \in DOMAIN m.ctx.accounts /\ OnHeap(m.heap, Top(m, 0))
      BY <1>4, <2>1, KnownAccount
    <3>2. StateSound(m.heap, state.kv, state.uints, state.slices)
      BY <1>3, <2>1, <3>1 DEF LocalSound
    <3>3. StateSound(m.heap, kv, state.uints, state.slices)
      BY <1>5, <2>1, <3>1, <3>2, WithSound
    <3>4. AppID(m) \in DOMAIN local
      BY <2>1
    <3>. HIDE DEF kv, a
    <3>5. Follows(m, [m.ctx EXCEPT !.accounts[a].local[AppID(m)].kv = kv])
      BY <3>1, <3>3, <3>4, LocalFollows
    <3>6. Manages(m, Put([m EXCEPT !.ctx.accounts[a].local[AppID(m)].kv = kv], 3, <<>>))
      BY <1>2, <3>5
    <3>7. AppLocalPut(m, v) = Put([m EXCEPT !.ctx.accounts[a].local[AppID(m)].kv = kv], 3, <<>>)
      BY <2>1 DEF AppLocalPut, kv, a
    <3>. QED  BY <3>6, <3>7
  <2>2. CASE ~fits
    <3>1. AppLocalPut(m, v) = Fail(m)
      BY <2>2 DEF AppLocalPut
    <3>. QED  BY <1>1, <3>1
  <2>. QED  BY <2>1, <2>2
<1>7. Manages(m, AppLocalDel(m, v))
  <2>. DEFINE at == AccountAt(m, v, 1, TRUE)
              a == Only(at)
              n == AppID(m)
              kv == Without(m.ctx.accounts[a].local[n].kv, B(m, 0))
  <2>1. CASE Known(m, at) /\ n \in DOMAIN m.ctx.accounts[a].local
    <3>1. a \in DOMAIN m.ctx.accounts
      BY <2>1, KnownAccount
    <3>2. LocalSound(m.heap, m.ctx.accounts[a].local[n])
      BY <1>3, <2>1, <3>1
    <3>3. StateSound(m.heap, kv, m.ctx.accounts[a].local[n].uints,
                     m.ctx.accounts[a].local[n].slices)
      BY <3>2, WithoutSound DEF LocalSound
    <3>4. [m EXCEPT !.ctx.accounts[a].local[n].kv = Without(@, B(m, 0))]
          = [m EXCEPT !.ctx.accounts[a].local[n].kv = kv]
      OBVIOUS
    <3>5. n = AppID(m) /\ n \in DOMAIN m.ctx.accounts[a].local
      BY <2>1
    <3>. HIDE DEF kv, a, n
    <3>6. Follows(m, [m.ctx EXCEPT !.accounts[a].local[n].kv = kv])
      BY <3>1, <3>3, <3>5, LocalFollows
    <3>7. Manages(m, Put([m EXCEPT !.ctx.accounts[a].local[n].kv = kv], 2, <<>>))
      BY <1>2, <3>6
    <3>8. Manages(m, Put([m EXCEPT !.ctx.accounts[a].local[n].kv = Without(@, B(m, 0))], 2, <<>>))
      BY <3>4, <3>7
    <3>. QED  BY <1>1, <3>8 DEF AppLocalDel, a, n
  <2>2. CASE ~(Known(m, at) /\ n \in DOMAIN m.ctx.accounts[a].local)
    BY <1>1, <2>2 DEF AppLocalDel
  <2>. QED  BY <2>1, <2>2
<1>8. ASSUME NEW n, n = AppID(m), n \in DOMAIN m.ctx.apps, NEW kv, NEW k \in Nat,
             StateSound(m.heap, kv, m.ctx.apps[n].schema["AppGlobalNumUint"],
                        m.ctx.apps[n].schema["AppGlobalNumByteSlice"])
      PROVE  Manages(m, Put([m EXCEPT !.ctx.apps[n].kv = kv], k, <<>>))
  <2>1. Follows(m, [m.ctx EXCEPT !.apps[n].kv = kv])
    BY <1>8, AppFollows
  <2>. QED  BY <1>2, <2>1
<1>9. Manages(m, AppGlobalPut(m))
  <2>. DEFINE n == AppID(m)
              app == m.ctx.apps[n]
              kv == With(app.kv, B(m, 1), Top(m, 0))
              fits == BytesAt(m, 1) /\ n \in DOMAIN m.ctx.apps
                        /\ ValidSchema(m, kv, app.schema["AppGlobalNumUint"],
                                       app.schema["AppGlobalNumByteSlice"])
  <2>1. CASE fits
    <3>1. StateSound(m.heap, app.kv, app.schema["AppGlobalNumUint"],
                     app.schema["AppGlobalNumByteSlice"])
      BY <1>3, <2>1 DEF AppSound
    <3>2. StateSound(m.heap, kv, app.schema["AppGlobalNumUint"],
                     app.schema["AppGlobalNumByteSlice"])
      BY <1>4, <1>5, <2>1, <3>1, WithSound
    <3>3. n = AppID(m) /\ n \in DOMAIN m.ctx.apps
      BY <2>1
    <3>4. Manages(m, Put([m EXCEPT !.ctx.apps[n].kv = kv], 2, <<>>))
      BY <1>8, <3>2, <3>3
    <3>. QED  BY <2>1, <3>4 DEF AppGlobalPut
  <2>2. CASE ~fits
    BY <1>1, <2>2 DEF AppGlobalPut
  <2>. QED  BY <2>1, <2>2
<1>10. Manages(m, AppGlobalDel(m))
  <2>. DEFINE n == AppID(m)
              app == m.ctx.apps[n]
              kv == Without(app.kv, B(m, 0))
  <2>1. CASE n \in DOMAIN m.ctx.apps
    <3>1. StateSound(m.heap, kv, app.schema["AppGlobalNumUint"],
                     app.schema["AppGlobalNumByteSlice"])
      BY <1>3, <2>1, WithoutSound DEF AppSound
    <3>2. [m EXCEPT !.ctx.apps[n].kv = Without(@, B(m, 0))] = [m EXCEPT !.ctx.apps[n].kv = kv]
      OBVIOUS
    <3>3. n = AppID(m) /\ n \in DOMAIN m.ctx.apps
      BY <2>1
    <3>4. Manages(m, Put([m EXCEPT !.ctx.apps[n].kv = kv], 1, <<>>))
      BY <1>8, <3>1, <3>3
    <3>5. Manages(m, Put([m EXCEPT !.ctx.apps[n].kv = Without(@, B(m, 0))], 1, <<>>))
      BY <3>2, <3>4
    <3>. QED  BY <1>1, <3>5 DEF AppGlobalDel
  <2>2. CASE n \notin DOMAIN m.ctx.apps
    BY <1>1, <2>2 DEF AppGlobalDel
  <2>. QED  BY <2>1, <2>2
<1>. QED  BY <1>6, <1>7, <1>9, <1>10

\* acct_params_get, which makes accounts known.
LEMMA AcctParamsManages ==
  ASSUME NEW m, Sound(m), NEW v, NEW i,
         i.field \in {"AcctBalance", "AcctMinBalance", "AcctAuthAddr"}
  PROVE  Manages(m, AcctParamsGet(m, v, i))
<1>1. ASSUME NEW a
      PROVE  Sound(WithAccount(m, a)) /\ \A r : Computes(WithAccount(m, a), r) => Manages(m, r)
  <2>1. CASE a \in DOMAIN m.ctx.accounts
    BY <2>1, ComputesManages DEF WithAccount
  <2>2. CASE a \notin DOMAIN m.ctx.accounts
    <3>. DEFINE d == [m.ctx EXCEPT !.accounts = [b \in DOMAIN @ \cup {a} |->
                                                  IF b = a THEN NewAccount(a) ELSE @[b]]]
    <3>1. Follows(m, d)
      BY <2>2, AccountFollows
    <3>2. WithAccount(m, a) = [m EXCEPT !.ctx = d]
      BY <2>2 DEF WithAccount
    <3>. HIDE DEF d
    <3>. QED  BY <3>1, <3>2, CtxManages
  <2>. QED  BY <2>1, <2>2
<1>2. ASSUME NEW n, Sound(n), NEW x, NEW y, NEW bytes
      PROVE  /\ Computes(n, Put(n, 1, <<Uint(x), Bool(y)>>))
             /\ Computes(n, Put(n, 1, <<n.ctx.zero, Bool(y)>>))
             /\ Computes(n, Put([n EXCEPT !.heap = Append(@, bytes)], 1,
                                <<Ref(Len(n.heap) + 1), Bool(y)>>))
  <2>1. OnHeap(n.heap, n.ctx.zero)
    BY <1>2 DEF Sound, CtxSound
  <2>2. /\ AllOnHeap(n.heap, <<Uint(x), Bool(y)>>) /\ AllOnHeap(n.heap, <<n.ctx.zero, Bool(y)>>)
    BY <2>1, PlainOnHeap, TwoOnHeap
  <2>. QED  BY <1>2, <2>2, PlainOnHeap, PutComputes, ArrayAndValue
<1>3. Manages(m, Fail(m))
  BY FailComputes, ComputesManages
<1>4. CASE (IF BytesAt(m, 0) THEN ByAddress(m, v, B(m, 0), TRUE) ELSE {}) = {}
  BY <1>3, <1>4 DEF AcctParamsGet
<1>5. CASE (IF BytesAt(m, 0) THEN ByAddress(m, v, B(m, 0), TRUE) ELSE {}) # {}
  <2>1. PICK at : at = IF BytesAt(m, 0) THEN ByAddress(m, v, B(m, 0), TRUE) ELSE {}
    OBVIOUS
  <2>2. PICK n : n = WithAccount(m, Only(at)) /\ Sound(n) /\ \A r : Computes(n, r) => Manages(m, r)
    BY <1>1
  <2>3. PICK account : account = n.ctx.accounts[Only(at)]
    OBVIOUS
  <2>4. CASE i.field = "AcctBalance"
    <3>1. AcctParamsGet(m, v, i) = Put(n, 1, <<Uint(account.balance), Bool(account.balance > 0)>>)
      BY <1>5, <2>1, <2>2, <2>3, <2>4 DEF AcctParamsGet
    <3>. QED  BY <1>2, <2>2, <3>1
  <2>5. CASE i.field = "AcctMinBalance"
    <3>1. AcctParamsGet(m, v, i) = Put(n, 1, <<Uint(account.min), Bool(account.balance > 0)>>)
      BY <1>5, <2>1, <2>2, <2>3, <2>5 DEF AcctParamsGet
    <3>. QED  BY <1>2, <2>2, <3>1
  <2>6. CASE i.field = "AcctAuthAddr"
    <3>1. AcctParamsGet(m, v, i) =
            IF account.auth = Only(at) THEN Put(n, 1, <<n.ctx.zero, Bool(account.balance > 0)>>)
            ELSE Put([n EXCEPT !.heap = Append(@, account.auth)], 1,
                     <<Ref(Len(n.heap) + 1), Bool(account.balance > 0)>>)
      BY <1>5, <2>1, <2>2, <2>3, <2>6 DEF AcctParamsGet
    <3>. QED  BY <1>2, <2>2, <3>1
  <2>. QED  BY <2>4, <2>5, <2>6
<1>. QED  BY <1>4, <1>5

\* log.
LEMMA LogManages ==
  ASSUME NEW m, Sound(m)
  PROVE  Manages(m, Log(m))
<1>1. Manages(m, Fail(m))
  BY FailComputes, ComputesManages
<1>2. ASSUME NEW d, Follows(m, d)
      PROVE  Manages(m, Put([m EXCEPT !.ctx = d], 1, <<>>))
  BY <1>2, CtxManages, NumbersComputed
<1>3. CASE BytesAt(m, 0)
  <2>. DEFINE d == [m.ctx EXCEPT !.lastLog = Top(m, 0)]
              e == [m.ctx EXCEPT !.lastLog = Top(m, 0),
                      !.receipts[Self(m).id] =
                         With(@, "logs", Append(Logs(m, Self(m)), Top(m, 0)))]
              n == [m EXCEPT !.ctx.lastLog = Top(m, 0)]
              k == [n EXCEPT !.ctx.receipts[Self(m).id] =
                         With(@, "logs", Append(Logs(m, Self(m)), Top(m, 0)))]
  <2>1. OnHeap(m.heap, Top(m, 0))
    BY <1>3, TopOnHeap DEF BytesAt
  <2>2. Follows(m, d) /\ Follows(m, e)
    BY <2>1, LogFollows
  <2>3. n = [m EXCEPT !.ctx = d] /\ k = [m EXCEPT !.ctx = e]
    OBVIOUS
  <2>. HIDE DEF d, e
  <2>4. Manages(m, Put(n, 1, <<>>)) /\ Manages(m, Put(k, 1, <<>>))
    BY <1>2, <2>2, <2>3
  <2>. QED  BY <1>1, <2>4 DEF Log
<1>4. CASE ~BytesAt(m, 0)
  BY <1>1, <1>4 DEF Log
<1>. QED  BY <1>3, <1>4

\* The opcodes that read and write the ledger.
LEMMA LedgerManages ==
  ASSUME NEW m, Sound(m), NEW v, NEW i, i.op \in LedgerOps,
         i.op = "acct_params_get" => i.field \in {"AcctBalance", "AcctMinBalance", "AcctAuthAddr"}
  PROVE  Manages(m, UseLedger(m, v, i))
<1>1. /\ Manages(m, Balance(m, v, i)) /\ Manages(m, GetAssetHolding(m, v, i))
      /\ Manages(m, GetAssetDef(m, v, i)) /\ Manages(m, AppParamsGet(m, i))
      /\ Manages(m, AppOptedIn(m, v))
  BY LedgerReads, ComputesManages
<1>2. /\ Manages(m, AppLocalGet(m, v)) /\ Manages(m, AppLocalGetEx(m, v))
      /\ Manages(m, AppGlobalGet(m)) /\ Manages(m, AppGlobalGetEx(m, v))
  BY StateReads, ComputesManages
<1>3. /\ Manages(m, AppLocalPut(m, v)) /\ Manages(m, AppLocalDel(m, v))
      /\ Manages(m, AppGlobalPut(m)) /\ Manages(m, AppGlobalDel(m))
  BY StateWrites
<1>4. Manages(m, Log(m))
  BY LogManages
<1>. QED  BY <1>1, <1>2, <1>3, <1>4, AcctParamsManages DEF UseLedger, LedgerOps

-----------------------------------------------------------------------------
(* Inner transactions                                                      *)

\* The transactions that are built name no account and no asset but those of the
\* transaction of m.
TxWithin(m, v, tx) ==
  /\ "f" \in DOMAIN tx
  /\ \A x \in DOMAIN tx.f \cap AccountFields(v) : tx.f[x] \in Named(m, v, TRUE)
  /\ \A x \in DOMAIN tx.f \cap AssetFields : tx.f[x] \in Elements(ForeignAssets(m))

BuildsSound(m, v) ==
  IsSequence(m.ctx.building) /\ \A k \in DOMAIN m.ctx.building : TxWithin(m, v, m.ctx.building[k])

\* r is what an instruction makes of m that builds transactions.
Builds(m, v, r) ==
  /\ Sound(r) /\ Longer(m.heap, r.heap) /\ SameCode(m, r)
  /\ OwnOnly(m, m.ctx, r.ctx)
  /\ r.ctx.self = m.ctx.self /\ r.ctx.group = m.ctx.group
  /\ BuildsSound(m, v) => BuildsSound(r, v)

\* Whom the transaction names.
LEMMA NamesStay ==
  ASSUME NEW m, NEW r, r.ctx.self = m.ctx.self, r.ctx.group = m.ctx.group
  PROVE  \A v, tx : TxWithin(m, v, tx) = TxWithin(r, v, tx)
BY DEF TxWithin, Named, Accounts, ForeignApps, ForeignAssets, AppID, Self

\* The transactions are those of the context.
LEMMA BuildsOfCtx ==
  ASSUME NEW m, NEW v, NEW r, r.ctx = m.ctx
  PROVE  BuildsSound(m, v) = BuildsSound(r, v)
<1>1. \A tx : TxWithin(m, v, tx) = TxWithin(r, v, tx)
  BY NamesStay
<1>. QED  BY <1>1 DEF BuildsSound

\* What leaves the transactions alone.
LEMMA ManagesBuilds == \A m, v, r : Manages(m, r) => Builds(m, v, r)
BY NamesStay DEF Manages, Builds, BuildsSound

\* Other transactions, and then a computation.
LEMMA BuildingBuilds ==
  ASSUME NEW m, Sound(m), NEW v, NEW b,
         BuildsSound(m, v) => IsSequence(b) /\ \A k \in DOMAIN b : TxWithin(m, v, b[k])
  PROVE  LET n == [m EXCEPT !.ctx.building = b]
         IN  /\ Sound(n) /\ n.heap = m.heap /\ n.stack = m.stack
             /\ \A r : Computes(n, r) => Builds(m, v, r)
<1>. DEFINE n == [m EXCEPT !.ctx.building = b]
<1>1. CtxSound(m.heap, m.ctx) /\ DOMAIN m = Fields
  BY DEF Sound
<1>2. /\ DOMAIN n = Fields /\ n.heap = m.heap /\ n.stack = m.stack
      /\ n.args = m.args /\ n.bytecs = m.bytecs /\ n.scratch = m.scratch
      /\ n.code = m.code /\ n.pc = m.pc /\ n.calls = m.calls
      /\ n.ctx = [m.ctx EXCEPT !.building = b]
  BY <1>1 DEF Fields
<1>. HIDE DEF n
<1>3. /\ DOMAIN n.ctx = DOMAIN m.ctx /\ n.ctx.building = b
      /\ n.ctx.self = m.ctx.self /\ n.ctx.group = m.ctx.group /\ n.ctx.apps = m.ctx.apps
      /\ n.ctx.accounts = m.ctx.accounts /\ n.ctx.receipts = m.ctx.receipts
      /\ n.ctx.zero = m.ctx.zero /\ n.ctx.lastLog = m.ctx.lastLog /\ n.ctx.shared = m.ctx.shared
  BY <1>1, <1>2 DEF CtxSound
<1>4. CtxSound(n.heap, n.ctx)
  BY <1>1, <1>2, <1>3 DEF CtxSound
<1>5. Sound(n)
  BY <1>2, <1>4 DEF Sound
<1>6. OwnOnly(m, m.ctx, n.ctx)
  BY <1>3 DEF OwnOnly
<1>7. ASSUME NEW r, Computes(n, r) PROVE Builds(m, v, r)
  <2>1. r.ctx = n.ctx /\ Sound(r) /\ Longer(m.heap, r.heap) /\ SameCode(m, r)
    BY <1>2, <1>7 DEF Computes, SameCode
  <2>2. r.ctx.self = m.ctx.self /\ r.ctx.group = m.ctx.group /\ r.ctx.building = b
    BY <1>3, <2>1
  <2>3. \A tx : TxWithin(m, v, tx) = TxWithin(r, v, tx)
    BY <2>2, NamesStay
  <2>4. BuildsSound(m, v) => BuildsSound(r, v)
    BY <2>2, <2>3 DEF BuildsSound
  <2>. QED  BY <1>6, <2>1, <2>2, <2>4 DEF Builds
<1>. QED  BY <1>2, <1>5, <1>7 DEF n

\* itxn_begin and itxn_next.
LEMMA AddBuilds ==
  ASSUME NEW m, Sound(m), NEW v
  PROVE  Builds(m, v, ITxnBegin(m)) /\ Builds(m, v, ITxnNext(m))
<1>1. Builds(m, v, Fail(m))
  BY FailComputes, ComputesManages, ManagesBuilds
<1>2. TxWithin(m, v, NewInner(m))
  BY DEF TxWithin, NewInner, Named, AccountFields, AssetFields
<1>. DEFINE b == Append(m.ctx.building, NewInner(m))
            n == [m EXCEPT !.ctx.building = b]
<1>3. ASSUME BuildsSound(m, v) PROVE IsSequence(b) /\ \A k \in DOMAIN b : TxWithin(m, v, b[k])
  <2>. DEFINE s == m.ctx.building
  <2>1. IsSequence(s)
    BY <1>3 DEF BuildsSound
  <2>2. /\ IsSequence(b) /\ Len(b) = Len(s) + 1 /\ \A k \in DOMAIN s : b[k] = s[k]
        /\ b[Len(s) + 1] = NewInner(m)
    BY <2>1, AppendSequence
  <2>3. DOMAIN b = 1..Len(b) /\ DOMAIN s = 1..Len(s) /\ Len(s) \in Nat
    BY <2>1, <2>2, SequenceDomain
  <2>4. \A k \in DOMAIN s : TxWithin(m, v, s[k])
    BY <1>3 DEF BuildsSound
  <2>. HIDE DEF b, s
  <2>5. \A k \in DOMAIN b : k \in DOMAIN s \/ k = Len(s) + 1
    BY <2>2, <2>3
  <2>. QED  BY <1>2, <2>2, <2>4, <2>5
<1>4. Sound(n) /\ \A r : Computes(n, r) => Builds(m, v, r)
  <2>. HIDE DEF b
  <2>. QED  BY <1>3, BuildingBuilds
<1>5. Computes(n, n)
  <2>. HIDE DEF n
  <2>. QED  BY <1>4 DEF Computes, Longer, SameCode
<1>6. AddInner(m) = n
  BY DEF AddInner
<1>. QED  BY <1>1, <1>4, <1>5, <1>6 DEF ITxnBegin, ITxnNext

\* The groups of fields have nothing in common.
LEMMA FieldsApart ==
  ASSUME NEW v, NEW field
  PROVE  /\ field \in AccountFields(v) =>
              field \notin IntegerFields(v) \cup AssetFields \cup TextFields \cup BytesFields(v)
                             \cup RoleFields \cup PageFields
         /\ field \in AssetFields =>
              field \notin IntegerFields(v) \cup TextFields \cup BytesFields(v) \cup RoleFields
                             \cup PageFields \cup AccountFields(v)
         /\ \A x \in {"ApplicationArgs", "ApprovalProgram", "ClearStateProgram"} :
              x \notin AccountFields(v) \cup AssetFields
BY DEF AccountFields, IntegerFields, AssetFields, TextFields, BytesFields, RoleFields, PageFields,
       ProgramFields

\* What a field is set to is within reach.
LEMMA FieldWithin ==
  ASSUME NEW m, NEW v \in Nat, v >= 4, NEW field
  PROVE  /\ field \in AccountFields(v) => FieldValue(m, v, field) \subseteq Named(m, v, TRUE)
         /\ field \in AssetFields => FieldValue(m, v, field) \subseteq Elements(ForeignAssets(m))
<1>1. BytesAt(m, 0) => ~UintAt(m, 0)
  BY DEF BytesAt, UintAt, IsBytes, IsUint
<1>2. \A bytes : ByAddress(m, v, bytes, TRUE) \subseteq Named(m, v, TRUE)
  BY DEF ByAddress
<1>3. BytesAt(m, 0) => AccountAt(m, v, 0, TRUE) \subseteq Named(m, v, TRUE)
  BY <1>1, <1>2 DEF AccountAt
<1>4. ASSUME field \in AccountFields(v)
      PROVE  FieldValue(m, v, field) \subseteq Named(m, v, TRUE)
  <2>1. field \notin IntegerFields(v) \cup AssetFields \cup TextFields \cup BytesFields(v)
                     \cup RoleFields
    BY <1>4, FieldsApart
  <2>2. FieldValue(m, v, field) =
          IF BytesAt(m, 0) THEN AccountAt(m, v, 0, TRUE) \cap DOMAIN m.ctx.accounts ELSE {}
    BY <1>4, <2>1 DEF FieldValue
  <2>. QED  BY <1>3, <2>2
<1>5. \A n : AssetByReference(m, v, n, FALSE) \subseteq Elements(ForeignAssets(m))
  BY DEF AssetByReference, Elements
<1>6. ASSUME field \in AssetFields
      PROVE  FieldValue(m, v, field) \subseteq Elements(ForeignAssets(m))
  <2>1. field \notin IntegerFields(v) \cup TextFields \cup BytesFields(v) \cup RoleFields
                     \cup AccountFields(v)
    BY <1>6, FieldsApart
  <2>2. FieldValue(m, v, field) =
          IF UintAt(m, 0) THEN AssetByReference(m, v, U(m, 0), FALSE) ELSE {}
    BY <1>6, <2>1 DEF FieldValue
  <2>. QED  BY <1>5, <2>2
<1>. QED  BY <1>4, <1>6

\* A transaction with a field set is within reach, if the value is.
LEMMA WithFieldWithin ==
  ASSUME NEW m, NEW v, NEW tx, TxWithin(m, v, tx), NEW field, NEW x,
         field \in AccountFields(v) => x \in Named(m, v, TRUE),
         field \in AssetFields => x \in Elements(ForeignAssets(m))
  PROVE  TxWithin(m, v, WithField(tx, field, x))
<1>1. ASSUME NEW y, NEW value,
             y \in AccountFields(v) => value \in Named(m, v, TRUE),
             y \in AssetFields => value \in Elements(ForeignAssets(m))
      PROVE  TxWithin(m, v, [tx EXCEPT !.f = With(@, y, value)])
  BY <1>1 DEF TxWithin, With
<1>2. \A t : TxWithin(m, v, [tx EXCEPT !.type = t])
  BY DEF TxWithin
<1>3. CASE field \in {"Type", "TypeEnum"}
  <2>1. CASE field = "Type"
    <3>1. WithField(tx, field, x) = [tx EXCEPT !.type = TypeNames[x]]
      BY <2>1 DEF WithField, PageFields
    <3>. QED  BY <1>2, <3>1
  <2>2. CASE field = "TypeEnum"
    <3>. DEFINE type == CHOOSE t \in DOMAIN TypeEnum : TypeEnum[t] = x
    <3>1. WithField(tx, field, x) = [tx EXCEPT !.type = type]
      BY <2>2 DEF WithField, PageFields
    <3>. HIDE DEF type
    <3>. QED  BY <1>2, <3>1
  <2>. QED  BY <1>3, <2>1, <2>2
<1>4. CASE field = "ApplicationArgs"
  <2>1. "ApplicationArgs" \notin AccountFields(v) \cup AssetFields
    BY FieldsApart
  <2>2. TxWithin(m, v, [tx EXCEPT !.f = With(tx.f, field, Append(Get(tx.f, field, <<>>), x))])
    BY <1>1, <1>4, <2>1
  <2>3. WithField(tx, field, x) =
          [tx EXCEPT !.f = With(tx.f, field, Append(Get(tx.f, field, <<>>), x))]
    BY <1>4 DEF WithField, PageFields
  <2>. QED  BY <2>2, <2>3
<1>5. CASE field \in PageFields
  <2>1. PagesOf[field] \in {"ApprovalProgram", "ClearStateProgram"}
    BY <1>5 DEF PageFields, PagesOf
  <2>2. PagesOf[field] \notin AccountFields(v) \cup AssetFields
    BY <2>1, FieldsApart
  <2>. DEFINE y == PagesOf[field]
  <2>3. WithField(tx, field, x) = [tx EXCEPT !.f = With(tx.f, y, x)]
    BY <1>5 DEF WithField, PageFields
  <2>. HIDE DEF y
  <2>4. TxWithin(m, v, [tx EXCEPT !.f = With(tx.f, y, x)])
    BY <1>1, <2>2 DEF y
  <2>. QED  BY <2>3, <2>4
<1>6. CASE field \notin {"Type", "TypeEnum", "ApplicationArgs"} \cup PageFields
  <2>1. WithField(tx, field, x) = [tx EXCEPT !.f = With(@, field, x)]
    BY <1>6 DEF WithField
  <2>. QED  BY <1>1, <2>1
<1>. QED  BY <1>3, <1>4, <1>5, <1>6

\* itxn_field.
LEMMA FieldBuilds ==
  ASSUME NEW m, Sound(m), NEW v \in Nat, v >= 4, NEW field
  PROVE  Builds(m, v, ITxnField(m, v, field))
<1>1. Builds(m, v, Fail(m))
  BY FailComputes, ComputesManages, ManagesBuilds
<1>. DEFINE n == Len(m.ctx.building)
            tx == m.ctx.building[n]
            value == FieldValue(m, v, field)
            longer == field \in PageFields /\ Has(tx, PagesOf[field])
            set(y) == [m.ctx.building EXCEPT ![n] = WithField(tx, field, y)]
<1>2. CASE n = 0 \/ value = {} \/ ~FieldFits(m, v, tx, field, Only(value))
  BY <1>1, <1>2 DEF ITxnField
<1>3. CASE ~(n = 0 \/ value = {} \/ ~FieldFits(m, v, tx, field, Only(value)))
  <2>1. Only(value) \in value
    BY <1>3 DEF Only
  <2>2. ASSUME NEW y,
               field \in AccountFields(v) => y \in Named(m, v, TRUE),
               field \in AssetFields => y \in Elements(ForeignAssets(m)),
               BuildsSound(m, v)
        PROVE  IsSequence(set(y)) /\ \A k \in DOMAIN set(y) : TxWithin(m, v, set(y)[k])
    <3>1. IsSequence(m.ctx.building) /\ \A k \in DOMAIN m.ctx.building : TxWithin(m, v, m.ctx.building[k])
      BY <2>2 DEF BuildsSound
    <3>2. IsSequence(set(y)) /\ DOMAIN set(y) = DOMAIN m.ctx.building
      BY <3>1, ExceptSequence
    <3>3. n \in DOMAIN m.ctx.building
      BY <1>3, <3>1, SequenceDomain
    <3>4. TxWithin(m, v, WithField(tx, field, y))
      BY <2>2, <3>1, <3>3, WithFieldWithin
    <3>. QED  BY <3>1, <3>2, <3>4
  <2>3. CASE longer
    <3>. DEFINE bytes == WithPages(m, tx, field)
                h == [m EXCEPT !.heap = Append(@, bytes)]
                b == set(Ref(Len(m.heap) + 1))
                g == [h EXCEPT !.ctx.building = b]
    <3>1. Computes(m, h)
      BY NewArray
    <3>2. field \notin AccountFields(v) /\ field \notin AssetFields
      BY <2>3, FieldsApart
    <3>3. BuildsSound(m, v) => IsSequence(b) /\ \A k \in DOMAIN b : TxWithin(m, v, b[k])
      BY <2>2, <3>2
    <3>4. /\ h.ctx = m.ctx /\ Sound(h) /\ Longer(m.heap, h.heap) /\ SameCode(m, h)
      BY <3>1 DEF Computes
    <3>. HIDE DEF h, b
    <3>5. \A t : TxWithin(m, v, t) = TxWithin(h, v, t)
      BY <3>4, NamesStay
    <3>6. BuildsSound(h, v) = BuildsSound(m, v)
      BY <3>4, <3>5 DEF BuildsSound
    <3>7. Sound(g) /\ \A r : Computes(g, r) => Builds(h, v, r)
      BY <3>3, <3>4, <3>5, <3>6, BuildingBuilds
    <3>8. Builds(h, v, Put(g, 1, <<>>))
      BY <3>7, NumbersComputed
    <3>9. OwnOnly(h, h.ctx, Put(g, 1, <<>>).ctx) => OwnOnly(m, m.ctx, Put(g, 1, <<>>).ctx)
      BY <3>4 DEF OwnOnly, AppID, Self
    <3>10. Builds(m, v, Put(g, 1, <<>>))
      BY <3>4, <3>6, <3>8, <3>9 DEF Builds, Longer, SameCode
    <3>11. g = [m EXCEPT !.heap = Append(@, bytes),
                         !.ctx.building[n] = WithField(tx, field, Ref(Len(m.heap) + 1))]
      BY DEF h, b
    <3>12. ITxnField(m, v, field) = Put(g, 1, <<>>)
      BY <1>3, <2>3, <3>11 DEF ITxnField
    <3>. QED  BY <3>10, <3>12
  <2>4. CASE ~longer
    <3>. DEFINE b == set(Only(value))
                g == [m EXCEPT !.ctx.building = b]
    <3>1. BuildsSound(m, v) => IsSequence(b) /\ \A k \in DOMAIN b : TxWithin(m, v, b[k])
      BY <2>1, <2>2, FieldWithin
    <3>. HIDE DEF b
    <3>2. Sound(g) /\ \A r : Computes(g, r) => Builds(m, v, r)
      BY <3>1, BuildingBuilds
    <3>3. Builds(m, v, Put(g, 1, <<>>))
      BY <3>2, NumbersComputed
    <3>4. g = [m EXCEPT !.ctx.building[n] = WithField(tx, field, Only(value))]
      BY DEF b
    <3>5. ITxnField(m, v, field) = Put(g, 1, <<>>)
      BY <1>3, <2>4, <3>4 DEF ITxnField
    <3>. QED  BY <3>3, <3>5
  <2>. QED  BY <2>3, <2>4
<1>. QED  BY <1>2, <1>3

\* The opcodes that build inner transactions.
LEMMA InnerBuilds ==
  ASSUME NEW m, Sound(m), NEW v \in Nat, v >= 4, NEW i, i.op \in InnerOps
  PROVE  Builds(m, v, BuildInner(m, v, i))
BY AddBuilds, FieldBuilds DEF BuildInner, InnerOps

-----------------------------------------------------------------------------
(* The costs of instructions, added up                                     *)

Plus(c, k, n) == OpCost(c.version, c.code[k]) + n
Any(T) == CHOOSE x \in T : TRUE

Adding == INSTANCE Recursion WITH Op <- Plus, Pick <- Any

-----------------------------------------------------------------------------
(* Jumps                                                                   *)

\* Some positions have a last and a first one.
LEMMA Ends ==
  ASSUME NEW n \in Nat, NEW D \in SUBSET (1..n), D # {}
  PROVE  /\ Max(D) \in D /\ \A j \in D : Max(D) >= j
         /\ Min(D) \in D /\ \A j \in D : Min(D) <= j
<1>1. ASSUME NEW E \in SUBSET (0..n), E # {} PROVE \E i \in E : \A j \in E : i >= j
  <2>1. IsFiniteSet(0..n)
    <3>1. 0 \in Int /\ n \in Int
      OBVIOUS
    <3>. QED  BY <3>1, FS_Interval
  <2>2. IsFiniteSet(E)
    BY <2>1, FS_Subset
  <2>3. \A j \in E : j \in Nat
    OBVIOUS
  <2>. QED  BY <1>1, <2>2, <2>3, Adding!HasLast DEF IsFiniteSet, Adding!IsFiniteSet
<1>2. \E i \in D : \A j \in D : i >= j
  BY <1>1
<1>3. \E i \in D : \A j \in D : i <= j
  <2>. DEFINE E == {n - j : j \in D}
  <2>1. E \in SUBSET (0..n) /\ E # {}
    <3>1. \A j \in D : j \in 1..n
      OBVIOUS
    <3>2. \A j \in 1..n : n - j \in 0..n
      OBVIOUS
    <3>. QED  BY <3>1, <3>2
  <2>. HIDE DEF E
  <2>2. PICK e \in E : \A x \in E : e >= x
    BY <1>1, <2>1
  <2>3. PICK i \in D : e = n - i
    BY DEF E
  <2>4. ASSUME NEW j \in D PROVE i <= j
    <3>1. e >= n - j
      BY <2>2 DEF E
    <3>. QED  BY <2>3, <3>1
  <2>. QED  BY <2>4
<1>. QED  BY <1>2, <1>3 DEF Max, Min

\* The last of the labels that follow one another.
LEMMA LastLabelLands ==
  ASSUME NEW code, IsSequence(code), NEW k \in DOMAIN code, IsLabel(code, k)
  PROVE  LET last == LastLabel(code, k)
         IN  /\ last \in DOMAIN code /\ last >= k
             /\ \A i \in k..last : IsLabel(code, i)
             /\ last + 1 \in DOMAIN code => ~IsLabel(code, last + 1)
<1>1. Len(code) \in Nat /\ DOMAIN code = 1..Len(code)
  BY SequenceDomain
<1>. DEFINE S == {j \in k..Len(code) : \A i \in k..j : IsLabel(code, i)}
            last == LastLabel(code, k)
<1>2. last = Max(S)
  BY DEF LastLabel
<1>3. S \in SUBSET (1..Len(code))
  BY <1>1
<1>4. k \in S
  BY <1>1
<1>. HIDE DEF last
<1>5. last \in S /\ \A j \in S : last >= j
  <2>. HIDE DEF S
  <2>. QED  BY <1>1, <1>2, <1>3, <1>4, Ends
<1>6. ASSUME last + 1 \in DOMAIN code, IsLabel(code, last + 1) PROVE FALSE
  <2>1. last \in k..Len(code) /\ \A i \in k..last : IsLabel(code, i)
    BY <1>5
  <2>2. \A i \in k..(last + 1) : i \in k..last \/ i = last + 1
    BY <1>1, <2>1
  <2>3. last + 1 \in k..Len(code)
    BY <1>1, <1>6, <2>1
  <2>4. last + 1 \in S
    BY <1>6, <2>1, <2>2, <2>3
  <2>5. last >= last + 1 /\ last \in Int
    BY <1>1, <1>5, <2>1, <2>4
  <2>. QED  BY <2>5
<1>7. last \in DOMAIN code /\ last >= k
  BY <1>1, <1>5
<1>8. \A i \in k..last : IsLabel(code, i)
  BY <1>5
<1>. QED  BY <1>6, <1>7, <1>8 DEF last

-----------------------------------------------------------------------------
(* What an instruction leads to                                            *)

\* Every caller is an instruction callsub.
CallsSound(m) ==
  IsSequence(m.calls)
  /\ \A k \in DOMAIN m.calls :
       m.calls[k] \in DOMAIN m.code /\ m.code[m.calls[k]].op = "callsub"

\* A machine that may run the instruction that it is at.
Ready(m) ==
  Sound(m) /\ CodeSound(m.code) /\ CallsSound(m) /\ m.pc \in DOMAIN m.code

\* The instructions are what they were, but for a length that one of them keeps.
CodeStays(m, v, r) ==
  /\ CodeSound(r.code) /\ Len(r.code) = Len(m.code)
  /\ \A k \in DOMAIN m.code : r.code[k].op = m.code[k].op
  /\ v < 4 => r.code = m.code

\* The instruction after p is where a jump from m may land.
Lands(m, v, p) ==
  /\ p \in Nat
  /\ v < 4 => p >= m.pc
  /\ p + 1 \in DOMAIN m.code => ~IsLabel(m.code, p + 1)
  /\ \E to \in Destinations(m.code[m.pc]) : \E k \in LabelsOf(m.code, to) :
       k <= p /\ \A j \in k..p : IsLabel(m.code, j)

\* r is what the instruction that m is at makes of it.
Leads(m, v, r) ==
  /\ Sound(r) /\ CodeStays(m, v, r) /\ CallsSound(r)
  /\ Grown(m.heap, r.heap)
  /\ \A a \in DOMAIN m.heap : r.heap[a] # m.heap[a] =>
       m.code[m.pc].op \in {"setbit", "setbyte"} /\ BytesAt(m, 2) /\ Top(m, 2).b = a
  /\ OwnOnly(m, m.ctx, r.ctx)
  /\ r.ctx.self = m.ctx.self /\ r.ctx.group = m.ctx.group
  /\ BuildsSound(m, v) => BuildsSound(r, v)
  /\ \/ r.pc = m.pc
     \/ Lands(m, v, r.pc)
     \/ m.code[m.pc].op = "return" /\ r.pc = Len(m.code)
     \/ m.code[m.pc].op = "retsub" /\ r.pc \in DOMAIN m.code

\* The same machine.
LEMMA CodeStill ==
  ASSUME NEW m, Ready(m), NEW v, NEW r, SameCode(m, r)
  PROVE  CodeStays(m, v, r) /\ CallsSound(r) /\ r.pc = m.pc
BY DEF Ready, SameCode, CodeStays, CallsSound

\* What computes, what writes into an array, what reads or writes the ledger, and
\* what builds transactions.
LEMMA WorkLeads ==
  ASSUME NEW m, Ready(m), NEW v
  PROVE  /\ \A r : Computes(m, r) => Leads(m, v, r)
         /\ \A r : Manages(m, r) => Leads(m, v, r)
         /\ \A r : Builds(m, v, r) => Leads(m, v, r)
         /\ \A r : Rewrites(m, r) /\ m.code[m.pc].op \in {"setbit", "setbyte"} => Leads(m, v, r)
<1>1. ASSUME NEW r, Builds(m, v, r) PROVE Leads(m, v, r)
  <2>1. CodeStays(m, v, r) /\ CallsSound(r) /\ r.pc = m.pc
    BY <1>1, CodeStill DEF Builds
  <2>2. Grown(m.heap, r.heap) /\ \A a \in DOMAIN m.heap : r.heap[a] = m.heap[a]
    BY <1>1, LongerGrown DEF Builds, Longer
  <2>. QED  BY <1>1, <2>1, <2>2 DEF Builds, Leads
<1>2. ASSUME NEW r, Rewrites(m, r), m.code[m.pc].op \in {"setbit", "setbyte"}
      PROVE  Leads(m, v, r)
  <2>1. CodeStays(m, v, r) /\ CallsSound(r) /\ r.pc = m.pc
    BY <1>2, CodeStill DEF Rewrites
  <2>2. OwnOnly(m, m.ctx, r.ctx)
    BY <1>2 DEF Rewrites, OwnOnly
  <2>3. BuildsSound(m, v) => BuildsSound(r, v)
    BY <1>2, NamesStay DEF Rewrites, BuildsSound
  <2>4. /\ Sound(r) /\ Grown(m.heap, r.heap) /\ r.ctx = m.ctx
        /\ \A a \in DOMAIN m.heap : r.heap[a] # m.heap[a] => BytesAt(m, 2) /\ Top(m, 2).b = a
    BY <1>2 DEF Rewrites
  <2>. QED  BY <1>2, <2>1, <2>2, <2>3, <2>4 DEF Leads
<1>. QED  BY <1>1, <1>2, ManagesBuilds, ComputesManages

\* A computation, and then a jump that lands.
LEMMA LandsLeads ==
  ASSUME NEW m, Ready(m), NEW v, NEW n, Leads(m, v, n),
         NEW p, \/ Lands(m, v, p)
                \/ m.code[m.pc].op = "return" /\ p = Len(m.code)
                \/ m.code[m.pc].op = "retsub" /\ p \in DOMAIN m.code
  PROVE  Leads(m, v, [n EXCEPT !.pc = p])
<1>. DEFINE r == [n EXCEPT !.pc = p]
<1>1. /\ DOMAIN r = Fields /\ r.heap = n.heap /\ r.ctx = n.ctx /\ r.stack = n.stack
      /\ r.args = n.args /\ r.bytecs = n.bytecs /\ r.scratch = n.scratch
      /\ r.code = n.code /\ r.calls = n.calls /\ r.pc = p
  BY DEF Leads, Sound, Fields
<1>. HIDE DEF r
<1>2. Sound(r)
  BY <1>1 DEF Leads, Sound
<1>3. CodeStays(m, v, r) /\ CallsSound(r)
  BY <1>1 DEF Leads, CodeStays, CallsSound
<1>4. BuildsSound(m, v) => BuildsSound(r, v)
  BY <1>1, BuildsOfCtx DEF Leads
<1>5. Leads(m, v, r)
  BY <1>1, <1>2, <1>3, <1>4 DEF Leads
<1>. QED  BY <1>5 DEF r

\* Jumps, of a machine that has the instructions of m.
LEMMA JumpsLead ==
  ASSUME NEW m, Ready(m), NEW v \in Nat, NEW n, Leads(m, v, n),
         n.code = m.code, n.pc = m.pc, NEW to \in Destinations(m.code[m.pc])
  PROVE  /\ v < 4 => Leads(m, v, JumpForward(n, to))
         /\ v >= 4 => Leads(m, v, JumpToLabel(n, to))
<1>1. /\ IsSequence(m.code) /\ Len(m.code) \in Nat /\ DOMAIN m.code = 1..Len(m.code)
      /\ m.pc \in 1..Len(m.code)
  BY SequenceDomain DEF Ready, CodeSound
<1>2. Leads(m, v, Fail(n))
  <2>1. /\ DOMAIN Fail(n) = Fields /\ Fail(n).heap = n.heap /\ Fail(n).ctx = n.ctx
        /\ Fail(n).stack = n.stack /\ Fail(n).args = n.args /\ Fail(n).bytecs = n.bytecs
        /\ Fail(n).scratch = n.scratch /\ Fail(n).code = n.code /\ Fail(n).calls = n.calls
        /\ Fail(n).pc = n.pc
    BY DEF Leads, Sound, Fields, Fail
  <2>. DEFINE r == Fail(n)
  <2>. HIDE DEF r
  <2>2. Sound(r) /\ CodeStays(m, v, r) /\ CallsSound(r)
    BY <2>1 DEF Leads, Sound, CodeStays, CallsSound, r
  <2>3. BuildsSound(m, v) => BuildsSound(r, v)
    BY <2>1, BuildsOfCtx DEF Leads, r
  <2>4. Leads(m, v, r)
    BY <2>1, <2>2, <2>3 DEF Leads, r
  <2>. QED  BY <2>4 DEF r
<1>3. ASSUME NEW k \in LabelsOf(m.code, to), v < 4 => k >= m.pc
      PROVE  /\ LastLabel(m.code, k) \in DOMAIN m.code
             /\ Leads(m, v, [n EXCEPT !.pc = LastLabel(m.code, k)])
  <2>1. k \in DOMAIN m.code /\ IsLabel(m.code, k)
    BY DEF LabelsOf
  <2>. DEFINE last == LastLabel(m.code, k)
  <2>2. /\ last \in DOMAIN m.code /\ last >= k
        /\ \A i \in k..last : IsLabel(m.code, i)
        /\ last + 1 \in DOMAIN m.code => ~IsLabel(m.code, last + 1)
    BY <1>1, <2>1, LastLabelLands
  <2>. HIDE DEF last
  <2>3. last \in Nat /\ k <= last /\ (v < 4 => last >= m.pc)
    BY <1>1, <1>3, <2>1, <2>2
  <2>4. Lands(m, v, last)
    BY <2>2, <2>3 DEF Lands
  <2>. QED  BY <2>2, <2>4, LandsLeads DEF last
<1>4. ASSUME v < 4 PROVE Leads(m, v, JumpForward(n, to))
  <2>. DEFINE targets == {k \in LabelsOf(m.code, to) : k > m.pc}
  <2>1. CASE targets = {}
    BY <1>2, <2>1 DEF JumpForward
  <2>2. CASE targets # {}
    <3>1. targets \in SUBSET (1..Len(m.code))
      BY <1>1 DEF LabelsOf
    <3>2. Min(targets) \in targets
      <4>. HIDE DEF targets
      <4>. QED  BY <1>1, <2>2, <3>1, Ends
    <3>. DEFINE k == Min(targets)
    <3>3. k \in LabelsOf(m.code, to) /\ k > m.pc /\ k \in 1..Len(m.code)
      <4>. HIDE DEF k
      <4>1. k \in targets
        BY <3>2 DEF k
      <4>. QED  BY <3>1, <4>1
    <3>. HIDE DEF k
    <3>5. k \in LabelsOf(m.code, to) /\ k >= m.pc
      BY <1>1, <3>3
    <3>4. JumpForward(n, to) = [n EXCEPT !.pc = LastLabel(m.code, k)]
      BY <2>2 DEF JumpForward, k
    <3>. QED  BY <1>3, <3>4, <3>5
  <2>. QED  BY <2>1, <2>2
<1>5. ASSUME v >= 4 PROVE Leads(m, v, JumpToLabel(n, to))
  <2>. DEFINE targets == LabelsOf(m.code, to)
  <2>1. CASE targets = {}
    BY <1>2, <2>1 DEF JumpToLabel
  <2>2. CASE targets # {}
    <3>1. targets \in SUBSET (1..Len(m.code))
      BY <1>1 DEF LabelsOf
    <3>2. Max(targets) \in targets
      <4>. HIDE DEF targets
      <4>. QED  BY <1>1, <2>2, <3>1, Ends
    <3>. DEFINE k == Max(targets)
    <3>3. \/ JumpToLabel(n, to) = [n EXCEPT !.pc = LastLabel(m.code, k)]
          \/ JumpToLabel(n, to) = n
      BY <2>2 DEF JumpToLabel
    <3>4. k \in LabelsOf(m.code, to) /\ ~(v < 4)
      BY <1>5, <3>2
    <3>. HIDE DEF k
    <3>5. Leads(m, v, [n EXCEPT !.pc = LastLabel(m.code, k)])
      BY <1>3, <3>4
    <3>. QED  BY <3>3, <3>5
  <2>. QED  BY <2>1, <2>2
<1>. QED  BY <1>4, <1>5

\* What a program may hold in version v.
OpsAllowed(m, v) == \A k \in DOMAIN m.code : m.code[k].op \in Opcodes(v)

\* Inner transactions, callers and lengths that are kept came with version 4 and 5.
LEMMA LateOps ==
  ASSUME NEW v \in 1..8, v < 4
  PROVE  {"itxn_begin", "itxn_next", "itxn_field", "callsub", "retsub", "extract", "switch",
          "base64_decode", "json_ref"} \cap Opcodes(v) = {}
<1>. DEFINE late == {"itxn_begin", "itxn_next", "itxn_field", "callsub", "retsub", "extract",
                     "switch", "base64_decode", "json_ref"}
<1>1. late \cap Introduced[1] = {}
  BY DEF Introduced
<1>2. late \cap Introduced[2] = {}
  BY DEF Introduced
<1>3. late \cap Introduced[3] = {}
  BY DEF Introduced
<1>4. \A n \in 1..v : n \in {1, 2, 3}
  OBVIOUS
<1>. HIDE DEF late
<1>5. \A n \in 1..v : late \cap Introduced[n] = {}
  BY <1>1, <1>2, <1>3, <1>4
<1>6. late \cap Opcodes(v) = {}
  BY <1>5 DEF Opcodes
<1>. QED  BY <1>6 DEF late

\* The opcodes that compute.
LEMMA ComputingLeads ==
  ASSUME NEW m, Ready(m), NEW v \in 1..8, OpsAllowed(m, v), NEW i, i = m.code[m.pc]
  PROVE  /\ i.op \in ConstantOps => Leads(m, v, Constants(m, i))
         /\ i.op \in StackOps => Leads(m, v, Shuffle(m, i))
         /\ i.op \in IntegerOps => Leads(m, v, Calculate(m, i.op))
         /\ i.op \in ArrayOps => Leads(m, v, HandleArray(m, i))
         /\ i.op \in ByteOps => Leads(m, v, HandleBytes(m, i.op))
         /\ i.op \in LibraryOps => Leads(m, v, UseLibrary(m, i))
<1>1. Sound(m) /\ InstructionSound(i)
  BY DEF Ready, CodeSound
<1>2. /\ i.op = "bytecblock" => IsSequence(i.list)
      /\ i.op \in {"dig", "cover", "uncover"} => i.x \in Nat
  BY <1>1 DEF InstructionSound
<1>3. /\ \A r : Computes(m, r) => Leads(m, v, r)
      /\ \A r : Rewrites(m, r) /\ i.op \in {"setbit", "setbyte"} => Leads(m, v, r)
  BY WorkLeads
<1>4. i.op \in ConstantOps => Leads(m, v, Constants(m, i))
  BY <1>1, <1>2, <1>3, ConstantsCompute
<1>5. i.op \in StackOps => Leads(m, v, Shuffle(m, i))
  BY <1>1, <1>2, <1>3, ShuffleComputes
<1>6. i.op \in IntegerOps => Leads(m, v, Calculate(m, i.op))
  BY <1>1, <1>3, CalculateComputes
<1>7. i.op \in ByteOps => Leads(m, v, HandleBytes(m, i.op))
  BY <1>1, <1>3, BytesCompute
<1>8. i.op \in LibraryOps => Leads(m, v, UseLibrary(m, i))
  BY <1>1, <1>3, LibraryComputes
<1>9. i.op \in ArrayOps \ {"extract", "setbit", "setbyte"} => Leads(m, v, HandleArray(m, i))
  BY <1>1, <1>3, ArraysCompute
<1>10. i.op \in {"setbit", "setbyte"} => Leads(m, v, HandleArray(m, i))
  <2>1. Rewrites(m, SetBit(m)) /\ Rewrites(m, SetByte(m))
    BY <1>1, SetRewrites
  <2>2. i.op = "setbit" => HandleArray(m, i) = SetBit(m)
    BY DEF HandleArray
  <2>3. i.op = "setbyte" => HandleArray(m, i) = SetByte(m)
    BY DEF HandleArray
  <2>. QED  BY <1>3, <2>1, <2>2, <2>3
<1>11. i.op = "extract" => Leads(m, v, HandleArray(m, i))
  <2>. SUFFICES ASSUME i.op = "extract" PROVE Leads(m, v, HandleArray(m, i))
    OBVIOUS
  <2>1. PICK y : Computes([m EXCEPT !.code[m.pc].y = y], Extract(m, i))
    BY <1>1, ExtractComputes
  <2>. DEFINE d == [m.code EXCEPT ![m.pc] = [i EXCEPT !.y = y]]
              n == [m EXCEPT !.code = d]
              r == Extract(m, i)
  <2>2. n = [m EXCEPT !.code[m.pc].y = y]
    OBVIOUS
  <2>3. /\ n.heap = m.heap /\ n.ctx = m.ctx /\ n.code = d /\ n.pc = m.pc /\ n.calls = m.calls
    BY <1>1 DEF Sound, Fields
  <2>4. v >= 4
    <3>1. "extract" \in Opcodes(v)
      BY DEF OpsAllowed, Ready
    <3>. QED  BY <3>1, LateOps
  <2>5. IsSequence(m.code) /\ \A k \in DOMAIN m.code : InstructionSound(m.code[k])
    BY DEF Ready, CodeSound
  <2>6. IsSequence(d) /\ Len(d) = Len(m.code) /\ DOMAIN d = DOMAIN m.code
    BY <2>5, ExceptSequence
  <2>7. \A k \in DOMAIN m.code : d[k] = IF k = m.pc THEN [i EXCEPT !.y = y] ELSE m.code[k]
    BY DEF Ready
  <2>8. InstructionSound([i EXCEPT !.y = y]) /\ [i EXCEPT !.y = y].op = i.op
    BY <1>1 DEF InstructionSound
  <2>. HIDE DEF d, n, r
  <2>9. Computes(n, r)
    BY <2>1, <2>2 DEF r
  <2>10. /\ Sound(r) /\ Longer(m.heap, r.heap) /\ r.ctx = m.ctx
         /\ r.code = d /\ r.pc = m.pc /\ r.calls = m.calls
    BY <2>3, <2>9 DEF Computes, SameCode
  <2>11. CodeSound(d) /\ \A k \in DOMAIN m.code : d[k].op = m.code[k].op
    BY <2>5, <2>6, <2>7, <2>8 DEF CodeSound
  <2>12. CodeStays(m, v, r)
    BY <2>4, <2>6, <2>10, <2>11 DEF CodeStays
  <2>13. CallsSound(r)
    BY <2>6, <2>10, <2>11 DEF Ready, CallsSound
  <2>14. OwnOnly(m, m.ctx, r.ctx)
    BY <2>10 DEF OwnOnly
  <2>15. BuildsSound(m, v) => BuildsSound(r, v)
    BY <2>10, BuildsOfCtx
  <2>16. Grown(m.heap, r.heap) /\ \A a \in DOMAIN m.heap : r.heap[a] = m.heap[a]
    BY <2>10, LongerGrown DEF Longer
  <2>17. Leads(m, v, r)
    BY <2>10, <2>12, <2>13, <2>14, <2>15, <2>16 DEF Leads
  <2>18. HandleArray(m, i) = r
    BY DEF HandleArray, r
  <2>. QED  BY <2>17, <2>18
<1>12. i.op \in ArrayOps => Leads(m, v, HandleArray(m, i))
  BY <1>9, <1>10, <1>11
<1>. QED  BY <1>4, <1>5, <1>6, <1>7, <1>8, <1>12

\* The opcodes that read transactions, globals and the group, those of the ledger
\* and those that build transactions.
LEMMA ReadingLeads ==
  ASSUME NEW m, Ready(m), NEW v \in 1..8, OpsAllowed(m, v), NEW i, i = m.code[m.pc]
  PROVE  /\ i.op \in TxnOps => Leads(m, v, ReadTxn(m, v, i))
         /\ \A field : Leads(m, v, Global(m, field))
         /\ \A x : Leads(m, v, Put(m, 0, <<Uint(x)>>))
         /\ Leads(m, v, Gload(m, i)) /\ Leads(m, v, Gloads(m, i)) /\ Leads(m, v, Gloadss(m))
         /\ Leads(m, v, Gaid(m, i)) /\ Leads(m, v, Gaids(m)) /\ Leads(m, v, Block(m, i))
         /\ i.op \in LedgerOps => Leads(m, v, UseLedger(m, v, i))
         /\ i.op \in InnerOps => Leads(m, v, BuildInner(m, v, i))
<1>1. Sound(m) /\ InstructionSound(i)
  BY DEF Ready, CodeSound
<1>2. /\ \A r : Computes(m, r) => Leads(m, v, r)
      /\ \A r : Manages(m, r) => Leads(m, v, r)
      /\ \A r : Builds(m, v, r) => Leads(m, v, r)
  BY WorkLeads
<1>3. i.op \in TxnOps => Leads(m, v, ReadTxn(m, v, i))
  BY <1>1, <1>2, ReadsCompute
<1>4. /\ \A field : Leads(m, v, Global(m, field))
      /\ \A x : Leads(m, v, Put(m, 0, <<Uint(x)>>))
  BY <1>1, <1>2, GlobalsCompute, NumbersComputed
<1>5. /\ Leads(m, v, Gload(m, i)) /\ Leads(m, v, Gloads(m, i)) /\ Leads(m, v, Gloadss(m))
      /\ Leads(m, v, Gaid(m, i)) /\ Leads(m, v, Gaids(m)) /\ Leads(m, v, Block(m, i))
  BY <1>1, <1>2, GroupComputes
<1>6. i.op \in LedgerOps => Leads(m, v, UseLedger(m, v, i))
  BY <1>1, <1>2, LedgerManages DEF InstructionSound
<1>7. i.op \in InnerOps => Leads(m, v, BuildInner(m, v, i))
  <2>. SUFFICES ASSUME i.op \in InnerOps PROVE Leads(m, v, BuildInner(m, v, i))
    OBVIOUS
  <2>1. v >= 4 /\ v \in Nat
    <3>1. i.op \in Opcodes(v)
      BY DEF OpsAllowed, Ready
    <3>2. i.op \in {"itxn_begin", "itxn_next", "itxn_field", "callsub", "retsub", "extract",
                    "switch", "base64_decode", "json_ref"}
      BY DEF InnerOps
    <3>. QED  BY <3>1, <3>2, LateOps
  <2>2. Builds(m, v, BuildInner(m, v, i))
    BY <1>1, <2>1, InnerBuilds
  <2>. QED  BY <1>2, <2>2
<1>. QED  BY <1>3, <1>4, <1>5, <1>6, <1>7

\* Branches.
LEMMA BranchesLead ==
  ASSUME NEW m, Ready(m), NEW v \in 1..8, NEW i, i = m.code[m.pc],
         i.op \in {"b", "bz", "bnz"},
         NEW n, Computes(m, n), NEW r, r = IF v < 4 THEN JumpForward(n, i.to) ELSE JumpToLabel(n, i.to)
  PROVE  Leads(m, v, r)
<1>1. i.to \in Destinations(i)
  BY DEF Destinations
<1>2. Leads(m, v, n) /\ n.code = m.code /\ n.pc = m.pc
  BY WorkLeads DEF Computes, SameCode
<1>. QED  BY <1>1, <1>2, JumpsLead

\* switch.
LEMMA SwitchLeads ==
  ASSUME NEW m, Ready(m), NEW v \in 1..8, OpsAllowed(m, v), NEW i, i = m.code[m.pc],
         i.op = "switch", NEW k \in DOMAIN i.list
  PROVE  Leads(m, v, JumpToLabel(Put(m, 1, <<>>), i.list[k]))
<1>1. v >= 4
  <2>1. "switch" \in Opcodes(v)
    BY DEF OpsAllowed, Ready
  <2>. QED  BY <2>1, LateOps
<1>2. i.list[k] \in Destinations(i)
  BY DEF Destinations
<1>. DEFINE n == Put(m, 1, <<>>)
<1>3. Computes(m, n)
  BY NumbersComputed DEF Ready
<1>. HIDE DEF n
<1>4. Leads(m, v, n) /\ n.code = m.code /\ n.pc = m.pc
  BY <1>3, WorkLeads DEF Computes, SameCode
<1>5. Leads(m, v, JumpToLabel(n, i.list[k]))
  BY <1>1, <1>2, <1>4, JumpsLead
<1>. QED  BY <1>5 DEF n

\* callsub and retsub.
LEMMA CallsLead ==
  ASSUME NEW m, Ready(m), NEW v \in 1..8, OpsAllowed(m, v), NEW i, i = m.code[m.pc]
  PROVE  /\ i.op = "callsub" =>
              Leads(m, v, JumpToLabel([m EXCEPT !.calls = Append(@, m.pc)], i.to))
         /\ i.op = "retsub" /\ m.calls # <<>> =>
              Leads(m, v, [m EXCEPT !.pc = m.calls[Len(m.calls)],
                                    !.calls = SubSeq(@, 1, Len(@) - 1)])
<1>1. i.op \in {"callsub", "retsub"} => v >= 4
  <2>1. i.op \in Opcodes(v)
    BY DEF OpsAllowed, Ready
  <2>. QED  BY <2>1, LateOps
<1>2. IsSequence(m.calls) /\ Sound(m)
  BY DEF Ready, CallsSound
<1>3. ASSUME NEW calls, NEW n, n = [m EXCEPT !.calls = calls], IsSequence(calls),
             \A k \in DOMAIN calls : calls[k] \in DOMAIN m.code /\ m.code[calls[k]].op = "callsub"
      PROVE  Leads(m, v, n) /\ n.code = m.code /\ n.pc = m.pc
  <2>1. /\ DOMAIN n = Fields /\ n.heap = m.heap /\ n.ctx = m.ctx /\ n.stack = m.stack
        /\ n.args = m.args /\ n.bytecs = m.bytecs /\ n.scratch = m.scratch
        /\ n.code = m.code /\ n.calls = calls /\ n.pc = m.pc
    BY <1>2, <1>3 DEF Sound, Fields
  <2>2. Sound(n)
    BY <1>2, <2>1 DEF Sound
  <2>3. CodeStays(m, v, n) /\ CallsSound(n)
    BY <1>3, <2>1 DEF CodeStays, CallsSound, Ready
  <2>4. OwnOnly(m, m.ctx, n.ctx) /\ Grown(m.heap, n.heap)
    BY <2>1 DEF OwnOnly, Grown
  <2>5. BuildsSound(m, v) => BuildsSound(n, v)
    BY <2>1, BuildsOfCtx
  <2>. QED  BY <2>1, <2>2, <2>3, <2>4, <2>5 DEF Leads
<1>4. ASSUME i.op = "callsub"
      PROVE  Leads(m, v, JumpToLabel([m EXCEPT !.calls = Append(@, m.pc)], i.to))
  <2>. DEFINE calls == Append(m.calls, m.pc)
              n == [m EXCEPT !.calls = calls]
  <2>1. /\ IsSequence(calls) /\ Len(calls) = Len(m.calls) + 1
        /\ \A k \in DOMAIN m.calls : calls[k] = m.calls[k]
        /\ calls[Len(m.calls) + 1] = m.pc
    BY <1>2, AppendSequence
  <2>2. /\ DOMAIN calls = 1..Len(calls) /\ DOMAIN m.calls = 1..Len(m.calls)
        /\ Len(m.calls) \in Nat
    BY <1>2, <2>1, SequenceDomain
  <2>. HIDE DEF calls
  <2>3. \A k \in DOMAIN calls : k \in DOMAIN m.calls \/ k = Len(m.calls) + 1
    BY <2>1, <2>2
  <2>4. \A k \in DOMAIN calls : calls[k] \in DOMAIN m.code /\ m.code[calls[k]].op = "callsub"
    BY <1>4, <2>1, <2>3 DEF Ready, CallsSound
  <2>5. Leads(m, v, n) /\ n.code = m.code /\ n.pc = m.pc
    BY <1>3, <2>1, <2>4
  <2>6. i.to \in Destinations(i)
    BY <1>4 DEF Destinations
  <2>. HIDE DEF n
  <2>7. Leads(m, v, JumpToLabel(n, i.to))
    BY <1>1, <1>4, <2>5, <2>6, JumpsLead
  <2>. QED  BY <2>7 DEF n, calls
<1>5. ASSUME i.op = "retsub", m.calls # <<>>
      PROVE  Leads(m, v, [m EXCEPT !.pc = m.calls[Len(m.calls)],
                                   !.calls = SubSeq(@, 1, Len(@) - 1)])
  <2>. DEFINE calls == SubSeq(m.calls, 1, Len(m.calls) - 1)
              p == m.calls[Len(m.calls)]
              n == [m EXCEPT !.calls = calls]
  <2>1. IsSequence(calls) /\ \A k \in DOMAIN calls : k \in DOMAIN m.calls /\ calls[k] = m.calls[k]
    BY <1>2, FrontSequence
  <2>2. p \in DOMAIN m.code
    <3>1. Len(m.calls) \in DOMAIN m.calls
      BY <1>2, <1>5, SequenceDomain DEF IsSequence
    <3>. QED  BY <3>1 DEF Ready, CallsSound
  <2>. HIDE DEF calls, p
  <2>3. \A k \in DOMAIN calls : calls[k] \in DOMAIN m.code /\ m.code[calls[k]].op = "callsub"
    BY <2>1 DEF Ready, CallsSound
  <2>4. Leads(m, v, n)
    BY <1>3, <2>1, <2>3
  <2>. HIDE DEF n
  <2>5. Leads(m, v, [n EXCEPT !.pc = p])
    BY <1>5, <2>2, <2>4, LandsLeads
  <2>6. [n EXCEPT !.pc = p] = [m EXCEPT !.pc = m.calls[Len(m.calls)],
                                        !.calls = SubSeq(@, 1, Len(@) - 1)]
    BY DEF n, p, calls
  <2>. QED  BY <2>5, <2>6
<1>. QED  BY <1>4, <1>5

\* return.
LEMMA ReturnLeads ==
  ASSUME NEW m, Ready(m), NEW v, m.code[m.pc].op = "return", m.stack # <<>>
  PROVE  Leads(m, v, [m EXCEPT !.stack = <<Top(m, 0)>>, !.pc = Len(m.code)])
<1>. DEFINE n == [m EXCEPT !.stack = <<Top(m, 0)>>]
<1>1. Sound(m) /\ IsSequence(m.stack)
  BY DEF Ready, Sound, AllOnHeap
<1>2. AllOnHeap(m.heap, <<Top(m, 0)>>)
  <2>1. Len(m.stack) \in DOMAIN m.stack /\ Len(m.stack) - 0 = Len(m.stack)
    BY <1>1, SequenceDomain DEF IsSequence
  <2>. QED  BY <1>1, <2>1, OneOnHeap DEF Top, Sound, AllOnHeap
<1>3. Computes(m, n)
  BY <1>1, <1>2 DEF Computes, Sound, Fields, Longer, SameCode
<1>. HIDE DEF n
<1>4. Leads(m, v, [n EXCEPT !.pc = Len(m.code)])
  BY <1>3, WorkLeads, LandsLeads
<1>5. [n EXCEPT !.pc = Len(m.code)] = [m EXCEPT !.stack = <<Top(m, 0)>>, !.pc = Len(m.code)]
  BY DEF n
<1>. QED  BY <1>4, <1>5

-----------------------------------------------------------------------------
(* What has been paid for                                                  *)

\* What the instructions at the positions D cost when they are parsed.
Paid(code, v, D) == Adding!Sum([version |-> v, code |-> code], D)

\* The positions before p.
Before(code, p) == {k \in DOMAIN code : k < p}

\* Every instruction has a cost.
LEMMA OpCostNat == \A v, i : OpCost(v, i) \in Nat
<1>1. \A v, i : LibraryCost(v, i, 1) \in Nat
  BY DEF LibraryCost
<1>. QED  BY <1>1 DEF OpCost

\* The cost at parsing is what all instructions cost.
LEMMA StaticGasPaid == \A code, v : StaticGas(code, v) = Paid(code, v, DOMAIN code)
BY DEF StaticGas, MapThenSumSet, MapThenFoldSet, Paid, Adding!Sum, Adding!FoldOver, Adding!Solves,
       Adding!Rest, Plus, Any

\* Costs add up.
LEMMA CostsAdd ==
  ASSUME NEW code, IsSequence(code), NEW v
  PROVE  /\ Paid(code, v, {}) = 0
         /\ \A D \in SUBSET DOMAIN code :
              /\ Paid(code, v, D) \in Int
              /\ \A E \in SUBSET D : Paid(code, v, E) <= Paid(code, v, D)
              /\ \A k \in D : Paid(code, v, D) = OpCost(v, code[k]) + Paid(code, v, D \ {k})
<1>. DEFINE c == [version |-> v, code |-> code]
            f == [k \in DOMAIN code |-> OpCost(v, code[k])]
<1>0. Paid(code, v, {}) = 0
  BY Adding!FoldOverNothing DEF Paid, Adding!Sum
<1>1. Adding!IsFiniteSet(DOMAIN code)
  <2>1. DOMAIN code = 1..Len(code) /\ Len(code) \in Nat
    BY SequenceDomain
  <2>2. IsFiniteSet(DOMAIN code)
    BY <2>1, FS_Interval
  <2>. QED  BY <2>2 DEF IsFiniteSet, Adding!IsFiniteSet
<1>2. \A D : Adding!Picks(D)
  BY DEF Adding!Picks, Any
<1>3. \A D \in SUBSET DOMAIN code : Adding!Adds(c, f, D)
  BY OpCostNat DEF Adding!Adds, Plus
<1>4. \A D \in SUBSET DOMAIN code : Adding!IsFiniteSet(D)
  <2>1. \A D \in SUBSET DOMAIN code : IsFiniteSet(D)
    BY <1>1, FS_Subset DEF IsFiniteSet, Adding!IsFiniteSet
  <2>. QED  BY <2>1 DEF IsFiniteSet, Adding!IsFiniteSet
<1>5. \A k \in DOMAIN code : f[k] = OpCost(v, code[k]) /\ f[k] >= 0
  BY OpCostNat
<1>. HIDE DEF c, f
<1>6. \A D \in SUBSET DOMAIN code : Adding!Sum(c, D) \in Int
  BY <1>1, <1>2, <1>3, Adding!SumInt
<1>7. \A D \in SUBSET DOMAIN code : \A E \in SUBSET D : Adding!Sum(c, E) <= Adding!Sum(c, D)
  BY <1>2, <1>3, <1>4, <1>5, Adding!SumPart
<1>8. \A D \in SUBSET DOMAIN code : \A k \in D : Adding!Splits(c, f, D, k)
  BY <1>1, <1>2, <1>3, Adding!SumWithout
<1>9. ASSUME NEW D \in SUBSET DOMAIN code, NEW k \in D
      PROVE  Paid(code, v, D) = OpCost(v, code[k]) + Paid(code, v, D \ {k})
  <2>1. f[k] = OpCost(v, code[k])
    BY <1>5
  <2>. QED  BY <1>8, <2>1 DEF Adding!Splits, Paid, c
<1>. QED  BY <1>0, <1>6, <1>7, <1>9 DEF Paid, c

\* What the instructions before q cost covers those before p and the one at p.
LEMMA PaidGoesOn ==
  ASSUME NEW code, IsSequence(code), NEW v, NEW p \in DOMAIN code, NEW q \in Nat, q > p
  PROVE  OpCost(v, code[p]) + Paid(code, v, Before(code, p)) <= Paid(code, v, Before(code, q))
<1>. DEFINE D == Before(code, p) \cup {p}
<1>1. DOMAIN code = 1..Len(code) /\ Len(code) \in Nat
  BY SequenceDomain
<1>2. /\ D \in SUBSET DOMAIN code /\ p \in D /\ D \ {p} = Before(code, p)
      /\ D \in SUBSET Before(code, q) /\ Before(code, q) \in SUBSET DOMAIN code
  BY <1>1 DEF Before
<1>. HIDE DEF D
<1>3. Paid(code, v, D) = OpCost(v, code[p]) + Paid(code, v, Before(code, p))
  <2>1. \A k \in D : Paid(code, v, D) = OpCost(v, code[k]) + Paid(code, v, D \ {k})
    BY <1>2, CostsAdd
  <2>2. Paid(code, v, D) = OpCost(v, code[p]) + Paid(code, v, D \ {p})
    BY <1>2, <2>1
  <2>. QED  BY <1>2, <2>2
<1>4. Paid(code, v, D) <= Paid(code, v, Before(code, q))
  BY <1>2, CostsAdd
<1>. QED  BY <1>3, <1>4

-----------------------------------------------------------------------------
(* The inductive invariant                                                 *)

\* The machine may run what it is at; the programs of a version hold its opcodes;
\* the transactions being built name whom they may; before version 4 what has been
\* taken is paid for by the instructions behind; later it is within the budget.
IInv ==
  /\ status \in {"parsing", "running", "approved", "rejected", "failed"}
  /\ mode \in {"signature", "application"} /\ version \in 1..8
  /\ Sound(vm) /\ CodeSound(vm.code) /\ CallsSound(vm) /\ vm.pc \in Nat \ {0}
  /\ status = "parsing" => vm.pc = 1
  /\ status \notin {"parsing", "failed"} => OpsAllowed(vm, version)
  /\ BuildsSound(vm, version)
  /\ version < 4 => cost \in Int /\ cost <= Paid(vm.code, version, Before(vm.code, vm.pc))
  /\ BudgetHeld

\* One interval behind another.
LEMMA Intervals ==
  \A a, b \in Nat : 1..a \subseteq 1..(a + b) /\ \A k \in 1..b : a + k \in 1..(a + b)
OBVIOUS

\* Programs start sound.
LEMMA InitInv == Init => IInv
<1>. SUFFICES ASSUME Init PROVE IInv
  OBVIOUS
<1>1. PICK p \in Programs :
        /\ vm = NewMachine(p.code, p.args, Blank, p.arrays, p.ctx)
        /\ version = p.version /\ mode = p.mode
        /\ cost = 0 /\ pooled = p.pooled
        /\ status = "parsing"
  BY DEF Init
<1>2. /\ version \in 1..8 /\ mode \in {"signature", "application"}
      /\ CodeSound(p.code) /\ IsSequence(p.args) /\ IsSequence(p.arrays)
      /\ CtxSound(p.arrays, p.ctx) /\ p.ctx.building = <<>>
  BY <1>1, ProgramsAssumption
<1>. DEFINE h == p.arrays \o p.args
<1>3. /\ DOMAIN vm = Fields /\ vm.code = p.code /\ vm.pc = 1 /\ vm.stack = <<>> /\ vm.heap = h
      /\ vm.ctx = p.ctx /\ vm.args = [k \in 1..Len(p.args) |-> Ref(Len(p.arrays) + k)]
      /\ vm.scratch = Blank /\ vm.calls = <<>> /\ vm.bytecs = <<>>
  BY <1>1 DEF NewMachine, Fields
<1>4. /\ IsSequence(h) /\ Len(h) = Len(p.arrays) + Len(p.args)
      /\ \A k \in DOMAIN p.arrays : h[k] = p.arrays[k]
  <2>1. IsSequence(p.arrays) /\ IsSequence(p.args)
    BY <1>2
  <2>2. Joins(h, p.arrays, p.args)
    BY <2>1, ConcatSequence
  <2>. QED  BY <2>2 DEF Joins
<1>. HIDE DEF h
<1>5. /\ DOMAIN h = 1..Len(h) /\ DOMAIN p.arrays = 1..Len(p.arrays)
      /\ Len(h) \in Nat /\ Len(p.arrays) \in Nat /\ Len(p.args) \in Nat
  BY <1>2, <1>4, SequenceDomain
<1>. DEFINE a == Len(p.arrays)
            b == Len(p.args)
<1>12. /\ DOMAIN p.arrays \subseteq DOMAIN h
       /\ \A k \in 1..b : a + k \in DOMAIN h
  <2>1. 1..a \subseteq 1..(a + b) /\ \A k \in 1..b : a + k \in 1..(a + b)
    BY <1>5, Intervals
  <2>2. DOMAIN p.arrays = 1..a /\ DOMAIN h = 1..(a + b)
    BY <1>4, <1>5
  <2>. HIDE DEF a, b
  <2>. QED  BY <2>1, <2>2
<1>6. Grown(p.arrays, h)
  BY <1>4, <1>12 DEF Grown
<1>7. CtxSound(h, vm.ctx)
  BY <1>2, <1>3, <1>6, CtxStays
<1>8. AllOnHeap(h, vm.args)
  <2>1. ASSUME NEW k \in 1..Len(p.args) PROVE OnHeap(h, Ref(Len(p.arrays) + k))
    BY <1>12, RefOnHeap
  <2>. DEFINE S == {Ref(Len(p.arrays) + k) : k \in 1..Len(p.args)}
  <2>2. vm.args \in Seq(S)
    <3>1. vm.args \in [1..Len(p.args) -> S]
      BY <1>3
    <3>. HIDE DEF S
    <3>. QED  BY <1>5, <3>1, SeqDef
  <2>3. IsSequence(vm.args) /\ DOMAIN vm.args = 1..Len(p.args)
    BY <1>3, <2>2, SequenceOf
  <2>. QED  BY <1>3, <2>1, <2>3 DEF AllOnHeap
<1>9. Sound(vm)
  <2>1. \A k \in DOMAIN vm.scratch : OnHeap(h, vm.scratch[k])
    BY <1>3, PlainOnHeap DEF Blank
  <2>. QED  BY <1>3, <1>4, <1>7, <1>8, <2>1, OneOnHeap DEF Sound
<1>10. CallsSound(vm) /\ BuildsSound(vm, version)
  BY <1>2, <1>3, EmptySequence DEF CallsSound, BuildsSound
<1>11. cost <= Paid(vm.code, version, Before(vm.code, vm.pc))
  <2>1. DOMAIN vm.code = 1..Len(vm.code) /\ Len(vm.code) \in Nat /\ IsSequence(vm.code)
    BY <1>2, <1>3, SequenceDomain DEF CodeSound
  <2>2. Before(vm.code, vm.pc) = {}
    BY <1>3, <2>1 DEF Before
  <2>. QED  BY <1>1, <2>1, <2>2, CostsAdd
<1>. QED  BY <1>1, <1>2, <1>3, <1>9, <1>10, <1>11 DEF IInv, BudgetHeld

-----------------------------------------------------------------------------
(* The steps of the loop                                                   *)

\* Every step is the parser's, the end, or an instruction that leads somewhere.
LEMMA NextSteps ==
  ASSUME IInv, Next
  PROVE  Parse \/ Finish \/ \E ops, r : Advance(ops, r) /\ Ready(vm) /\ Leads(vm, version, r)
<1>. DEFINE Leading == \E ops, r : Advance(ops, r) /\ Ready(vm) /\ Leads(vm, version, r)
<1>. SUFFICES ASSUME ~Parse, ~Finish PROVE Leading
  OBVIOUS
<1>1. ASSUME NEW ops, NEW r, Advance(ops, r)
      PROVE  /\ Ready(vm) /\ Here.op \in ops /\ OpsAllowed(vm, version)
             /\ version \in 1..8 /\ Here = vm.code[vm.pc] /\ Sound(vm) /\ InstructionSound(Here)
  <2>1. status = "running" /\ vm.pc <= Len(vm.code) /\ Here.op \in ops
    BY <1>1 DEF Advance
  <2>2. DOMAIN vm.code = 1..Len(vm.code) /\ Len(vm.code) \in Nat
    BY SequenceDomain DEF IInv, CodeSound
  <2>3. vm.pc \in DOMAIN vm.code
    BY <2>1, <2>2 DEF IInv
  <2>. QED  BY <2>1, <2>3 DEF IInv, Ready, Here, CodeSound
<1>2. ASSUME NEW ops, NEW r, Advance(ops, r), Leads(vm, version, r) PROVE Leading
  BY <1>1, <1>2
<1>. HIDE DEF Leading
<1>3. ASSUME NEW r, Computes(vm, r), Ready(vm) PROVE Leads(vm, version, r)
  BY <1>3, WorkLeads
<1>4. CASE PushConstant
  BY <1>1, <1>2, <1>4, ComputingLeads DEF PushConstant
<1>5. CASE ShuffleStack
  BY <1>1, <1>2, <1>5, ComputingLeads DEF ShuffleStack
<1>6. CASE ComputeIntegers
  BY <1>1, <1>2, <1>6, ComputingLeads DEF ComputeIntegers
<1>7. CASE ComputeArrays
  BY <1>1, <1>2, <1>7, ComputingLeads DEF ComputeArrays
<1>8. CASE ComputeBytes
  BY <1>1, <1>2, <1>8, ComputingLeads DEF ComputeBytes
<1>9. CASE CallLibrary
  BY <1>1, <1>2, <1>9, ComputingLeads DEF CallLibrary
<1>10. CASE ReadTransaction
  BY <1>1, <1>2, <1>10, ReadingLeads DEF ReadTransaction
<1>11. CASE AccessLedger
  BY <1>1, <1>2, <1>11, ReadingLeads DEF AccessLedger
<1>12. CASE BuildTransactions
  BY <1>1, <1>2, <1>12, ReadingLeads DEF BuildTransactions
<1>13. CASE ReadGlobal
  <2>1. PICK r : /\ Advance({"global"}, r)
                 /\ (\E field : r = Global(vm, field)) \/ (\E x : r = Put(vm, 0, <<Uint(x)>>))
    BY <1>13 DEF ReadGlobal
  <2>. QED  BY <1>1, <1>2, <2>1, ReadingLeads
<1>14. CASE ReadGroup
  <2>1. PICK ops, r : /\ Advance(ops, r)
                      /\ r \in {Gload(vm, Here), Gloads(vm, Here), Gloadss(vm), Gaid(vm, Here),
                                Gaids(vm), Block(vm, Here)}
    BY <1>14 DEF ReadGroup
  <2>. QED  BY <1>1, <1>2, <2>1, ReadingLeads
<1>15. ASSUME NEW ops, NEW r, Advance(ops, r), r \in {vm, Fail(vm), Put(vm, 1, <<>>)}
       PROVE  Leading
  <2>1. Ready(vm) /\ Sound(vm)
    BY <1>1, <1>15
  <2>2. Computes(vm, vm)
    BY <2>1 DEF Computes, Longer, SameCode
  <2>3. Computes(vm, Fail(vm)) /\ Computes(vm, Put(vm, 1, <<>>))
    BY <2>1, FailComputes, NumbersComputed
  <2>. QED  BY <1>2, <1>3, <1>15, <2>1, <2>2, <2>3
<1>16. CASE Mark
  BY <1>15, <1>16 DEF Mark
<1>17. CASE AssertOp
  BY <1>15, <1>17 DEF AssertOp
<1>18. CASE Err
  BY <1>15, <1>18 DEF Err
<1>19. ASSUME NEW ops, NEW n, Computes(vm, n), Advance(ops, Jump(n, Here.to)),
              ops \subseteq {"b", "bz", "bnz"}
       PROVE  Leading
  <2>1. Leads(vm, version, Jump(n, Here.to))
    BY <1>1, <1>19, BranchesLead DEF Jump
  <2>. QED  BY <1>2, <1>19, <2>1
<1>20. CASE Branch
  <2>1. Advance({"b"}, Jump(vm, Here.to))
    BY <1>20 DEF Branch
  <2>2. Computes(vm, vm)
    BY <1>1, <2>1 DEF Computes, Longer, SameCode
  <2>. QED  BY <1>19, <2>1, <2>2
<1>21. CASE BranchIf
  <2>. DEFINE n == Put(vm, 1, <<>>)
  <2>1. PICK r : Advance({"bz", "bnz"}, r) /\ r \in {Fail(vm), Jump(n, Here.to), n}
    BY <1>21 DEF BranchIf
  <2>2. Computes(vm, n)
    BY <1>1, <2>1, NumbersComputed
  <2>. HIDE DEF n
  <2>3. CASE r = Jump(n, Here.to)
    BY <1>19, <2>1, <2>2, <2>3
  <2>4. CASE r \in {Fail(vm), n}
    BY <1>15, <2>1, <2>4 DEF n
  <2>. QED  BY <2>1, <2>3, <2>4
<1>22. CASE Switch
  <2>1. PICK r : /\ Advance({"switch"}, r)
                 /\ \/ r \in {Fail(vm), Put(vm, 1, <<>>)}
                    \/ \E k \in DOMAIN Here.list :
                         r = JumpToLabel(Put(vm, 1, <<>>), Here.list[k])
    BY <1>22 DEF Switch
  <2>2. CASE \E k \in DOMAIN Here.list : r = JumpToLabel(Put(vm, 1, <<>>), Here.list[k])
    <3>1. /\ Ready(vm) /\ OpsAllowed(vm, version) /\ version \in 1..8
          /\ Here = vm.code[vm.pc] /\ Here.op = "switch"
      BY <1>1, <2>1
    <3>2. \A k \in DOMAIN Here.list :
            Leads(vm, version, JumpToLabel(Put(vm, 1, <<>>), Here.list[k]))
      BY <3>1, SwitchLeads
    <3>3. Leads(vm, version, r)
      BY <2>2, <3>2
    <3>. QED  BY <1>2, <2>1, <3>3
  <2>. QED  BY <1>15, <2>1, <2>2
<1>23. CASE Callsub
  <2>. DEFINE n == [vm EXCEPT !.calls = Append(@, vm.pc)]
  <2>1. PICK r : Advance({"callsub"}, r) /\ r \in {Fail(vm), JumpToLabel(n, Here.to)}
    BY <1>23 DEF Callsub
  <2>2. Leads(vm, version, JumpToLabel(n, Here.to))
    <3>1. /\ Ready(vm) /\ OpsAllowed(vm, version) /\ version \in 1..8
          /\ Here = vm.code[vm.pc] /\ Here.op = "callsub"
      BY <1>1, <2>1
    <3>. QED  BY <3>1, CallsLead
  <2>. HIDE DEF n
  <2>. QED  BY <1>2, <1>15, <2>1, <2>2
<1>24. CASE Retsub
  <2>. DEFINE n == [vm EXCEPT !.pc = vm.calls[Len(vm.calls)],
                              !.calls = SubSeq(@, 1, Len(@) - 1)]
  <2>1. PICK r : Advance({"retsub"}, r) /\ (r = Fail(vm) \/ (vm.calls # <<>> /\ r = n))
    BY <1>24 DEF Retsub
  <2>2. vm.calls # <<>> => Leads(vm, version, n)
    <3>1. /\ Ready(vm) /\ OpsAllowed(vm, version) /\ version \in 1..8
          /\ Here = vm.code[vm.pc] /\ Here.op = "retsub"
      BY <1>1, <2>1
    <3>. QED  BY <3>1, CallsLead
  <2>. HIDE DEF n
  <2>. QED  BY <1>2, <1>15, <2>1, <2>2
<1>25. CASE Return
  <2>. DEFINE n == [vm EXCEPT !.stack = <<Top(vm, 0)>>, !.pc = Len(vm.code)]
  <2>1. PICK r : Advance({"return"}, r) /\ (r = Fail(vm) \/ (vm.stack # <<>> /\ r = n))
    BY <1>25 DEF Return
  <2>2. vm.stack # <<>> => Leads(vm, version, n)
    <3>1. /\ Ready(vm) /\ OpsAllowed(vm, version) /\ version \in 1..8
          /\ Here = vm.code[vm.pc] /\ Here.op = "return"
      BY <1>1, <2>1
    <3>. QED  BY <3>1, ReturnLeads
  <2>. HIDE DEF n
  <2>. QED  BY <1>2, <1>15, <2>1, <2>2
<1>. QED
  BY <1>4, <1>5, <1>6, <1>7, <1>8, <1>9, <1>10, <1>11, <1>12, <1>13, <1>14, <1>16, <1>17, <1>18,
     <1>20, <1>21, <1>22, <1>23, <1>24, <1>25
  DEF Next

\* An instruction is paid for when it was allowed.
LEMMA RunCostPaid ==
  ASSUME Ready(vm), version \in 1..8, OpsAllowed(vm, version), version < 4
  PROVE  RunCost = OpCost(version, vm.code[vm.pc])
<1>1. Here = vm.code[vm.pc] /\ Here.op \in Opcodes(version)
  BY DEF Here, Ready, OpsAllowed
<1>2. Here.op \notin {"base64_decode", "json_ref"}
  BY <1>1, LateOps
<1>. QED  BY <1>1, <1>2 DEF RunCost

\* Where the pointer is after an instruction: forward up to version 3.
LEMMA PointerMoves ==
  ASSUME NEW m, Ready(m), NEW v \in 1..8, OpsAllowed(m, v), NEW r, Leads(m, v, r)
  PROVE  r.pc \in Nat /\ (v < 4 => r.pc >= m.pc)
<1>1. DOMAIN m.code = 1..Len(m.code) /\ Len(m.code) \in Nat /\ m.pc \in DOMAIN m.code
  BY SequenceDomain DEF Ready, CodeSound
<1>2. CASE m.code[m.pc].op = "retsub" /\ r.pc \in DOMAIN m.code
  <2>1. ~(v < 4)
    BY <1>1, <1>2, LateOps DEF OpsAllowed
  <2>. QED  BY <1>1, <1>2, <2>1
<1>3. CASE Lands(m, v, r.pc)
  BY <1>3 DEF Lands
<1>4. CASE r.pc = m.pc \/ r.pc = Len(m.code)
  BY <1>1, <1>4
<1>. QED  BY <1>2, <1>3, <1>4 DEF Leads

\* The machine with the pointer behind what an instruction leads to.
LEMMA NextPointer ==
  ASSUME NEW m, NEW v, NEW r, Leads(m, v, r), r.pc \in Nat, NEW n, n = [r EXCEPT !.pc = @ + 1]
  PROVE  /\ Sound(n) /\ CallsSound(n) /\ n.pc = r.pc + 1
         /\ n.code = r.code /\ n.heap = r.heap /\ n.ctx = r.ctx
         /\ BuildsSound(n, v) = BuildsSound(r, v)
<1>1. /\ DOMAIN n = Fields /\ n.heap = r.heap /\ n.ctx = r.ctx /\ n.stack = r.stack
      /\ n.args = r.args /\ n.bytecs = r.bytecs /\ n.scratch = r.scratch
      /\ n.code = r.code /\ n.calls = r.calls /\ n.pc = r.pc + 1
  BY DEF Leads, Sound, Fields
<1>2. Sound(n) /\ CallsSound(n)
  BY <1>1 DEF Leads, Sound, CallsSound
<1>3. BuildsSound(n, v) = BuildsSound(r, v)
  BY <1>1, BuildsOfCtx
<1>. QED  BY <1>1, <1>2, <1>3

\* An instruction keeps the invariant.
LEMMA AdvanceInv ==
  ASSUME IInv, NEW ops, NEW r, Advance(ops, r), Ready(vm), Leads(vm, version, r)
  PROVE  IInv'
<1>1. /\ status = "running" /\ OpsAllowed(vm, version) /\ version \in 1..8
      /\ version' = version /\ mode' = mode /\ mode \in {"signature", "application"}
  BY DEF Advance, IInv
<1>2. CASE vm' = vm /\ status' = "failed" /\ UNCHANGED <<cost, pooled>>
  BY <1>1, <1>2 DEF IInv, BudgetHeld
<1>3. CASE /\ vm' = [r EXCEPT !.pc = @ + 1] /\ cost' = cost + RunCost
           /\ pooled' = IF version >= 4 /\ mode = "application" THEN pooled + RunCost ELSE pooled
           /\ status' = IF version < 4 \/ (IF mode = "signature" THEN cost ELSE pooled) + RunCost
                                           <= (IF mode = "signature" THEN MaxLsigCost ELSE Budget)
                        THEN status ELSE "failed"
  <2>1. r.pc \in Nat /\ (version < 4 => r.pc >= vm.pc)
    BY <1>1, PointerMoves
  <2>2. /\ Sound(vm') /\ CallsSound(vm') /\ vm'.pc = r.pc + 1
        /\ vm'.code = r.code /\ BuildsSound(vm', version) = BuildsSound(r, version)
    BY <1>3, <2>1, NextPointer
  <2>3. CodeSound(vm'.code) /\ BuildsSound(vm', version)
    BY <2>2 DEF Leads, CodeStays, IInv
  <2>4. OpsAllowed(vm', version)
    <3>1. /\ DOMAIN vm'.code = DOMAIN vm.code
          /\ \A k \in DOMAIN vm.code : vm'.code[k].op = vm.code[k].op
      <4>1. IsSequence(vm'.code) /\ IsSequence(vm.code) /\ Len(vm'.code) = Len(vm.code)
        BY <2>2, <2>3 DEF CodeSound, Ready, Leads, CodeStays
      <4>2. DOMAIN vm'.code = DOMAIN vm.code
        BY <4>1, SequenceDomain
      <4>. QED  BY <2>2, <4>2 DEF Leads, CodeStays
    <3>. QED  BY <1>1, <3>1 DEF OpsAllowed
  <2>5. ASSUME version < 4
        PROVE  cost' \in Int /\ cost' <= Paid(vm'.code, version, Before(vm'.code, vm'.pc))
    <3>1. RunCost = OpCost(version, vm.code[vm.pc]) /\ OpCost(version, vm.code[vm.pc]) \in Nat
      BY <1>1, <2>5, RunCostPaid, OpCostNat
    <3>2. vm'.code = vm.code /\ IsSequence(vm.code) /\ vm.pc \in DOMAIN vm.code
      BY <2>2, <2>5 DEF Leads, CodeStays, Ready, CodeSound
    <3>3. vm'.pc \in Nat /\ vm'.pc > vm.pc
      BY <2>1, <2>2, <2>5 DEF IInv
    <3>4. OpCost(version, vm.code[vm.pc]) + Paid(vm.code, version, Before(vm.code, vm.pc))
            <= Paid(vm.code, version, Before(vm.code, vm'.pc))
      BY <3>2, <3>3, PaidGoesOn
    <3>5. /\ Paid(vm.code, version, Before(vm.code, vm.pc)) \in Int
          /\ Paid(vm.code, version, Before(vm.code, vm'.pc)) \in Int
      <4>1. \A p : Before(vm.code, p) \in SUBSET DOMAIN vm.code
        BY DEF Before
      <4>. QED  BY <3>2, <4>1, CostsAdd
    <3>6. cost \in Int /\ cost <= Paid(vm.code, version, Before(vm.code, vm.pc))
      BY <2>5 DEF IInv
    <3>. QED  BY <1>3, <3>1, <3>2, <3>4, <3>5, <3>6
  <2>6. BudgetHeld'
    BY <1>1, <1>3 DEF BudgetHeld
  <2>7. vm'.pc \in Nat \ {0}
    BY <2>1, <2>2
  <2>8. status' \in {"running", "failed"}
    BY <1>1, <1>3
  <2>. QED  BY <1>1, <2>2, <2>3, <2>4, <2>5, <2>6, <2>7, <2>8 DEF IInv
<1>. QED  BY <1>2, <1>3 DEF Advance

\* The parser keeps the invariant.
LEMMA ParseInv == IInv /\ Parse => IInv'
<1>. SUFFICES ASSUME IInv, Parse PROVE IInv'
  OBVIOUS
<1>1. /\ status = "parsing" /\ status' \in {"running", "failed"} /\ vm.pc = 1
      /\ vm' = vm /\ version' = version /\ mode' = mode /\ version \in 1..8
  BY DEF Parse, IInv
<1>2. BudgetHeld'
  BY <1>1 DEF BudgetHeld
<1>3. status' = "running" => OpsAllowed(vm, version)
  BY <1>1 DEF Parse, Allowed, OpsAllowed
<1>4. ASSUME version < 4 PROVE cost' \in {0, cost}
  <2>. DEFINE added == {p \in {<<"int", "intcblock">>, <<"byte", "bytecblock">>} :
                          AddsBlock(vm.code, version, p[1], p[2])}
  <2>1. \A x, y : ~AddsBlock(vm.code, version, x, y)
    BY <1>1, <1>4 DEF AddsBlock
  <2>2. added = {}
    <3>. HIDE DEF added
    <3>1. added \subseteq {} 
      BY <2>1 DEF added
    <3>. QED  BY <3>1
  <2>. HIDE DEF added
  <2>3. Cardinality(added) = 0
    BY <2>2, FS_EmptySet
  <2>. QED  BY <2>3 DEF Parse, added
<1>5. ASSUME version < 4
      PROVE  cost' \in Int /\ cost' <= Paid(vm.code, version, Before(vm.code, vm.pc))
  <2>1. DOMAIN vm.code = 1..Len(vm.code) /\ IsSequence(vm.code)
    BY SequenceDomain DEF IInv, CodeSound
  <2>2. Before(vm.code, vm.pc) = {}
    BY <1>1, <2>1 DEF Before
  <2>3. Paid(vm.code, version, Before(vm.code, vm.pc)) = 0
    BY <2>1, <2>2, CostsAdd
  <2>. QED  BY <1>4, <1>5, <2>3 DEF IInv
<1>. QED  BY <1>1, <1>2, <1>3, <1>5 DEF IInv

\* Every step keeps the invariant.
LEMMA NextInv == IInv /\ [Next]_vars => IInv'
<1>. SUFFICES ASSUME IInv, [Next]_vars PROVE IInv'
  OBVIOUS
<1>1. CASE UNCHANGED vars
  BY <1>1 DEF IInv, BudgetHeld, vars
<1>2. CASE Finish
  BY <1>2 DEF IInv, BudgetHeld, Finish
<1>3. CASE Next
  BY <1>2, <1>3, NextSteps, ParseInv, AdvanceInv
<1>. QED  BY <1>1, <1>3

-----------------------------------------------------------------------------
(* Theorems                                                                *)

\* The inductive invariant holds of every program.
THEOREM InductiveInvariant == Spec => []IInv
<1>. QED  BY InitInv, NextInv, PTL DEF Spec

\* Whatever a program does, references of the stack, the scratch space, the arguments,
\* the constants and the ledger lead to arrays, a caller is an instruction callsub, and
\* the state of every application and every account fits its schema.
THEOREM References ==
  Spec => [](/\ Sound(vm) /\ CodeSound(vm.code) /\ CallsSound(vm)
             /\ vm.pc \in Nat \ {0})
<1>1. IInv => Sound(vm) /\ CodeSound(vm.code) /\ CallsSound(vm) /\ vm.pc \in Nat \ {0}
  BY DEF IInv
<1>. QED  BY <1>1, InductiveInvariant, PTL

\* Up to version 3 what a program is charged is covered by the cost that the parser
\* compared.
LEMMA CostCovered == IInv => StaticGasCovers
<1>. SUFFICES ASSUME IInv, version < 4 PROVE cost <= StaticGas(vm.code, version)
  BY DEF StaticGasCovers
<1>1. IsSequence(vm.code) /\ cost \in Int
      /\ cost <= Paid(vm.code, version, Before(vm.code, vm.pc))
  BY DEF IInv, CodeSound
<1>. DEFINE D == DOMAIN vm.code
            E == Before(vm.code, vm.pc)
<1>2. E \in SUBSET D /\ D \in SUBSET DOMAIN vm.code
  BY DEF Before
<1>. HIDE DEF D, E
<1>3. /\ Paid(vm.code, version, E) <= Paid(vm.code, version, D)
      /\ Paid(vm.code, version, E) \in Int /\ Paid(vm.code, version, D) \in Int
  <2>1. E \in SUBSET DOMAIN vm.code
    BY <1>2
  <2>. QED  BY <1>1, <1>2, <2>1, CostsAdd
<1>4. StaticGas(vm.code, version) = Paid(vm.code, version, D)
  BY StaticGasPaid DEF D
<1>. QED  BY <1>1, <1>3, <1>4 DEF E

\* State within its schema, and transactions that name whom they may.
LEMMA StateHeld == IInv => SchemasKept /\ BuildsWithinReach
<1>. SUFFICES ASSUME IInv PROVE SchemasKept /\ BuildsWithinReach
  OBVIOUS
<1>1. CtxSound(vm.heap, vm.ctx) /\ BuildsSound(vm, version)
  BY DEF IInv, Sound
<1>2. \A kv, uints, slices :
        StateSound(vm.heap, kv, uints, slices) => ValidSchema(vm, kv, uints, slices)
  BY DEF StateSound, ValidSchema
<1>3. SchemasKept
  BY <1>1, <1>2 DEF SchemasKept, CtxSound, AppSound, LocalSound
<1>4. BuildsWithinReach
  BY <1>1 DEF BuildsSound, BuildsWithinReach, TxWithin
<1>. QED  BY <1>3, <1>4

\* The limits that the interpreter sets a program are kept: the cost of versions up to
\* 3, the budget of later ones, the schemas of the state that a program writes, and
\* whom the transactions name that it builds.
THEOREM Resources == Spec => []ResourcesHeld
<1>1. IInv => ResourcesHeld
  BY CostCovered, StateHeld DEF IInv, ResourcesHeld
<1>. QED  BY <1>1, InductiveInvariant, PTL

\* What a step does to the machine: nothing, or what an instruction leads to.
LEMMA MachineSteps ==
  ASSUME IInv, [Next]_vars
  PROVE  \/ vm' = vm
         \/ \E r : /\ Ready(vm) /\ Leads(vm, version, r) /\ version \in 1..8
                   /\ vm' = [r EXCEPT !.pc = @ + 1]
                   /\ r.pc \in Nat /\ (version < 4 => r.pc >= vm.pc)
                   /\ vm'.pc = r.pc + 1 /\ vm'.heap = r.heap /\ vm'.ctx = r.ctx
<1>1. CASE UNCHANGED vars
  BY <1>1 DEF vars
<1>2. CASE Parse \/ Finish
  BY <1>2 DEF Parse, Finish
<1>3. ASSUME NEW ops, NEW r, Advance(ops, r), Ready(vm), Leads(vm, version, r)
      PROVE  \/ vm' = vm
             \/ /\ vm' = [r EXCEPT !.pc = @ + 1] /\ version \in 1..8
                /\ r.pc \in Nat /\ (version < 4 => r.pc >= vm.pc)
                /\ vm'.pc = r.pc + 1 /\ vm'.heap = r.heap /\ vm'.ctx = r.ctx
  <2>1. vm' = vm \/ vm' = [r EXCEPT !.pc = @ + 1]
    BY <1>3 DEF Advance
  <2>2. OpsAllowed(vm, version) /\ version \in 1..8
    BY <1>3 DEF Advance, IInv
  <2>3. r.pc \in Nat /\ (version < 4 => r.pc >= vm.pc)
    BY <1>3, <2>2, PointerMoves
  <2>. QED  BY <1>3, <2>1, <2>2, <2>3, NextPointer
<1>. QED  BY <1>1, <1>2, <1>3, NextSteps

\* No instruction but setbit and setbyte changes an array, and these change the one
\* that they pop; no array changes its length.
THEOREM ArraysShared == Spec => ArraysStay
<1>1. ASSUME IInv, [Next]_vars
      PROVE  \A r \in DOMAIN vm.heap :
               /\ r \in DOMAIN vm'.heap /\ Len(vm'.heap[r]) = Len(vm.heap[r])
               /\ vm'.heap[r] # vm.heap[r]
                  => Here.op \in {"setbit", "setbyte"} /\ BytesAt(vm, 2) /\ Top(vm, 2).b = r
  BY <1>1, MachineSteps DEF Leads, Grown, Here
<1>. QED  BY <1>1, InductiveInvariant, PTL DEF Spec, ArraysStay

\* A program changes the state of its own application only.
THEOREM OwnState == Spec => OwnStateOnly
<1>. DEFINE Own == /\ \A n \in DOMAIN vm.ctx.apps : vm'.ctx.apps[n] # vm.ctx.apps[n] => n = AppID(vm)
                   /\ DOMAIN vm.ctx.apps = DOMAIN vm'.ctx.apps
                   /\ \A a \in DOMAIN vm'.ctx.accounts :
                        IF a \in DOMAIN vm.ctx.accounts
                        THEN LET before == vm.ctx.accounts[a]
                                 after == vm'.ctx.accounts[a]
                             IN  /\ [before EXCEPT !.local = <<>>] = [after EXCEPT !.local = <<>>]
                                 /\ DOMAIN before.local = DOMAIN after.local
                                 /\ \A n \in DOMAIN before.local :
                                      after.local[n] # before.local[n] => n = AppID(vm)
                        ELSE vm'.ctx.accounts[a] = NewAccount(a)
<1>1. IInv /\ [Next]_vars => Own
  <2>. SUFFICES ASSUME IInv, [Next]_vars PROVE Own
    OBVIOUS
  <2>1. vm' = vm \/ OwnOnly(vm, vm.ctx, vm'.ctx)
    BY MachineSteps DEF Leads
  <2>. QED  BY <2>1 DEF OwnOnly
<1>. QED  BY <1>1, InductiveInvariant, PTL DEF Spec, OwnStateOnly

\* r is at the definition of the label that counts, or at the last of the labels
\* that follow it; or it stays, if nothing but labels follows.
Goes(r, to) ==
  \E k \in LabelsOf(vm.code, to) :
    /\ Counts(k, to)
    /\ \/ /\ r.pc \in DOMAIN vm.code /\ r.pc >= k /\ \A j \in k..r.pc : IsLabel(vm.code, j)
          /\ r.pc + 1 \in DOMAIN vm.code => ~IsLabel(vm.code, r.pc + 1)
       \/ /\ version >= 4 /\ \A j \in k..Len(vm.code) : IsLabel(vm.code, j)
          /\ r.pc = vm.pc

\* A jump that does not fail, of a machine that is where vm is.
LEMMA JumpGoes ==
  ASSUME IInv, vm.pc \in DOMAIN vm.code, NEW n, DOMAIN n = Fields, n.code = vm.code, n.pc = vm.pc,
         NEW to
  PROVE  /\ version < 4 /\ JumpForward(n, to).ok => Goes(JumpForward(n, to), to)
         /\ version >= 4 /\ JumpToLabel(n, to).ok => Goes(JumpToLabel(n, to), to)
<1>1. /\ IsSequence(vm.code) /\ Len(vm.code) \in Nat /\ DOMAIN vm.code = 1..Len(vm.code)
      /\ version \in 1..8
  BY SequenceDomain DEF IInv, CodeSound
<1>2. ~Fail(n).ok
  BY DEF Fail, Fields
<1>3. ASSUME NEW k \in LabelsOf(vm.code, to)
      PROVE  LET last == LastLabel(vm.code, k)
                 r == [n EXCEPT !.pc = last]
             IN  /\ r.pc = last /\ last \in DOMAIN vm.code /\ last >= k
                 /\ \A j \in k..last : IsLabel(vm.code, j)
                 /\ last + 1 \in DOMAIN vm.code => ~IsLabel(vm.code, last + 1)
  <2>1. k \in DOMAIN vm.code /\ IsLabel(vm.code, k)
    BY DEF LabelsOf
  <2>. QED  BY <1>1, <2>1, LastLabelLands DEF Fields
<1>4. ASSUME version < 4, JumpForward(n, to).ok PROVE Goes(JumpForward(n, to), to)
  <2>. DEFINE targets == {k \in LabelsOf(vm.code, to) : k > vm.pc}
              k == Min(targets)
              r == [n EXCEPT !.pc = LastLabel(vm.code, k)]
  <2>1. targets # {} /\ JumpForward(n, to) = r
    BY <1>2, <1>4 DEF JumpForward
  <2>2. targets \in SUBSET (1..Len(vm.code))
    BY <1>1 DEF LabelsOf
  <2>3. k \in targets /\ \A j \in targets : k <= j
    <3>. HIDE DEF targets
    <3>. QED  BY <1>1, <2>1, <2>2, Ends
  <2>. HIDE DEF k
  <2>4. k \in LabelsOf(vm.code, to) /\ Counts(k, to)
    BY <1>4, <2>3 DEF Counts
  <2>5. Goes(r, to)
    BY <1>3, <2>4 DEF Goes
  <2>. QED  BY <2>1, <2>5
<1>5. ASSUME version >= 4, JumpToLabel(n, to).ok PROVE Goes(JumpToLabel(n, to), to)
  <2>. DEFINE targets == LabelsOf(vm.code, to)
              k == Max(targets)
              last == LastLabel(vm.code, k)
              r == [n EXCEPT !.pc = last]
  <2>1. /\ targets # {}
        /\ \/ last = Len(vm.code) /\ JumpToLabel(n, to) = n
           \/ JumpToLabel(n, to) = r
    BY <1>2, <1>5 DEF JumpToLabel
  <2>2. targets \in SUBSET (1..Len(vm.code))
    BY <1>1 DEF LabelsOf
  <2>3. k \in targets /\ \A j \in targets : k >= j
    <3>. HIDE DEF targets
    <3>. QED  BY <1>1, <2>1, <2>2, Ends
  <2>. HIDE DEF k
  <2>4. k \in LabelsOf(vm.code, to) /\ Counts(k, to)
    <3>1. k \in Int /\ \A j \in targets : j \in Int
      BY <1>1, <2>2, <2>3
    <3>. QED  BY <1>1, <1>5, <2>3, <3>1 DEF Counts
  <2>5. /\ r.pc = last /\ last \in DOMAIN vm.code /\ last >= k
        /\ \A j \in k..last : IsLabel(vm.code, j)
        /\ last + 1 \in DOMAIN vm.code => ~IsLabel(vm.code, last + 1)
    BY <1>3, <2>4
  <2>. HIDE DEF last, r
  <2>6. CASE JumpToLabel(n, to) = r
    BY <2>4, <2>5, <2>6 DEF Goes
  <2>7. CASE last = Len(vm.code) /\ JumpToLabel(n, to) = n
    BY <1>5, <2>4, <2>5, <2>7 DEF Goes
  <2>. QED  BY <2>1, <2>6, <2>7
<1>. QED  BY <1>4, <1>5

\* The instructions that may jump are run by four actions.
JumpOps == {"b", "bz", "bnz", "switch", "callsub"}
LEMMA JumpActions ==
  ASSUME Next, status = "running", Here.op \in JumpOps, ~Finish
  PROVE  Branch \/ BranchIf \/ Switch \/ Callsub
<1>. DEFINE others == ConstantOps \cup StackOps \cup IntegerOps \cup ArrayOps \cup ByteOps
                      \cup LibraryOps \cup TxnOps \cup LedgerOps \cup InnerOps
                      \cup {"global", "gload", "gloads", "gloadss", "gaid", "gaids", "block",
                            "label", "#pragma", "retsub", "return", "assert", "err"}
<1>1. ~Parse
  BY DEF Parse
<1>2. ASSUME NEW ops, NEW r, Advance(ops, r), ops \subseteq others PROVE FALSE
  <2>1. JumpOps \cap others = {}
    BY DEF JumpOps, ConstantOps, StackOps, IntegerOps, ArrayOps, ByteOps, LibraryOps, TxnOps,
           LedgerOps, InnerOps
  <2>2. Here.op \in others
    BY <1>2 DEF Advance
  <2>. QED  BY <2>1, <2>2
<1>3. /\ {"global"} \subseteq others /\ {"label", "#pragma"} \subseteq others
      /\ {"gload"} \subseteq others /\ {"gloads"} \subseteq others /\ {"gloadss"} \subseteq others
      /\ {"gaid"} \subseteq others /\ {"gaids"} \subseteq others /\ {"block"} \subseteq others
      /\ {"retsub"} \subseteq others /\ {"return"} \subseteq others
      /\ {"assert"} \subseteq others /\ {"err"} \subseteq others
  OBVIOUS
<1>4. /\ ConstantOps \subseteq others /\ StackOps \subseteq others /\ IntegerOps \subseteq others
      /\ ArrayOps \subseteq others /\ ByteOps \subseteq others /\ LibraryOps \subseteq others
      /\ TxnOps \subseteq others /\ LedgerOps \subseteq others /\ InnerOps \subseteq others
  OBVIOUS
<1>. HIDE DEF others
<1>5. ~(PushConstant \/ ShuffleStack \/ ComputeIntegers \/ ComputeArrays \/ ComputeBytes)
  BY <1>2, <1>4 DEF PushConstant, ShuffleStack, ComputeIntegers, ComputeArrays, ComputeBytes
<1>6. ~(CallLibrary \/ ReadTransaction \/ AccessLedger \/ BuildTransactions)
  BY <1>2, <1>4 DEF CallLibrary, ReadTransaction, AccessLedger, BuildTransactions
<1>7. ~(ReadGlobal \/ ReadGroup \/ Mark \/ Retsub \/ Return \/ AssertOp \/ Err)
  BY <1>2, <1>3 DEF ReadGlobal, ReadGroup, Mark, Retsub, Return, AssertOp, Err
<1>. QED  BY <1>1, <1>5, <1>6, <1>7 DEF Next

\* What a jump leads to, if it is taken and if it is not.
LEMMA JumpsGo ==
  ASSUME IInv, vm.pc \in DOMAIN vm.code, status = "running", status' = "running",
         Branch \/ BranchIf \/ Switch \/ Callsub
  PROVE  \E r : /\ vm'.pc = r.pc + 1
                /\ \A to : JumpsTo(to) => Goes(r, to)
                /\ (\A to \in Destinations(Here) : ~JumpsTo(to)) => r.pc = vm.pc
<1>. DEFINE Right(r) == /\ \A to : JumpsTo(to) => Goes(r, to)
                        /\ (\A to \in Destinations(Here) : ~JumpsTo(to)) => r.pc = vm.pc
<1>0. /\ DOMAIN vm = Fields /\ version \in 1..8 /\ Ready(vm) /\ OpsAllowed(vm, version)
      /\ Sound(vm) /\ Here = vm.code[vm.pc]
  BY DEF IInv, Sound, Ready, Here
<1>1. ASSUME NEW ops, NEW r, Advance(ops, r), DOMAIN r = Fields, r.ok => Right(r)
      PROVE  \E x : vm'.pc = x.pc + 1 /\ Right(x)
  <2>1. r.ok /\ vm' = [r EXCEPT !.pc = @ + 1]
    BY <1>1 DEF Advance
  <2>2. vm'.pc = r.pc + 1
    BY <1>1, <2>1 DEF Fields
  <2>. QED  BY <1>1, <2>1, <2>2
<1>2. ASSUME NEW n, NEW to
      PROVE  /\ DOMAIN Fail(n) = DOMAIN n
             /\ DOMAIN JumpForward(n, to) = DOMAIN n /\ DOMAIN JumpToLabel(n, to) = DOMAIN n
  BY DEF Fail, JumpForward, JumpToLabel
<1>3. ~Fail(vm).ok
  BY <1>0 DEF Fail, Fields
<1>. DEFINE n == Put(vm, 1, <<>>)
            c == [vm EXCEPT !.calls = Append(@, vm.pc)]
<1>4. DOMAIN n = Fields /\ n.code = vm.code /\ n.pc = vm.pc
  <2>1. Computes(vm, n)
    BY <1>0, NumbersComputed
  <2>. QED  BY <2>1 DEF Computes, SameCode, Sound
<1>5. DOMAIN c = Fields /\ c.code = vm.code /\ c.pc = vm.pc
  BY <1>0 DEF Fields
<1>. HIDE DEF n, c
<1>6. Here.op \in {"switch", "callsub"} => version >= 4
  <2>1. Here.op \in Opcodes(version)
    BY <1>0 DEF OpsAllowed
  <2>. QED  BY <1>0, <2>1, LateOps
<1>7. CASE Branch
  <2>. DEFINE r == Jump(vm, Here.to)
  <2>1. Advance({"b"}, r) /\ Here.op = "b"
    BY <1>7 DEF Branch, Advance
  <2>2. \A to : JumpsTo(to) <=> to = Here.to
    BY <2>1 DEF JumpsTo
  <2>3. r.ok => Goes(r, Here.to)
    BY <1>0, JumpGoes DEF Jump
  <2>4. Here.to \in Destinations(Here) /\ DOMAIN r = Fields
    BY <1>0, <1>2, <2>1 DEF Destinations, Jump
  <2>. HIDE DEF r
  <2>. QED  BY <1>1, <2>1, <2>2, <2>3, <2>4
<1>8. CASE BranchIf
  <2>. DEFINE taken == (U(vm, 0) = 0) = (Here.op = "bz")
              r == IF ~UintAt(vm, 0) THEN Fail(vm) ELSE IF taken THEN Jump(n, Here.to) ELSE n
  <2>1. Advance({"bz", "bnz"}, r) /\ Here.op \in {"bz", "bnz"}
    BY <1>8 DEF BranchIf, Advance, n
  <2>2. \A to : JumpsTo(to) <=> to = Here.to /\ taken
    BY <2>1 DEF JumpsTo
  <2>3. Jump(n, Here.to).ok => Goes(Jump(n, Here.to), Here.to)
    BY <1>0, <1>4, JumpGoes DEF Jump
  <2>4. Here.to \in Destinations(Here) /\ DOMAIN r = Fields
    BY <1>0, <1>2, <1>4, <2>1 DEF Destinations, Jump
  <2>. HIDE DEF taken
  <2>5. r.ok => Right(r)
    BY <1>3, <1>4, <2>2, <2>3, <2>4
  <2>. HIDE DEF r
  <2>. QED  BY <1>1, <2>1, <2>4, <2>5
<1>9. CASE Switch
  <2>. DEFINE k == U(vm, 0) + 1
              to == Here.list[k]
              r == IF ~UintAt(vm, 0) THEN Fail(vm)
                   ELSE IF Here.list = <<>> \/ U(vm, 0) > Len(Here.list) THEN n
                   ELSE IF k \notin DOMAIN Here.list THEN Fail(vm)
                   ELSE JumpToLabel(n, to)
  <2>1. Advance({"switch"}, r) /\ Here.op = "switch"
    BY <1>9 DEF Switch, Advance, n
  <2>2. \A x : JumpsTo(x) <=> ~(U(vm, 0) > Len(Here.list)) /\ k \in DOMAIN Here.list /\ x = to
    BY <2>1 DEF JumpsTo
  <2>3. JumpToLabel(n, to).ok => Goes(JumpToLabel(n, to), to)
    BY <1>0, <1>4, <1>6, <2>1, JumpGoes
  <2>4. DOMAIN r = Fields /\ (k \in DOMAIN Here.list => to \in Destinations(Here))
    BY <1>0, <1>2, <1>4, <2>1 DEF Destinations
  <2>5. Here.list = <<>> => k \notin DOMAIN Here.list
    BY EmptySequence
  <2>. HIDE DEF k, to
  <2>6. r.ok => Right(r)
    BY <1>3, <1>4, <2>2, <2>3, <2>4, <2>5
  <2>. HIDE DEF r
  <2>. QED  BY <1>1, <2>1, <2>4, <2>6
<1>10. CASE Callsub
  <2>. DEFINE r == IF Len(vm.calls) = StackCapacity THEN Fail(vm) ELSE JumpToLabel(c, Here.to)
  <2>1. Advance({"callsub"}, r) /\ Here.op = "callsub"
    BY <1>10 DEF Callsub, Advance, c
  <2>2. \A to : JumpsTo(to) <=> to = Here.to
    BY <2>1 DEF JumpsTo
  <2>3. r.ok => Goes(r, Here.to)
    BY <1>0, <1>3, <1>5, <1>6, <2>1, JumpGoes
  <2>4. Here.to \in Destinations(Here) /\ DOMAIN r = Fields
    BY <1>0, <1>2, <1>5, <2>1 DEF Destinations
  <2>. HIDE DEF r
  <2>. QED  BY <1>1, <2>1, <2>2, <2>3, <2>4
<1>. QED  BY <1>7, <1>8, <1>9, <1>10

\* Every jump that is taken lands behind the definition of its label that counts,
\* except that it may go on where only labels follow; nothing else jumps.
THEOREM Jumps == Spec => JumpsLand
<1>. DEFINE Landed(to) ==
              \E k \in LabelsOf(vm.code, to) :
                /\ Counts(k, to)
                /\ \/ /\ vm'.pc > k /\ \A j \in k..(vm'.pc - 1) : IsLabel(vm.code, j)
                      /\ vm'.pc \in DOMAIN vm.code => ~IsLabel(vm.code, vm'.pc)
                   \/ /\ version >= 4 /\ \A j \in k..Len(vm.code) : IsLabel(vm.code, j)
                      /\ vm'.pc = vm.pc + 1
            Straight == \A to \in Destinations(Here) : ~JumpsTo(to)
            Right == /\ \A to \in Destinations(Here) : JumpsTo(to) => Landed(to)
                     /\ Straight /\ Here.op \notin {"return", "retsub"} => vm'.pc = vm.pc + 1
<1>1. ASSUME IInv, Next, status = "running", status' = "running" PROVE Right
  <2>0. DOMAIN vm.code = 1..Len(vm.code) /\ Len(vm.code) \in Nat /\ ~Finish /\ ~Parse
    BY <1>1, SequenceDomain DEF IInv, CodeSound, Finish, Parse
  <2>1. PICK ops, r : Advance(ops, r) /\ Ready(vm) /\ Leads(vm, version, r)
    BY <1>1, <2>0, NextSteps
  <2>2. vm.pc \in DOMAIN vm.code /\ version \in 1..8 /\ OpsAllowed(vm, version)
    BY <1>1, <2>1 DEF Ready, IInv
  <2>3. CASE Here.op \in JumpOps
    <3>1. PICK x : /\ vm'.pc = x.pc + 1
                   /\ \A to : JumpsTo(to) => Goes(x, to)
                   /\ Straight => x.pc = vm.pc
      BY <1>1, <2>0, <2>2, <2>3, JumpActions, JumpsGo
    <3>2. ASSUME NEW to, Goes(x, to) PROVE Landed(to)
      <4>1. PICK k \in LabelsOf(vm.code, to) :
              /\ Counts(k, to)
              /\ \/ /\ x.pc \in DOMAIN vm.code /\ x.pc >= k /\ \A j \in k..x.pc : IsLabel(vm.code, j)
                    /\ x.pc + 1 \in DOMAIN vm.code => ~IsLabel(vm.code, x.pc + 1)
                 \/ /\ version >= 4 /\ \A j \in k..Len(vm.code) : IsLabel(vm.code, j)
                    /\ x.pc = vm.pc
        BY <3>2 DEF Goes
      <4>2. k \in 1..Len(vm.code)
        BY <2>0 DEF LabelsOf
      <4>3. x.pc \in DOMAIN vm.code /\ x.pc >= k => x.pc + 1 > k /\ (x.pc + 1) - 1 = x.pc
        BY <2>0, <4>2
      <4>. QED  BY <3>1, <4>1, <4>3
    <3>. HIDE DEF Landed
    <3>3. Here.op \notin {"return", "retsub"}
      BY <2>3 DEF JumpOps
    <3>. QED  BY <3>1, <3>2
  <2>4. CASE Here.op \notin JumpOps
    <3>1. Destinations(Here) = {}
      BY <2>4 DEF Destinations, JumpOps
    <3>2. Here.op \notin {"return", "retsub"} => r.pc = vm.pc
      BY <2>1, <3>1 DEF Leads, Lands, Here
    <3>3. vm'.pc = r.pc + 1
      <4>1. vm' = [r EXCEPT !.pc = @ + 1]
        BY <1>1, <2>1 DEF Advance
      <4>2. r.pc \in Nat
        BY <2>1, <2>2, PointerMoves
      <4>. QED  BY <2>1, <4>1, <4>2, NextPointer
    <3>. QED  BY <3>1, <3>2, <3>3
  <2>. QED  BY <2>3, <2>4
<1>2. IInv /\ [Next]_vars => [status = "running" /\ status' = "running" => Right]_vars
  <2>. HIDE DEF Right
  <2>. QED  BY <1>1
<1>. QED  BY <1>2, InductiveInvariant, PTL DEF Spec, JumpsLand
=============================================================================
