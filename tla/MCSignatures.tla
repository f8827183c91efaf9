---------------------------- MODULE MCSignatures ----------------------------
(***************************************************************************)
(* Small instances of Signatures: two members and one other key, programs  *)
(* and transactions of which there are two each.                           *)
(***************************************************************************)
EXTENDS Signatures, TLC

CONSTANTS a, b, c, p, q, t, u, f, g, h

\* Both have to sign; the first is named twice; nobody can sign enough.
Both == [thr |-> 2, addrs |-> <<a, b>>]
Twice == [thr |-> 2, addrs |-> <<a, a, b>>]
TooMany == [thr |-> 3, addrs |-> <<a, b>>]
MCMultisig == {NoParams, Both, Twice, TooMany}

MCFrom == (t :> Both) @@ (u :> a)
MCOutOf == (f :> g) @@ (g :> h) @@ (h :> h)   \* a bound: the third file is its own output

Signature(i, what) == [at |-> i, over |-> what]
Partly(m, i, what) == [of |-> m, sigs |-> {Signature(i, what)}]
Plain(x) == [tx |-> x, sig |-> None, sgnr |-> None, msig |-> NoMsig]

Only(content) == (f :> content) @@ (g :> NoFile) @@ (h :> NoFile)
Begin(program, content, given) ==
  [teal |-> program, files |-> Only(content), gave |-> given]

MCBeginnings ==
  { \* A script works on a program; there is a multisignature over it.
    Begin(p, [is |-> "msig", msig |-> Partly(Both, 1, p)], {<<a, p>>}),
    \* Logic signatures are handed from member to member.
    Begin(None, Lsig([logic |-> p, sig |-> None, msig |-> Partly(Both, 2, p)]), {<<b, p>>}),
    Begin(None, Lsig([logic |-> p, sig |-> None, msig |-> NoMsig]), {}),
    \* Transactions, and groups of them, of which one is signed with a key.
    Begin(None, [is |-> "tx", txs |-> <<Plain(t)>>], {}),
    Begin(None, [is |-> "group", txs |-> <<Plain(t), [Plain(u) EXCEPT !.sig = c, !.sgnr = c]>>],
          {<<c, u>>}),
    Begin(None, [is |-> "group", txs |-> <<[Plain(t) EXCEPT !.msig = Partly(Both, 1, t)], Plain(u)>>],
          {<<a, t>>}) }

\* Accounts hand their authority to a multisignature and to a key.
MCRekeyings == {<<a, Both>>, <<Both, b>>}
=============================================================================
