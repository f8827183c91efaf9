----------------------------- MODULE Signatures -----------------------------
(***************************************************************************)
(* How logic signatures and transactions come by their signatures, and     *)
(* what the runtime makes of them:                                         *)
(*                                                                         *)
(*  - packages/runtime/src/logicsig.ts: a logic signature in memory, signed *)
(*    by one key, or by the members of a multisignature one after another;  *)
(*  - packages/algob: loading logic signatures from files, and the tasks    *)
(*    sign-lsig and sign-multisig, with which members who only share files  *)
(*    sign what they find in one file and write the result to another;      *)
(*  - packages/runtime/src/runtime.ts: the verdicts of validateLsigAndRun,  *)
(*    validateMultisignature and validateSecretKeySignature.                *)
(*                                                                         *)
(* A signature is the fact that a key signed something, a program or a      *)
(* transaction.  The address of a program or of a multisignature, a hash    *)
(* in the code, is the program or the parameters themselves.                *)
(***************************************************************************)
EXTENDS Naturals, Sequences, FiniteSets

CONSTANTS
  Key,            \* key pairs; the address of one is its public key
  Program,        \* texts of programs
  Tx, From,       \* transactions, and the function from them to their senders
  Multisig,       \* parameters: threshold and members in their order
  File,           \* files of the assets directory
  OutOf,          \* the name that a task gives its output
  Beginnings,     \* what there is at first: records of program, files and
                  \* the signatures in them
  Rekeyings,      \* pairs of an address and its new authority
  MaxSignings,    \* a bound
  None

\* Parameters that say nothing: those of an object without fields.
NoParams == [thr |-> 0, addrs |-> <<>>]

\* multisigAddress throws for other parameters.
HasAddress(m) == m.thr > 0 /\ m.thr <= Len(m.addrs)

Addr == Key \cup Program \cup {m \in Multisig : HasAddress(m)}
What == Program \cup Tx

ASSUME SignaturesAssumption ==
  /\ Multisig \subseteq [thr : Nat, addrs : Seq(Key)]
  /\ NoParams \in Multisig
  /\ From \in [Tx -> Addr] /\ OutOf \in [File -> File]
  /\ None \notin Key \cup Program /\ Program \cap Key = {}
  /\ Rekeyings \subseteq Addr \X Addr /\ MaxSignings \in Nat

VARIABLES
  teal,      \* the program in the assets directory, or None
  lsig,      \* the LogicSig in memory, or None
  sigkey,    \* LogicSigAccount.sigkey
  files,     \* File -> content
  auth,      \* what getSpendAddress returns
  gave,      \* who has ever signed what (history)
  signings   \* how often (bounded)

vars == <<teal, lsig, sigkey, files, auth, gave, signings>>

-----------------------------------------------------------------------------
(* Values                                                                  *)

\* EncodedMultisig: at is a place among the members, over what was signed.
Msig == [of : Multisig, sigs : SUBSET [at : Nat, over : What]]
NoMsig == [of |-> NoParams, sigs |-> {}, none |-> TRUE]
MaybeMsig == Msig \cup {NoMsig}

LogicSig == [logic : Program, sig : Key \cup {None}, msig : MaybeMsig]

\* A transaction in a file; sgnr is the key that signed if not the sender's.
SignedTx == [tx : Tx, sig : Key \cup {None}, sgnr : Key \cup {None}, msig : MaybeMsig]

\* A file has a logic signature (.blsig), a multisignature that was taken from
\* one (.lsig), one transaction or a group of them.
NoFile == [is |-> "nothing"]
Content ==
  {NoFile} \cup [is : {"blsig"}, lsig : LogicSig] \cup [is : {"msig"}, msig : Msig]
  \cup [is : {"tx", "group"}, txs : Seq(SignedTx)]

Lsig(l) == [is |-> "blsig", lsig |-> l]

\* The signatures in a multisignature, in a file, were given.
MsigGiven(g, given) ==
  \A s \in g.sigs : s.at \in 1..Len(g.of.addrs) /\ <<g.of.addrs[s.at], s.over>> \in given
LsigGiven(l, given) ==
  MsigGiven(l.msig, given) /\ (l.sig # None => <<l.sig, l.logic>> \in given)
TxGiven(e, given) ==
  /\ MsigGiven(e.msig, given)
  /\ e.sig # None => <<IF e.sgnr # None THEN e.sgnr ELSE From[e.tx], e.tx>> \in given
ContentGiven(c, given) ==
  /\ c.is = "blsig" => LsigGiven(c.lsig, given)
  /\ c.is = "msig" => MsigGiven(c.msig, given)
  /\ c.is \in {"tx", "group"} => \A i \in DOMAIN c.txs : TxGiven(c.txs[i], given)

ASSUME BeginningsAssumption ==
  \A b \in Beginnings :
    /\ b.teal \in Program \cup {None} /\ b.files \in [File -> Content]
    /\ b.gave \in SUBSET (Key \X What)
    /\ \A f \in File : ContentGiven(b.files[f], b.gave)

-----------------------------------------------------------------------------
(* Signing by members                                                      *)

\* The first place of the key among the members.
PlacesOf(m, k) == {i \in 1..Len(m.addrs) : m.addrs[i] = k}
PlaceOf(m, k) == CHOOSE i \in PlacesOf(m, k) : \A j \in PlacesOf(m, k) : i <= j

IsMember(m, k) == PlacesOf(m, k) # {}

\* Mutant: the others are asked to sign again.
WithSignatureOnly(g, k, what) == [g EXCEPT !.sigs = {[at |-> PlaceOf(g.of, k), over |-> what]}]

WithSignature(g, k, what) ==
  LET i == PlaceOf(g.of, k)
  IN  [g EXCEPT !.sigs = {s \in @ : s.at # i} \cup {[at |-> i, over |-> what]}]

Blank(m) == [of |-> m, sigs |-> {}]

-----------------------------------------------------------------------------
(* Verdicts                                                                *)

\* Mutant: the signatures are counted, but not what they are over.
VerifiesUncompared(g, what, a) ==
  /\ HasAddress(g.of) /\ a = g.of
  /\ Cardinality({i \in 1..Len(g.of.addrs) : \E s \in g.sigs : s.at = i}) >= g.of.thr

\* Enough places are signed, and enough of those over this.
Verifies(g, what, a) ==
  /\ HasAddress(g.of) /\ a = g.of
  /\ Cardinality({i \in 1..Len(g.of.addrs) : \E s \in g.sigs : s.at = i}) >= g.of.thr
  /\ Cardinality({i \in 1..Len(g.of.addrs) : [at |-> i, over |-> what] \in g.sigs}) >= g.of.thr

\* LogicSig.verify.
LsigVerifies(l, a) ==
  IF l.sig # None THEN l.sig = a
  ELSE IF l.msig # NoMsig THEN Verifies(l.msig, l.logic, a)
  ELSE l.logic = a

IsDelegated(l) == l.sig # None \/ l.msig # NoMsig

\* LogicSigAccount.address throws for both signatures, and for a signature
\* without a key.
AddressKnown(l) == l.sig # None => l.msig = NoMsig /\ sigkey # None

\* validateLsigAndRun, up to the program: a logic signature that is delegated
\* is one of the sender, not of whom the sender was rekeyed to.
LsigAccepted(x) ==
  LET signer == IF IsDelegated(lsig) THEN x ELSE lsig.logic
  IN  lsig # None /\ AddressKnown(lsig) /\ LsigVerifies(lsig, signer) /\ auth[x] = signer

\* processTransactions, validateMultisignature and validateSecretKeySignature: a
\* transaction that bears no signature at all is not looked at, and applied.
TxAccepted(e) ==
  LET from == From[e.tx]
  IN  /\ e.msig # NoMsig => Verifies(e.msig, e.tx, auth[from])
      /\ e.msig = NoMsig /\ (e.sgnr # None \/ e.sig # None)
           => e.sig # None /\ auth[from] = (IF e.sgnr # None THEN e.sgnr ELSE from)

-----------------------------------------------------------------------------
(* A logic signature in memory                                             *)

Init ==
  /\ \E b \in Beginnings : teal = b.teal /\ files = b.files /\ gave = b.gave
  /\ lsig = None /\ sigkey = None
  /\ auth = [a \in Addr |-> a] /\ signings = 0

EditTeal(p) ==
  /\ teal # None
  /\ teal' = p /\ UNCHANGED <<lsig, sigkey, files, auth, gave, signings>>

\* getLsig, or loadLogic of the runtime.
MakeLsig ==
  /\ teal # None
  /\ lsig' = [logic |-> teal, sig |-> None, msig |-> NoMsig] /\ sigkey' = None
  /\ UNCHANGED <<teal, files, auth, gave, signings>>

\* A LogicSig from a file is put into an account that has no key.
LoadBinary(f) ==
  /\ files[f].is = "blsig"
  /\ lsig' = files[f].lsig /\ sigkey' = None
  /\ UNCHANGED <<teal, files, auth, gave, signings>>

\* The multisignature of the file, of nobody if there is no file, is put on the
\* program of today.
LoadMultiSig(f) ==
  /\ teal # None /\ files[f].is \in {"msig", "nothing"}
  /\ lsig' = [logic |-> teal, sig |-> None,
              msig |-> IF files[f] = NoFile THEN Blank(NoParams) ELSE files[f].msig]
  /\ sigkey' = None
  /\ UNCHANGED <<teal, files, auth, gave, signings>>

Gives(k, what) ==
  /\ signings < MaxSignings /\ signings' = signings + 1
  /\ gave' = gave \cup {<<k, what>>}

Sign(k) ==
  /\ lsig # None
  /\ lsig' = [lsig EXCEPT !.sig = k] /\ sigkey' = k
  /\ Gives(k, lsig.logic) /\ UNCHANGED <<teal, files, auth>>

\* The multisignature begins anew before the key is looked for: if it is not
\* there, the call throws and leaves nothing signed.
SignMultisig(k, m) ==
  /\ lsig # None
  /\ IF IsMember(m, k)
     THEN lsig' = [lsig EXCEPT !.msig = WithSignature(Blank(m), k, lsig.logic)] /\ Gives(k, lsig.logic)
     ELSE lsig' = [lsig EXCEPT !.msig = Blank(m)] /\ UNCHANGED <<gave, signings>>
  /\ UNCHANGED <<teal, sigkey, files, auth>>

AppendToMultisig(k) ==
  /\ lsig # None /\ lsig.msig # NoMsig /\ IsMember(lsig.msig.of, k)
  /\ lsig' = [lsig EXCEPT !.msig = WithSignature(@, k, lsig.logic)]
  /\ Gives(k, lsig.logic) /\ UNCHANGED <<teal, sigkey, files, auth>>

\* algob's signLogicSigMultiSig begins a multisignature only where there is none.
SignLogicSigMultiSig(k, m) ==
  /\ lsig # None
  /\ IF lsig.msig = NoMsig THEN SignMultisig(k, m) ELSE AppendToMultisig(k)

-----------------------------------------------------------------------------
(* The tasks that sign files                                               *)

WriteToFile(out, content, force) ==
  IF files[out] = NoFile \/ force THEN files' = [files EXCEPT ![out] = content]
  ELSE UNCHANGED files

\* sign-lsig: a member signs where there is a multisignature; otherwise the key
\* alone does.
SignedLsig(l, k) ==
  IF l.msig # NoMsig THEN [l EXCEPT !.msig = WithSignature(@, k, l.logic)]
  ELSE [l EXCEPT !.sig = k]

SignLsigFile(k, f, out, force) ==
  /\ files[f].is = "blsig"
  /\ LET l == files[f].lsig
     IN  /\ l.msig # NoMsig => IsMember(l.msig.of, k)
         /\ WriteToFile(out, Lsig(SignedLsig(l, k)), force)
         /\ Gives(k, l.logic)
  /\ UNCHANGED <<teal, lsig, sigkey, auth>>

\* signMultiSig: parameters are asked for if nobody has signed, and not looked
\* at otherwise; a transaction that is signed with one key is refused.
IsSigned(e) == e.sig # None \/ e.msig # NoMsig
Begun(e, m) == IF IsSigned(e) THEN e.msig ELSE Blank(m)
MaySign(e, k, m) ==
  /\ IsSigned(e) => e.msig # NoMsig
  /\ IsMember(Begun(e, m).of, k)
SignMultiSig(e, k, m) == [e EXCEPT !.msig = WithSignature(Begun(e, m), k, e.tx)]

\* sign-multisig: of a group one transaction is signed, which has to be named.
SignTxFile(k, f, i, m, out, force) ==
  /\ files[f].is \in {"tx", "group"} /\ i \in DOMAIN files[f].txs
  /\ LET e == files[f].txs[i]
     IN  /\ MaySign(e, k, m)
         /\ WriteToFile(out, [files[f] EXCEPT !.txs[i] = SignMultiSig(e, k, m)], force)
         /\ Gives(k, e.tx)
  /\ UNCHANGED <<teal, lsig, sigkey, auth>>

-----------------------------------------------------------------------------
(* The specification                                                       *)

\* A transaction that rekeys its sender.
Rekey(x, y) == auth' = [auth EXCEPT ![x] = y] /\ UNCHANGED <<teal, lsig, sigkey, files, gave, signings>>

Outputs(f) == {f, OutOf[f]}

Next ==
  \/ \E p \in Program : EditTeal(p)
  \/ MakeLsig
  \/ \E f \in File : LoadBinary(f) \/ LoadMultiSig(f)
  \/ \E k \in Key : Sign(k) \/ AppendToMultisig(k)
  \/ \E k \in Key, m \in Multisig : SignMultisig(k, m) \/ SignLogicSigMultiSig(k, m)
  \/ \E k \in Key, f \in File, force \in BOOLEAN :
       \E out \in Outputs(f) :
         \/ SignLsigFile(k, f, out, force)
         \/ \E i \in 1..2, m \in Multisig : SignTxFile(k, f, i, m, out, force)
  \/ \E r \in Rekeyings : Rekey(r[1], r[2])

Spec == Init /\ [][Next]_vars

-----------------------------------------------------------------------------
(* Properties                                                              *)

\* Every variable has its type.
TypeOK ==
  /\ teal \in Program \cup {None} /\ lsig \in LogicSig \cup {None} /\ sigkey \in Key \cup {None}
  /\ files \in [File -> Content]
  /\ auth \in [Addr -> Addr]
  /\ gave \in SUBSET (Key \X What) /\ signings \in Nat

\* An address agrees to something: it is the program itself, a key that signed
\* it, or a multisignature of which enough members did.
Agrees(a, what) ==
  \/ a = what
  \/ <<a, what>> \in gave
  \/ /\ a \in Multisig
     /\ Cardinality({i \in 1..Len(a.addrs) : <<a.addrs[i], what>> \in gave}) >= a.thr

Transactions(f) == IF files[f].is \in {"tx", "group"} THEN {files[f].txs[i] : i \in DOMAIN files[f].txs}
                   ELSE {}

\* Whatever was signed, begun anew, copied, overwritten, loaded with another
\* program or rekeyed in between: a signature is accepted only if the address
\* that may spend from the sender agrees to this very program or transaction.  Of
\* a transaction that bears no signature nothing is claimed: the runtime applies
\* it with nobody's consent (processTransactions has no case for it,
\* ctx.ts:848-858).
OnlyByConsent ==
  /\ \A x \in Addr : LsigAccepted(x) => Agrees(auth[x], lsig.logic)
  /\ \A f \in File : \A e \in Transactions(f) :
       IsSigned(e) /\ TxAccepted(e) => Agrees(auth[From[e.tx]], e.tx)

\* No place that was signed is empty afterwards.
Kept(g, h) == h.of = g.of /\ \A s \in g.sigs : \E t \in h.sigs : t.at = s.at
SignedBy(g, k, what) ==
  \E i \in 1..Len(g.of.addrs) : g.of.addrs[i] = k /\ [at |-> i, over |-> what] \in g.sigs

\* What was signed by k in the content d carries all signatures of c.
Carries(c, d, k) ==
  /\ d.is = c.is
  /\ c.is = "blsig" /\ c.lsig.msig # NoMsig
     => Kept(c.lsig.msig, d.lsig.msig) /\ SignedBy(d.lsig.msig, k, c.lsig.logic)
  /\ c.is \in {"tx", "group"}
     => /\ \A j \in DOMAIN c.txs :
             c.txs[j].msig # NoMsig => Kept(c.txs[j].msig, d.txs[j].msig)
        /\ \E i \in DOMAIN c.txs : SignedBy(d.txs[i].msig, k, c.txs[i].tx)

\* Members who sign one after another lose nothing of what the others did: who
\* appends to a multisignature, in memory or from one file to another, finds
\* every earlier signature in the result beside the own one.
SignaturesKept ==
  [][ /\ \A k \in Key :
           AppendToMultisig(k) => Kept(lsig.msig, lsig'.msig) /\ SignedBy(lsig'.msig, k, lsig'.logic)
      /\ \A out \in File :
           files'[out] # files[out]
           => \E source \in File, k \in Key :
                out \in Outputs(source) /\ Carries(files[source], files'[out], k) ]_vars
=============================================================================
