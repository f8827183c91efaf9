-------------------------- MODULE SignaturesProofs --------------------------
(***************************************************************************)
(* Theorems about Signatures, for every set of keys, programs, files and   *)
(* multisignatures.                                                        *)
(*                                                                         *)
(* The inductive invariant says, besides the types, that every signature    *)
(* in memory or in a file was given.                                       *)
(***************************************************************************)
EXTENDS Signatures, FiniteSetTheorems, TLAPS

\* Whatever is signed was signed by the one it names.
Given ==
  /\ lsig # None => LsigGiven(lsig, gave)
  /\ \A f \in File : ContentGiven(files[f], gave)

IInv == TypeOK /\ Given

-----------------------------------------------------------------------------
(* Members and their places                                                *)

\* A set of places that is not empty has a first one: the one with the smallest
\* interval before it, and intervals are finite sets.
LEMMA FirstExists ==
  ASSUME NEW T \in SUBSET Nat, T # {}
  PROVE  \E i \in T : \A j \in T : i <= j
<1>. DEFINE D == {1..i : i \in T}
            R == StrictSubsetOrdering(Nat)
<1>1. IsWellFoundedOn(R, FiniteSubsetsOf(Nat))
  BY FS_StrictSubsetOrderingWellFounded
<1>2. D \subseteq FiniteSubsetsOf(Nat)
  <2>. SUFFICES ASSUME NEW i \in T PROVE 1..i \in FiniteSubsetsOf(Nat)
    OBVIOUS
  <2>1. IsFiniteSet(1..i)
    BY FS_Interval
  <2>2. 1..i \subseteq Nat
    OBVIOUS
  <2>. QED  BY <2>1, <2>2 DEF FiniteSubsetsOf
<1>3. D # {}
  OBVIOUS
<1>4. PICK d \in D : \A e \in D : <<e, d>> \notin R
  <2>. HIDE DEF D, R
  <2>. QED  BY <1>1, <1>2, <1>3, WFMin
<1>5. PICK i \in T : d = 1..i
  OBVIOUS
<1>6. ASSUME NEW j \in T PROVE i <= j
  <2>. SUFFICES ASSUME j < i PROVE FALSE
    OBVIOUS
  <2>1. 1..j \subseteq 1..i /\ 1..j \subseteq Nat /\ 1..i \subseteq Nat
    OBVIOUS
  <2>2. i \in 1..i /\ i \notin 1..j
    OBVIOUS
  <2>3. 1..j # 1..i
    BY <2>2
  <2>4. <<1..j, 1..i>> \in R
    BY <2>1, <2>3 DEF StrictSubsetOrdering
  <2>. QED  BY <2>4, <1>4, <1>5
<1>. QED  BY <1>6

\* Who is a member has a place, and it is a place of that key.
LEMMA PlaceIsMembers ==
  ASSUME NEW m \in Multisig, NEW k, IsMember(m, k)
  PROVE  PlaceOf(m, k) \in 1..Len(m.addrs) /\ m.addrs[PlaceOf(m, k)] = k
<1>1. Len(m.addrs) \in Nat
  BY SignaturesAssumption DEF SignaturesAssumption
<1>2. PlacesOf(m, k) \in SUBSET Nat /\ PlacesOf(m, k) # {}
  BY <1>1 DEF PlacesOf, IsMember
<1>3. \E i \in PlacesOf(m, k) : \A j \in PlacesOf(m, k) : i <= j
  BY <1>2, FirstExists
<1>4. PlaceOf(m, k) \in PlacesOf(m, k)
  BY <1>3 DEF PlaceOf
<1>. QED  BY <1>4 DEF PlacesOf

\* Signing as a member yields a multisignature of the same members.
LEMMA WithSignatureType ==
  ASSUME NEW g \in Msig, NEW k, NEW what \in What, IsMember(g.of, k)
  PROVE  WithSignature(g, k, what) \in Msig
<1>1. g.of \in Multisig /\ g.sigs \in SUBSET [at : Nat, over : What]
  BY DEF Msig
<1>2. PlaceOf(g.of, k) \in Nat
  BY <1>1, PlaceIsMembers, SignaturesAssumption DEF SignaturesAssumption
<1>3. [at |-> PlaceOf(g.of, k), over |-> what] \in [at : Nat, over : What]
  BY <1>2
<1>. QED  BY <1>1, <1>3 DEF WithSignature, Msig

\* What was given before and is given now covers the multisignature that results.
LEMMA WithSignatureGiven ==
  ASSUME NEW g \in Msig, NEW k, NEW what \in What, IsMember(g.of, k),
         NEW given, MsigGiven(g, given)
  PROVE  MsigGiven(WithSignature(g, k, what), given \cup {<<k, what>>})
<1>. DEFINE n == [at |-> PlaceOf(g.of, k), over |-> what]
            h == WithSignature(g, k, what)
<1>1. h.of = g.of /\ h.sigs \subseteq g.sigs \cup {n}
  BY DEF WithSignature, Msig
<1>2. n.at \in 1..Len(g.of.addrs) /\ g.of.addrs[n.at] = k
  BY PlaceIsMembers DEF Msig
<1>3. ASSUME NEW s \in h.sigs
      PROVE  /\ s.at \in 1..Len(h.of.addrs)
             /\ <<h.of.addrs[s.at], s.over>> \in given \cup {<<k, what>>}
  <2>1. CASE s \in g.sigs
    BY <2>1, <1>1 DEF MsigGiven
  <2>2. CASE s = n
    BY <2>2, <1>1, <1>2
  <2>. QED  BY <1>1, <2>1, <2>2
<1>4. MsigGiven(h, given \cup {<<k, what>>})
  <2>. HIDE DEF h
  <2>. QED  BY <1>3 DEF MsigGiven
<1>. QED  BY <1>4

\* What is signed by nobody is a multisignature.
LEMMA BlankType ==
  ASSUME NEW m \in Multisig
  PROVE  Blank(m) \in Msig /\ \A given : MsigGiven(Blank(m), given)
BY DEF Blank, Msig, MsigGiven

-----------------------------------------------------------------------------
(* What was given stays given                                              *)

LEMMA LsigMonotone ==
  ASSUME NEW l, NEW G, NEW H, G \subseteq H, LsigGiven(l, G)
  PROVE  LsigGiven(l, H)
BY DEF LsigGiven, MsigGiven

LEMMA TxMonotone ==
  ASSUME NEW e, NEW G, NEW H, G \subseteq H, TxGiven(e, G)
  PROVE  TxGiven(e, H)
BY DEF TxGiven, MsigGiven

LEMMA ContentMonotone ==
  ASSUME NEW c, NEW G, NEW H, G \subseteq H, ContentGiven(c, G)
  PROVE  ContentGiven(c, H)
<1>1. c.is = "blsig" => LsigGiven(c.lsig, H)
  BY LsigMonotone DEF ContentGiven
<1>2. c.is = "msig" => MsigGiven(c.msig, H)
  BY DEF ContentGiven, MsigGiven
<1>3. c.is \in {"tx", "group"} => \A i \in DOMAIN c.txs : TxGiven(c.txs[i], H)
  BY TxMonotone DEF ContentGiven
<1>. QED  BY <1>1, <1>2, <1>3 DEF ContentGiven

-----------------------------------------------------------------------------
(* Members who agree                                                       *)

\* A multisignature that verifies was signed by as many members as it takes.
LEMMA VerifiedAgrees ==
  ASSUME NEW g \in MaybeMsig, NEW what, NEW a, MsigGiven(g, gave), g # NoMsig,
         Verifies(g, what, a)
  PROVE  Agrees(a, what)
<1>. DEFINE signed == {i \in 1..Len(g.of.addrs) : [at |-> i, over |-> what] \in g.sigs}
            agree == {i \in 1..Len(a.addrs) : <<a.addrs[i], what>> \in gave}
<1>1. g \in Msig /\ a = g.of /\ a \in Multisig
  BY DEF MaybeMsig, Msig, Verifies
<1>2. a.thr \in Nat /\ Len(a.addrs) \in Nat
  BY <1>1, SignaturesAssumption DEF SignaturesAssumption
<1>3. Cardinality(signed) >= a.thr
  BY <1>1 DEF Verifies
<1>4. signed \subseteq agree
  <2>. SUFFICES ASSUME NEW i \in signed PROVE i \in agree
    OBVIOUS
  <2>. DEFINE s == [at |-> i, over |-> what]
  <2>1. s \in g.sigs /\ s.at = i /\ s.over = what
    OBVIOUS
  <2>2. <<g.of.addrs[i], what>> \in gave
    BY <2>1 DEF MsigGiven
  <2>. QED  BY <2>2, <1>1
<1>5. IsFiniteSet(agree)
  <2>1. agree \in SUBSET (1..Len(a.addrs))
    OBVIOUS
  <2>2. IsFiniteSet(1..Len(a.addrs))
    BY <1>2, FS_Interval
  <2>. QED  BY <2>1, <2>2, FS_Subset
<1>6. Cardinality(signed) \in Nat /\ Cardinality(agree) \in Nat /\ Cardinality(signed) <= Cardinality(agree)
  BY <1>4, <1>5, FS_Subset, FS_CardinalityType
<1>7. Cardinality(agree) >= a.thr
  <2>. HIDE DEF signed, agree
  <2>. QED  BY <1>2, <1>3, <1>6
<1>. QED  BY <1>1, <1>7 DEF Agrees

-----------------------------------------------------------------------------
(* Contents of files                                                       *)

LEMMA ContentTypes ==
  ASSUME NEW c \in Content
  PROVE  /\ c.is = "blsig" => c.lsig \in LogicSig
         /\ c.is = "msig" => c.msig \in Msig
         /\ c.is \in {"tx", "group"} =>
              c \in [is : {"tx", "group"}, txs : Seq(SignedTx)]
         /\ c.is = "nothing" => c = NoFile
<1>1. CASE c \in [is : {"blsig"}, lsig : LogicSig]
  BY <1>1
<1>2. CASE c \in [is : {"msig"}, msig : Msig]
  BY <1>2
<1>3. CASE c \in [is : {"tx", "group"}, txs : Seq(SignedTx)]
  BY <1>3
<1>4. CASE c = NoFile
  BY <1>4 DEF NoFile
<1>. QED  BY <1>1, <1>2, <1>3, <1>4 DEF Content

\* A logic signature that nobody has signed is one, and so is a signed one.
LEMMA LsigOf ==
  ASSUME NEW l \in LogicSig, NEW n \in Key, NEW g \in Msig
  PROVE  /\ [l EXCEPT !.sig = n] \in LogicSig
         /\ [l EXCEPT !.msig = g] \in LogicSig
         /\ l.logic \in What
BY DEF LogicSig, MaybeMsig, What

\* What a member, or a single key, makes of a logic signature.
LEMMA SignedLsigGiven ==
  ASSUME NEW l \in LogicSig, NEW k \in Key, NEW given, LsigGiven(l, given),
         l.msig # NoMsig => IsMember(l.msig.of, k)
  PROVE  /\ SignedLsig(l, k) \in LogicSig
         /\ LsigGiven(SignedLsig(l, k), given \cup {<<k, l.logic>>})
<1>. DEFINE now == given \cup {<<k, l.logic>>}
<1>0. l.logic \in What /\ LsigGiven(l, now)
  BY LsigMonotone DEF LogicSig, What
<1>1. CASE l.msig = NoMsig
  <2>1. SignedLsig(l, k) = [l EXCEPT !.sig = k]
    BY <1>1 DEF SignedLsig
  <2>2. /\ [l EXCEPT !.sig = k].msig = l.msig
        /\ [l EXCEPT !.sig = k].logic = l.logic
        /\ [l EXCEPT !.sig = k].sig = k
        /\ [l EXCEPT !.sig = k] \in LogicSig
    BY DEF LogicSig
  <2>. QED  BY <1>0, <2>1, <2>2 DEF LsigGiven
<1>2. CASE l.msig # NoMsig
  <2>. DEFINE h == WithSignature(l.msig, k, l.logic)
  <2>1. l.msig \in Msig
    BY <1>2 DEF LogicSig, MaybeMsig
  <2>2. h \in Msig /\ MsigGiven(h, now)
    BY <1>0, <1>2, <2>1, WithSignatureType, WithSignatureGiven DEF LsigGiven
  <2>3. SignedLsig(l, k) = [l EXCEPT !.msig = h]
    BY <1>2 DEF SignedLsig
  <2>. HIDE DEF h
  <2>4. /\ [l EXCEPT !.msig = h].msig = h
        /\ [l EXCEPT !.msig = h].logic = l.logic
        /\ [l EXCEPT !.msig = h].sig = l.sig
        /\ [l EXCEPT !.msig = h] \in LogicSig
    BY <2>2 DEF LogicSig, MaybeMsig
  <2>. QED  BY <1>0, <2>2, <2>3, <2>4 DEF LsigGiven
<1>. QED  BY <1>1, <1>2

\* What a member makes of a transaction.
LEMMA SignedTxGiven ==
  ASSUME NEW e \in SignedTx, NEW k \in Key, NEW m \in Multisig, NEW given,
         TxGiven(e, given), MaySign(e, k, m)
  PROVE  /\ SignMultiSig(e, k, m) \in SignedTx
         /\ TxGiven(SignMultiSig(e, k, m), given \cup {<<k, e.tx>>})
<1>. DEFINE now == given \cup {<<k, e.tx>>}
            b == Begun(e, m)
            h == WithSignature(b, k, e.tx)
<1>1. e.tx \in What /\ TxGiven(e, now)
  BY TxMonotone DEF SignedTx, What
<1>2. b \in Msig /\ MsigGiven(b, given)
  <2>1. CASE IsSigned(e)
    BY <2>1 DEF Begun, MaySign, SignedTx, MaybeMsig, TxGiven
  <2>2. CASE ~IsSigned(e)
    BY <2>2, BlankType DEF Begun
  <2>. QED  BY <2>1, <2>2
<1>3. IsMember(b.of, k)
  BY DEF MaySign
<1>4. h \in Msig /\ MsigGiven(h, now)
  <2>. HIDE DEF b
  <2>. QED  BY <1>1, <1>2, <1>3, WithSignatureType, WithSignatureGiven
<1>5. SignMultiSig(e, k, m) = [e EXCEPT !.msig = h]
  BY DEF SignMultiSig
<1>. HIDE DEF h
<1>6. /\ [e EXCEPT !.msig = h].msig = h /\ [e EXCEPT !.msig = h].sig = e.sig
      /\ [e EXCEPT !.msig = h].tx = e.tx /\ [e EXCEPT !.msig = h].sgnr = e.sgnr
      /\ [e EXCEPT !.msig = h] \in SignedTx
  BY <1>4 DEF SignedTx, MaybeMsig
<1>. QED  BY <1>1, <1>4, <1>5, <1>6 DEF TxGiven

-----------------------------------------------------------------------------
(* The invariant                                                           *)

\* At first there is what somebody gave.
LEMMA InitIInv == Init => IInv
<1>. SUFFICES ASSUME Init PROVE IInv
  OBVIOUS
<1>1. PICK b \in Beginnings : teal = b.teal /\ files = b.files /\ gave = b.gave
  BY DEF Init
<1>2. TypeOK
  BY <1>1, BeginningsAssumption DEF BeginningsAssumption, Init, TypeOK
<1>3. Given
  BY <1>1, BeginningsAssumption DEF BeginningsAssumption, Init, Given
<1>. QED  BY <1>2, <1>3 DEF IInv

\* Who gives a signature takes none away.
LEMMA GivesTypes ==
  ASSUME IInv, NEW k \in Key, NEW what \in What, Gives(k, what)
  PROVE  /\ gave' = gave \cup {<<k, what>>} /\ gave \subseteq gave'
         /\ gave' \in SUBSET (Key \X What) /\ signings' \in Nat
BY DEF IInv, TypeOK, Gives

\* A step that changes nothing but the logic signature in memory.
LEMMA LsigStep ==
  ASSUME IInv, lsig' \in LogicSig, sigkey' \in Key \cup {None}, UNCHANGED <<teal, files, auth>>,
         gave \subseteq gave', gave' \in SUBSET (Key \X What), signings' \in Nat,
         LsigGiven(lsig', gave')
  PROVE  IInv'
<1>1. TypeOK'
  BY DEF IInv, TypeOK
<1>2. \A f \in File : ContentGiven(files'[f], gave')
  BY ContentMonotone DEF IInv, Given
<1>3. Given'
  BY <1>2 DEF Given
<1>. QED  BY <1>1, <1>3 DEF IInv

\* A step that changes nothing but what a file has.
LEMMA FileStep ==
  ASSUME IInv, NEW f \in File, NEW c \in Content, NEW force \in BOOLEAN,
         WriteToFile(f, c, force), UNCHANGED <<teal, lsig, sigkey, auth>>,
         gave \subseteq gave', gave' \in SUBSET (Key \X What), signings' \in Nat,
         ContentGiven(c, gave')
  PROVE  IInv'
<1>1. files' \in [File -> Content] /\ \A g \in File : files'[g] \in {files[g], c}
  BY DEF IInv, TypeOK, WriteToFile
<1>2. TypeOK'
  BY <1>1 DEF IInv, TypeOK
<1>3. \A g \in File : ContentGiven(files[g], gave')
  BY ContentMonotone DEF IInv, Given
<1>4. \A g \in File : ContentGiven(files'[g], gave')
  BY <1>1, <1>3
<1>5. lsig' # None => LsigGiven(lsig', gave')
  BY LsigMonotone DEF IInv, Given
<1>6. Given'
  BY <1>4, <1>5 DEF Given
<1>. QED  BY <1>2, <1>6 DEF IInv

LEMMA MakeLsigIInv ==
  ASSUME IInv, MakeLsig
  PROVE  IInv'
<1>1. teal \in Program
  BY DEF MakeLsig, IInv, TypeOK
<1>2. lsig' \in LogicSig /\ LsigGiven(lsig', gave')
  BY <1>1 DEF MakeLsig, LogicSig, MaybeMsig, NoMsig, LsigGiven, MsigGiven
<1>. QED  BY <1>2, LsigStep DEF MakeLsig, IInv, TypeOK

LEMMA LoadBinaryIInv ==
  ASSUME IInv, NEW f \in File, LoadBinary(f)
  PROVE  IInv'
<1>1. files[f] \in Content /\ files[f].is = "blsig" /\ ContentGiven(files[f], gave)
  BY DEF LoadBinary, IInv, TypeOK, Given
<1>2. lsig' \in LogicSig /\ LsigGiven(lsig', gave')
  BY <1>1, ContentTypes DEF LoadBinary, ContentGiven
<1>. QED  BY <1>2, LsigStep DEF LoadBinary, IInv, TypeOK

LEMMA LoadMultiSigIInv ==
  ASSUME IInv, NEW f \in File, LoadMultiSig(f)
  PROVE  IInv'
<1>. DEFINE g == IF files[f] = NoFile THEN Blank(NoParams) ELSE files[f].msig
<1>1. files[f] \in Content /\ ContentGiven(files[f], gave) /\ teal \in Program
  BY DEF LoadMultiSig, IInv, TypeOK, Given
<1>2. g \in Msig /\ MsigGiven(g, gave)
  <2>1. CASE files[f] = NoFile
    BY <2>1, BlankType, SignaturesAssumption DEF SignaturesAssumption
  <2>2. CASE files[f] # NoFile
    BY <1>1, <2>2, ContentTypes DEF LoadMultiSig, ContentGiven
  <2>. QED  BY <2>1, <2>2
<1>3. lsig' = [logic |-> teal, sig |-> None, msig |-> g]
  BY DEF LoadMultiSig
<1>4. lsig' \in LogicSig /\ LsigGiven(lsig', gave')
  <2>. HIDE DEF g
  <2>. QED  BY <1>1, <1>2, <1>3 DEF LoadMultiSig, LogicSig, MaybeMsig, LsigGiven
<1>. QED  BY <1>4, LsigStep DEF LoadMultiSig, IInv, TypeOK

LEMMA SignIInv ==
  ASSUME IInv, NEW k \in Key, Sign(k)
  PROVE  IInv'
<1>1. lsig \in LogicSig /\ LsigGiven(lsig, gave)
  BY DEF Sign, IInv, TypeOK, Given
<1>2. lsig.logic \in What
  BY <1>1 DEF LogicSig, What
<1>3. /\ gave' = gave \cup {<<k, lsig.logic>>} /\ gave \subseteq gave'
      /\ gave' \in SUBSET (Key \X What) /\ signings' \in Nat
  BY <1>2, GivesTypes DEF Sign
<1>4. lsig' \in LogicSig /\ lsig'.sig = k /\ lsig'.logic = lsig.logic /\ lsig'.msig = lsig.msig
  BY <1>1 DEF Sign, LogicSig
<1>5. LsigGiven(lsig', gave')
  BY <1>1, <1>3, <1>4, LsigMonotone DEF LsigGiven
<1>. QED  BY <1>3, <1>4, <1>5, LsigStep DEF Sign

\* A multisignature over the logic in memory takes the place of what was there.
LEMMA NewMsig ==
  ASSUME IInv, lsig # None, NEW g \in Msig, MsigGiven(g, gave'), gave \subseteq gave',
         gave' \in SUBSET (Key \X What), signings' \in Nat,
         lsig' = [lsig EXCEPT !.msig = g], UNCHANGED <<teal, sigkey, files, auth>>
  PROVE  IInv'
<1>1. lsig \in LogicSig /\ LsigGiven(lsig, gave)
  BY DEF IInv, TypeOK, Given
<1>2. lsig' \in LogicSig /\ lsig'.sig = lsig.sig /\ lsig'.logic = lsig.logic /\ lsig'.msig = g
  BY <1>1 DEF LogicSig, MaybeMsig
<1>3. LsigGiven(lsig', gave')
  BY <1>1, <1>2 DEF LsigGiven
<1>4. sigkey' \in Key \cup {None}
  BY DEF IInv, TypeOK
<1>. QED  BY <1>2, <1>3, <1>4, LsigStep

LEMMA SignMultisigIInv ==
  ASSUME IInv, NEW k \in Key, NEW m \in Multisig, SignMultisig(k, m)
  PROVE  IInv'
<1>1. lsig # None /\ lsig.logic \in What
  BY DEF SignMultisig, IInv, TypeOK, LogicSig, What
<1>2. Blank(m) \in Msig /\ Blank(m).of = m /\ \A given : MsigGiven(Blank(m), given)
  BY BlankType DEF Blank
<1>3. CASE IsMember(m, k)
  <2>. DEFINE g == WithSignature(Blank(m), k, lsig.logic)
  <2>1. /\ gave' = gave \cup {<<k, lsig.logic>>} /\ gave \subseteq gave'
        /\ gave' \in SUBSET (Key \X What) /\ signings' \in Nat
    BY <1>1, <1>3, GivesTypes DEF SignMultisig
  <2>2. g \in Msig /\ MsigGiven(g, gave')
    BY <1>1, <1>2, <1>3, <2>1, WithSignatureType, WithSignatureGiven
  <2>3. lsig' = [lsig EXCEPT !.msig = g] /\ UNCHANGED <<teal, sigkey, files, auth>>
    BY <1>3 DEF SignMultisig
  <2>. HIDE DEF g
  <2>. QED  BY <1>1, <2>1, <2>2, <2>3, NewMsig
<1>4. CASE ~IsMember(m, k)
  <2>1. /\ lsig' = [lsig EXCEPT !.msig = Blank(m)] /\ UNCHANGED <<teal, sigkey, files, auth>>
        /\ UNCHANGED <<gave, signings>>
    BY <1>4 DEF SignMultisig
  <2>2. gave \subseteq gave' /\ gave' \in SUBSET (Key \X What) /\ signings' \in Nat
    BY <2>1 DEF IInv, TypeOK
  <2>. QED  BY <1>1, <1>2, <2>1, <2>2, NewMsig
<1>. QED  BY <1>3, <1>4

LEMMA AppendToMultisigIInv ==
  ASSUME IInv, NEW k \in Key, AppendToMultisig(k)
  PROVE  IInv'
<1>. DEFINE g == WithSignature(lsig.msig, k, lsig.logic)
<1>1. lsig \in LogicSig /\ LsigGiven(lsig, gave) /\ lsig # None
  BY DEF AppendToMultisig, IInv, TypeOK, Given
<1>2. lsig.msig \in Msig /\ MsigGiven(lsig.msig, gave) /\ lsig.logic \in What
  BY <1>1 DEF AppendToMultisig, LogicSig, MaybeMsig, LsigGiven, What
<1>3. /\ gave' = gave \cup {<<k, lsig.logic>>} /\ gave \subseteq gave'
      /\ gave' \in SUBSET (Key \X What) /\ signings' \in Nat
  BY <1>2, GivesTypes DEF AppendToMultisig
<1>4. g \in Msig /\ MsigGiven(g, gave')
  BY <1>2, <1>3, WithSignatureType, WithSignatureGiven DEF AppendToMultisig
<1>5. lsig' = [lsig EXCEPT !.msig = g] /\ UNCHANGED <<teal, sigkey, files, auth>>
  BY DEF AppendToMultisig
<1>. HIDE DEF g
<1>. QED  BY <1>1, <1>3, <1>4, <1>5, NewMsig

LEMMA SignLogicSigMultiSigIInv ==
  ASSUME IInv, NEW k \in Key, NEW m \in Multisig, SignLogicSigMultiSig(k, m)
  PROVE  IInv'
BY SignMultisigIInv, AppendToMultisigIInv DEF SignLogicSigMultiSig

LEMMA SignLsigFileIInv ==
  ASSUME IInv, NEW k \in Key, NEW f \in File, NEW out \in File, NEW force \in BOOLEAN,
         SignLsigFile(k, f, out, force)
  PROVE  IInv'
<1>. DEFINE l == files[f].lsig
<1>1. files[f] \in Content /\ ContentGiven(files[f], gave) /\ files[f].is = "blsig"
  BY DEF SignLsigFile, IInv, TypeOK, Given
<1>2. l \in LogicSig /\ LsigGiven(l, gave) /\ l.logic \in What
  BY <1>1, ContentTypes DEF ContentGiven, LogicSig, What
<1>3. l.msig # NoMsig => IsMember(l.msig.of, k)
  BY DEF SignLsigFile
<1>4. WriteToFile(out, Lsig(SignedLsig(l, k)), force) /\ Gives(k, l.logic)
  BY DEF SignLsigFile
<1>5. UNCHANGED <<teal, lsig, sigkey, auth>>
  BY DEF SignLsigFile
<1>. HIDE DEF l
<1>6. /\ gave' = gave \cup {<<k, l.logic>>} /\ gave \subseteq gave'
      /\ gave' \in SUBSET (Key \X What) /\ signings' \in Nat
  BY <1>2, <1>4, GivesTypes
<1>7. SignedLsig(l, k) \in LogicSig /\ LsigGiven(SignedLsig(l, k), gave')
  BY <1>2, <1>3, <1>6, SignedLsigGiven
<1>8. Lsig(SignedLsig(l, k)) \in Content /\ ContentGiven(Lsig(SignedLsig(l, k)), gave')
  BY <1>7 DEF Lsig, Content, ContentGiven
<1>. QED  BY <1>4, <1>5, <1>6, <1>8, FileStep

LEMMA SignTxFileIInv ==
  ASSUME IInv, NEW k \in Key, NEW f \in File, NEW i, NEW m \in Multisig, NEW out \in File,
         NEW force \in BOOLEAN, SignTxFile(k, f, i, m, out, force)
  PROVE  IInv'
<1>. DEFINE c == files[f]
            e == c.txs[i]
            s == SignMultiSig(e, k, m)
            d == [c EXCEPT !.txs[i] = s]
<1>1. /\ c \in [is : {"tx", "group"}, txs : Seq(SignedTx)] /\ i \in DOMAIN c.txs
      /\ ContentGiven(c, gave)
  BY ContentTypes DEF SignTxFile, IInv, TypeOK, Given
<1>2. /\ MaySign(e, k, m) /\ WriteToFile(out, d, force) /\ Gives(k, e.tx)
      /\ UNCHANGED <<teal, lsig, sigkey, auth>>
  BY DEF SignTxFile
<1>3. e \in SignedTx /\ TxGiven(e, gave) /\ e.tx \in What
  <2>. HIDE DEF c
  <2>1. e \in SignedTx /\ c.is \in {"tx", "group"}
    BY <1>1
  <2>2. TxGiven(e, gave)
    BY <1>1, <2>1 DEF ContentGiven
  <2>3. e.tx \in What
    BY <2>1 DEF SignedTx, What
  <2>. QED  BY <2>1, <2>2, <2>3
<1>. HIDE DEF c, e
<1>4. /\ gave' = gave \cup {<<k, e.tx>>} /\ gave \subseteq gave'
      /\ gave' \in SUBSET (Key \X What) /\ signings' \in Nat
  BY <1>2, <1>3, GivesTypes
<1>5. s \in SignedTx /\ TxGiven(s, gave')
  BY <1>2, <1>3, <1>4, SignedTxGiven
<1>. HIDE DEF s
<1>6. /\ d.is = c.is /\ d.txs = [c.txs EXCEPT ![i] = s]
      /\ d \in [is : {"tx", "group"}, txs : Seq(SignedTx)]
  BY <1>1, <1>5
<1>7. \A j \in DOMAIN d.txs : d.txs[j] = s \/ (j \in DOMAIN c.txs /\ d.txs[j] = c.txs[j])
  BY <1>1, <1>6
<1>8. \A j \in DOMAIN c.txs : TxGiven(c.txs[j], gave')
  BY <1>1, <1>4, TxMonotone DEF ContentGiven
<1>. HIDE DEF d
<1>9. \A j \in DOMAIN d.txs : TxGiven(d.txs[j], gave')
  BY <1>5, <1>7, <1>8
<1>10. d.is \in {"tx", "group"}
  BY <1>6
<1>11. ContentGiven(d, gave') /\ d \in Content
  BY <1>6, <1>9, <1>10 DEF ContentGiven, Content
<1>. QED  BY <1>2, <1>4, <1>11, FileStep

LEMMA NextIInv ==
  ASSUME IInv, [Next]_vars
  PROVE  IInv'
<1>1. ASSUME NEW p \in Program, EditTeal(p) PROVE IInv'
  BY <1>1 DEF EditTeal, IInv, TypeOK, Given
<1>2. CASE MakeLsig
  BY <1>2, MakeLsigIInv
<1>3. ASSUME NEW f \in File, LoadBinary(f) \/ LoadMultiSig(f) PROVE IInv'
  BY <1>3, LoadBinaryIInv, LoadMultiSigIInv
<1>4. ASSUME NEW k \in Key, Sign(k) \/ AppendToMultisig(k) PROVE IInv'
  BY <1>4, SignIInv, AppendToMultisigIInv
<1>5. ASSUME NEW k \in Key, NEW m \in Multisig, SignMultisig(k, m) \/ SignLogicSigMultiSig(k, m)
      PROVE  IInv'
  BY <1>5, SignMultisigIInv, SignLogicSigMultiSigIInv
<1>6. ASSUME NEW k \in Key, NEW f \in File, NEW force \in BOOLEAN, NEW out \in Outputs(f),
             \/ SignLsigFile(k, f, out, force)
             \/ \E i \in 1..2, m \in Multisig : SignTxFile(k, f, i, m, out, force)
      PROVE  IInv'
  <2>1. out \in File
    BY SignaturesAssumption DEF SignaturesAssumption, Outputs
  <2>. QED  BY <1>6, <2>1, SignLsigFileIInv, SignTxFileIInv
<1>7. ASSUME NEW r \in Rekeyings, Rekey(r[1], r[2]) PROVE IInv'
  <2>1. r[1] \in Addr /\ r[2] \in Addr
    BY SignaturesAssumption DEF SignaturesAssumption
  <2>2. auth' \in [Addr -> Addr]
    BY <1>7, <2>1 DEF Rekey, IInv, TypeOK
  <2>. QED  BY <1>7, <2>2 DEF Rekey, IInv, TypeOK, Given
<1>8. CASE UNCHANGED vars
  BY <1>8 DEF vars, IInv, TypeOK, Given
<1>. QED  BY <1>1, <1>2, <1>3, <1>4, <1>5, <1>6, <1>7, <1>8 DEF Next

\* Every variable keeps its type, and no signature comes from nowhere.
THEOREM SignaturesGiven == Spec => []IInv
<1>. QED  BY InitIInv, NextIInv, PTL DEF Spec

-----------------------------------------------------------------------------
(* Consent                                                                 *)

\* A logic signature is accepted for an account only if its authority agrees to
\* the program.
LEMMA LsigConsent ==
  ASSUME IInv, NEW x \in Addr, LsigAccepted(x)
  PROVE  Agrees(auth[x], lsig.logic)
<1>. DEFINE signer == IF IsDelegated(lsig) THEN x ELSE lsig.logic
<1>1. lsig \in LogicSig /\ LsigGiven(lsig, gave)
  BY DEF LsigAccepted, IInv, TypeOK, Given
<1>2. LsigVerifies(lsig, signer) /\ auth[x] = signer
  BY DEF LsigAccepted
<1>. HIDE DEF signer
<1>3. CASE lsig.sig # None
  BY <1>1, <1>2, <1>3 DEF LsigVerifies, LsigGiven, Agrees
<1>4. CASE lsig.sig = None /\ lsig.msig # NoMsig
  <2>1. lsig.msig \in MaybeMsig /\ MsigGiven(lsig.msig, gave)
    BY <1>1 DEF LogicSig, LsigGiven
  <2>2. Verifies(lsig.msig, lsig.logic, signer)
    BY <1>2, <1>4 DEF LsigVerifies
  <2>. QED  BY <1>2, <1>4, <2>1, <2>2, VerifiedAgrees
<1>5. CASE lsig.sig = None /\ lsig.msig = NoMsig
  BY <1>2, <1>5 DEF LsigVerifies, Agrees
<1>. QED  BY <1>3, <1>4, <1>5

\* A transaction of a file that bears a signature is accepted only if the
\* authority of its sender agrees to it.
LEMMA TxConsent ==
  ASSUME IInv, NEW f \in File, NEW e \in Transactions(f), IsSigned(e), TxAccepted(e)
  PROVE  Agrees(auth[From[e.tx]], e.tx)
<1>. DEFINE c == files[f]
<1>1. c.is \in {"tx", "group"} /\ \E i \in DOMAIN c.txs : e = c.txs[i]
  BY DEF Transactions
<1>2. c \in [is : {"tx", "group"}, txs : Seq(SignedTx)] /\ ContentGiven(c, gave)
  BY <1>1, ContentTypes DEF IInv, TypeOK, Given
<1>. HIDE DEF c
<1>3. e \in SignedTx /\ TxGiven(e, gave)
  BY <1>1, <1>2 DEF ContentGiven
<1>4. CASE e.msig # NoMsig
  BY <1>3, <1>4, VerifiedAgrees DEF TxAccepted, SignedTx, TxGiven
<1>5. CASE e.msig = NoMsig
  BY <1>3, <1>5 DEF TxAccepted, IsSigned, TxGiven, Agrees
<1>. QED  BY <1>4, <1>5

\* Whatever is signed, copied, loaded and rekeyed, the runtime accepts a logic
\* signature, or a transaction that bears a signature, only by consent of the
\* sender's authority.
THEOREM AcceptedByConsent == Spec => []OnlyByConsent
<1>1. IInv => OnlyByConsent
  BY LsigConsent, TxConsent DEF OnlyByConsent
<1>. QED  BY <1>1, SignaturesGiven, PTL

-----------------------------------------------------------------------------
(* Signatures are kept                                                     *)

\* Who signs as a member empties no place, and has signed.
LEMMA WithSignatureKept ==
  ASSUME NEW g \in Msig, NEW k, NEW what \in What, IsMember(g.of, k)
  PROVE  /\ Kept(g, WithSignature(g, k, what))
         /\ SignedBy(WithSignature(g, k, what), k, what)
<1>. DEFINE p == PlaceOf(g.of, k)
            n == [at |-> p, over |-> what]
            h == WithSignature(g, k, what)
<1>1. h.of = g.of /\ h.sigs = {s \in g.sigs : s.at # p} \cup {n}
  BY DEF WithSignature, Msig
<1>2. p \in 1..Len(g.of.addrs) /\ g.of.addrs[p] = k
  BY PlaceIsMembers DEF Msig
<1>3. ASSUME NEW s \in g.sigs PROVE \E t \in h.sigs : t.at = s.at
  <2>1. CASE s.at = p
    <3>1. n \in h.sigs /\ n.at = s.at
      BY <1>1, <2>1
    <3>. QED  BY <3>1
  <2>2. CASE s.at # p
    BY <1>1, <2>2
  <2>. QED  BY <2>1, <2>2
<1>4. [at |-> p, over |-> what] \in h.sigs
  BY <1>1
<1>. HIDE DEF p, h
<1>5. Kept(g, h)
  BY <1>1, <1>3 DEF Kept
<1>6. SignedBy(h, k, what)
  BY <1>1, <1>2, <1>4 DEF SignedBy
<1>. QED  BY <1>5, <1>6 DEF h

\* In memory.
LEMMA AppendKeeps ==
  ASSUME IInv, NEW k \in Key, AppendToMultisig(k)
  PROVE  Kept(lsig.msig, lsig'.msig) /\ SignedBy(lsig'.msig, k, lsig'.logic)
<1>. DEFINE h == WithSignature(lsig.msig, k, lsig.logic)
<1>1. lsig \in LogicSig /\ lsig.msig \in Msig /\ lsig.logic \in What /\ IsMember(lsig.msig.of, k)
  BY DEF AppendToMultisig, IInv, TypeOK, LogicSig, MaybeMsig, What
<1>2. lsig' = [lsig EXCEPT !.msig = h]
  BY DEF AppendToMultisig
<1>3. Kept(lsig.msig, h) /\ SignedBy(h, k, lsig.logic)
  BY <1>1, WithSignatureKept
<1>. HIDE DEF h
<1>4. lsig'.msig = h /\ lsig'.logic = lsig.logic
  BY <1>1, <1>2 DEF LogicSig
<1>. QED  BY <1>3, <1>4

\* From one file to another.
LEMMA SignLsigFileCarries ==
  ASSUME IInv, NEW k \in Key, NEW f \in File, NEW out \in File, NEW force \in BOOLEAN,
         SignLsigFile(k, f, out, force)
  PROVE  \A g \in File : files'[g] # files[g] => g = out /\ Carries(files[f], files'[g], k)
<1>. DEFINE c == files[f]
            l == files[f].lsig
            d == Lsig(SignedLsig(l, k))
<1>1. c \in Content /\ c.is = "blsig" /\ l \in LogicSig /\ l.logic \in What
  BY ContentTypes DEF SignLsigFile, IInv, TypeOK, LogicSig, What
<1>2. (l.msig # NoMsig => IsMember(l.msig.of, k)) /\ WriteToFile(out, d, force)
  BY DEF SignLsigFile
<1>3. \A g \in File : files'[g] # files[g] => g = out /\ files'[g] = d
  BY <1>2 DEF WriteToFile, IInv, TypeOK
<1>4. d.is = c.is /\ d.is = "blsig" /\ d.lsig = SignedLsig(l, k)
  BY <1>1 DEF Lsig
<1>5. ASSUME l.msig # NoMsig
      PROVE  Kept(l.msig, d.lsig.msig) /\ SignedBy(d.lsig.msig, k, l.logic)
  <2>. DEFINE h == WithSignature(l.msig, k, l.logic)
  <2>1. l.msig \in Msig
    BY <1>1, <1>5 DEF LogicSig, MaybeMsig
  <2>2. Kept(l.msig, h) /\ SignedBy(h, k, l.logic)
    BY <1>1, <1>2, <1>5, <2>1, WithSignatureKept
  <2>3. SignedLsig(l, k) = [l EXCEPT !.msig = h]
    BY <1>5 DEF SignedLsig
  <2>. HIDE DEF h, d, l
  <2>4. d.lsig.msig = h
    BY <1>1, <1>4, <2>3 DEF LogicSig
  <2>. QED  BY <2>2, <2>4
<1>6. Carries(c, d, k)
  <2>. HIDE DEF d
  <2>. QED  BY <1>1, <1>4, <1>5 DEF Carries
<1>. QED  BY <1>3, <1>6

LEMMA SignTxFileCarries ==
  ASSUME IInv, NEW k \in Key, NEW f \in File, NEW i, NEW m \in Multisig, NEW out \in File,
         NEW force \in BOOLEAN, SignTxFile(k, f, i, m, out, force)
  PROVE  \A g \in File : files'[g] # files[g] => g = out /\ Carries(files[f], files'[g], k)
<1>. DEFINE c == files[f]
            e == c.txs[i]
            b == Begun(e, m)
            h == WithSignature(b, k, e.tx)
            s == SignMultiSig(e, k, m)
            d == [c EXCEPT !.txs[i] = s]
<1>1. c \in [is : {"tx", "group"}, txs : Seq(SignedTx)] /\ i \in DOMAIN c.txs
  BY ContentTypes DEF SignTxFile, IInv, TypeOK
<1>2. MaySign(e, k, m) /\ WriteToFile(out, d, force)
  BY DEF SignTxFile
<1>3. e \in SignedTx
  <2>. HIDE DEF c
  <2>. QED  BY <1>1
<1>4. \A g \in File : files'[g] # files[g] => g = out /\ files'[g] = d
  BY <1>2 DEF WriteToFile, IInv, TypeOK
<1>. HIDE DEF c, e
<1>5. b \in Msig /\ e.tx \in What /\ IsMember(b.of, k) /\ (e.msig # NoMsig => b = e.msig)
  <2>1. CASE IsSigned(e)
    BY <1>2, <1>3, <2>1 DEF Begun, MaySign, SignedTx, MaybeMsig, What
  <2>2. CASE ~IsSigned(e)
    BY <1>2, <1>3, <2>2, BlankType DEF Begun, MaySign, IsSigned, SignedTx, What
  <2>. QED  BY <2>1, <2>2
<1>6. Kept(b, h) /\ SignedBy(h, k, e.tx)
  <2>. HIDE DEF b
  <2>. QED  BY <1>5, WithSignatureKept
<1>7. s = [e EXCEPT !.msig = h]
  BY DEF SignMultiSig
<1>. HIDE DEF h, s
<1>8. s.msig = h
  BY <1>3, <1>7 DEF SignedTx
<1>9. /\ d.is = c.is /\ DOMAIN d.txs = DOMAIN c.txs /\ d.txs[i] = s
      /\ \A j \in DOMAIN c.txs : j # i => d.txs[j] = c.txs[j]
  BY <1>1
<1>. HIDE DEF d
<1>10. ASSUME NEW j \in DOMAIN c.txs, c.txs[j].msig # NoMsig
       PROVE  Kept(c.txs[j].msig, d.txs[j].msig)
  <2>1. CASE j = i
    BY <1>5, <1>6, <1>8, <1>9, <1>10, <2>1 DEF e
  <2>2. CASE j # i
    BY <1>9, <2>2 DEF Kept
  <2>. QED  BY <2>1, <2>2
<1>11. SignedBy(d.txs[i].msig, k, c.txs[i].tx)
  BY <1>6, <1>8, <1>9 DEF e
<1>12. c.is # "blsig"
  BY <1>1
<1>13. Carries(c, d, k)
  BY <1>1, <1>9, <1>10, <1>11, <1>12 DEF Carries
<1>. QED  BY <1>4, <1>13 DEF c

\* Members who sign one after another lose nothing of what the others did.
THEOREM SignaturesStay == Spec => SignaturesKept
<1>. DEFINE AppendsKeep ==
              \A k \in Key :
                AppendToMultisig(k) => Kept(lsig.msig, lsig'.msig) /\ SignedBy(lsig'.msig, k, lsig'.logic)
            FilesKeep ==
              \A out \in File :
                files'[out] # files[out]
                => \E source \in File, k \in Key :
                     out \in Outputs(source) /\ Carries(files[source], files'[out], k)
<1>1. ASSUME IInv PROVE AppendsKeep
  BY <1>1, AppendKeeps
<1>2. ASSUME IInv, Next PROVE FilesKeep
  <2>1. ASSUME NEW k \in Key, NEW f \in File, NEW force \in BOOLEAN, NEW out \in Outputs(f),
               \/ SignLsigFile(k, f, out, force)
               \/ \E i \in 1..2, m \in Multisig : SignTxFile(k, f, i, m, out, force)
        PROVE  FilesKeep
    <3>1. out \in File
      BY SignaturesAssumption DEF SignaturesAssumption, Outputs
    <3>. QED  BY <1>2, <2>1, <3>1, SignLsigFileCarries, SignTxFileCarries
  <2>2. CASE UNCHANGED files
    BY <2>2
  <2>3. \A k \in Key, m \in Multisig :
           SignMultisig(k, m) \/ SignLogicSigMultiSig(k, m) => UNCHANGED files
    BY DEF SignMultisig, SignLogicSigMultiSig, AppendToMultisig
  <2>4. \A k \in Key : Sign(k) \/ AppendToMultisig(k) => UNCHANGED files
    BY DEF Sign, AppendToMultisig
  <2>. QED
    BY <1>2, <2>1, <2>2, <2>3, <2>4 DEF Next, EditTeal, MakeLsig, LoadBinary, LoadMultiSig, Rekey
<1>3. ASSUME IInv, [Next]_vars PROVE [AppendsKeep /\ FilesKeep]_vars
  BY <1>1, <1>2, <1>3
<1>. QED  BY <1>3, SignaturesGiven, PTL DEF Spec, SignaturesKept
=============================================================================
