---------------------------- MODULE SafeOpsProofs ----------------------------
(***************************************************************************)
(* Proofs about safe-ops, for every set of keys, operators, configurations *)
(* and thresholds, every set of accounts the endpoint holds and every      *)
(* order of the curve.  That a key's address is read out of KMS's answer   *)
(* exactly (AddressIsPoint) is proved for byte counts whose DER lengths    *)
(* all have the short form, as with 256 and 32, and is a hypothesis of the *)
(* theorems about the scripts, which hold for the long form as well.       *)
(***************************************************************************)
EXTENDS SafeOps, SequenceTheorems, FiniteSetTheorems, TLAPS
-----------------------------------------------------------------------------
(* The signer *)

\* lowS returns a canonical value (kmsSigner.js:103): the lower half of the
\* order, never zero.
LEMMA LowHalf ==
  \A s \in 1..(Order - 1) : lowS(s) \in 1..HalfOrder
BY SignerBounds DEF lowS, HalfOrder

\* The loop of kmsSigner.js:126 finds a recovery id, and what it finds recovers
\* to the signer's own address.
Recovers(k, digest, r, s, parity) ==
  LET signed == Sign(k, digest, messageType, r, s, parity)
      ids == findRecoveryId(signed, digest, r, lowS(s), Point[k])
  IN  /\ ids # {}
      /\ \A v \in ids : recoverAddress(signed, digest,
                        [r |-> r, s |-> lowS(s), v |-> 27 + v]) = Point[k]

\* findRecoveryId finds the recovery id that gives back the signing key.
LEMMA RecoveryFound ==
  ASSUME NEW k \in Keys, NEW digest, NEW r \in Nat, NEW s \in 1..(Order - 1),
         NEW parity \in {0, 1}
  PROVE  Recovers(k, digest, r, s, parity)
<1> DEFINE signed == Sign(k, digest, messageType, r, s, parity)
           sig(v) == [r |-> r, s |-> lowS(s), v |-> 27 + v]
           ids == findRecoveryId(signed, digest, r, lowS(s), Point[k])
<1>1. signed = [key |-> k, r |-> r, s |-> s, parity |-> parity,
                digest |-> digest]
  BY DEF Sign, messageType
<1>2. \E v \in {0, 1} : recoverAddress(signed, digest, sig(v)) = Point[k]
  <2>1. CASE s > HalfOrder
    <3>1. lowS(s) = Order - s
      BY <2>1 DEF lowS
    <3>2. 27 + (1 - parity) = 28 - parity /\ 1 - parity \in {0, 1}
      OBVIOUS
    <3>3. recoverAddress(signed, digest, sig(1 - parity)) = Point[k]
      BY <1>1, <3>1, <3>2 DEF recoverAddress
    <3> QED BY <3>2, <3>3
  <2>2. CASE ~(s > HalfOrder)
    <3>1. lowS(s) = s
      BY <2>2 DEF lowS
    <3>2. recoverAddress(signed, digest, sig(parity)) = Point[k]
      BY <1>1, <3>1 DEF recoverAddress
    <3> QED BY <3>2
  <2> QED BY <2>1, <2>2
<1>3. sig(0) = [r |-> r, s |-> lowS(s), v |-> 27]
  OBVIOUS
<1>4. ids = {v \in {0, 1} :
               /\ recoverAddress(signed, digest, sig(v)) = Point[k]
               /\ v = 1 => recoverAddress(signed, digest, sig(0)) # Point[k]}
  BY <1>3 DEF findRecoveryId
<1> HIDE DEF signed, sig
<1>5. ids # {}
  BY <1>2, <1>4
<1> QED BY <1>4, <1>5 DEF sig, signed, Recovers

\* What _signDigest (kmsSigner.js:94-113) makes of r and s once they are decoded,
\* for every order of the curve and whatever KMS chose: a signature, its s in the
\* lower half, that recovers to the key's own address.
THEOREM SignerIsCanonical ==
  ASSUME NEW k \in Keys, NEW digest, NEW r \in Nat, NEW s \in 1..(Order - 1),
         NEW parity \in {0, 1},
         NEW raw, raw # Thrown, BigEndian(raw[1]) = r, BigEndian(raw[2]) = s
  PROVE  LET signed == Sign(k, digest, messageType, r, s, parity)
             signature == toSignature(signed, digest, raw, Point[k])
         IN  /\ signature # Thrown
             /\ signature[1].s \in 1..HalfOrder
             /\ recoverAddress(signed, digest, signature[1]) = Point[k]
<1> DEFINE signed == Sign(k, digest, messageType, r, s, parity)
           ids == findRecoveryId(signed, digest, r, lowS(s), Point[k])
           id == CHOOSE v \in ids : TRUE
           sig == [r |-> r, s |-> lowS(s), v |-> 27 + id, signed |-> signed]
           signature == toSignature(signed, digest, raw, Point[k])
<1>1. Point[k] # Thrown
  BY PointsDiffer, SignerBounds DEF Thrown
<1>2. /\ ids # {}
      /\ \A v \in ids : recoverAddress(signed, digest,
                        [r |-> r, s |-> lowS(s), v |-> 27 + v]) = Point[k]
  <2>1. Recovers(k, digest, r, s, parity)
    BY RecoveryFound
  <2> QED BY <2>1 DEF Recovers
<1>3. signature = <<sig>>
  BY <1>1, <1>2 DEF toSignature
<1>4. id \in ids
  BY <1>2
<1>5. recoverAddress(signed, digest, sig)
        = recoverAddress(signed, digest,
                         [r |-> r, s |-> lowS(s), v |-> 27 + id])
  BY DEF recoverAddress
<1>6. sig.s \in 1..HalfOrder
  BY LowHalf
<1>7. recoverAddress(signed, digest, sig) = Point[k]
  BY <1>2, <1>4, <1>5
<1> HIDE DEF sig, signed, signature
<1>8. signature # Thrown /\ signature[1] = sig
  BY <1>3 DEF Thrown
<1> QED BY <1>6, <1>7, <1>8 DEF signature, signed

\* Where the elements of a concatenation are.
LEMMA Joined ==
  ASSUME NEW S, NEW a \in Seq(S), NEW b \in Seq(S)
  PROVE  /\ a \o b \in Seq(S) /\ Len(a \o b) = Len(a) + Len(b)
         /\ \A j \in 1..Len(a) : (a \o b)[j] = a[j]
         /\ \A j \in 1..Len(b) : (a \o b)[j + Len(a)] = b[j]
OBVIOUS

\* A DER value with a length of the short form: tag, length, value.
LEMMA ShortForm ==
  ASSUME NEW tag \in 0..(Base - 1), NEW value \in Seq(0..(Base - 1)),
         Len(value) < Base \div 2
  PROVE  LET tlv == DerTlv(tag, value)
         IN  /\ tlv \in Seq(0..(Base - 1)) /\ Len(tlv) = Len(value) + 2
             /\ tlv[1] = tag /\ tlv[2] = Len(value)
             /\ \A j \in 1..Len(value) : tlv[j + 2] = value[j]
<1>1. DerTlv(tag, value) = <<tag, Len(value)>> \o value
  BY DEF DerTlv
<1>2. Len(value) \in 0..(Base - 1)
  BY SignerBounds
<1>3. <<tag, Len(value)>> \in Seq(0..(Base - 1))
  BY <1>2
<1> QED BY <1>1, <1>3

\* publicKeyFromKmsDer (derUtils.js) reads the point out of KMS's answer exactly
\* when every length in it has the short form, which is so for 256 and 32: the
\* offsets it computes from the headers are where KMS put the point.
THEOREM AddressIsExact ==
  ASSUME 2 * Width + 8 < Base \div 2
  PROVE  AddressIsPoint
<1> SUFFICES ASSUME NEW k \in Keys PROVE getAddress(k) = Point[k]
  BY DEF AddressIsPoint
<1> DEFINE B == 0..(Base - 1)
           alg == DerTlv(SEQUENCE, <<1, 1>>)
           body == <<0, 4>> \o Point[k]
           bits == DerTlv(BITSTRING, body)
           der == GetPublicKey(k)
<1>1. /\ Base \in Nat /\ Width \in Nat \ {0} /\ Base \div 2 \in Nat
      /\ Base > 2 * Width + 8 /\ 10 < Base \div 2 /\ Base \div 2 < Base
  BY SignerBounds
<1>2. /\ Point[k] \in Seq(B) /\ Len(Point[k]) = 2 * Width
  BY <1>1, PointsDiffer
<1>3. SEQUENCE \in B /\ BITSTRING \in B /\ <<1, 1>> \in Seq(B) /\ <<0, 4>> \in Seq(B)
  BY <1>1 DEF SEQUENCE, BITSTRING
<1>4. /\ alg \in Seq(B) /\ Len(alg) = 4
      /\ alg[1] = SEQUENCE /\ alg[2] = 2
  <2> DEFINE v == <<1, 1>>
  <2>1. v \in Seq(B) /\ Len(v) = 2 /\ Len(v) < Base \div 2
    BY <1>1, <1>3
  <2> HIDE DEF v
  <2>2. LET tlv == DerTlv(SEQUENCE, v)
        IN  /\ tlv \in Seq(B) /\ Len(tlv) = Len(v) + 2
            /\ tlv[1] = SEQUENCE /\ tlv[2] = Len(v)
    BY <1>3, <2>1, ShortForm
  <2> QED BY <2>1, <2>2 DEF v
<1>5. /\ body \in Seq(B) /\ Len(body) = 2 * Width + 2
      /\ \A j \in 1..(2 * Width) : body[j + 2] = Point[k][j]
  <2>1. Len(<<0, 4>>) = 2
    OBVIOUS
  <2>2. /\ body \in Seq(B) /\ Len(body) = Len(<<0, 4>>) + Len(Point[k])
        /\ \A j \in 1..Len(Point[k]) : body[j + Len(<<0, 4>>)] = Point[k][j]
    BY <1>2, <1>3, Joined
  <2> HIDE DEF body
  <2> QED BY <1>1, <1>2, <2>1, <2>2
<1> HIDE DEF body
<1>6. /\ bits \in Seq(B) /\ Len(bits) = 2 * Width + 4
      /\ bits[1] = BITSTRING /\ bits[2] = 2 * Width + 2
      /\ \A j \in 1..(2 * Width) : bits[j + 4] = Point[k][j]
  <2>1. Len(body) < Base \div 2
    BY <1>1, <1>5
  <2>2. /\ bits \in Seq(B) /\ Len(bits) = Len(body) + 2
        /\ bits[1] = BITSTRING /\ bits[2] = Len(body)
        /\ \A j \in 1..Len(body) : bits[j + 2] = body[j]
    BY <1>3, <1>5, <2>1, ShortForm
  <2>3. ASSUME NEW j \in 1..(2 * Width) PROVE bits[j + 4] = Point[k][j]
    <3>1. j + 2 \in 1..Len(body) /\ (j + 2) + 2 = j + 4
      BY <1>1, <1>5
    <3> QED BY <1>5, <2>2, <3>1
  <2> HIDE DEF bits, B
  <2>4. Len(body) + 2 = 2 * Width + 4
    BY <1>1, <1>5
  <2> QED BY <1>5, <2>2, <2>3, <2>4
<1> HIDE DEF alg, bits
<1>7. /\ alg \o bits \in Seq(B) /\ Len(alg \o bits) = 2 * Width + 8
      /\ (alg \o bits)[1] = SEQUENCE /\ (alg \o bits)[2] = 2
      /\ (alg \o bits)[5] = BITSTRING /\ (alg \o bits)[6] = 2 * Width + 2
      /\ \A j \in 1..(2 * Width) : (alg \o bits)[j + 8] = Point[k][j]
  <2> DEFINE both == alg \o bits
  <2> HIDE DEF B
  <2>1. /\ both \in Seq(B) /\ Len(both) = Len(alg) + Len(bits)
        /\ \A j \in 1..Len(alg) : both[j] = alg[j]
        /\ \A j \in 1..Len(bits) : both[j + Len(alg)] = bits[j]
    <3>1. alg \in Seq(B) /\ bits \in Seq(B)
      BY <1>4, <1>6
    <3> HIDE DEF alg, bits
    <3> QED BY <3>1, Joined
  <2> HIDE DEF both
  <2>2. Len(both) = 2 * Width + 8 /\ both[1] = SEQUENCE /\ both[2] = 2
    BY <1>1, <1>4, <1>6, <2>1
  <2>3. /\ 1 \in 1..Len(bits) /\ 2 \in 1..Len(bits)
        /\ 1 + Len(alg) = 5 /\ 2 + Len(alg) = 6
    BY <1>1, <1>4, <1>6
  <2>4. both[5] = BITSTRING /\ both[6] = 2 * Width + 2
    BY <1>6, <2>1, <2>3
  <2>5. ASSUME NEW j \in 1..(2 * Width) PROVE both[j + 8] = Point[k][j]
    <3>1. j + 4 \in 1..Len(bits) /\ (j + 4) + Len(alg) = j + 8
      BY <1>1, <1>4, <1>6
    <3> QED BY <1>6, <2>1, <3>1
  <2> QED BY <2>1, <2>2, <2>4, <2>5 DEF both
<1> DEFINE all == alg \o bits
<1>8. der = DerTlv(SEQUENCE, all)
  BY DEF GetPublicKey, alg, bits, body
<1> HIDE DEF all, der
<1>9. /\ der \in Seq(B) /\ Len(der) = Len(all) + 2
      /\ der[1] = SEQUENCE /\ der[2] = Len(all)
      /\ \A j \in 1..Len(all) : der[j + 2] = all[j]
  <2>1. all \in Seq(B) /\ Len(all) < Base \div 2
    BY <1>7 DEF all
  <2> QED BY <1>3, <1>8, <2>1, ShortForm
<1>10. /\ Len(der) = 2 * Width + 10 /\ der[2] = 2 * Width + 8
       /\ der[3] = SEQUENCE /\ der[4] = 2
       /\ der[7] = BITSTRING /\ der[8] = 2 * Width + 2
  <2>1. /\ Len(all) = 2 * Width + 8 /\ all[1] = SEQUENCE /\ all[2] = 2
        /\ all[5] = BITSTRING /\ all[6] = 2 * Width + 2
    BY <1>7 DEF all
  <2>2. \A n \in {1, 2, 5, 6} : n \in 1..Len(all)
    BY <1>1, <2>1
  <2>3. der[1 + 2] = all[1] /\ der[2 + 2] = all[2] /\ der[5 + 2] = all[5]
        /\ der[6 + 2] = all[6]
    BY <1>9, <2>2
  <2>4. 1 + 2 = 3 /\ 2 + 2 = 4 /\ 5 + 2 = 7 /\ 6 + 2 = 8
    OBVIOUS
  <2> QED BY <1>1, <1>9, <2>1, <2>3, <2>4
<1>11. ASSUME NEW j \in 1..(2 * Width) PROVE der[j + 10] = Point[k][j]
  <2>1. j + 8 \in 1..Len(all) /\ (j + 8) + 2 = j + 10
    BY <1>1, <1>7 DEF all
  <2> QED BY <1>7, <1>9, <2>1 DEF all
<1>12. /\ readTlvHeader(der, 1).tag = SEQUENCE
       /\ readTlvHeader(der, 1).valueOffset = 3
  BY <1>1, <1>9, <1>10 DEF readTlvHeader
<1>13. /\ readTlvHeader(der, 3).length = 2
       /\ readTlvHeader(der, 3).valueOffset = 5
  BY <1>1, <1>10 DEF readTlvHeader
<1>14. /\ readTlvHeader(der, 7).tag = BITSTRING
       /\ readTlvHeader(der, 7).valueOffset = 9
  BY <1>1, <1>10 DEF readTlvHeader
<1>15. subarray(der, 11, 2 * Width) = Point[k]
  <2>1. subarray(der, 11, 2 * Width) = SubSeq(der, 11, 2 * Width + 10)
    BY <1>1, <1>10 DEF subarray
  <2> DEFINE sub == SubSeq(der, 11, 2 * Width + 10)
  <2>2. sub = [j \in 1..(2 * Width) |-> der[j + 10]]
    BY <1>1, <1>9, <1>10
  <2> HIDE DEF sub
  <2>3. Point[k] = [j \in 1..(2 * Width) |-> Point[k][j]]
    BY PointsDiffer
  <2> QED BY <1>11, <2>1, <2>2, <2>3 DEF sub
<1>16. publicKeyFromKmsDer(der) = Point[k]
  <2>1. /\ readTlvHeader(der, 1).valueOffset = 3
        /\ readTlvHeader(der, 3).valueOffset + readTlvHeader(der, 3).length = 7
        /\ pointStart(readTlvHeader(der, 7)) = 11
    BY <1>12, <1>13, <1>14 DEF pointStart
  <2> QED BY <1>2, <1>12, <1>14, <1>15, <2>1 DEF publicKeyFromKmsDer
<1> QED BY <1>16 DEF getAddress, der
-----------------------------------------------------------------------------
(* Types *)

\* The fixed records and the command lines are of their types.
LEMMA ConstantTypes ==
  /\ NewConfig \in Configs
  /\ NoArgument \in Arguments
  /\ NoCall \in Calls
  /\ Idle \in Runs
  /\ \A k \in Keys : Point[k] \in Addresses
  /\ \A script \in Scripts : commandLine(script) \subseteq Arguments
<1>1. NewConfig \in Configs
  BY OpsBounds DEF NewConfig, Configs
<1>2. NoArgument \in Arguments
  BY OpsBounds DEF NoArgument, Arguments, NotGiven
<1>3. NoCall \in Calls
  <2>1. [NoCall EXCEPT !.kind = "none"] = NoCall
    BY DEF NoCall
  <2> QED BY <2>1 DEF Calls
<1>4. Idle \in Runs
  BY <1>1, <1>2, <1>3 DEF Idle, Runs, NotGiven
<1>5. \A k \in Keys : Point[k] \in Addresses
  BY PointsDiffer DEF Addresses
<1>6. \A script \in Scripts : commandLine(script) \subseteq Arguments
  <2> SUFFICES ASSUME NEW script \in Scripts, NEW a \in commandLine(script)
               PROVE  a \in Arguments
    OBVIOUS
  <2>1. CASE script = "propose"
    BY <2>1, <1>2 DEF commandLine, Arguments
  <2>2. CASE script # "propose"
    BY <2>2, <1>2 DEF commandLine
  <2> QED BY <2>1, <2>2
<1> QED BY <1>1, <1>2, <1>3, <1>4, <1>5, <1>6

\* Where a script stands that works on the Safe.
AtSafe == {"propose", "add", "check", "remove", "threshold", "build", "nonce",
           "quorum", "sign"}

Points == {Point[k] : k \in Keys}

\* The addresses at which a run signs.
SignedBy(r) == {Point[r.config.keys[j]] : j \in 1..r.i}

\* What holds of a run r when the Safe is sf: an owner it adds is a key's
\* address, its transaction is not ahead of the Safe, and while it is the next
\* one, the threshold it read and the owners that signed are the Safe's.
RunFits(r, sf) ==
  /\ r.call.kind = "add" => r.call.owner \in Points
  /\ r.pc \notin {"deploy", "sign"} => r.i = 0
  /\ r.pc # "sign" => r.sigs = {}
  /\ r.pc = "build" => r.threshold \in Thresholds
  /\ r.pc \in {"quorum", "sign"} => r.nonce <= sf.nonce
  /\ r.pc = "sign" =>
       /\ r.i <= Len(r.config.keys)
       /\ r.sigs = SignedBy(r)
       /\ r.nonce = sf.nonce =>
            r.need = sf.threshold /\ SignedBy(r) \subseteq sf.owners

\* A run works on the Safe only after it exists.
SafeExists ==
  /\ env.safe => "safe" \in printed
  /\ "safe" \in printed => safe # <<>>
  /\ \A o \in Operators : run[o].pc \in AtSafe => safe # <<>>

SafeFits ==
  safe # <<>> =>
    /\ Current.owners \subseteq Points /\ IsFiniteSet(Current.owners)
    /\ Current.threshold <= Cardinality(Current.owners)

IInv ==
  /\ TypeOK /\ SafeExists /\ SafeFits
  /\ \A o \in Operators : RunFits(run[o], Current)

\* What the scripts encode is a call.
LEMMA CallTypes ==
  /\ \A action : buildCalldata(action) \in Calls
  /\ \A kind \in {"add", "remove"}, owner \in Addresses, t \in Thresholds :
       [kind |-> kind, owner |-> owner, threshold |-> t] \in Calls
<1>1. ASSUME NEW action PROVE buildCalldata(action) \in Calls
  BY DEF buildCalldata, Calls, Statuses
<1> QED BY <1>1 DEF Calls

\* What a signature adds to a run: the next configured key's address.
LEMMA SignEffect ==
  ASSUME AddressIsPoint, TypeOK, NEW o \in Operators, signTransactionBy(o)
  PROVE  LET k == run[o].config.keys[run[o].i + 1]
         IN  /\ k \in Keys /\ Point[k] \in Current.owners
             /\ run' = [run EXCEPT ![o] = [run[o] EXCEPT
                          !.i = run[o].i + 1,
                          !.sigs = run[o].sigs \cup {Point[k]}]]
<1> DEFINE k == run[o].config.keys[run[o].i + 1]
<1>1. k \in Keys
  <2>1. run[o].config.keys \in Seq(Keys) /\ run[o].i \in Nat
    BY OpsBounds DEF TypeOK, Runs, Configs
  <2>2. run[o].i < Len(run[o].config.keys)
    BY DEF signTransactionBy
  <2> QED BY <2>1, <2>2
<1>2. getAddress(k) = Point[k]
  BY <1>1 DEF AddressIsPoint
<1>3. /\ getAddress(k) \in Current.owners
      /\ run' = [run EXCEPT ![o] = [run[o] EXCEPT
                   !.i = run[o].i + 1,
                   !.sigs = run[o].sigs \cup {getAddress(k)}]]
  BY DEF signTransactionBy
<1> HIDE DEF k
<1> QED BY <1>1, <1>2, <1>3 DEF k

\* Every step keeps the types.
LEMMA TypeStep ==
  ASSUME AddressIsPoint, IInv, Next
  PROVE  TypeOK'
<1> USE DEF IInv
<1>0. /\ env \in Configs /\ printed \subseteq {"infra", "safe"}
      /\ safe = <<>> \/ (Len(safe) = 1 /\ safe[1] \in Safes)
      /\ granted \in BOOLEAN /\ claim \in Statuses
      /\ run \in [Operators -> Runs]
  BY DEF TypeOK
<1>1. CASE EditEnv
  BY <1>0, <1>1 DEF TypeOK, EditEnv, Configs
<1> SUFFICES ASSUME NEW o \in Operators,
                    \/ \E script \in Scripts : \E arg \in commandLine(script) :
                         loadConfig(o, script, arg)
                    \/ Fail(o)
                    \/ deployFromArtifact(o) \/ createSafe(o) \/ grantRole(o)
                    \/ propose(o) \/ addOwner(o) \/ checkThreshold(o)
                    \/ getOwners(o) \/ getThreshold(o) \/ removeOwner(o)
                    \/ getNonce(o)
                    \/ readQuorum(o) \/ signTransactionBy(o)
                    \/ executeTransaction(o)
             PROVE  TypeOK'
  BY <1>1 DEF Next
<1>2. run[o] \in Runs /\ Idle \in Runs
  BY <1>0, ConstantTypes
<1>3. run[o].pc \in AtSafe => safe # <<>> /\ Current \in Safes
  BY <1>0 DEF SafeExists, Current
<1>a. ASSUME NEW script \in Scripts, NEW arg \in commandLine(script),
             loadConfig(o, script, arg)
      PROVE  TypeOK'
  <2>2. arg \in Arguments
    BY ConstantTypes
  <2>3. run' \in [Operators -> Runs]
    BY <1>0, <1>2, <1>a, <2>2, ZenonT(60) DEF loadConfig, Runs, Scripts
  <2> QED BY <1>0, <1>a, <2>3 DEF loadConfig, TypeOK
<1>b. CASE Fail(o)
  BY <1>0, <1>2, <1>b DEF Fail, TypeOK
<1>c. CASE deployFromArtifact(o)
  <2>1. [run[o] EXCEPT !.i = run[o].i + 1] \in Runs
    BY <1>2 DEF Runs
  <2>2. run' = [run EXCEPT ![o] = IF run[o].i + 1 < Infrastructure
                                  THEN [run[o] EXCEPT !.i = run[o].i + 1]
                                  ELSE Idle]
    BY <1>0, <1>c DEF deployFromArtifact
  <2>3. run' \in [Operators -> Runs]
    BY <1>0, <1>2, <2>1, <2>2
  <2> QED BY <1>0, <1>c, <2>3 DEF deployFromArtifact, TypeOK
<1>d. CASE createSafe(o)
  <2> DEFINE config == run[o].config
             owners == [j \in DOMAIN config.keys |-> getAddress(config.keys[j])]
  <2>1. config.keys \in Seq(Keys) /\ config.threshold \in Thresholds
    BY <1>2, OpsBounds DEF Runs, Configs
  <2>2. Range(owners) \subseteq Addresses
    <3> SUFFICES ASSUME NEW j \in DOMAIN config.keys
                 PROVE  owners[j] \in Addresses
      BY DEF Range
    <3> HIDE DEF config
    <3>1. config.keys[j] \in Keys
      BY <2>1
    <3> QED BY <3>1, ConstantTypes DEF AddressIsPoint
  <2>3. safe' = <<[owners |-> Range(owners), threshold |-> config.threshold,
                   nonce |-> 0]>>
    BY <1>d DEF createSafe, setupSafe
  <2> HIDE DEF owners, config
  <2>4. Len(safe') = 1 /\ safe'[1] \in Safes
    BY <2>1, <2>2, <2>3 DEF Safes
  <2>5. run' \in [Operators -> Runs]
    BY <1>0, <1>2, <1>d DEF createSafe
  <2> QED BY <1>0, <1>d, <2>4, <2>5 DEF createSafe, TypeOK
<1>e. CASE grantRole(o)
  BY <1>0, <1>2, <1>e DEF grantRole, TypeOK
<1>f. ASSUME NEW call \in Calls, createTransaction(o, call),
             run[o].pc \in AtSafe
      PROVE  TypeOK'
  <2>1. run' \in [Operators -> Runs]
    BY <1>0, <1>2, <1>f DEF createTransaction, Runs, NotGiven
  <2> QED BY <1>0, <1>f, <2>1 DEF createTransaction, TypeOK
<1>g. CASE propose(o)
  BY <1>f, <1>g, CallTypes DEF propose, AtSafe
<1>h. CASE addOwner(o)
  <2>1. Current.owners \subseteq Addresses
    BY <1>3, <1>h DEF addOwner, AtSafe, Safes
  <2>2. run' \in [Operators -> Runs]
    BY <1>0, <1>2, <1>h, <2>1 DEF addOwner, Runs
  <2> QED BY <1>0, <1>h, <2>2 DEF addOwner, TypeOK
<1>o. CASE checkThreshold(o)
  <2> DEFINE owner == newOwner(o)
             t == IF run[o].arg.threshold = NotGiven THEN Current.threshold
                  ELSE run[o].arg.threshold
  <2>1. owner \in Addresses
    BY <1>2, ConstantTypes DEF newOwner, Runs, Arguments, AddressIsPoint
  <2>2. run[o].pc \in AtSafe
    BY <1>o DEF checkThreshold, AtSafe
  <2>3. t \in Thresholds
    BY <1>2, <1>3, <2>2 DEF Runs, Arguments, Safes
  <2>4. createTransaction(o, [kind |-> "add", owner |-> owner, threshold |-> t])
    BY <1>o DEF checkThreshold
  <2> HIDE DEF owner, t
  <2>5. [kind |-> "add", owner |-> owner, threshold |-> t] \in Calls
    BY <2>1, <2>3, CallTypes
  <2> QED BY <1>f, <2>2, <2>4, <2>5
<1>i. CASE getOwners(o)
  <2>1. Current.owners \subseteq Addresses
    BY <1>3, <1>i DEF getOwners, AtSafe, Safes
  <2>2. run' \in [Operators -> Runs]
    BY <1>0, <1>2, <1>i, <2>1 DEF getOwners, Runs
  <2> QED BY <1>0, <1>i, <2>2 DEF getOwners, TypeOK
<1>j. CASE getThreshold(o)
  <2>1. newThreshold(o) \in Thresholds
    BY <1>2, <1>3, <1>j DEF getThreshold, newThreshold, AtSafe, Safes, Runs,
                            Arguments
  <2>2. run' \in [Operators -> Runs]
    BY <1>0, <1>2, <1>j, <2>1 DEF getThreshold, Runs
  <2> QED BY <1>0, <1>j, <2>2 DEF getThreshold, TypeOK
<1>k. CASE removeOwner(o)
  <2>1. departing(o) \in Addresses
    BY <1>2, ConstantTypes DEF departing, Runs, Arguments
  <2>2. run[o].threshold \in Thresholds
    BY <1>k DEF removeOwner, RunFits
  <2>3. [kind |-> "remove", owner |-> departing(o),
         threshold |-> run[o].threshold] \in Calls
    BY <2>1, <2>2, CallTypes
  <2> QED BY <1>f, <1>k, <2>3 DEF removeOwner, AtSafe
<1>p. CASE getNonce(o)
  <2>1. Current.nonce \in Nat
    BY <1>3, <1>p DEF getNonce, AtSafe, Safes
  <2>2. run' \in [Operators -> Runs]
    BY <1>0, <1>2, <1>p, <2>1 DEF getNonce, Runs
  <2> QED BY <1>0, <1>p, <2>2 DEF getNonce, TypeOK
<1>l. CASE readQuorum(o)
  <2>1. quorum(o) \in Nat
    BY <1>3, <1>l, OpsBounds DEF readQuorum, quorum, AtSafe, Safes
  <2>2. run' \in [Operators -> Runs]
    BY <1>0, <1>2, <1>l, <2>1 DEF readQuorum, Runs
  <2> QED BY <1>0, <1>l, <2>2 DEF readQuorum, TypeOK
<1>m. CASE signTransactionBy(o)
  <2> DEFINE k == run[o].config.keys[run[o].i + 1]
             sigs == run[o].sigs \cup {Point[k]}
  <2>1. /\ k \in Keys
        /\ run' = [run EXCEPT ![o] = [run[o] EXCEPT !.i = run[o].i + 1,
                                                   !.sigs = sigs]]
    BY <1>m, SignEffect
  <2>2. sigs \in SUBSET Addresses
    BY <1>2, <2>1, ConstantTypes DEF Runs
  <2> HIDE DEF sigs
  <2>3. [run[o] EXCEPT !.i = run[o].i + 1, !.sigs = sigs] \in Runs
    <3>1. ASSUME NEW r \in Runs, NEW n \in Nat, NEW g \in SUBSET Addresses
          PROVE  [r EXCEPT !.i = n, !.sigs = g] \in Runs
      BY DEF Runs
    <3>2. run[o].i + 1 \in Nat
      BY <1>2 DEF Runs
    <3> QED BY <1>2, <2>2, <3>1, <3>2
  <2>4. run' \in [Operators -> Runs]
    BY <1>0, <2>1, <2>3
  <2> QED BY <1>0, <1>m, <2>4 DEF signTransactionBy, TypeOK
<1>n. CASE executeTransaction(o)
  <2>1. run[o].call \in Calls /\ Current \in Safes
    BY <1>2, <1>3, <1>n DEF Runs, executeTransaction, AtSafe
  <2>2. Len(safe') = 1 /\ safe'[1] \in Safes /\ claim' \in Statuses
    <3>1. execTransaction(run[o].call)
      BY <1>n DEF executeTransaction
    <3>2. CASE run[o].call.kind \notin {"add", "remove"}
      BY <1>0, <2>1, <3>1, <3>2 DEF execTransaction, Safes
    <3>3. CASE run[o].call.kind \in {"add", "remove"}
      <4>1. /\ run[o].call.owner \in Addresses
            /\ run[o].call.threshold \in Thresholds
        BY <2>1, <3>3 DEF Calls, Statuses, NoCall
      <4>2. CASE run[o].call.kind = "add"
        BY <1>0, <2>1, <3>1, <4>1, <4>2 DEF execTransaction, Safes, Statuses
      <4>3. CASE run[o].call.kind = "remove"
        BY <1>0, <2>1, <3>1, <4>1, <4>3 DEF execTransaction, Safes, Statuses
      <4> QED BY <3>3, <4>2, <4>3
    <3> QED BY <3>2, <3>3
  <2>3. run' \in [Operators -> Runs]
    BY <1>0, <1>2, <1>n DEF executeTransaction
  <2> QED BY <1>0, <1>n, <2>2, <2>3 DEF executeTransaction, TypeOK
<1> QED BY <1>a, <1>b, <1>c, <1>d, <1>e, <1>g, <1>h, <1>i, <1>j, <1>k, <1>l,
           <1>m, <1>n, <1>o, <1>p
-----------------------------------------------------------------------------
(* The inductive invariant *)

\* Before the deployment there is no Safe and no run.
LEMMA InitIInv == Init => IInv
<1> SUFFICES ASSUME Init PROVE IInv
  OBVIOUS
<1>1. TypeOK
  <2>1. env \in Configs
    BY DEF Init, Configs
  <2> QED BY <2>1, ConstantTypes DEF Init, TypeOK, Statuses
<1>2. SafeExists /\ SafeFits
  <2>1. env.safe = FALSE
    BY DEF Init
  <2>2. \A o \in Operators : run[o].pc = "idle"
    BY DEF Init, Idle
  <2> QED BY <2>1, <2>2 DEF Init, SafeExists, SafeFits, AtSafe
<1>3. ASSUME NEW o \in Operators PROVE RunFits(run[o], Current)
  <2>1. run[o] = Idle
    BY DEF Init
  <2> QED BY <2>1 DEF RunFits, Idle, NoCall
<1> QED BY <1>1, <1>2, <1>3 DEF IInv

\* Distinct configured keys are that many distinct owners.
LEMMA Distinct ==
  ASSUME NEW keys \in Seq(Keys), IsInjective(keys),
         NEW n \in 0..Len(keys)
  PROVE  LET S == {Point[keys[j]] : j \in 1..n}
         IN  IsFiniteSet(S) /\ Cardinality(S) = n
<1> DEFINE S == {Point[keys[j]] : j \in 1..n}
           f == [j \in 1..n |-> Point[keys[j]]]
<1>1. \A j \in 1..n : j \in DOMAIN keys /\ keys[j] \in Keys
  OBVIOUS
<1>2. \A j, m \in 1..n : Point[keys[j]] = Point[keys[m]] => j = m
  BY <1>1, PointsDiffer DEF IsInjective
<1>3. f \in Bijection(1..n, S)
  BY <1>2 DEF Bijection, Injection, Surjection, IsInjective
<1>4. ExistsBijection(1..n, S)
  BY <1>3 DEF ExistsBijection
<1> HIDE DEF S
<1>5. Cardinality(S) = n
  BY <1>4, FS_CountingElements
<1>6. IsFiniteSet(S)
  BY <1>4, FS_NatBijection
<1> QED BY <1>5, <1>6 DEF S

\* The runs of the others are as they were while the Safe is.
LEMMA OthersFit ==
  ASSUME IInv, NEW o \in Operators, NEW r,
         run' = [run EXCEPT ![o] = r], UNCHANGED safe,
         RunFits(r, Current)
  PROVE  \A p \in Operators : RunFits(run'[p], Current')
<1> SUFFICES ASSUME NEW p \in Operators PROVE RunFits(run'[p], Current')
  OBVIOUS
<1>1. Current' = Current /\ run \in [Operators -> Runs]
  BY DEF Current, IInv, TypeOK
<1>2. CASE p = o
  BY <1>1, <1>2
<1>3. CASE p # o
  BY <1>1, <1>3 DEF IInv
<1> QED BY <1>2, <1>3

\* A script that does not run fits any Safe.
LEMMA IdleFits == \A sf : RunFits(Idle, sf)
BY DEF RunFits, Idle, NoCall

\* One step of an operator's run keeps every run in line with the Safe.
LEMMA RunStep ==
  ASSUME AddressIsPoint, IInv, NEW o \in Operators,
         \/ \E script \in Scripts : \E arg \in commandLine(script) :
              loadConfig(o, script, arg)
         \/ Fail(o)
         \/ deployFromArtifact(o) \/ createSafe(o) \/ grantRole(o)
         \/ propose(o) \/ addOwner(o) \/ checkThreshold(o)
         \/ getOwners(o) \/ getThreshold(o) \/ removeOwner(o)
         \/ getNonce(o)
         \/ readQuorum(o) \/ signTransactionBy(o)
         \/ executeTransaction(o)
  PROVE  \A p \in Operators : RunFits(run'[p], Current')
<1>0. /\ run \in [Operators -> Runs] /\ run[o] \in Runs
      /\ RunFits(run[o], Current)
      /\ \A p \in Operators : RunFits(run[p], Current)
  BY DEF IInv, TypeOK
<1>1. run[o].pc \in AtSafe => safe # <<>> /\ Current \in Safes
  BY DEF IInv, SafeExists, TypeOK, Current
<1>a. ASSUME NEW script \in Scripts, NEW arg \in commandLine(script),
             loadConfig(o, script, arg)
      PROVE  \A p \in Operators : RunFits(run'[p], Current')
  <2> DEFINE r == [Idle EXCEPT !.script = script, !.pc = script, !.config = env,
                               !.arg = arg]
  <2>1. run' = [run EXCEPT ![o] = r] /\ UNCHANGED safe
    BY <1>a DEF loadConfig
  <2>2. RunFits(r, Current)
    BY DEF Scripts, RunFits, Idle, NoCall
  <2> HIDE DEF r
  <2> QED BY <2>1, <2>2, OthersFit
<1>b. ASSUME run' = [run EXCEPT ![o] = Idle], UNCHANGED safe
      PROVE  \A p \in Operators : RunFits(run'[p], Current')
  BY <1>b, IdleFits, OthersFit
<1>c. CASE deployFromArtifact(o)
  <2> DEFINE r == IF run[o].i + 1 < Infrastructure
                  THEN [run[o] EXCEPT !.i = run[o].i + 1] ELSE Idle
  <2>1. run' = [run EXCEPT ![o] = r] /\ UNCHANGED safe /\ run[o].pc = "deploy"
    BY <1>c DEF deployFromArtifact
  <2>2. RunFits([run[o] EXCEPT !.i = run[o].i + 1], Current)
    BY <1>0, <2>1 DEF RunFits, Runs
  <2>3. RunFits(r, Current)
    BY <2>2, IdleFits
  <2> HIDE DEF r
  <2> QED BY <2>1, <2>3, OthersFit
<1>d. CASE createSafe(o)
  <2>1. safe = <<>> /\ run' = [run EXCEPT ![o] = Idle]
    BY <1>d DEF createSafe, setupSafe
  <2>2. ASSUME NEW p \in Operators PROVE RunFits(run'[p], Current')
    <3>1. CASE p = o
      BY <1>0, <2>1, <3>1, IdleFits
    <3>2. CASE p # o
      <4>1. run'[p] = run[p] /\ RunFits(run[p], Current)
        BY <1>0, <2>1, <3>2
      <4>2. run[p].pc \notin AtSafe
        BY <2>1 DEF IInv, SafeExists
      <4> QED BY <4>1, <4>2 DEF RunFits, AtSafe
    <3> QED BY <3>1, <3>2
  <2> QED BY <2>2
<1>f. ASSUME NEW call, createTransaction(o, call), run[o].pc \in AtSafe \ {"sign"},
             call.kind = "add" => call.owner \in Points
      PROVE  \A p \in Operators : RunFits(run'[p], Current')
  <2> DEFINE r == [run[o] EXCEPT !.pc = "nonce", !.call = call,
                                 !.owners = {}, !.threshold = NotGiven]
  <2>1. run' = [run EXCEPT ![o] = r] /\ UNCHANGED safe
    BY <1>0, <1>f DEF createTransaction
  <2>2. /\ r.pc = "nonce" /\ r.call = call
        /\ r.i = run[o].i /\ r.sigs = run[o].sigs
    BY <1>0 DEF Runs
  <2> HIDE DEF r
  <2>3. run[o].i = 0 /\ run[o].sigs = {}
    BY <1>0, <1>f DEF RunFits, AtSafe
  <2>4. RunFits(r, Current)
    BY <1>f, <2>2, <2>3 DEF RunFits
  <2> QED BY <2>1, <2>4, OthersFit
<1>g. CASE propose(o)
  <2>1. createTransaction(o, buildCalldata(run[o].arg.action))
    BY <1>g DEF propose
  <2>2. buildCalldata(run[o].arg.action).kind # "add"
    BY DEF buildCalldata, NoCall
  <2>3. run[o].pc \in AtSafe \ {"sign"}
    BY <1>g DEF propose, AtSafe
  <2> HIDE DEF createTransaction
  <2> QED BY <1>f, <2>1, <2>2, <2>3
<1>h. CASE addOwner(o)
  <2> DEFINE r == [run[o] EXCEPT !.pc = "check", !.owners = Current.owners]
  <2>1. run' = [run EXCEPT ![o] = r] /\ UNCHANGED safe /\ run[o].pc = "add"
    BY <1>0, <1>h DEF addOwner
  <2>2. /\ r.pc = "check" /\ r.i = run[o].i /\ r.sigs = run[o].sigs
        /\ r.call = run[o].call
    BY <1>0 DEF Runs
  <2> HIDE DEF r
  <2>3. RunFits(r, Current)
    BY <1>0, <2>1, <2>2 DEF RunFits
  <2> QED BY <2>1, <2>3, OthersFit
<1>o. CASE checkThreshold(o)
  <2> DEFINE owner == newOwner(o)
             t == IF run[o].arg.threshold = NotGiven THEN Current.threshold
                  ELSE run[o].arg.threshold
             call == [kind |-> "add", owner |-> owner, threshold |-> t]
  <2>1. owner \in Points
    BY <1>0 DEF newOwner, Runs, Arguments, AddressIsPoint, Points
  <2>2. run[o].pc \in AtSafe \ {"sign"} /\ createTransaction(o, call)
    BY <1>o DEF checkThreshold, AtSafe
  <2>3. call.owner \in Points
    BY <2>1
  <2> HIDE DEF call
  <2> QED BY <1>f, <2>2, <2>3
<1>i. CASE getOwners(o)
  <2> DEFINE r == [run[o] EXCEPT !.pc = "threshold", !.owners = Current.owners]
  <2>1. run' = [run EXCEPT ![o] = r] /\ UNCHANGED safe /\ run[o].pc = "remove"
    BY <1>0, <1>i DEF getOwners
  <2>2. /\ r.pc = "threshold" /\ r.i = run[o].i /\ r.sigs = run[o].sigs
        /\ r.call = run[o].call
    BY <1>0 DEF Runs
  <2> HIDE DEF r
  <2>3. RunFits(r, Current)
    BY <1>0, <2>1, <2>2 DEF RunFits
  <2> QED BY <2>1, <2>3, OthersFit
<1>j. CASE getThreshold(o)
  <2> DEFINE r == [run[o] EXCEPT !.pc = "build", !.owners = {},
                                 !.threshold = newThreshold(o)]
  <2>1. run' = [run EXCEPT ![o] = r] /\ UNCHANGED safe /\ run[o].pc = "threshold"
    BY <1>0, <1>j DEF getThreshold
  <2>2. newThreshold(o) \in Thresholds
    BY <1>0, <1>1, <2>1 DEF newThreshold, AtSafe, Safes, Runs, Arguments
  <2>3. /\ r.pc = "build" /\ r.i = run[o].i /\ r.sigs = run[o].sigs
        /\ r.threshold = newThreshold(o) /\ r.call = run[o].call
    BY <1>0 DEF Runs
  <2> HIDE DEF r
  <2>4. RunFits(r, Current)
    BY <1>0, <2>1, <2>2, <2>3 DEF RunFits
  <2> QED BY <2>1, <2>4, OthersFit
<1>k. CASE removeOwner(o)
  <2> DEFINE call == [kind |-> "remove", owner |-> departing(o),
                      threshold |-> run[o].threshold]
  <2>1. run[o].pc \in AtSafe \ {"sign"} /\ createTransaction(o, call)
    BY <1>k DEF removeOwner, AtSafe
  <2>2. call.kind # "add"
    OBVIOUS
  <2> HIDE DEF call
  <2> QED BY <1>f, <2>1, <2>2
<1>p. CASE getNonce(o)
  <2> DEFINE r == [run[o] EXCEPT !.pc = "quorum", !.nonce = Current.nonce]
  <2>1. run' = [run EXCEPT ![o] = r] /\ UNCHANGED safe /\ run[o].pc = "nonce"
    BY <1>0, <1>p DEF getNonce
  <2>2. /\ r.pc = "quorum" /\ r.i = run[o].i /\ r.sigs = run[o].sigs
        /\ r.call = run[o].call /\ r.nonce = Current.nonce
    BY <1>0 DEF Runs
  <2>3. Current.nonce \in Nat
    BY <1>1, <2>1 DEF AtSafe, Safes
  <2> HIDE DEF r
  <2>4. RunFits(r, Current)
    BY <1>0, <2>1, <2>2, <2>3 DEF RunFits
  <2> QED BY <2>1, <2>4, OthersFit
<1>l. CASE readQuorum(o)
  <2> DEFINE r == [run[o] EXCEPT !.pc = "sign", !.need = quorum(o)]
  <2>1. run' = [run EXCEPT ![o] = r] /\ UNCHANGED safe /\ run[o].pc = "quorum"
    BY <1>0, <1>l DEF readQuorum
  <2>2. /\ r.pc = "sign" /\ r.need = Current.threshold /\ r.i = run[o].i
        /\ r.sigs = run[o].sigs /\ r.nonce = run[o].nonce
        /\ r.call = run[o].call /\ r.config = run[o].config
    BY <1>0 DEF Runs, quorum
  <2>3. run[o].i = 0 /\ run[o].sigs = {} /\ Len(run[o].config.keys) \in Nat
    BY <1>0, <2>1, OpsBounds DEF RunFits, Runs, Configs
  <2> HIDE DEF r
  <2>4. SignedBy(r) = {}
    BY <2>2, <2>3 DEF SignedBy
  <2>5. RunFits(r, Current)
    BY <1>0, <2>1, <2>2, <2>3, <2>4 DEF RunFits
  <2> QED BY <2>1, <2>5, OthersFit
<1>m. CASE signTransactionBy(o)
  <2> DEFINE k == run[o].config.keys[run[o].i + 1]
             sigs == run[o].sigs \cup {Point[k]}
             r == [run[o] EXCEPT !.i = run[o].i + 1, !.sigs = sigs]
             keys == run[o].config.keys
             i == run[o].i
  <2>1. run' = [run EXCEPT ![o] = r] /\ Point[k] \in Current.owners
    BY <1>m, SignEffect DEF IInv
  <2>2. UNCHANGED safe /\ run[o].pc = "sign" /\ i < Len(keys)
    BY <1>m DEF signTransactionBy
  <2>3. /\ r.pc = "sign" /\ r.need = run[o].need /\ r.i = i + 1
        /\ r.sigs = sigs /\ r.nonce = run[o].nonce
        /\ r.call = run[o].call /\ r.config = run[o].config
        /\ i \in Nat /\ Len(keys) \in Nat
    BY <1>0, <2>2, OpsBounds DEF Runs, Configs
  <2>4. /\ run[o].sigs = SignedBy(run[o]) /\ run[o].nonce <= Current.nonce
        /\ run[o].call.kind = "add" => run[o].call.owner \in Points
        /\ run[o].nonce = Current.nonce =>
             /\ run[o].need = Current.threshold
             /\ SignedBy(run[o]) \subseteq Current.owners
    BY <1>0, <2>2 DEF RunFits
  <2> HIDE DEF r
  <2>5. SignedBy(r) = SignedBy(run[o]) \cup {Point[k]}
    <3>1. 1..(i + 1) = (1..i) \cup {i + 1}
      BY <2>3
    <3>2. SignedBy(r) = {Point[keys[j]] : j \in 1..(i + 1)}
      BY <2>3 DEF SignedBy
    <3> QED BY <3>1, <3>2 DEF SignedBy
  <2>6. r.i <= Len(r.config.keys)
    BY <2>2, <2>3
  <2> HIDE DEF keys, i, k
  <2>7. RunFits(r, Current)
    BY <2>1, <2>3, <2>4, <2>5, <2>6 DEF RunFits
  <2> QED BY <2>1, <2>2, <2>7, OthersFit
<1>n. CASE executeTransaction(o)
  <2>1. run' = [run EXCEPT ![o] = Idle] /\ run[o].pc \in AtSafe
    BY <1>n DEF executeTransaction, AtSafe
  <2>2. Current'.nonce = Current.nonce + 1 /\ Current.nonce \in Nat
    BY <1>1, <1>n, <2>1 DEF executeTransaction, execTransaction, Current, Safes
  <2>3. ASSUME NEW p \in Operators PROVE RunFits(run'[p], Current')
    <3>1. CASE p = o
      BY <1>0, <2>1, <3>1, IdleFits
    <3>2. CASE p # o
      <4>1. run'[p] = run[p] /\ RunFits(run[p], Current) /\ run[p].nonce \in Nat
        BY <1>0, <2>1, <3>2 DEF Runs
      <4>2. run[p].nonce <= Current.nonce =>
              run[p].nonce <= Current'.nonce /\ run[p].nonce # Current'.nonce
        BY <2>2, <4>1
      <4> QED BY <4>1, <4>2 DEF RunFits
    <3> QED BY <3>1, <3>2
  <2> QED BY <2>3
<1> QED BY <1>a, <1>b, <1>c, <1>d, <1>g, <1>h, <1>i, <1>j, <1>k, <1>l,
           <1>m, <1>n, <1>o, <1>p DEF Fail, grantRole

\* The Safe keeps enough owners: a change of owners that is executed fits the
\* Safe it is executed on.
LEMMA SafeStep ==
  ASSUME AddressIsPoint, IInv, Next
  PROVE  SafeExists' /\ SafeFits'
<1>0. /\ run \in [Operators -> Runs] /\ env \in Configs
      /\ safe = <<>> \/ (Len(safe) = 1 /\ Current \in Safes)
      /\ SafeExists /\ SafeFits
  BY DEF IInv, TypeOK, Current
<1>1. CASE EditEnv
  <2>1. UNCHANGED <<safe, run, printed>> /\ (env'.safe => "safe" \in printed)
    BY <1>0, <1>1 DEF EditEnv, SafeExists, Configs
  <2> QED BY <1>0, <2>1 DEF SafeExists, SafeFits, Current
<1> SUFFICES ASSUME NEW o \in Operators,
                    \/ \E script \in Scripts : \E arg \in commandLine(script) :
                         loadConfig(o, script, arg)
                    \/ Fail(o)
                    \/ deployFromArtifact(o) \/ createSafe(o) \/ grantRole(o)
                    \/ propose(o) \/ addOwner(o) \/ checkThreshold(o)
                    \/ getOwners(o) \/ getThreshold(o) \/ removeOwner(o)
                    \/ getNonce(o)
                    \/ readQuorum(o) \/ signTransactionBy(o)
                    \/ executeTransaction(o)
             PROVE  SafeExists' /\ SafeFits'
  BY <1>1 DEF Next
<1>2. run[o] \in Runs /\ Idle.pc = "idle"
  BY <1>0 DEF Idle
<1>3. ASSUME NEW r, run' = [run EXCEPT ![o] = r],
             r.pc \in AtSafe => run[o].pc \in AtSafe \/ env.safe,
             UNCHANGED <<safe, env>>,
             printed' = printed \/ printed' = printed \cup {"infra"}
      PROVE  SafeExists' /\ SafeFits'
  <2>1. SafeFits'
    BY <1>0, <1>3 DEF SafeFits, Current
  <2>2. ASSUME NEW p \in Operators, run'[p].pc \in AtSafe
        PROVE  safe # <<>>
    <3>1. CASE p = o
      BY <1>0, <1>3, <2>2, <3>1 DEF SafeExists
    <3>2. CASE p # o
      BY <1>0, <1>3, <2>2, <3>2 DEF SafeExists
    <3> QED BY <3>1, <3>2
  <2>3. "safe" \in printed' <=> "safe" \in printed
    BY <1>3
  <2> QED BY <1>0, <1>3, <2>1, <2>2, <2>3 DEF SafeExists
<1>a. ASSUME NEW script \in Scripts, NEW arg \in commandLine(script),
             loadConfig(o, script, arg)
      PROVE  SafeExists' /\ SafeFits'
  <2> DEFINE r == [Idle EXCEPT !.script = script, !.pc = script, !.config = env,
                               !.arg = arg]
  <2>1. run' = [run EXCEPT ![o] = r] /\ UNCHANGED <<safe, env, printed>>
    BY <1>a DEF loadConfig
  <2>2. r.pc \in AtSafe => env.safe
    BY <1>a DEF loadConfig, configured, Idle, AtSafe
  <2> HIDE DEF r
  <2> QED BY <1>3, <2>1, <2>2
<1>b. CASE Fail(o) \/ grantRole(o)
  BY <1>2, <1>3, <1>b DEF Fail, grantRole, AtSafe
<1>c. CASE deployFromArtifact(o)
  <2> DEFINE r == IF run[o].i + 1 < Infrastructure
                  THEN [run[o] EXCEPT !.i = run[o].i + 1] ELSE Idle
  <2>1. /\ run' = [run EXCEPT ![o] = r] /\ UNCHANGED <<safe, env>>
        /\ printed' = printed \/ printed' = printed \cup {"infra"}
    BY <1>c DEF deployFromArtifact
  <2>2. r.pc \in {"deploy", "idle"}
    BY <1>2, <1>c DEF deployFromArtifact, Runs
  <2> HIDE DEF r
  <2> QED BY <1>3, <2>1, <2>2 DEF AtSafe
<1>d. CASE createSafe(o)
  <2> DEFINE keys == run[o].config.keys
             t == run[o].config.threshold
             owners == [j \in DOMAIN keys |-> getAddress(keys[j])]
             S == {Point[keys[j]] : j \in 1..Len(keys)}
  <2>1. keys \in Seq(Keys)
    BY <1>2, OpsBounds DEF Runs, Configs
  <2>2. /\ safe' = <<[owners |-> Range(owners), threshold |-> t, nonce |-> 0]>>
        /\ IsInjective(owners) /\ t <= Len(keys)
        /\ UNCHANGED env /\ printed \subseteq printed'
    BY <1>d, <2>1, SMTT(30) DEF createSafe, setupSafe
  <2> HIDE DEF keys, t
  <2>3. \A j \in 1..Len(keys) : owners[j] = Point[keys[j]] /\ keys[j] \in Keys
    BY <2>1 DEF AddressIsPoint
  <2>4. Range(owners) = S
    <3>1. DOMAIN owners = 1..Len(keys)
      BY <2>1
    <3> HIDE DEF owners
    <3> QED BY <2>3, <3>1 DEF Range
  <2>5. IsInjective(keys)
    BY <2>1, <2>2, <2>3 DEF IsInjective
  <2>6. IsFiniteSet(S) /\ Cardinality(S) = Len(keys)
    <3>1. Len(keys) \in 0..Len(keys)
      BY <2>1
    <3> QED BY <2>1, <2>5, <3>1, Distinct
  <2>7. S \subseteq Points
    BY <2>3 DEF Points
  <2> HIDE DEF S, owners
  <2>8. /\ safe' # <<>> /\ Current'.owners = S /\ Current'.threshold = t
    BY <2>2, <2>4 DEF Current
  <2>9. SafeFits'
    BY <2>2, <2>6, <2>7, <2>8 DEF SafeFits
  <2> QED BY <1>0, <2>2, <2>8, <2>9 DEF SafeExists
<1>f. ASSUME NEW call, createTransaction(o, call), run[o].pc \in AtSafe
      PROVE  SafeExists' /\ SafeFits'
  BY <1>3, <1>f DEF createTransaction
<1>g. CASE propose(o) \/ checkThreshold(o) \/ removeOwner(o)
  BY <1>f, <1>g DEF propose, checkThreshold, removeOwner, AtSafe
<1>h. CASE addOwner(o) \/ getOwners(o) \/ getThreshold(o) \/ getNonce(o) \/ readQuorum(o)
  BY <1>3, <1>h DEF addOwner, getOwners, getThreshold, getNonce, readQuorum, AtSafe
<1>i. CASE signTransactionBy(o)
  BY <1>3, <1>i, SignEffect DEF signTransactionBy, AtSafe, IInv
<1>j. CASE executeTransaction(o)
  <2> DEFINE call == run[o].call
  <2>1. /\ run[o].pc = "sign" /\ execTransaction(call)
        /\ run' = [run EXCEPT ![o] = Idle] /\ UNCHANGED <<env, printed>>
    BY <1>j DEF executeTransaction
  <2>2. safe # <<>>
    BY <1>0, <2>1 DEF SafeExists, AtSafe
  <2>3. call.kind = "add" => call.owner \in Points
    BY DEF IInv, RunFits
  <2>4. safe' # <<>>
    BY <2>1 DEF execTransaction
  <2>5. IsFiniteSet(Current.owners) /\ Current.owners \subseteq Points
    BY <1>0, <2>2 DEF SafeFits
  <2>6. SafeExists'
    BY <1>0, <2>1, <2>4 DEF SafeExists
  <2> HIDE DEF call
  <2>7. /\ Current'.threshold \in 1..Cardinality(Current'.owners)
        /\ Current'.owners \in {Current.owners, Current.owners \cup {call.owner},
                                Current.owners \ {call.owner}}
        /\ call.kind # "add" => Current'.owners \subseteq Current.owners
    BY <2>1 DEF execTransaction, Current
  <2>8. IsFiniteSet(Current'.owners)
    BY <2>5, <2>7, FS_AddElement, FS_RemoveElement
  <2>9. Current'.owners \subseteq Points
    BY <2>3, <2>5, <2>7
  <2> QED BY <2>4, <2>6, <2>7, <2>8, <2>9 DEF SafeFits
<1> QED BY <1>a, <1>b, <1>c, <1>d, <1>g, <1>h, <1>i, <1>j
-----------------------------------------------------------------------------
\* Every step of the operators and of the others preserves the invariant.
LEMMA StepIInv ==
  ASSUME AddressIsPoint
  PROVE  IInv /\ [Next]_vars => IInv'
<1>1. ASSUME IInv, Next PROVE IInv'
  <2>1. \A p \in Operators : RunFits(run'[p], Current')
    <3>1. CASE EditEnv
      BY <1>1, <3>1 DEF EditEnv, IInv, Current
    <3>2. CASE ~EditEnv
      BY <1>1, <3>2, RunStep DEF Next
    <3> QED BY <3>1, <3>2
  <2>2. TypeOK' /\ SafeExists' /\ SafeFits'
    BY <1>1, TypeStep, SafeStep
  <2> QED BY <2>1, <2>2 DEF IInv
<1>2. ASSUME IInv, UNCHANGED vars PROVE IInv'
  BY <1>2 DEF IInv, vars, TypeOK, SafeExists, SafeFits, Current
<1> QED BY <1>1, <1>2

\* The invariant holds throughout.
LEMMA AlwaysIInv ==
  ASSUME AddressIsPoint
  PROVE  Spec => []IInv
BY InitIInv, StepIInv, PTL DEF Spec

\* The state of the .env, the Safe and the runs is of its type throughout.
THEOREM TypeCorrect ==
  ASSUME AddressIsPoint
  PROVE  Spec => []TypeOK
<1>1. IInv => TypeOK
  BY DEF IInv
<1> QED BY <1>1, AlwaysIInv, PTL

\* However the scripts of however many operators interleave, the Safe stays
\* operable: its owners are KMS keys' addresses and at least as many as the
\* threshold.  The Safe's own check keeps the threshold; that what is added is an
\* address some key signs for is the scripts' part.
THEOREM OperatorsNeverLockedOut ==
  ASSUME AddressIsPoint
  PROVE  Spec => []NoLockout
<1>1. IInv => NoLockout
  <2> SUFFICES ASSUME IInv, safe # <<>>
               PROVE  /\ Current.owners \subseteq {Point[k] : k \in Keys}
                      /\ Current.threshold \in 1..Cardinality(Current.owners)
    BY DEF NoLockout
  <2>1. Current.threshold \in Nat \ {0}
    BY OpsBounds DEF IInv, TypeOK, Current, Safes
  <2>2. /\ Current.owners \subseteq Points /\ IsFiniteSet(Current.owners)
        /\ Current.threshold <= Cardinality(Current.owners)
    BY DEF IInv, SafeFits
  <2>3. Cardinality(Current.owners) \in Nat
    BY <2>2, FS_CardinalityType
  <2> QED BY <2>1, <2>2, <2>3 DEF Points
<1> QED BY <1>1, AlwaysIInv, PTL

\* A run whose transaction is still the next one is never refused for its
\* signatures, although it read nonce, threshold and owners one by one.
THEOREM QuorumSuffices ==
  ASSUME AddressIsPoint
  PROVE  Spec => []SignaturesSuffice
<1>1. IInv => SignaturesSuffice
  <2> SUFFICES ASSUME IInv, NEW o \in Operators,
                      run[o].pc = "sign", run[o].i = run[o].need,
                      run[o].nonce = Current.nonce,
                      IsInjective(run[o].config.keys)
               PROVE  quorumAccepted(o)
    BY DEF SignaturesSuffice
  <2> DEFINE keys == run[o].config.keys
  <2>1. keys \in Seq(Keys) /\ run[o].i \in Nat
    BY OpsBounds DEF IInv, TypeOK, Runs, Configs
  <2>2. /\ run[o].i <= Len(keys) /\ run[o].sigs = SignedBy(run[o])
        /\ run[o].need = Current.threshold
        /\ SignedBy(run[o]) \subseteq Current.owners
    BY DEF IInv, RunFits
  <2>3. SignedBy(run[o]) = {Point[keys[j]] : j \in 1..run[o].i}
    BY DEF SignedBy
  <2>4. run[o].i \in 0..Len(keys) /\ IsInjective(keys)
    BY <2>1, <2>2
  <2> HIDE DEF keys
  <2>5. Cardinality(SignedBy(run[o])) = run[o].i
    BY <2>1, <2>3, <2>4, Distinct
  <2>6. run[o].sigs \cap Current.owners = SignedBy(run[o])
    BY <2>2
  <2>7. Cardinality(run[o].sigs \cap Current.owners) = run[o].need
    BY <2>5, <2>6
  <2> QED BY <2>1, <2>2, <2>7 DEF quorumAccepted
<1> QED BY <1>1, AlwaysIInv, PTL
=============================================================================
