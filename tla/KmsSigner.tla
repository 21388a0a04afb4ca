------------------------------ MODULE KmsSigner ------------------------------
(***************************************************************************)
(* kmsSigner.js and derUtils.js: from what AWS KMS answers to an Ethereum  *)
(* address and an Ethereum signature.                                      *)
(*                                                                         *)
(* KMS speaks DER, Ethereum fixed-width bytes.  A byte is a number below   *)
(* Base (256 in the code), a coordinate or scalar has Width bytes (32).    *)
(* Arrays are indexed from 1.  A thrown exception is the empty sequence.   *)
(* Hashes are injective: the address of a public key is its point, and the *)
(* digest of data is the data with the name of the hashing scheme.         *)
(***************************************************************************)
EXTENDS Integers, Sequences, FiniteSets, SequencesExt

CONSTANTS Base, Width,   \* 256 and 32
          Order,         \* SECP256K1_N
          Keys, Point    \* KMS keys, and the public point of each

HalfOrder == Order \div 2

ASSUME SignerBounds ==
  /\ Base \in Nat /\ Base % 2 = 0 /\ Base > 2 /\ Width \in Nat \ {0}
  /\ Order \in Nat /\ Order > 2 /\ Order % 2 = 1
ASSUME PointsDiffer ==
  /\ Point \in [Keys -> [1..2 * Width -> 0..(Base - 1)]]
  /\ \A k \in Keys : \A j \in Keys \ {k} : Point[k] # Point[j]

Thrown == <<>>
SEQUENCE == 6     \* the tag 0x30
INTEGER == 2      \* 0x02
BITSTRING == 3    \* 0x03
-----------------------------------------------------------------------------
(* KMS: how its answers are encoded *)

Bytes(n, width) == [i \in 1..width |-> (n \div Base^(width - i)) % Base]

\* The shortest big-endian form of n.
Minimal(n) ==
  LET w == CHOOSE w \in 1..(Width + 1) :
             n < Base^w /\ \A v \in 1..(w - 1) : n >= Base^v
  IN  Bytes(n, w)

\* Lengths from half the base on take the long form.
DerTlv(tag, value) ==
  LET len == Minimal(Len(value))
  IN  IF Len(value) < Base \div 2 THEN <<tag, Len(value)>> \o value
      ELSE <<tag, Base \div 2 + Len(len)>> \o len \o value

\* A number whose top bit is set gets a sign byte.
DerInteger(n) ==
  DerTlv(INTEGER, IF Minimal(n)[1] < Base \div 2 THEN Minimal(n)
                  ELSE <<0>> \o Minimal(n))

DerSignature(r, s) == DerTlv(SEQUENCE, DerInteger(r) \o DerInteger(s))

GetPublicKey(k) ==
  DerTlv(SEQUENCE, DerTlv(SEQUENCE, <<1, 1>>)
                     \o DerTlv(BITSTRING, <<0, 4>> \o Point[k]))

\* What key k signed: r, s and the parity of the nonce point, which the answer
\* leaves out.  Without MessageType DIGEST the message is hashed once more.
Sign(k, message, messageType, r, s, parity) ==
  [key |-> k, r |-> r, s |-> s, parity |-> parity,
   digest |-> IF messageType = "DIGEST" THEN message
              ELSE [scheme |-> "sha256", data |-> message.data]]

\* The two equivalent forms of one signature recover to the key's address,
\* anything else to some address that belongs to no key here.
recoverAddress(signed, digest, sig) ==
  IF /\ digest = signed.digest /\ sig.r = signed.r
     /\ \/ sig.s = signed.s /\ sig.v = 27 + signed.parity
        \/ sig.s = Order - signed.s /\ sig.v = 28 - signed.parity
  THEN Point[signed.key] ELSE <<0>>
-----------------------------------------------------------------------------
(* derUtils.js *)

BigEndian(bytes) == FoldLeft(LAMBDA n, b : n * Base + b, 0, bytes)

subarray(buf, from, length) ==
  SubSeq(buf, from, IF from + length - 1 > Len(buf) THEN Len(buf)
                    ELSE from + length - 1)

readTlvHeader(buf, offset) ==
  LET lengthByte == buf[offset + 1]
      numLengthBytes == IF lengthByte < Base \div 2 THEN 0
                        ELSE lengthByte - Base \div 2
  IN  [tag |-> buf[offset],
       length |-> IF lengthByte < Base \div 2 THEN lengthByte
                  ELSE BigEndian(subarray(buf, offset + 2, numLengthBytes)),
       valueOffset |-> offset + 2 + numLengthBytes]

\* Past the count of unused bits and the marker.
pointStart(header) == header.valueOffset + 2

publicKeyFromKmsDer(der) ==
  LET outer == readTlvHeader(der, 1)
      algId == readTlvHeader(der, outer.valueOffset)
      bitString == readTlvHeader(der, algId.valueOffset + algId.length)
      rawPoint == subarray(der, pointStart(bitString), 2 * Width)
  IN  IF \/ outer.tag # SEQUENCE \/ bitString.tag # BITSTRING
         \/ Len(rawPoint) # 2 * Width
      THEN Thrown ELSE rawPoint

padLeft(bytes) ==
  [i \in 1..Width |->
     IF i <= Width - Len(bytes) THEN 0 ELSE bytes[i - Width + Len(bytes)]]

\* Strip the sign byte, then pad.
toPadded32(raw) ==
  LET bytes == IF Len(raw) = Width + 1 /\ raw[1] = 0 THEN Tail(raw) ELSE raw
  IN  IF Len(bytes) > Width THEN Thrown ELSE padLeft(bytes)

\* <<r, s>>, each of Width bytes.
signatureFromKmsDer(der) ==
  LET outer == readTlvHeader(der, 1)
      rHeader == readTlvHeader(der, outer.valueOffset)
      sHeader == readTlvHeader(der, rHeader.valueOffset + rHeader.length)
      r == toPadded32(subarray(der, rHeader.valueOffset, rHeader.length))
      s == toPadded32(subarray(der, sHeader.valueOffset, sHeader.length))
  IN  IF outer.tag # SEQUENCE \/ r = Thrown \/ s = Thrown THEN Thrown
      ELSE <<r, s>>
-----------------------------------------------------------------------------
(* KmsSigner *)

\* The address is derived once per key and cached; the key never changes.
getAddress(k) == publicKeyFromKmsDer(GetPublicKey(k))

\* A mutated form: the comparison with half the order is off by one.
lowSOff(s) == IF s > HalfOrder + 1 THEN Order - s ELSE s

\* EIP-2: of the two equivalent values the lower one.
lowS(s) == IF s > HalfOrder THEN Order - s ELSE s

\* The first recovery id under which the signature recovers to the address.
findRecoveryId(signed, digest, r, s, address) ==
  {v \in {0, 1} :
     /\ recoverAddress(signed, digest, [r |-> r, s |-> s, v |-> 27 + v])
          = address
     /\ v = 1 => recoverAddress(signed, digest, [r |-> r, s |-> s, v |-> 27])
                   # address}

\* A mutated form: KMS is left to hash the digest again.
messageTypeRaw == "RAW"
messageType == "DIGEST"

\* What _signDigest makes of KMS's answer: the empty sequence if it throws, else
\* the signature.
toSignature(signed, digest, raw, address) ==
  LET r == BigEndian(raw[1])
      s == lowS(BigEndian(raw[2]))
      ids == findRecoveryId(signed, digest, r, s, address)
  IN  IF raw = Thrown \/ address = Thrown \/ ids = {} THEN Thrown
      ELSE <<[r |-> r, s |-> s, v |-> 27 + CHOOSE v \in ids : TRUE,
              signed |-> signed]>>

\* _signDigest with KMS's choice of r, s and parity.
signDigest(k, digest, r, s, parity) ==
  toSignature(Sign(k, digest, messageType, r, s, parity), digest,
              signatureFromKmsDer(DerSignature(r, s)), getAddress(k))

signMessage(k, message, r, s, parity) ==
  signDigest(k, [scheme |-> "eip191", data |-> message], r, s, parity)

signTypedData(k, message, r, s, parity) ==
  signDigest(k, [scheme |-> "eip712", data |-> message], r, s, parity)

signTransaction(k, tx, r, s, parity) ==
  signDigest(k, [scheme |-> "transaction", data |-> tx], r, s, parity)
-----------------------------------------------------------------------------
(* What the translation owes *)

\* The address is read out of KMS's answer exactly.
AddressIsPoint == \A k \in Keys : getAddress(k) = Point[k]

\* The keys all of whose signatures the chain accepts, whatever r, s and parity KMS
\* chooses and whichever method asks: the signature is there, its s is in the lower
\* half of the order, and under that method's hash it recovers to the key's address.
Canonical ==
  {k \in Keys : \A r, s \in 1..(Order - 1), parity \in {0, 1} :
     LET accepted(signature, scheme) ==
           /\ signature # Thrown
           /\ signature[1].s \in 1..HalfOrder
           /\ recoverAddress(signature[1].signed, [scheme |-> scheme, data |-> "data"],
                             signature[1]) = Point[k]
     IN  /\ accepted(signMessage(k, "data", r, s, parity), "eip191")
         /\ accepted(signTypedData(k, "data", r, s, parity), "eip712")
         /\ accepted(signTransaction(k, "data", r, s, parity), "transaction")}
=============================================================================
