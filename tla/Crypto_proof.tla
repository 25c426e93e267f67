---------------------------- MODULE Crypto_proof ----------------------------
(***************************************************************************)
(* What certificates and message codes authenticate, what a digest is the  *)
(* digest of, and which keys an application may derive.                    *)
(*                                                                         *)
(* For every set of keys and of field values: the key that certificates    *)
(* put in force is certified by a chain from the root.  The invariant adds *)
(* that the key stays certified while it is not in force, which is when it *)
(* verifies the next certificate, and that no key is in force while a      *)
(* certificate is read, when the usage may be another.                     *)
(*                                                                         *)
(* For every length of hashes, blocks, keys and messages: the code of a    *)
(* message given in pieces is the HMAC of RFC 2104.  The invariant says    *)
(* what the context holds between two calls.                               *)
(*                                                                         *)
(* For every length of blocks, of the length field and of messages: the    *)
(* digest of data given in pieces is that of the whole, for each of the    *)
(* seven hashes.  The invariant says where the bytes are between two steps *)
(* of a call, and what stops a context that was finished.                  *)
(*                                                                         *)
(* For every declaration, of any number of entries and of any length: the  *)
(* checks of a path allow what the declaration lists.  The invariant says  *)
(* that the walk is where an entry begins and what it has passed.          *)
(*                                                                         *)
(* For every input and all numbers: what is read as a signature is the DER *)
(* encoding of its numbers, and what is written is too.                    *)
(***************************************************************************)
EXTENDS OsPki, CxHmac, CxHash, PathCheck, DerCalls, SequenceTheorems, WellFoundedInduction, TLAPS

Keys == [curve : Nat, name : KeyNames \cup {TestRoot, ProdRoot, NoName}]
Records == [key_usage : Nat, signer_sign_algo : Nat, pk_sign_algo : Nat, trusted_name : Nat, signer_id : Nat, public_key : Keys]

PkiTypes ==
  /\ os_pki \in Records
  /\ os_pki_set \in BOOLEAN
  /\ public_key \in Keys
  /\ expected_key_usage \in Nat

KeyCertified == os_pki.public_key \in certified \cup {NoKey}
UsageAsked == os_pki_set => os_pki.key_usage = expected_key_usage
NoneWhileRead == pki_at = "fields" => ~os_pki_set
SignersCertified == RootKey \in certified /\ verdict \in certified

PkiInv == PkiTypes /\ KeyCertified /\ UsageAsked /\ NoneWhileRead /\ SignersCertified

---------------------------------------------------------------------------
\* The empty key is on no curve.
LEMMA KeyShapes ==
  /\ NoKey \in Keys /\ RootKey \in Keys
  /\ NoKey.curve \notin Domains
  /\ RootKey.curve \in Domains
  /\ Blank \in Records /\ Blank.public_key = NoKey
  BY PkiAssumption DEF NoKey, RootKey, Key, Keys, Blank, Records, Domains, CX_CURVE_SECP256K1, CX_CURVE_Ed25519

\* A verification says yes only to a signature of its key, which is on a curve.
LEMMA VerifySound ==
  ASSUME NEW key \in Keys, NEW algo \in Nat, NEW s \in Signatures,
         "yes" \in cx_verify(key, algo, s) \/ "yes" \in cx_ecdsa_internal_verify(key, algo, s)
  PROVE  s.key = key /\ key.curve \in Domains
<1>1. s = [key |-> key, algo |-> algo] => s.key = key
  OBVIOUS
<1>2. "yes" \in cx_ecdsa_internal_verify(key, algo, s) => s.key = key /\ key.curve \in Domains
  <2>1. CASE key.curve \notin Domains
    BY <2>1 DEF cx_ecdsa_internal_verify
  <2>2. CASE key.curve \in Domains /\ key.curve = CX_CURVE_Ed25519
    BY <2>2 DEF cx_ecdsa_internal_verify
  <2>3. CASE key.curve \in Domains /\ key.curve # CX_CURVE_Ed25519
    BY <1>1, <2>3 DEF cx_ecdsa_internal_verify, Answers
  <2> QED
    BY <2>1, <2>2, <2>3
<1>3. "yes" \in cx_eddsa_internal_verify(key, algo, s) => s.key = key /\ key.curve \in Domains
  BY <1>1 DEF cx_eddsa_internal_verify, Answers, Domains
<1> QED
  BY <1>2, <1>3 DEF cx_verify

\* The initial state: no key, and only the root is certified.
LEMMA PkiInitHolds == PkiInit => PkiInv
  BY KeyShapes DEF PkiInit, PkiInv, PkiTypes, KeyCertified, UsageAsked, NoneWhileRead, SignersCertified, Blank, Records

\* A refused certificate leaves an empty key that is not in force.
LEMMA RefuseKeeps == ASSUME PkiInv, pki_at = "fields", Refuse PROVE PkiInv'
  BY KeyShapes DEF PkiInv, Refuse, PkiTypes, KeyCertified, UsageAsked, NoneWhileRead, SignersCertified

\* A crash changes nothing that was loaded.
LEMMA CrashKeeps == ASSUME PkiInv, Crash PROVE PkiInv'
  BY DEF PkiInv, Crash, PkiTypes, KeyCertified, UsageAsked, NoneWhileRead, SignersCertified

\* A field changes the record, not its key, while no key is in force.
LEMMA FieldKeeps ==
  ASSUME PkiInv, NEW tag, NEW v \in Nat, NEW len, FieldRead(tag, v, len)
  PROVE  PkiInv'
<1>1. Kept(tag, v) \in Records /\ Kept(tag, v).public_key = os_pki.public_key
  BY DEF PkiInv, PkiTypes, Kept, Records
<1>2. public_key' \in Keys
  BY DEF PkiInv, PkiTypes, FieldRead, Keys
<1> QED
  BY <1>1, <1>2 DEF PkiInv, FieldRead, PkiTypes, KeyCertified, UsageAsked, NoneWhileRead, SignersCertified

\* The key of a certificate that is read is only in the caller's buffer.
LEMMA KeyReadKeeps == ASSUME PkiInv, NEW name \in KeyNames, KeyRead(name) PROVE PkiInv'
<1>1. public_key' \in Keys
  BY DEF PkiInv, PkiTypes, KeyRead, Keys, Key
<1> QED
  BY <1>1 DEF PkiInv, KeyRead, PkiTypes, KeyCertified, UsageAsked, NoneWhileRead, SignersCertified

\* A certificate that is accepted is signed by the root or by the key before it, both certified.
LEMMA SignatureKeeps == ASSUME PkiInv, NEW s \in Signatures, SignatureRead(s) PROVE PkiInv'
<1> DEFINE algo == os_pki.signer_sign_algo
<1>1. algo \in Nat /\ os_pki.public_key \in Keys
  BY DEF PkiInv, PkiTypes, Records
<1>2. CASE pki_at = "fields" /\ Refuse
  BY <1>2, RefuseKeeps
<1>3. CASE Crash
  BY <1>3, CrashKeeps
<1>4. CASE /\ "yes" \in LoadOutcomes(s) /\ public_key.curve \in Domains
           /\ expected_key_usage = os_pki.key_usage
           /\ os_pki' = [os_pki EXCEPT !.public_key = InitKey(public_key)]
           /\ os_pki_set' = TRUE
           /\ pki_at' = "idle"
           /\ certified' = IF s.key \in certified THEN certified \cup {InitKey(public_key)} ELSE certified
           /\ UNCHANGED <<public_key, expected_key_usage, bn_locked, verdict>>
  <2>1. "yes" \in cx_ecdsa_internal_verify(RootKey, algo, s) \/ "yes" \in cx_verify(os_pki.public_key, algo, s)
    BY <1>4 DEF LoadOutcomes, os_ecdsa_verify_with_root_ca
  <2>2. s.key = RootKey \/ (s.key = os_pki.public_key /\ os_pki.public_key.curve \in Domains)
    BY <1>1, <2>1, VerifySound, KeyShapes
  <2>3. s.key \in certified
    BY <2>2, KeyShapes DEF PkiInv, KeyCertified, SignersCertified
  <2>4. InitKey(public_key) \in Keys
    BY KeyShapes DEF InitKey, PkiInv, PkiTypes
  <2>5. os_pki' \in Records /\ os_pki'.public_key = InitKey(public_key) /\ os_pki'.key_usage = os_pki.key_usage
    BY <1>4, <2>4 DEF PkiInv, PkiTypes, Records
  <2> QED
    BY <1>4, <2>3, <2>5 DEF PkiInv, PkiTypes, KeyCertified, UsageAsked, NoneWhileRead, SignersCertified
<1> QED
  BY <1>2, <1>3, <1>4 DEF SignatureRead

\* What os_pki_verify confirms is signed by the key in force.
LEMMA VerifyKeeps == ASSUME PkiInv, NEW s \in Signatures, sys_os_pki_verify(s) PROVE PkiInv'
<1>1. CASE Crash
  BY <1>1, CrashKeeps
<1>2. CASE /\ UNCHANGED <<os_pki, os_pki_set, public_key, expected_key_usage, pki_at, bn_locked, certified>>
           /\ \/ verdict' = RootKey
              \/ verdict' = s.key /\ "yes" \in cx_verify(os_pki.public_key, os_pki.pk_sign_algo, s)
  <2>1. os_pki.pk_sign_algo \in Nat /\ os_pki.public_key \in Keys
    BY DEF PkiInv, PkiTypes, Records
  <2>2. verdict' = RootKey \/ (verdict' = os_pki.public_key /\ os_pki.public_key.curve \in Domains)
    BY <1>2, <2>1, VerifySound
  <2>3. verdict' \in certified
    BY <2>2, KeyShapes DEF PkiInv, KeyCertified, SignersCertified
  <2> QED
    BY <1>2, <2>3 DEF PkiInv, PkiTypes, KeyCertified, UsageAsked, NoneWhileRead, SignersCertified
<1> QED
  BY <1>1, <1>2 DEF sys_os_pki_verify

\* Every step of the application and the certificates keeps the invariant.
LEMMA PkiNextKeeps == ASSUME PkiInv, [PkiNext]_pkiVars PROVE PkiInv'
<1> USE DEF PkiInv, PkiTypes, KeyCertified, UsageAsked, NoneWhileRead, SignersCertified
<1>1. CASE AppLock
  BY <1>1 DEF AppLock
<1>2. CASE \E usage \in {1, 2}, buffer \in Buffers : LoadBegins(usage, buffer)
  <2>1. Buffers \subseteq Keys
    BY DEF Buffers, Keys, Domains, CX_CURVE_SECP256K1, CX_CURVE_Ed25519
  <2>2. PICK usage \in {1, 2}, buffer \in Buffers : LoadBegins(usage, buffer)
    BY <1>2
  <2>3. public_key' \in Keys /\ expected_key_usage' \in Nat /\ os_pki_set' = FALSE /\ os_pki' = os_pki
    BY <2>1, <2>2 DEF LoadBegins
  <2>4. certified' = certified /\ verdict' = verdict
    BY <2>2 DEF LoadBegins
  <2> QED
    BY <2>3, <2>4
<1>3. CASE \E tag \in Tags \cup {"OTHER"} : \E f \in FieldValues[tag] : FieldRead(tag, f[1], f[2]) \/ BadFieldRead(tag, f[1], f[2])
  <2>1. PICK tag \in Tags \cup {"OTHER"} : \E f \in FieldValues[tag] : FieldRead(tag, f[1], f[2]) \/ BadFieldRead(tag, f[1], f[2])
    BY <1>3
  <2>2. PICK f \in FieldValues[tag] : FieldRead(tag, f[1], f[2]) \/ BadFieldRead(tag, f[1], f[2])
    BY <2>1
  <2>3. f[1] \in Nat
    BY <2>2, FieldAssumption
  <2> HIDE DEF PkiInv
  <2> QED
    BY <2>2, <2>3, FieldKeeps, RefuseKeeps DEF BadFieldRead
<1>4. CASE \E name \in KeyNames : KeyRead(name)
  BY <1>4, KeyReadKeeps
<1>5. CASE KeyBad \/ WrongUsage
  BY <1>5, RefuseKeeps DEF KeyBad, WrongUsage
<1>6. CASE \E s \in Signatures : SignatureRead(s) \/ sys_os_pki_verify(s)
  BY <1>6, SignatureKeeps, VerifyKeeps
<1>7. CASE sys_os_pki_get_info
  <2>1. CASE os_pki.public_key.curve \notin Domains
    BY <1>7, <2>1, CrashKeeps DEF sys_os_pki_get_info
  <2>2. CASE os_pki.public_key.curve \in Domains
    <3>1. public_key' = InitKey(os_pki.public_key)
      BY <1>7, <2>2 DEF sys_os_pki_get_info
    <3>2. UNCHANGED <<os_pki, os_pki_set, expected_key_usage, pki_at, bn_locked, certified, verdict>>
      BY <1>7, <2>2 DEF sys_os_pki_get_info
    <3>3. public_key' \in Keys
      BY <3>1, KeyShapes DEF InitKey, Records
    <3> QED
      BY <3>2, <3>3
  <2> QED
    BY <2>1, <2>2
<1>8. CASE UNCHANGED pkiVars
  BY <1>8 DEF pkiVars
<1> QED
  BY <1>1, <1>2, <1>3, <1>4, <1>5, <1>6, <1>7, <1>8 DEF PkiNext

\* Whatever fields and signatures an application hands in, the key that os_pki_load_certificate
\* puts in force comes from the root by a chain of signatures and has the usage asked for, and
\* os_pki_verify confirms no signature but those of such keys.
THEOREM CertificatesChain == PkiSpec => []PkiTrusted
<1>1. PkiInit => PkiInv
  BY PkiInitHolds
<1>2. PkiInv /\ [PkiNext]_pkiVars => PkiInv'
  BY PkiNextKeeps
<1>3. PkiInv => PkiTrusted
  BY DEF PkiInv, PkiTrusted, KeyCertified, UsageAsked, SignersCertified
<1> QED
  BY <1>1, <1>2, <1>3, PTL DEF PkiSpec

---------------------------------------------------------------------------
(* cx_hmac.c.                                                              *)

\* The key as RFC 2104 uses it: hashed when it is longer than a block, then
\* filled with zeros; and under a pad.
BlockKey(n) == Fill(IF Len(KeyBytes(n)) > HmacBlock THEN Hash(KeyBytes(n)) ELSE KeyBytes(n), HmacBlock)
Under(pad, n) == [i \in 1..HmacBlock |-> <<"x", {pad}, BlockKey(n)[i]>>]

\* What is in the context's key, and the code of a message, after either setting up.
ZeroBlock == Fill(<<>>, HmacBlock)
ContextKey(set, n) == IF set = "given" THEN Under("ipad", n) ELSE ZeroBlock
CodeOf(set, n, m) == IF set = "given" THEN Rfc2104(KeyBytes(n), m) ELSE PadKeyMac(m)

\* The context of a message has the key under the inner pad, or zeros when it was set up without
\* one, and has hashed that and the message so far.
HmacInv ==
  /\ hmacKey \in Nat
  /\ hmacSet \in {"given", "zeros", "spent"}
  /\ hmacMsg \in Seq({"d"} \X Nat)
  /\ hmacSet # "spent" =>
       hmac = [key |-> ContextKey(hmacSet, hmacKey), fed |-> ContextKey(hmacSet, hmacKey) \o hmacMsg]
  /\ hmacOut.of \in {"given", "zeros"} => hmacOut.code = CodeOf(hmacOut.of, hmacKey, hmacOut.msg)

LEMMA HmacNats == MdLen \in Nat /\ MdLen > 0 /\ HmacBlock \in Nat /\ HmacBlock > 0 /\ HmacMax \in Nat
  BY HmacAssumption

\* No byte of a key is under a pad before spec_cx_hmac_init.
LEMMA KeyIsBare == ASSUME NEW n \in Nat, NEW i \in 1..HmacBlock PROVE BlockKey(n)[i][1] # "x"
<1> DEFINE S == {"d"} \X Nat
           T == {Hash(KeyBytes(n))[j] : j \in 1..MdLen}
<1>1. KeyBytes(n) \in Seq(S) /\ Len(KeyBytes(n)) = n
  BY DEF KeyBytes
<1>2. Hash(KeyBytes(n)) \in Seq(T) /\ Len(Hash(KeyBytes(n))) = MdLen
  BY HmacNats DEF Hash
<1>3. \A j \in 1..n : KeyBytes(n)[j] = <<"d", j>>
  BY DEF KeyBytes
<1>4. \A j \in 1..MdLen : Hash(KeyBytes(n))[j] = <<"H", KeyBytes(n), j>>
  BY DEF Hash
<1>5. CASE Len(KeyBytes(n)) > HmacBlock
  <2>1. BlockKey(n)[i] = IF i <= MdLen THEN Hash(KeyBytes(n))[i] ELSE Zero
    BY <1>2, <1>5 DEF BlockKey, Fill
  <2> QED
    BY <1>4, <2>1, HmacNats DEF Zero
<1>6. CASE ~(Len(KeyBytes(n)) > HmacBlock)
  <2>1. BlockKey(n)[i] = IF i <= n THEN KeyBytes(n)[i] ELSE Zero
    BY <1>1, <1>6 DEF BlockKey, Fill
  <2> QED
    BY <1>3, <2>1, HmacNats DEF Zero
<1> QED
  BY <1>5, <1>6

\* The inner pad goes on, and the outer takes its place.
LEMMA PadOn == ASSUME NEW b, b[1] # "x" PROVE PadXor(b, {"ipad"}) = <<"x", {"ipad"}, b>>
  BY DEF PadXor
LEMMA PadTurned == ASSUME NEW b PROVE PadXor(<<"x", {"ipad"}, b>>, {"opad", "ipad"}) = <<"x", {"opad"}, b>>
<1>1. ({"ipad"} \ {"opad", "ipad"}) \cup ({"opad", "ipad"} \ {"ipad"}) = {"opad"}
  OBVIOUS
<1> QED
  BY <1>1 DEF PadXor

LEMMA InitUnderPad ==
  ASSUME NEW n \in Nat
  PROVE  spec_cx_hmac_init(<<KeyBytes(n)>>) = [key |-> Under("ipad", n), fed |-> Under("ipad", n)]
<1> DEFINE short == IF Len(KeyBytes(n)) > HmacBlock THEN Hash(KeyBytes(n)) ELSE KeyBytes(n)
           padded == [i \in 1..HmacBlock |-> PadXor(Fill(short, HmacBlock)[i], {"ipad"})]
<1>1. spec_cx_hmac_init(<<KeyBytes(n)>>) = [key |-> padded, fed |-> padded]
  BY DEF spec_cx_hmac_init
<1>2. Fill(short, HmacBlock) = BlockKey(n)
  BY DEF BlockKey
<1> HIDE DEF short
<1>3. padded = Under("ipad", n)
  <2> SUFFICES ASSUME NEW i \in 1..HmacBlock
               PROVE  PadXor(Fill(short, HmacBlock)[i], {"ipad"}) = <<"x", {"ipad"}, BlockKey(n)[i]>>
    BY DEF Under
  <2> QED
    BY <1>2, KeyIsBare, PadOn
<1> QED
  BY <1>1, <1>3

LEMMA OuterPad ==
  ASSUME NEW n \in Nat
  PROVE  [i \in 1..HmacBlock |-> PadXor(Under("ipad", n)[i], {"opad", "ipad"})] = Under("opad", n)
<1> SUFFICES ASSUME NEW i \in 1..HmacBlock
             PROVE  PadXor(Under("ipad", n)[i], {"opad", "ipad"}) = <<"x", {"opad"}, BlockKey(n)[i]>>
  BY DEF Under
<1>1. Under("ipad", n)[i] = <<"x", {"ipad"}, BlockKey(n)[i]>>
  BY DEF Under
<1> QED
  BY <1>1, PadTurned

LEMMA Rfc2104Pads ==
  ASSUME NEW n, NEW m
  PROVE  Rfc2104(KeyBytes(n), m) = Hash(Under("opad", n) \o Hash(Under("ipad", n) \o m))
  BY DEF Rfc2104, Under, BlockKey

LEMMA WholeHash ==
  ASSUME NEW m
  PROVE  SubSeq(Hash(m), 1, MdLen) = Hash(m) /\ Hash(m) # <<>>
<1> DEFINE T == {Hash(m)[j] : j \in 1..MdLen}
<1>1. Hash(m) \in Seq(T) /\ Len(Hash(m)) = MdLen
  BY HmacNats DEF Hash
<1> HIDE DEF T
<1>2. SubSeq(Hash(m), 1, Len(Hash(m))) = Hash(m)
  BY <1>1, SubSeqFull
<1> QED
  BY <1>1, <1>2, HmacNats

\* Whatever the context was set up with, its key fills a block.
LEMMA KeyFills ==
  ASSUME NEW set, NEW n
  PROVE  ContextKey(set, n) \in Seq({ContextKey(set, n)[i] : i \in 1..HmacBlock})
<1> DEFINE k == ContextKey(set, n)
           K == {k[i] : i \in 1..HmacBlock}
<1>1. k = [i \in 1..HmacBlock |-> k[i]]
  BY DEF ContextKey, Under, ZeroBlock, Fill
<1>2. [i \in 1..HmacBlock |-> k[i]] \in [1..HmacBlock -> K]
  OBVIOUS
<1> HIDE DEF k, K
<1>3. k \in [1..HmacBlock -> K]
  BY <1>1, <1>2
<1>4. k \in Seq(K)
  BY <1>3, HmacNats
<1> QED
  BY <1>4 DEF k, K

\* The sequences that meet in the context.
LEMMA FedGrows ==
  ASSUME NEW set \in {"given", "zeros"}, NEW n \in Nat, NEW m \in Seq({"d"} \X Nat), NEW d \in Seq({"d"} \X Nat)
  PROVE  /\ (ContextKey(set, n) \o m) \o d = ContextKey(set, n) \o (m \o d)
         /\ ContextKey(set, n) \o <<>> = ContextKey(set, n)
         /\ m \o d \in Seq({"d"} \X Nat)
<1> DEFINE D == {"d"} \X Nat
           k == ContextKey(set, n)
           K == {k[i] : i \in 1..HmacBlock}
           S == D \cup K
<1>1. k \in Seq(K)
  BY KeyFills
<1> HIDE DEF D, K, k
<1>2. k \in Seq(S) /\ m \in Seq(S) /\ d \in Seq(S)
  BY <1>1 DEF D
<1> HIDE DEF S
<1>3. m \o d \in Seq({"d"} \X Nat)
  OBVIOUS
<1>4. (k \o m) \o d = k \o (m \o d)
  <2>1. ASSUME NEW a \in Seq(S), NEW b \in Seq(S), NEW c \in Seq(S)
        PROVE  (a \o b) \o c = a \o (b \o c)
    BY ConcatAssociative
  <2> QED
    BY <1>2, <2>1
<1>5. k \o <<>> = k
  BY <1>2, ConcatEmptySeq
<1> QED
  BY <1>3, <1>4, <1>5 DEF k

LEMMA DataTyped == ASSUME NEW k \in Nat, NEW n \in Nat PROVE DataBytes(k, n) \in Seq({"d"} \X Nat)
  BY DEF DataBytes

\* spec_cx_hmac_update, then spec_cx_hmac_final with room for a hash.
LEMMA UpdateFeeds ==
  ASSUME NEW k, NEW f, NEW d
  PROVE  spec_cx_hmac_update([key |-> k, fed |-> f], <<d>>) = [key |-> k, fed |-> f \o d]
  BY DEF spec_cx_hmac_update

\* The pads of the block of zeros, and of a key.
LEMMA ZeroPadded ==
  [i \in 1..HmacBlock |-> PadXor(ZeroBlock[i], {"opad", "ipad"})] = [i \in 1..HmacBlock |-> <<"x", {"opad", "ipad"}, Zero>>]
<1> SUFFICES ASSUME NEW i \in 1..HmacBlock PROVE PadXor(ZeroBlock[i], {"opad", "ipad"}) = <<"x", {"opad", "ipad"}, Zero>>
  OBVIOUS
<1>1. ZeroBlock[i] = Zero
  BY DEF ZeroBlock, Fill
<1>2. Zero[1] # "x"
  BY DEF Zero
<1>3. {"opad", "ipad"} # {} /\ ({} \ {"opad", "ipad"}) \cup ({"opad", "ipad"} \ {}) = {"opad", "ipad"}
  OBVIOUS
<1> QED
  BY <1>1, <1>2, <1>3 DEF PadXor

LEMMA FinalIsMac ==
  ASSUME NEW n \in Nat, NEW set \in {"given", "zeros"}, NEW m
  PROVE  spec_cx_hmac_final([key |-> ContextKey(set, n), fed |-> ContextKey(set, n) \o m], MdLen) = CodeOf(set, n, m)
<1> DEFINE c == [key |-> ContextKey(set, n), fed |-> ContextKey(set, n) \o m]
           hkey == [i \in 1..HmacBlock |-> PadXor(c.key[i], {"opad", "ipad"})]
<1>1. MdLen >= MdLen
  BY HmacNats
<1>2. spec_cx_hmac_final(c, MdLen) = SubSeq(Hash(hkey \o Hash(c.fed)), 1, MdLen)
  BY <1>1 DEF spec_cx_hmac_final
<1>3. spec_cx_hmac_final(c, MdLen) = Hash(hkey \o Hash(ContextKey(set, n) \o m))
  BY <1>2, WholeHash
<1>4. CASE set = "given"
  <2>1. ContextKey(set, n) = Under("ipad", n)
    BY <1>4 DEF ContextKey
  <2>2. hkey = Under("opad", n)
    BY <2>1, OuterPad
  <2>3. CodeOf(set, n, m) = Hash(Under("opad", n) \o Hash(Under("ipad", n) \o m))
    BY <1>4, Rfc2104Pads DEF CodeOf
  <2> HIDE DEF hkey
  <2>4. Hash(hkey \o Hash(ContextKey(set, n) \o m)) = CodeOf(set, n, m)
    BY <2>1, <2>2, <2>3
  <2> QED
    BY <1>3, <2>4
<1>5. CASE set = "zeros"
  <2>1. ContextKey(set, n) = ZeroBlock
    BY <1>5 DEF ContextKey
  <2>2. hkey = [i \in 1..HmacBlock |-> <<"x", {"opad", "ipad"}, Zero>>]
    BY <2>1, ZeroPadded
  <2>3. CodeOf(set, n, m) = Hash([i \in 1..HmacBlock |-> <<"x", {"opad", "ipad"}, Zero>>] \o Hash(ZeroBlock \o m))
    BY <1>5 DEF CodeOf, PadKeyMac, ZeroBlock
  <2> HIDE DEF hkey
  <2>4. Hash(hkey \o Hash(ContextKey(set, n) \o m)) = CodeOf(set, n, m)
    BY <2>1, <2>2, <2>3
  <2> QED
    BY <1>3, <2>4
<1> QED
  BY <1>4, <1>5

\* A context set up with a key, or without.
LEMMA SetUp ==
  ASSUME NEW n \in Nat
  PROVE  /\ spec_cx_hmac_init(<<KeyBytes(n)>>) = [key |-> ContextKey("given", n), fed |-> ContextKey("given", n) \o <<>>]
         /\ spec_cx_hmac_init(<<>>) = [key |-> ContextKey("zeros", n), fed |-> ContextKey("zeros", n) \o <<>>]
<1>1. <<>> \in Seq({"d"} \X Nat)
  OBVIOUS
<1>2. ContextKey("given", n) = Under("ipad", n) /\ ContextKey("zeros", n) = ZeroBlock
  BY DEF ContextKey
<1>3. ContextKey("given", n) \o <<>> = ContextKey("given", n) /\ ContextKey("zeros", n) \o <<>> = ContextKey("zeros", n)
  BY <1>1, FedGrows
<1>4. spec_cx_hmac_init(<<KeyBytes(n)>>) = [key |-> Under("ipad", n), fed |-> Under("ipad", n)]
  BY InitUnderPad
<1>5. spec_cx_hmac_init(<<>>) = [key |-> ZeroBlock, fed |-> ZeroBlock]
  BY DEF spec_cx_hmac_init, ZeroBlock
<1> QED
  BY <1>2, <1>3, <1>4, <1>5

\* The context after the bytes of a call.
LEMMA Updated ==
  ASSUME HmacInv, NEW n \in 0..HmacMax, hmacSet # "spent"
  PROVE  spec_cx_hmac_update(hmac, <<DataBytes(Len(hmacMsg), n)>>)
           = [key |-> ContextKey(hmacSet, hmacKey),
              fed |-> ContextKey(hmacSet, hmacKey) \o (hmacMsg \o DataBytes(Len(hmacMsg), n))]
<1> DEFINE data == DataBytes(Len(hmacMsg), n)
           K == ContextKey(hmacSet, hmacKey)
<1>1. hmacMsg \in Seq({"d"} \X Nat) /\ hmac = [key |-> K, fed |-> K \o hmacMsg]
  BY DEF HmacInv
<1>2. data \in Seq({"d"} \X Nat)
  BY <1>1, HmacNats, DataTyped
<1>3. spec_cx_hmac_update(hmac, <<data>>) = [key |-> K, fed |-> (K \o hmacMsg) \o data]
  BY <1>1, UpdateFeeds
<1>4. hmacSet \in {"given", "zeros"} /\ hmacKey \in Nat
  BY DEF HmacInv
<1>5. (K \o hmacMsg) \o data = K \o (hmacMsg \o data)
  <2> HIDE DEF data
  <2> QED
    BY <1>1, <1>2, <1>4, FedGrows, ZenonT(30)
<1> HIDE DEF K, data
<1>6. spec_cx_hmac_update(hmac, <<data>>) = [key |-> K, fed |-> K \o (hmacMsg \o data)]
  BY <1>3, <1>5
<1> QED
  BY <1>6 DEF K, data

\* The message grows by the bytes of a call.
LEMMA MessageTyped ==
  ASSUME HmacInv, NEW n \in 0..HmacMax
  PROVE  hmacMsg \o DataBytes(Len(hmacMsg), n) \in Seq({"d"} \X Nat)
<1>1. hmacMsg \in Seq({"d"} \X Nat)
  BY DEF HmacInv
<1>2. DataBytes(Len(hmacMsg), n) \in Seq({"d"} \X Nat)
  BY <1>1, HmacNats, DataTyped
<1> QED
  BY <1>1, <1>2

\* cx_hmac, before the end of a message and at its end.
LEMMA CallHmac == ASSUME HmacInv, NEW n \in 0..HmacMax, HmacUpdate(n) PROVE HmacInv'
<1> DEFINE data == DataBytes(Len(hmacMsg), n)
<1>1. /\ hmac' = spec_cx_hmac_update(hmac, <<data>>) /\ hmacMsg' = hmacMsg \o data
      /\ UNCHANGED <<hmacKey, hmacSet, hmacOut>>
  BY DEF HmacUpdate
<1>2. hmacMsg \o data \in Seq({"d"} \X Nat)
  BY MessageTyped
<1>3. hmacSet # "spent" =>
        spec_cx_hmac_update(hmac, <<data>>) = [key |-> ContextKey(hmacSet, hmacKey), fed |-> ContextKey(hmacSet, hmacKey) \o (hmacMsg \o data)]
  BY Updated
<1> HIDE DEF data
<1> QED
  BY <1>1, <1>2, <1>3 DEF HmacInv

LEMMA LastHmac ==
  ASSUME HmacInv, NEW n \in 0..HmacMax, NEW out \in BOOLEAN, NEW reinit \in BOOLEAN, HmacLast(n, out, reinit)
  PROVE  HmacInv'
<1> DEFINE data == DataBytes(Len(hmacMsg), n)
           c == spec_cx_hmac_update(hmac, <<data>>)
           code == spec_cx_hmac_final(c, MdLen)
<1>1. hmacKey \in Nat /\ hmacKey' = hmacKey /\ hmacMsg' = <<>> /\ <<>> \in Seq({"d"} \X Nat)
  BY DEF HmacInv, HmacLast
<1>2. hmacOut' = IF out THEN [of |-> hmacSet, msg |-> hmacMsg \o data, code |-> code] ELSE hmacOut
  BY DEF HmacLast
<1>3. hmacSet' = IF reinit THEN "zeros" ELSE "spent"
  BY DEF HmacLast
<1>4. hmacSet' # "spent" => hmac' = [key |-> ContextKey(hmacSet', hmacKey'), fed |-> ContextKey(hmacSet', hmacKey') \o hmacMsg']
  <2>1. spec_cx_hmac_init(<<>>) = [key |-> ContextKey("zeros", hmacKey), fed |-> ContextKey("zeros", hmacKey) \o <<>>]
    BY <1>1, SetUp
  <2>2. reinit => hmac' = spec_cx_hmac_init(<<>>)
    BY DEF HmacLast
  <2> QED
    BY <1>1, <1>3, <2>1, <2>2
<1>5. hmacSet \in {"given", "zeros"} => code = CodeOf(hmacSet, hmacKey, hmacMsg \o data)
  <2> HAVE hmacSet \in {"given", "zeros"}
  <2>1. c = [key |-> ContextKey(hmacSet, hmacKey), fed |-> ContextKey(hmacSet, hmacKey) \o (hmacMsg \o data)]
    BY Updated
  <2> HIDE DEF c, data
  <2> QED
    BY <1>1, <2>1, FinalIsMac
<1> HIDE DEF code, data
<1>6. hmacOut'.of \in {"given", "zeros"} => hmacOut'.code = CodeOf(hmacOut'.of, hmacKey', hmacOut'.msg)
  BY <1>1, <1>2, <1>5 DEF HmacInv
<1> QED
  BY <1>1, <1>3, <1>4, <1>6 DEF HmacInv

(* For every length of hashes, blocks, keys and messages, however messages *)
(* are cut into calls of cx_hmac and whatever calls follow the last of     *)
(* one: the code of the first message after cx_hmac_init is the HMAC of    *)
(* RFC 2104 under the key it was given, and that of a later one, for which *)
(* cx_hmac set the context up itself, is under a key of inner pads.        *)
THEOREM CodesOfKeys == HmacSpec => []MacOfKey
<1>0. <<>> \in Seq({"d"} \X Nat)
  OBVIOUS
<1>1. \A n \in HmacKeys : n \in Nat
  BY HmacAssumption
<1>2. HmacInit => HmacInv
  BY <1>0, <1>1, SetUp DEF HmacInit, HmacInv, NoCode
<1>3. HmacInv /\ [HmacNext]_hmacVars => HmacInv'
  <2> SUFFICES ASSUME HmacInv, [HmacNext]_hmacVars PROVE HmacInv'
    OBVIOUS
  <2>1. CASE cx_hmac_init
    <3>1. CASE /\ \E n \in HmacKeys : hmac' = spec_cx_hmac_init(<<KeyBytes(n)>>) /\ hmacKey' = n
               /\ hmacSet' = "given" /\ hmacMsg' = <<>> /\ hmacOut' = NoCode
      BY <1>0, <1>1, <3>1, SetUp DEF HmacInv, NoCode
    <3>2. CASE /\ hmac' = spec_cx_hmac_init(<<>>) /\ hmacSet' = "zeros" /\ hmacMsg' = <<>>
               /\ UNCHANGED <<hmacKey, hmacOut>>
      BY <1>0, <3>2, SetUp DEF HmacInv
    <3> QED
      BY <2>1, <3>1, <3>2 DEF cx_hmac_init
  <2>2. CASE cx_hmac
    BY <2>2, CallHmac, LastHmac DEF cx_hmac
  <2>3. CASE UNCHANGED hmacVars
    BY <2>3 DEF hmacVars, HmacInv
  <2> QED
    BY <2>1, <2>2, <2>3 DEF HmacNext
<1>4. HmacInv => MacOfKey
  BY DEF HmacInv, MacOfKey, CodeOf
<1> QED
  BY <1>2, <1>3, <1>4, PTL DEF HmacSpec

-----------------------------------------------------------------------------
(* Hashes.  A context that is not spent holds the data in three places:    *)
(* whole blocks are compressed, fewer bytes than a block (a block at most, *)
(* for blake2b) are in its block, the rest is still to be copied.          *)

ByteBlock == [1..HashBlock -> Nat]
Compressed == ByteBlock \cup (ByteBlock \X Nat \X BOOLEAN)
Contexts == [algo : Algos, blen : 0..HashBlock, block : ByteBlock, counter : Nat, acc : Seq(Compressed),
             f : BOOLEAN, spent : BOOLEAN]

\* Block b of the data, and what a hash compresses for it.
DataBlock(b) == [i \in 1..HashBlock |-> (b - 1) * HashBlock + i]
BlockInput(algo, b) == IF algo = "blake2b" THEN <<DataBlock(b), b * HashBlock, FALSE>> ELSE DataBlock(b)

\* Of n bytes, blen are in the block of c and data is still to come.
Holds(c, blen, data, n) ==
  LET k == Len(c.acc)
  IN  /\ \A b \in 1..k : c.acc[b] = BlockInput(c.algo, b)
      /\ c.counter = (IF c.algo = "blake2b" THEN k * HashBlock ELSE k)
      /\ \A i \in 1..blen : c.block[i] = k * HashBlock + i
      /\ \A i \in 1..Len(data) : data[i] = k * HashBlock + blen + i
      /\ n = k * HashBlock + blen + Len(data)
      /\ c.algo = "blake2b" /\ k > 0 => blen + Len(data) > 0
      /\ c.algo # "blake2b" => blen < HashBlock
      /\ ~c.f

HashCalls == [at : {"idle", "update", "blocks", "final"}, blen : 0..HashBlock, data : Seq(Nat), last : BOOLEAN,
              room : BOOLEAN]

HashTypes ==
  /\ hctx \in Contexts
  /\ fed \in Nat
  /\ hcall \in HashCalls
  /\ hcall.at \in {"idle", "final"} => hcall.data = <<>>
  /\ hcall.at = "blocks" => hcall.blen = 0

Buffered == IF hcall.at \in {"update", "blocks"} THEN hcall.blen ELSE hctx.blen
Streaming == ~hctx.spent => Holds(hctx, Buffered, hcall.data, fed)
SpentStops == hctx.spent => IF hctx.algo = "blake2b" THEN hctx.f ELSE hcall.at = "idle"

HashInv == HashTypes /\ Streaming /\ SpentStops /\ HashOfWhole

LEMMA HashNats ==
  /\ HashBlock \in Nat /\ HashBlock > 0
  /\ HashLength \in Nat /\ HashLength > 0 /\ HashLength < HashBlock
  /\ HashMaxData \in Nat
  BY HashAssumption

LEMMA SameBlock ==
  ASSUME NEW b \in ByteBlock, NEW d \in ByteBlock, \A i \in 1..HashBlock : b[i] = d[i]
  PROVE  b = d
<1>1. b = [i \in 1..HashBlock |-> b[i]] /\ d = [i \in 1..HashBlock |-> d[i]]
  BY DEF ByteBlock
<1> QED
  BY <1>1

\* Writing to a block changes the bytes at its place.
LEMMA WriteFacts ==
  ASSUME NEW block \in ByteBlock, NEW at \in 0..HashBlock, NEW data \in Seq(Nat), at + Len(data) <= HashBlock
  PROVE  /\ Write(block, at, data) \in ByteBlock
         /\ \A i \in 1..at : Write(block, at, data)[i] = block[i]
         /\ \A i \in 1..Len(data) : Write(block, at, data)[at + i] = data[i]
         /\ \A i \in (at + Len(data) + 1)..HashBlock : Write(block, at, data)[i] = block[i]
<1>1. Len(data) \in Nat /\ \A i \in 1..Len(data) : data[i] \in Nat
  BY LenProperties
<1> DEFINE w(i) == IF i > at /\ i <= at + Len(data) THEN data[i - at] ELSE block[i]
<1>2. ASSUME NEW i \in 1..HashBlock PROVE w(i) \in Nat
  BY <1>1, HashNats DEF ByteBlock
<1>3. Write(block, at, data) = [i \in 1..HashBlock |-> w(i)]
  BY DEF Write
<1>4. Write(block, at, data) \in ByteBlock /\ \A i \in 1..HashBlock : Write(block, at, data)[i] = w(i)
  <2> HIDE DEF w
  <2> QED
    BY <1>2, <1>3 DEF ByteBlock
<1>5. ASSUME NEW i \in 1..Len(data) PROVE at + i \in 1..HashBlock /\ w(at + i) = data[i]
  <2>1. at + i > at /\ at + i <= at + Len(data) /\ at + i - at = i /\ at + i \in 1..HashBlock
    BY <1>1, HashNats
  <2> QED
    BY <2>1
<1>6. \A i \in 1..at : i \in 1..HashBlock /\ w(i) = block[i]
  BY <1>1, HashNats
<1>7. \A i \in (at + Len(data) + 1)..HashBlock : i \in 1..HashBlock /\ w(i) = block[i]
  BY <1>1, HashNats
<1> HIDE DEF w
<1> QED
  BY <1>4, <1>5, <1>6, <1>7

LEMMA WriteByte ==
  ASSUME NEW block \in ByteBlock, NEW at \in 0..HashBlock, at < HashBlock, NEW x \in Nat
  PROVE  /\ Write(block, at, <<x>>) \in ByteBlock
         /\ \A i \in 1..at : Write(block, at, <<x>>)[i] = block[i]
         /\ Write(block, at, <<x>>)[at + 1] = x
<1> DEFINE o == <<x>>
<1>1. o \in Seq(Nat) /\ Len(o) = 1 /\ o[1] = x
  OBVIOUS
<1>2. at + Len(o) <= HashBlock /\ 1 \in 1..Len(o)
  BY <1>1, HashNats
<1> HIDE DEF o
<1>3. /\ Write(block, at, o) \in ByteBlock
      /\ \A i \in 1..at : Write(block, at, o)[i] = block[i]
      /\ \A i \in 1..Len(o) : Write(block, at, o)[at + i] = o[i]
  BY <1>1, <1>2, WriteFacts
<1> QED
  BY <1>1, <1>2, <1>3 DEF o

LEMMA ClearFacts ==
  ASSUME NEW block \in ByteBlock, NEW at \in 0..HashBlock
  PROVE  /\ Clear(block, at) \in ByteBlock
         /\ \A i \in 1..at : Clear(block, at)[i] = block[i]
         /\ \A i \in (at + 1)..HashBlock : Clear(block, at)[i] = 0
<1>1. ASSUME NEW i \in 1..HashBlock PROVE (IF i > at THEN 0 ELSE block[i]) \in Nat
  BY HashNats DEF ByteBlock
<1>2. Clear(block, at) \in ByteBlock
  BY <1>1 DEF Clear, ByteBlock
<1>3. \A i \in 1..HashBlock : Clear(block, at)[i] = IF i > at THEN 0 ELSE block[i]
  BY DEF Clear
<1> QED
  BY <1>2, <1>3, HashNats

\* Multiples of the length of a block
LEMMA Multiples ==
  ASSUME NEW k \in Nat
  PROVE  /\ k * HashBlock \in Nat
         /\ (k + 1) * HashBlock = k * HashBlock + HashBlock
         /\ (k + 2) * HashBlock = k * HashBlock + HashBlock + HashBlock
         /\ \A b \in 1..k : (b - 1) * HashBlock \in Nat /\ (b - 1) * HashBlock + HashBlock <= k * HashBlock
<1>1. k * HashBlock \in Nat
  BY HashNats
<1>2. ASSUME NEW b \in 1..k PROVE (b - 1) * HashBlock \in Nat /\ (b - 1) * HashBlock + HashBlock <= k * HashBlock
  <2>1. b - 1 \in Nat /\ k - b \in Nat
    OBVIOUS
  <2>2. (b - 1) * HashBlock \in Nat /\ (k - b) * HashBlock \in Nat
    BY <2>1, HashNats
  <2>3. (b - 1) * HashBlock + HashBlock + (k - b) * HashBlock = k * HashBlock
    BY HashNats
  <2> QED
    BY <1>1, <2>2, <2>3, HashNats
<1> QED
  BY <1>1, <1>2, HashNats

\* The first r bytes of the data, and those after them
LEMMA CutFacts ==
  ASSUME NEW data \in Seq(Nat), NEW r \in 0..Len(data)
  PROVE  /\ SubSeq(data, 1, r) \in Seq(Nat) /\ Len(SubSeq(data, 1, r)) = r
         /\ \A i \in 1..r : SubSeq(data, 1, r)[i] = data[i]
         /\ SubSeq(data, r + 1, Len(data)) \in Seq(Nat) /\ Len(SubSeq(data, r + 1, Len(data))) = Len(data) - r
         /\ \A i \in 1..(Len(data) - r) : SubSeq(data, r + 1, Len(data))[i] = data[r + i]
<1>1. Len(data) \in Nat /\ \A i \in 1..Len(data) : data[i] \in Nat
  BY LenProperties
<1>2. /\ SubSeq(data, 1, r) \in Seq(Nat) /\ Len(SubSeq(data, 1, r)) = (IF 1 <= r THEN r - 1 + 1 ELSE 0)
      /\ \A i \in 1..(r - 1 + 1) : SubSeq(data, 1, r)[i] = data[1 + i - 1]
  BY <1>1, SubSeqProperties
<1>3. /\ SubSeq(data, r + 1, Len(data)) \in Seq(Nat)
      /\ Len(SubSeq(data, r + 1, Len(data))) = (IF r + 1 <= Len(data) THEN Len(data) - (r + 1) + 1 ELSE 0)
      /\ \A i \in 1..(Len(data) - (r + 1) + 1) : SubSeq(data, r + 1, Len(data))[i] = data[r + 1 + i - 1]
  BY <1>1, SubSeqProperties
<1>4. \A i \in 1..(Len(data) - r) : r + 1 + i - 1 = r + i /\ i \in 1..(Len(data) - (r + 1) + 1)
  BY <1>1
<1>5. \A i \in 1..r : 1 + i - 1 = i /\ i \in 1..(r - 1 + 1)
  OBVIOUS
<1> QED
  BY <1>1, <1>2, <1>3, <1>4, <1>5

\* A block that is compressed goes to the end of acc.
LEMMA Appended ==
  ASSUME NEW acc \in Seq(Compressed), NEW x \in Compressed
  PROVE  /\ Append(acc, x) \in Seq(Compressed)
         /\ Len(Append(acc, x)) = Len(acc) + 1 /\ Len(acc) \in Nat
         /\ \A b \in 1..Len(acc) : Append(acc, x)[b] = acc[b]
         /\ Append(acc, x)[Len(acc) + 1] = x
  BY AppendProperties, LenProperties

\* The block that the data fills is the next block of the data.
LEMMA BlockFilled ==
  ASSUME NEW c \in Contexts, NEW blen \in 0..HashBlock, NEW data \in Seq(Nat), NEW n,
         Holds(c, blen, data, n), blen + Len(data) >= HashBlock
  PROVE  Write(c.block, blen, SubSeq(data, 1, HashBlock - blen)) = DataBlock(Len(c.acc) + 1)
<1> DEFINE k == Len(c.acc)
           r == HashBlock - blen
           w == Write(c.block, blen, SubSeq(data, 1, r))
<1>1. k \in Nat /\ c.block \in ByteBlock /\ Len(data) \in Nat
  BY LenProperties DEF Contexts
<1>2. r \in 0..Len(data) /\ blen + r = HashBlock /\ r \in Nat
  BY <1>1, HashNats
<1>3. /\ SubSeq(data, 1, r) \in Seq(Nat) /\ Len(SubSeq(data, 1, r)) = r
      /\ \A i \in 1..r : SubSeq(data, 1, r)[i] = data[i]
  BY <1>2, CutFacts
<1>4. /\ w \in ByteBlock
      /\ \A i \in 1..blen : w[i] = c.block[i]
      /\ \A i \in 1..r : w[blen + i] = SubSeq(data, 1, r)[i]
  <2> DEFINE p == SubSeq(data, 1, r)
  <2>1. p \in Seq(Nat) /\ Len(p) = r /\ blen + Len(p) <= HashBlock
    BY <1>2, <1>3, HashNats
  <2> HIDE DEF p
  <2>2. /\ Write(c.block, blen, p) \in ByteBlock
        /\ \A i \in 1..blen : Write(c.block, blen, p)[i] = c.block[i]
        /\ \A i \in 1..Len(p) : Write(c.block, blen, p)[blen + i] = p[i]
    BY <1>1, <2>1, WriteFacts
  <2> QED
    BY <2>1, <2>2 DEF p
<1>5. (\A i \in 1..blen : c.block[i] = k * HashBlock + i) /\ (\A i \in 1..Len(data) : data[i] = k * HashBlock + blen + i)
  BY DEF Holds
<1>6. k * HashBlock \in Nat
  BY <1>1, Multiples
<1>7. ASSUME NEW j \in 1..HashBlock PROVE w[j] = k * HashBlock + j
  <2> HIDE DEF k, w
  <2>1. CASE j <= blen
    BY <2>1, <1>4, <1>5
  <2>2. CASE j > blen
    <3>1. j - blen \in 1..r /\ blen + (j - blen) = j /\ j - blen \in 1..Len(data)
      BY <2>2, <1>2, <1>1, HashNats
    <3>2. w[j] = data[j - blen]
      BY <3>1, <1>3, <1>4
    <3>3. data[j - blen] = k * HashBlock + blen + (j - blen)
      BY <3>1, <1>5
    <3> QED
      BY <3>2, <3>3, <1>6, HashNats
  <2> QED
    BY <2>1, <2>2
<1>8. DataBlock(k + 1) = [j \in 1..HashBlock |-> k * HashBlock + j]
  <2>1. k + 1 - 1 = k
    BY <1>1
  <2> QED
    BY <2>1 DEF DataBlock
<1>9. w = [j \in 1..HashBlock |-> w[j]]
  BY <1>4 DEF ByteBlock
<1> HIDE DEF w, k
<1> QED
  BY <1>7, <1>8, <1>9 DEF w, k

LEMMA DataBlockType == ASSUME NEW k \in Nat PROVE DataBlock(k + 1) \in ByteBlock /\ \A i \in 1..HashBlock : DataBlock(k + 1)[i] = k * HashBlock + i
<1>1. k * HashBlock \in Nat /\ k + 1 - 1 = k
  BY Multiples
<1>2. DataBlock(k + 1) = [i \in 1..HashBlock |-> k * HashBlock + i]
  BY <1>1 DEF DataBlock
<1> QED
  BY <1>1, <1>2, HashNats DEF ByteBlock

\* When the next block is compressed the rest of the data is still to come.
LEMMA NextBlock ==
  ASSUME NEW c \in Contexts, NEW d \in Contexts, NEW blen \in 0..HashBlock, NEW data \in Seq(Nat), NEW n,
         Holds(c, blen, data, n), blen + Len(data) >= HashBlock,
         c.algo = "blake2b" => blen + Len(data) > HashBlock,
         d.algo = c.algo, d.f = c.f,
         d.counter = c.counter + (IF c.algo = "blake2b" THEN HashBlock ELSE 1),
         d.acc = Append(c.acc, BlockInput(c.algo, Len(c.acc) + 1))
  PROVE  Holds(d, 0, SubSeq(data, HashBlock - blen + 1, Len(data)), n)
<1> DEFINE k == Len(c.acc)
           r == HashBlock - blen
           rest == SubSeq(data, r + 1, Len(data))
           K == k * HashBlock
<1>1. k \in Nat /\ Len(data) \in Nat /\ c.acc \in Seq(Compressed) /\ c.counter \in Nat
  BY LenProperties DEF Contexts
<1>2. r \in 0..Len(data) /\ blen + r = HashBlock /\ r \in Nat
  BY <1>1, HashNats
<1>3. /\ rest \in Seq(Nat) /\ Len(rest) = Len(data) - r
      /\ \A i \in 1..(Len(data) - r) : rest[i] = data[r + i]
  BY <1>2, CutFacts
<1>4. K \in Nat /\ (k + 1) * HashBlock = K + HashBlock
  BY <1>1, Multiples
<1>5. BlockInput(c.algo, k + 1) \in Compressed
  <2>1. (k + 1) * HashBlock \in Nat /\ DataBlock(k + 1) \in ByteBlock
    BY <1>1, <1>4, HashNats, DataBlockType
  <2> QED
    BY <2>1 DEF BlockInput, Compressed
<1>6. /\ Len(d.acc) = k + 1
      /\ \A b \in 1..k : d.acc[b] = c.acc[b]
      /\ d.acc[k + 1] = BlockInput(c.algo, k + 1)
  BY <1>1, <1>5, Appended
<1>7. /\ \A b \in 1..k : c.acc[b] = BlockInput(c.algo, b)
      /\ c.counter = (IF c.algo = "blake2b" THEN K ELSE k)
      /\ \A i \in 1..Len(data) : data[i] = K + blen + i
      /\ n = K + blen + Len(data)
      /\ ~c.f
  BY DEF Holds
<1>8. \A b \in 1..(k + 1) : d.acc[b] = BlockInput(d.algo, b)
  BY <1>1, <1>6, <1>7
<1> HIDE DEF k, K
<1>9. d.counter = (IF d.algo = "blake2b" THEN (k + 1) * HashBlock ELSE k + 1)
  BY <1>4, <1>7, <1>1
<1>10. ASSUME NEW i \in 1..Len(rest) PROVE rest[i] = (k + 1) * HashBlock + 0 + i
  <2>1. i \in 1..(Len(data) - r) /\ r + i \in 1..Len(data)
    <3>1. Len(rest) = Len(data) - r /\ Len(data) \in Nat /\ r \in Nat
      BY <1>1, <1>2, <1>3
    <3> HIDE DEF rest, r
    <3>2. i \in 1..(Len(data) - r)
      BY <3>1
    <3> QED
      BY <3>1, <3>2
  <2>2. rest[i] = K + blen + (r + i)
    BY <2>1, <1>3, <1>7
  <2> HIDE DEF rest
  <2> QED
    BY <2>2, <2>1, <1>2, <1>4, HashNats
<1>11. n = (k + 1) * HashBlock + 0 + Len(rest)
  <2> DEFINE M == (k + 1) * HashBlock
  <2>1. M = K + HashBlock /\ K \in Nat
    BY <1>4
  <2>3. Len(rest) = Len(data) - r /\ n = K + blen + Len(data)
    BY <1>3, <1>7
  <2>4. \A x, y, z, w, h \in Int : y + w = h => x + y + z = x + h + 0 + (z - w)
    OBVIOUS
  <2>5. K + blen + Len(data) = K + HashBlock + 0 + (Len(data) - r)
    BY <1>1, <1>2, <2>1, <2>4, HashNats
  <2> HIDE DEF rest, r, M
  <2>2. n = M + 0 + Len(rest)
    BY <2>1, <2>3, <2>5, Zenon
  <2> QED
    BY <2>2 DEF M
<1>12. d.algo = "blake2b" => 0 + Len(rest) > 0
  <2> HIDE DEF rest
  <2> QED
    BY <1>1, <1>2, <1>3, HashNats
<1> HIDE DEF rest
<1>13. \A i \in 1..0 : d.block[i] = (k + 1) * HashBlock + i
  OBVIOUS
<1>14. Len(d.acc) = k + 1
  BY <1>6
<1> QED
  BY <1>7, <1>8, <1>9, <1>10, <1>11, <1>12, <1>13, <1>14, HashNats DEF Holds, rest

\* The rest of the data goes to the block.
LEMMA RestKept ==
  ASSUME NEW c \in Contexts, NEW blen \in 0..HashBlock, NEW data \in Seq(Nat), blen + Len(data) <= HashBlock
  PROVE  LET d == [c EXCEPT !.block = Write(@, blen, data), !.blen = blen + Len(data)]
         IN  /\ d \in Contexts /\ d.blen = blen + Len(data) /\ d.f = c.f /\ d.spent = c.spent /\ d.algo = c.algo
             /\ \A n : Holds(c, blen, data, n) /\ (c.algo # "blake2b" => blen + Len(data) < HashBlock)
                       => Holds(d, blen + Len(data), <<>>, n)
<1> DEFINE w == Write(c.block, blen, data)
           l == blen + Len(data)
           d == [c EXCEPT !.block = w, !.blen = l]
           k == Len(c.acc)
           K == k * HashBlock
<1>1. c.block \in ByteBlock /\ Len(data) \in Nat /\ k \in Nat
  BY LenProperties DEF Contexts
<1>2. /\ w \in ByteBlock
      /\ \A i \in 1..blen : w[i] = c.block[i]
      /\ \A i \in 1..Len(data) : w[blen + i] = data[i]
  BY <1>1, WriteFacts
<1>3. l \in 0..HashBlock
  BY <1>1, HashNats
<1>4. K \in Nat
  BY <1>1, Multiples
<1> HIDE DEF w, l
<1>5. /\ d \in Contexts /\ d.blen = l /\ d.block = w
      /\ d.algo = c.algo /\ d.counter = c.counter /\ d.acc = c.acc /\ d.f = c.f /\ d.spent = c.spent
  BY <1>2, <1>3 DEF Contexts
<1>6. ASSUME NEW n, Holds(c, blen, data, n), c.algo # "blake2b" => l < HashBlock
      PROVE  Holds(d, l, <<>>, n)
  <2>1. /\ \A b \in 1..k : c.acc[b] = BlockInput(c.algo, b)
        /\ c.counter = (IF c.algo = "blake2b" THEN K ELSE k)
        /\ \A i \in 1..blen : c.block[i] = K + i
        /\ \A i \in 1..Len(data) : data[i] = K + blen + i
        /\ n = K + blen + Len(data)
        /\ c.algo = "blake2b" /\ k > 0 => blen + Len(data) > 0
        /\ ~c.f
    BY <1>6 DEF Holds
  <2> HIDE DEF K, k, d
  <2>2. ASSUME NEW j \in 1..l PROVE w[j] = K + j
    <3>1. CASE j <= blen
      BY <3>1, <1>2, <2>1
    <3>2. CASE j > blen
      <4>1. j - blen \in 1..Len(data) /\ blen + (j - blen) = j
        BY <3>2, <1>1 DEF l
      <4>2. w[j] = K + blen + (j - blen)
        BY <4>1, <1>2, <2>1
      <4> QED
        BY <4>1, <4>2, <1>4
    <3> QED
      BY <3>1, <3>2, <1>3
  <2>3. n = K + l + 0
    BY <2>1, <1>1, <1>4 DEF l
  <2>4. c.algo = "blake2b" /\ k > 0 => l + 0 > 0
    BY <2>1, <1>1 DEF l
  <2>5. Len(<<>>) = 0 /\ \A i \in 1..0 : <<>>[i] = K + l + i
    OBVIOUS
  <2>6. Len(d.acc) = k
    BY <1>5 DEF k
  <2>7. \A i \in 1..l : d.block[i] = k * HashBlock + i
    BY <2>2, <1>5 DEF K
  <2> QED
    BY <1>5, <1>6, <2>1, <2>3, <2>4, <2>5, <2>6, <2>7 DEF Holds, K
<1> QED
  BY <1>5, <1>6 DEF d, l, w

\* blake2b's block is the same, whether it was copied or not.
LEMMA SliceIsBlock ==
  ASSUME NEW c \in Contexts, NEW data \in Seq(Nat), NEW n, Holds(c, 0, data, n), Len(data) >= HashBlock
  PROVE  SubSeq(data, 1, HashBlock) = DataBlock(Len(c.acc) + 1)
<1> DEFINE k == Len(c.acc)
           s == SubSeq(data, 1, HashBlock)
<1>1. k \in Nat /\ Len(data) \in Nat /\ HashBlock \in 0..Len(data)
  BY LenProperties, HashNats DEF Contexts
<1>2. s \in Seq(Nat) /\ Len(s) = HashBlock /\ \A i \in 1..HashBlock : s[i] = data[i]
  BY <1>1, CutFacts
<1>3. \A i \in 1..Len(data) : data[i] = k * HashBlock + 0 + i
  BY DEF Holds
<1>4. k * HashBlock \in Nat
  BY <1>1, Multiples
<1>5. DataBlock(k + 1) \in ByteBlock /\ \A i \in 1..HashBlock : DataBlock(k + 1)[i] = k * HashBlock + i
  BY <1>1, DataBlockType
<1>6. s \in ByteBlock
  BY <1>2, LenProperties DEF ByteBlock
<1> HIDE DEF k, s
<1>7. ASSUME NEW i \in 1..HashBlock PROVE s[i] = DataBlock(k + 1)[i]
  <2>1. i \in 1..Len(data)
    BY <1>1
  <2>2. s[i] = k * HashBlock + 0 + i
    BY <2>1, <1>2, <1>3
  <2>3. k * HashBlock + 0 + i = k * HashBlock + i
    BY <1>4
  <2> QED
    BY <1>5, <2>2, <2>3, Zenon
<1>8. s = DataBlock(k + 1)
  BY <1>5, <1>6, <1>7, SameBlock
<1> QED
  BY <1>8 DEF k, s

\* A context of any hash starts empty.
LEMMA FreshContext ==
  ASSUME NEW a \in Algos
  PROVE  InitContext(a) = Fresh(a) /\ Fresh(a) \in Contexts /\ Holds(Fresh(a), 0, <<>>, 0)
<1>1. cx_blake2b_init2(256, 0, 0) = <<Fresh("blake2b")>>
  <2>1. ~(0 > 16) /\ 256 % 8 = 0 /\ ~(256 < 8) /\ ~(256 > 512)
    OBVIOUS
  <2> QED
    BY <2>1 DEF cx_blake2b_init2, spec_blake2b_init_param
<1>2. InitContext(a) = Fresh(a)
  BY <1>1 DEF InitContext, Algos, MerkleDamgard, Sponge, cx_sha256_init, cx_sha512_init, cx_ripemd160_init, cx_sha3_init,
     cx_keccak_init, cx_sha3_xof_init
<1>3. [i \in 1..HashBlock |-> 0] \in ByteBlock /\ <<>> \in Seq(Compressed) /\ 0 \in 0..HashBlock
  BY EmptySeq, HashNats DEF ByteBlock
<1>4. Fresh(a) \in Contexts
  BY <1>3 DEF Fresh, Contexts
<1>5. /\ Fresh(a).acc = <<>> /\ Fresh(a).counter = 0 /\ Fresh(a).f = FALSE /\ Fresh(a).algo = a
      /\ Len(<<>>) = 0 /\ 0 * HashBlock = 0
  BY HashNats DEF Fresh
<1>6. Holds(Fresh(a), 0, <<>>, 0)
  BY <1>5, HashNats DEF Holds
<1> QED
  BY <1>2, <1>4, <1>6

\* Nothing is called and nothing is answered.
LEMMA NoCallTyped ==
  /\ NoCall \in HashCalls /\ NoCall.at = "idle" /\ NoCall.data = <<>>
  /\ NoDigest.st # "DIGEST" /\ Thrown.st # "DIGEST"
  BY EmptySeq, HashNats DEF NoCall, HashCalls, NoDigest, Thrown

LEMMA HashInitHolds == HashInit => HashInv
<1> SUFFICES ASSUME HashInit PROVE HashInv
  OBVIOUS
<1>1. PICK a \in Algos : hctx = Fresh(a)
  BY FreshContext DEF HashInit
<1>2. hctx \in Contexts /\ Holds(hctx, 0, <<>>, 0) /\ hctx.blen = 0 /\ hctx.spent = FALSE
  BY <1>1, FreshContext DEF Fresh
<1>3. hcall = NoCall /\ fed = 0 /\ digest = NoDigest
  BY DEF HashInit
<1>4. HashTypes
  BY <1>2, <1>3, NoCallTyped DEF HashTypes
<1>5. Streaming
  BY <1>2, <1>3, NoCallTyped DEF Streaming, Buffered
<1>6. SpentStops /\ HashOfWhole
  BY <1>2, <1>3, NoCallTyped DEF SpentStops, HashOfWhole
<1> QED
  BY <1>4, <1>5, <1>6 DEF HashInv

\* Init starts another message.
LEMMA ReinitKeeps == ASSUME HashInv, spec_cx_hash_init PROVE HashInv'
<1>1. hctx.algo \in Algos /\ hcall \in HashCalls /\ hcall.data = <<>> /\ hcall.at = "idle"
  BY DEF HashInv, HashTypes, spec_cx_hash_init, Contexts
<1>2. hctx' = Fresh(hctx.algo) /\ fed' = 0 /\ digest' = NoDigest /\ hcall' = hcall
  BY <1>1, FreshContext DEF spec_cx_hash_init
<1>3. hctx' \in Contexts /\ Holds(hctx', 0, <<>>, 0) /\ hctx'.blen = 0 /\ hctx'.spent = FALSE
  BY <1>1, <1>2, FreshContext DEF Fresh
<1>4. HashTypes'
  BY <1>1, <1>2, <1>3 DEF HashTypes
<1>5. Streaming'
  BY <1>1, <1>2, <1>3 DEF Streaming, Buffered
<1>6. SpentStops' /\ HashOfWhole'
  BY <1>2, <1>3, NoCallTyped DEF SpentStops, HashOfWhole
<1> QED
  BY <1>4, <1>5, <1>6 DEF HashInv

\* The data of a call follows what was given before.
LEMMA CallStarts ==
  ASSUME HashInv, hctx.spent => hctx.algo = "blake2b", NEW n \in 0..HashMaxData, NEW last \in BOOLEAN, NEW room \in BOOLEAN,
         sys_cx_hash(n, last, room)
  PROVE  HashInv'
<1> DEFINE data == [i \in 1..n |-> fed + i]
<1>1. hctx \in Contexts /\ fed \in Nat /\ hcall.data = <<>> /\ hcall.at = "idle"
  BY DEF HashInv, HashTypes, sys_cx_hash
<1>2. n \in Nat /\ data \in Seq(Nat) /\ Len(data) = n /\ \A i \in 1..n : data[i] = fed + i
  BY <1>1, HashNats
<1>3. /\ hcall' = [at |-> "update", blen |-> hctx.blen, data |-> data, last |-> last, room |-> room]
      /\ fed' = fed + n /\ digest' = NoDigest /\ hctx' = hctx
  BY DEF sys_cx_hash
<1> HIDE DEF data
<1>4. HashTypes'
  BY <1>1, <1>2, <1>3 DEF HashTypes, HashCalls, Contexts
<1>5. ASSUME ~hctx.spent PROVE Holds(hctx, hctx.blen, data, fed + n)
  <2> DEFINE k == Len(hctx.acc)
             K == k * HashBlock
  <2>1. Holds(hctx, hctx.blen, <<>>, fed)
    BY <1>1, <1>5 DEF HashInv, Streaming, Buffered
  <2>2. k \in Nat /\ hctx.blen \in Nat
    BY <1>1, LenProperties, HashNats DEF Contexts
  <2>3. K \in Nat
    BY <2>2, Multiples
  <2>4. /\ \A b \in 1..k : hctx.acc[b] = BlockInput(hctx.algo, b)
        /\ hctx.counter = (IF hctx.algo = "blake2b" THEN K ELSE k)
        /\ \A i \in 1..hctx.blen : hctx.block[i] = K + i
        /\ fed = K + hctx.blen + 0
        /\ hctx.algo = "blake2b" /\ k > 0 => hctx.blen + 0 > 0
        /\ hctx.algo # "blake2b" => hctx.blen < HashBlock
        /\ ~hctx.f
    BY <2>1 DEF Holds
  <2> HIDE DEF K, k
  <2>5. \A i \in 1..Len(data) : data[i] = K + hctx.blen + i
    BY <1>2, <2>2, <2>3, <2>4
  <2>6. fed + n = K + hctx.blen + Len(data)
    BY <1>2, <2>2, <2>3, <2>4
  <2>7. hctx.algo = "blake2b" /\ k > 0 => hctx.blen + Len(data) > 0
    BY <1>2, <2>2, <2>4
  <2> QED
    BY <2>4, <2>5, <2>6, <2>7 DEF Holds, K, k
<1>6. Streaming'
  BY <1>3, <1>5 DEF Streaming, Buffered
<1>7. SpentStops' /\ HashOfWhole'
  BY <1>3, NoCallTyped DEF HashInv, SpentStops, HashOfWhole
<1> QED
  BY <1>4, <1>6, <1>7 DEF HashInv

\* Every hash but blake2b compresses its own block.
LEMMA BlockFunc == ASSUME NEW c \in Contexts, c.algo # "blake2b" PROVE block_func(c) = Absorbed(c)
  BY DEF block_func, Contexts, Algos, MerkleDamgard, Sponge, cx_sha256_block, cx_sha512_block, cx_ripemd160_block, spec_cx_sha3_block

\* A turn of the loop compresses the next block, or throws.
LEMMA TurnKeeps ==
  ASSUME HashInv, hctx.algo # "blake2b", hcall.at \in {"update", "blocks"}, Turn
  PROVE  HashInv'
<1> DEFINE blen == hcall.blen
           data == hcall.data
           r == HashBlock - blen
           w == Write(hctx.block, blen, SubSeq(data, 1, r))
           full == [hctx EXCEPT !.blen = 0, !.block = w]
           d == [block_func(full) EXCEPT !.counter = @ + 1]
           rest == SubSeq(data, r + 1, Len(data))
           k == Len(hctx.acc)
<1>0. 0 \in 0..HashBlock
  BY HashNats
<1>1. /\ hctx \in Contexts /\ hcall \in HashCalls /\ fed \in Nat
      /\ blen \in 0..HashBlock /\ data \in Seq(Nat) /\ Len(data) \in Nat /\ k \in Nat
  BY LenProperties DEF HashInv, HashTypes, HashCalls, Contexts
<1>2. ~hctx.spent /\ Holds(hctx, blen, data, fed)
  BY DEF HashInv, Streaming, SpentStops, Buffered
<1>3. blen + Len(data) >= HashBlock /\ fed' = fed
  BY DEF Turn
<1>4. CASE /\ hctx' = [hctx EXCEPT !.blen = 0, !.spent = TRUE]
           /\ hcall' = NoCall
           /\ digest' = Thrown
  <2>1. hctx' \in Contexts /\ hctx'.spent = TRUE /\ hctx'.algo = hctx.algo
    BY <1>0, <1>1, <1>4 DEF Contexts
  <2>2. HashTypes'
    BY <1>1, <1>3, <1>4, <2>1, NoCallTyped DEF HashTypes
  <2>3. Streaming' /\ SpentStops' /\ HashOfWhole'
    BY <1>4, <2>1, NoCallTyped DEF Streaming, SpentStops, HashOfWhole
  <2> QED
    BY <2>2, <2>3 DEF HashInv
<1>5. CASE /\ hctx' = d
           /\ hcall' = [hcall EXCEPT !.blen = 0, !.data = rest]
           /\ UNCHANGED digest
  <2>1. w = DataBlock(k + 1)
    BY <1>1, <1>2, <1>3, BlockFilled
  <2>2. w \in ByteBlock
    BY <1>1, <2>1, DataBlockType
  <2> HIDE DEF w
  <2>3. full \in Contexts /\ full.acc = hctx.acc /\ full.block = w /\ full.algo = hctx.algo /\ full.counter = hctx.counter
        /\ full.f = hctx.f /\ full.spent = hctx.spent
    BY <1>0, <1>1, <2>2 DEF Contexts
  <2>4. d = [full EXCEPT !.acc = Append(@, w), !.counter = @ + 1]
    <3>1. block_func(full) = [full EXCEPT !.acc = Append(@, w)]
      BY <2>3, BlockFunc DEF Absorbed
    <3> HIDE DEF full
    <3> QED
      BY <3>1, <2>3 DEF Contexts
  <2>5. Append(hctx.acc, w) \in Seq(Compressed) /\ w = BlockInput(hctx.algo, k + 1)
    BY <1>1, <2>1, <2>2, Appended DEF Compressed, BlockInput, Contexts
  <2> HIDE DEF full
  <2>6. /\ d \in Contexts /\ d.algo = hctx.algo /\ d.f = hctx.f /\ d.spent = hctx.spent
        /\ d.counter = hctx.counter + 1 /\ d.acc = Append(hctx.acc, w)
    <3> DEFINE acc == Append(hctx.acc, w)
    <3>1. acc \in Seq(Compressed) /\ hctx.counter + 1 \in Nat
      BY <1>1, <2>5 DEF Contexts
    <3>2. d = [full EXCEPT !.acc = acc, !.counter = hctx.counter + 1]
      BY <2>3, <2>4, Zenon
    <3> HIDE DEF d, acc
    <3>3. /\ d \in Contexts /\ d.algo = full.algo /\ d.f = full.f /\ d.spent = full.spent
          /\ d.counter = hctx.counter + 1 /\ d.acc = acc
      BY <2>3, <3>1, <3>2 DEF Contexts
    <3> QED
      BY <2>3, <3>3 DEF acc
  <2> HIDE DEF d
  <2>7. Holds(d, 0, rest, fed)
    <3>1. d.acc = Append(hctx.acc, BlockInput(hctx.algo, Len(hctx.acc) + 1))
      BY <2>5, <2>6, Zenon
    <3> HIDE DEF blen, data
    <3> QED
      BY <1>1, <1>2, <1>3, <2>6, <3>1, NextBlock
  <2>8. rest \in Seq(Nat)
    <3>1. r \in 0..Len(data)
      BY <1>1, <1>3, HashNats
    <3> QED
      BY <1>1, <3>1, CutFacts
  <2> HIDE DEF rest
  <2>9. hcall' \in HashCalls /\ hcall'.blen = 0 /\ hcall'.data = rest /\ hcall'.at = hcall.at
    BY <1>0, <1>1, <1>5, <2>8 DEF HashCalls
  <2>10. HashTypes'
    BY <1>1, <1>3, <1>5, <2>6, <2>9 DEF HashTypes
  <2>11. Streaming'
    BY <1>3, <1>5, <2>7, <2>9 DEF Streaming, Buffered
  <2>12. SpentStops' /\ HashOfWhole'
    BY <1>2, <1>3, <1>5, <2>6 DEF HashInv, SpentStops, HashOfWhole
  <2> QED
    BY <2>10, <2>11, <2>12 DEF HashInv
<1> QED
  <2>1. \/ hctx' = [hctx EXCEPT !.blen = 0, !.spent = TRUE] /\ hcall' = NoCall /\ digest' = Thrown
        \/ hctx' = d /\ hcall' = [hcall EXCEPT !.blen = 0, !.data = rest] /\ UNCHANGED digest
    BY DEF Turn
  <2> QED
    BY <2>1, <1>4, <1>5

\* The rest goes to the block and the call to its end.
LEMMA RestKeeps ==
  ASSUME HashInv, hcall.at \in {"update", "blocks"}, Rest, hcall.blen + Len(hcall.data) <= HashBlock,
         hctx.algo # "blake2b" => hcall.blen + Len(hcall.data) < HashBlock
  PROVE  HashInv'
<1> DEFINE blen == hcall.blen
           data == hcall.data
<1>1. hctx \in Contexts /\ hcall \in HashCalls /\ fed \in Nat /\ blen \in 0..HashBlock /\ data \in Seq(Nat)
  BY DEF HashInv, HashTypes, HashCalls
<1>2. /\ hctx' = [hctx EXCEPT !.block = Write(@, blen, data), !.blen = blen + Len(data)]
      /\ hcall' = [hcall EXCEPT !.at = "final", !.blen = 0, !.data = <<>>]
      /\ fed' = fed /\ digest' = digest
  BY DEF Rest
<1>3. ~hctx.spent => Holds(hctx, blen, data, fed)
  BY DEF HashInv, Streaming, Buffered
<1>4. hcall' \in HashCalls /\ hcall'.at = "final" /\ hcall'.data = <<>>
  <2>1. 0 \in 0..HashBlock /\ <<>> \in Seq(Nat)
    BY EmptySeq, HashNats
  <2> QED
    BY <1>1, <1>2, <2>1 DEF HashCalls
<1> HIDE DEF blen, data
<1>5. /\ hctx' \in Contexts /\ hctx'.blen = blen + Len(data) /\ hctx'.f = hctx.f
      /\ hctx'.spent = hctx.spent /\ hctx'.algo = hctx.algo
      /\ \A n : Holds(hctx, blen, data, n) /\ (hctx.algo # "blake2b" => blen + Len(data) < HashBlock)
                => Holds(hctx', blen + Len(data), <<>>, n)
  <2>1. blen + Len(data) <= HashBlock
    BY DEF blen, data
  <2> QED
    BY <1>1, <1>2, <2>1, RestKept
<1>6. HashTypes'
  BY <1>1, <1>2, <1>4, <1>5 DEF HashTypes
<1>7. Buffered' = blen + Len(data)
  BY <1>4, <1>5 DEF Buffered
<1>8. Streaming'
  <2>1. hctx.algo # "blake2b" => blen + Len(data) < HashBlock
    BY DEF blen, data
  <2> QED
    BY <1>2, <1>3, <1>4, <1>5, <1>7, <2>1 DEF Streaming
<1>9. SpentStops'
  <2>1. SpentStops
    BY DEF HashInv
  <2>2. hctx.spent => hctx.algo = "blake2b" /\ hctx.f
    BY <2>1 DEF SpentStops
  <2> QED
    BY <2>2, <1>5 DEF SpentStops
<1>10. HashOfWhole'
  BY <1>2, <1>5 DEF HashInv, HashOfWhole
<1> QED
  BY <1>6, <1>8, <1>9, <1>10 DEF HashInv

\* blake2b compresses its buffer, then blocks of the data themselves.
LEMMA BlakeTurnKeeps ==
  ASSUME HashInv, hctx.algo = "blake2b", hcall.at \in {"update", "blocks"}, Len(hcall.data) > HashBlock - hcall.blen,
         BlakeTurn
  PROVE  HashInv'
<1> DEFINE blen == hcall.blen
           data == hcall.data
           fill == HashBlock - blen
           w == Write(hctx.block, blen, SubSeq(data, 1, fill))
           buf == IF hcall.at = "update" THEN w ELSE hctx.block
           block == IF hcall.at = "update" THEN buf ELSE SubSeq(data, 1, HashBlock)
           start == [hctx EXCEPT !.blen = 0, !.block = buf]
           d == blake2b_compress(blake2b_increment_counter(start, HashBlock), block)
           rest == SubSeq(data, fill + 1, Len(data))
           k == Len(hctx.acc)
<1>0. 0 \in 0..HashBlock
  BY HashNats
<1>1. /\ hctx \in Contexts /\ hcall \in HashCalls /\ fed \in Nat
      /\ blen \in 0..HashBlock /\ data \in Seq(Nat) /\ Len(data) \in Nat /\ k \in Nat
      /\ hctx.block \in ByteBlock /\ hctx.counter \in Nat /\ hctx.acc \in Seq(Compressed)
  BY LenProperties DEF HashInv, HashTypes, HashCalls, Contexts
<1>2. hcall.at = "blocks" => blen = 0
  BY DEF HashInv, HashTypes
<1>3. ~hctx.spent => Holds(hctx, blen, data, fed)
  BY DEF HashInv, Streaming, Buffered
<1>4. hctx' = d /\ hcall' = [hcall EXCEPT !.at = "blocks", !.blen = 0, !.data = rest] /\ fed' = fed /\ digest' = digest
  BY DEF BlakeTurn
<1>5. fill \in 0..Len(data) /\ blen + Len(data) > HashBlock /\ blen + fill <= HashBlock
  BY <1>1, HashNats
<1>6. w \in ByteBlock
  <2> DEFINE p == SubSeq(data, 1, fill)
  <2>1. p \in Seq(Nat) /\ Len(p) = fill
    BY <1>1, <1>5, CutFacts
  <2> HIDE DEF p, fill
  <2>2. Write(hctx.block, blen, p) \in ByteBlock
    BY <1>1, <1>5, <2>1, WriteFacts
  <2> QED
    BY <2>2 DEF p
<1>7. block \in ByteBlock
  <2>1. ASSUME hcall.at # "update" PROVE SubSeq(data, 1, HashBlock) \in ByteBlock
    <3> DEFINE s == SubSeq(data, 1, HashBlock)
    <3>1. HashBlock \in 0..Len(data)
      BY <1>1, <1>2, <2>1, HashNats
    <3>2. s \in Seq(Nat) /\ Len(s) = HashBlock
      BY <1>1, <3>1, CutFacts
    <3> HIDE DEF s
    <3>3. s \in ByteBlock
      BY <3>2, LenProperties DEF ByteBlock
    <3> QED
      BY <3>3 DEF s
  <2> QED
    BY <1>6, <2>1
<1>8. ~hctx.spent => block = DataBlock(k + 1)
  <2>1. CASE hcall.at = "update"
    <3>1. blen + Len(data) >= HashBlock
      BY <1>1, <1>5, HashNats
    <3>2. ~hctx.spent => w = DataBlock(k + 1)
      BY <1>1, <1>3, <3>1, BlockFilled
    <3>3. block = w
      BY <2>1
    <3> QED
      BY <3>2, <3>3
  <2>2. CASE hcall.at # "update"
    <3>1. blen = 0 /\ Len(data) >= HashBlock
      BY <1>1, <1>2, <1>5, <2>2, HashNats
    <3>2. ~hctx.spent => SubSeq(data, 1, HashBlock) = DataBlock(Len(hctx.acc) + 1)
      BY <1>1, <1>3, <3>1, SliceIsBlock
    <3> QED
      BY <2>2, <3>2
  <2> QED
    BY <2>1, <2>2
<1>9. buf \in ByteBlock
  BY <1>1, <1>6
<1> HIDE DEF block, buf, w
<1>10. /\ start \in Contexts /\ start.acc = hctx.acc /\ start.algo = hctx.algo /\ start.counter = hctx.counter
       /\ start.f = hctx.f /\ start.spent = hctx.spent
  BY <1>0, <1>1, <1>9 DEF Contexts
<1> DEFINE x == <<block, hctx.counter + HashBlock, hctx.f>>
<1>11. x \in Compressed
  <2>1. hctx.counter + HashBlock \in Nat /\ hctx.f \in BOOLEAN
    BY <1>1, HashNats DEF Contexts
  <2> QED
    BY <1>7, <2>1 DEF Compressed
<1>12. Append(hctx.acc, x) \in Seq(Compressed) /\ hctx.counter + HashBlock \in Nat
  BY <1>1, <1>11, Appended, HashNats
<1>13. d = [start EXCEPT !.counter = hctx.counter + HashBlock, !.acc = Append(hctx.acc, x)]
  <2> DEFINE i == blake2b_increment_counter(start, HashBlock)
  <2> HIDE DEF start
  <2>1. i = [start EXCEPT !.counter = hctx.counter + HashBlock]
    BY <1>10, Zenon DEF blake2b_increment_counter
  <2>2. i.acc = hctx.acc /\ i.counter = hctx.counter + HashBlock /\ i.f = hctx.f
    BY <1>10, <2>1 DEF Contexts
  <2>3. d = [i EXCEPT !.acc = Append(hctx.acc, x)]
    BY <2>2, Zenon DEF blake2b_compress, x
  <2> HIDE DEF x, d
  <2> QED
    BY <2>1, <2>3, <1>10 DEF Contexts
<1> HIDE DEF x, d, start
<1>14. /\ d \in Contexts /\ d.algo = hctx.algo /\ d.f = hctx.f /\ d.spent = hctx.spent
       /\ d.counter = hctx.counter + HashBlock /\ d.acc = Append(hctx.acc, x)
  BY <1>10, <1>12, <1>13 DEF Contexts
<1>15. ASSUME ~hctx.spent PROVE Holds(d, 0, rest, fed)
  <2>1. hctx.counter = k * HashBlock /\ hctx.f = FALSE
    BY <1>1, <1>3, <1>15 DEF Holds, Contexts
  <2>2. hctx.counter + HashBlock = (k + 1) * HashBlock
    BY <1>1, <2>1, Multiples
  <2>3. x = BlockInput(hctx.algo, k + 1)
    BY <1>8, <1>15, <2>1, <2>2 DEF x, BlockInput
  <2>4. d.acc = Append(hctx.acc, BlockInput(hctx.algo, Len(hctx.acc) + 1))
    BY <1>14, <2>3, Zenon
  <2>5. d.counter = hctx.counter + (IF hctx.algo = "blake2b" THEN HashBlock ELSE 1)
    BY <1>14
  <2>6. blen + Len(data) >= HashBlock
    BY <1>1, <1>5, HashNats
  <2> HIDE DEF blen, data
  <2> QED
    BY <1>1, <1>3, <1>5, <1>14, <1>15, <2>4, <2>5, <2>6, NextBlock
<1>16. rest \in Seq(Nat)
  BY <1>1, <1>5, CutFacts
<1> HIDE DEF rest
<1>17. hcall' \in HashCalls /\ hcall'.blen = 0 /\ hcall'.data = rest /\ hcall'.at = "blocks"
  BY <1>0, <1>1, <1>4, <1>16 DEF HashCalls
<1>18. HashTypes'
  BY <1>1, <1>4, <1>14, <1>17 DEF HashTypes
<1>19. Streaming'
  BY <1>4, <1>14, <1>15, <1>17 DEF Streaming, Buffered
<1>20. SpentStops' /\ HashOfWhole'
  BY <1>4, <1>14 DEF HashInv, SpentStops, HashOfWhole
<1> QED
  BY <1>18, <1>19, <1>20 DEF HashInv

-----------------------------------------------------------------------------
(* Padding                                                                 *)

\* Only 0 is a multiple of HashBlock less than HashBlock away from 0.
LEMMA SmallMultiple == ASSUME NEW x \in Int, x * HashBlock < HashBlock, x * HashBlock > 0 - HashBlock PROVE x = 0
<1>1. x >= 1 => x * HashBlock >= HashBlock
  BY HashNats
<1>2. x <= -1 => x * HashBlock <= 0 - HashBlock
  BY HashNats
<1> QED
  BY <1>1, <1>2, HashNats

LEMMA QuotientOf == ASSUME NEW q \in Nat PROVE (q * HashBlock) \div HashBlock = q
<1> DEFINE a == q * HashBlock
           d == a \div HashBlock
           m == a % HashBlock
<1>1. a \in Nat
  BY Multiples
<1> HIDE DEF a
<1>2. d \in Int /\ a = HashBlock * d + m /\ m \in 0..(HashBlock - 1)
  BY <1>1, HashNats
<1> HIDE DEF d, m
<1>3. (q - d) * HashBlock = m /\ q - d \in Int
  <2>1. q * HashBlock = HashBlock * d + m
    BY <1>2 DEF a
  <2> QED
    BY <1>2, <2>1, HashNats
<1>4. q - d = 0
  BY <1>2, <1>3, SmallMultiple, HashNats
<1> QED
  BY <1>2, <1>4 DEF a, d

LEMMA MissingIs ==
  ASSUME NEW n \in Nat, NEW g \in 0..(HashBlock - 1), NEW q \in Nat, n + g = q * HashBlock
  PROVE  Missing(n) = g
<1> DEFINE a == 0 - n
           d == a \div HashBlock
           m == a % HashBlock
<1>1. a \in Int /\ -n = a
  OBVIOUS
<1>2. d \in Int /\ a = HashBlock * d + m /\ m \in 0..(HashBlock - 1)
  <2> HIDE DEF a
  <2> QED
    BY <1>1, HashNats
<1>3. n = (0 - HashBlock * d) - m
  <2> HIDE DEF d, m
  <2> QED
    BY <1>2, HashNats DEF a
<1> HIDE DEF d, m
<1>4. (q + d) * HashBlock = g - m /\ q + d \in Int
  <2>1. q * HashBlock = (0 - HashBlock * d) - m + g
    BY <1>3
  <2>2. (q + d) * HashBlock = q * HashBlock + HashBlock * d /\ HashBlock * d \in Int
    BY <1>2, HashNats
  <2> QED
    BY <1>2, <2>1, <2>2, HashNats
<1>5. q + d = 0
  BY <1>2, <1>4, SmallMultiple, HashNats
<1>6. 0 * HashBlock = 0
  BY HashNats
<1>7. g = m
  BY <1>2, <1>4, <1>5, <1>6
<1> QED
  BY <1>1, <1>7 DEF Missing, m

\* The blocks of q * HashBlock bytes
LEMMA BlocksOf ==
  ASSUME NEW w \in Seq(Nat), NEW q \in Nat, Len(w) = q * HashBlock
  PROVE  /\ Blocks(w) \in Seq(Compressed) /\ Len(Blocks(w)) = q
         /\ \A b \in 1..q : Blocks(w)[b] \in ByteBlock
         /\ \A b \in 1..q : \A i \in 1..HashBlock : Blocks(w)[b][i] = w[(b - 1) * HashBlock + i]
<1> DEFINE s(b) == SubSeq(w, (b - 1) * HashBlock + 1, b * HashBlock)
<1>1. Blocks(w) = [b \in 1..q |-> s(b)]
  BY QuotientOf DEF Blocks
<1>2. ASSUME NEW b \in 1..q PROVE s(b) \in ByteBlock /\ \A i \in 1..HashBlock : s(b)[i] = w[(b - 1) * HashBlock + i]
  <2> DEFINE lo == (b - 1) * HashBlock
             hi == b * HashBlock
             top == q * HashBlock
  <2>1. b - 1 \in Nat /\ q \in Nat /\ b - 1 + 1 = b
    OBVIOUS
  <2>2. lo \in Nat /\ lo + HashBlock <= top /\ top \in Nat
    BY Multiples
  <2>3. hi = lo + HashBlock
    BY <2>1, Multiples
  <2>4. Len(w) = top
    OBVIOUS
  <2> HIDE DEF lo, hi, top
  <2>5. \A j \in (lo + 1)..hi : w[j] \in Nat
    <3>1. \A j \in 1..Len(w) : w[j] \in Nat
      BY LenProperties
    <3>2. \A j \in (lo + 1)..hi : j \in 1..Len(w)
      BY <2>2, <2>3, <2>4, HashNats
    <3> QED
      BY <3>1, <3>2
  <2>6. lo + 1 \in Int /\ hi \in Int /\ lo + 1 <= hi /\ hi - (lo + 1) + 1 = HashBlock
    BY <2>2, <2>3, HashNats
  <2>7. /\ SubSeq(w, lo + 1, hi) \in Seq(Nat)
        /\ Len(SubSeq(w, lo + 1, hi)) = HashBlock
        /\ \A i \in 1..HashBlock : SubSeq(w, lo + 1, hi)[i] = w[lo + 1 + i - 1]
    BY <2>5, <2>6, SubSeqProperties
  <2>8. \A i \in 1..HashBlock : lo + 1 + i - 1 = lo + i
    BY <2>2, HashNats
  <2>9. SubSeq(w, lo + 1, hi) \in ByteBlock
    BY <2>7, LenProperties DEF ByteBlock
  <2>10. \A i \in 1..HashBlock : SubSeq(w, lo + 1, hi)[i] = w[lo + i]
    BY <2>7, <2>8
  <2> QED
    BY <2>9, <2>10 DEF lo, hi
<1> HIDE DEF s
<1>3. \A b \in 1..q : s(b) \in Compressed
  BY <1>2 DEF Compressed
<1>4. Blocks(w) \in Seq(Compressed) /\ Len(Blocks(w)) = q /\ \A b \in 1..q : Blocks(w)[b] = s(b)
  BY <1>1, <1>3
<1> QED
  BY <1>2, <1>4

\* The bytes of w are cut into the blocks of a.
Matches(a, w) ==
  \A b \in 1..Len(a) : a[b] \in ByteBlock /\ \A i \in 1..HashBlock : a[b][i] = w[(b - 1) * HashBlock + i]

LEMMA BlocksAre ==
  ASSUME NEW a \in Seq(Compressed), NEW w \in Seq(Nat), Len(w) = Len(a) * HashBlock, Matches(a, w)
  PROVE  a = Blocks(w)
<1>1. Len(a) \in Nat
  BY LenProperties
<1>2. /\ Blocks(w) \in Seq(Compressed) /\ Len(Blocks(w)) = Len(a)
      /\ \A b \in 1..Len(a) : Blocks(w)[b] \in ByteBlock
      /\ \A b \in 1..Len(a) : \A i \in 1..HashBlock : Blocks(w)[b][i] = w[(b - 1) * HashBlock + i]
  BY <1>1, BlocksOf
<1>3. ASSUME NEW b \in 1..Len(a) PROVE a[b] = Blocks(w)[b]
  <2>1. a[b] \in ByteBlock /\ Blocks(w)[b] \in ByteBlock
    BY <1>2 DEF Matches
  <2>2. \A i \in 1..HashBlock : a[b][i] = Blocks(w)[b][i]
    BY <1>2 DEF Matches
  <2> QED
    BY <2>1, <2>2, SameBlock
<1> QED
  BY <1>2, <1>3, SeqEqual

\* The blocks of the data, then one more, are the blocks of a message that
\* begins with the data.
LEMMA OneMore ==
  ASSUME NEW acc \in Seq(Compressed), NEW last \in ByteBlock, NEW w \in Seq(Nat),
         Len(w) = (Len(acc) + 1) * HashBlock,
         Matches(acc, w),
         \A i \in 1..HashBlock : last[i] = w[Len(acc) * HashBlock + i]
  PROVE  /\ Append(acc, last) = Blocks(w)
         /\ Append(acc, last) \in Seq(Compressed)
         /\ Len(Append(acc, last)) = Len(acc) + 1
<1> DEFINE k == Len(acc)
           a == Append(acc, last)
<1>1. /\ a \in Seq(Compressed) /\ Len(a) = k + 1 /\ k \in Nat
      /\ \A b \in 1..k : a[b] = acc[b]
      /\ a[k + 1] = last
  BY Appended DEF Compressed
<1>2. ASSUME NEW b \in 1..(k + 1)
      PROVE  a[b] \in ByteBlock /\ \A i \in 1..HashBlock : a[b][i] = w[(b - 1) * HashBlock + i]
  <2>1. CASE b \in 1..k
    BY <1>1, <2>1 DEF Matches
  <2>2. CASE b = k + 1
    <3>1. b - 1 = k
      BY <1>1, <2>2
    <3> QED
      BY <1>1, <2>2, <3>1
  <2> QED
    BY <1>1, <2>1, <2>2
<1> HIDE DEF a
<1>3. Matches(a, w)
  BY <1>1, <1>2 DEF Matches
<1>4. a = Blocks(w)
  BY <1>1, <1>3, BlocksAre
<1> QED
  BY <1>1, <1>4 DEF a

LEMMA TwoMore ==
  ASSUME NEW acc \in Seq(Compressed), NEW extra \in ByteBlock, NEW last \in ByteBlock, NEW w \in Seq(Nat),
         Len(w) = (Len(acc) + 2) * HashBlock,
         Matches(acc, w),
         \A i \in 1..HashBlock : extra[i] = w[Len(acc) * HashBlock + i],
         \A i \in 1..HashBlock : last[i] = w[Len(acc) * HashBlock + HashBlock + i]
  PROVE  Append(Append(acc, extra), last) = Blocks(w)
<1> DEFINE k == Len(acc)
           a == Append(acc, extra)
<1>1. /\ a \in Seq(Compressed) /\ Len(a) = k + 1 /\ k \in Nat
      /\ \A b \in 1..k : a[b] = acc[b]
      /\ a[k + 1] = extra
  BY Appended DEF Compressed
<1>2. ASSUME NEW b \in 1..(k + 1)
      PROVE  a[b] \in ByteBlock /\ \A i \in 1..HashBlock : a[b][i] = w[(b - 1) * HashBlock + i]
  <2>1. CASE b \in 1..k
    BY <1>1, <2>1 DEF Matches
  <2>2. CASE b = k + 1
    <3>1. b - 1 = k
      BY <1>1, <2>2
    <3> QED
      BY <1>1, <2>2, <3>1
  <2> QED
    BY <1>1, <2>1, <2>2
<1> HIDE DEF a
<1>3. (k + 1) * HashBlock = k * HashBlock + HashBlock /\ k + 1 + 1 = k + 2
  BY <1>1, Multiples
<1>4. \A i \in 1..HashBlock : last[i] = w[Len(a) * HashBlock + i]
  BY <1>1, <1>3
<1>5. Len(w) = (Len(a) + 1) * HashBlock
  BY <1>1, <1>3
<1>6. Matches(a, w)
  BY <1>1, <1>2 DEF Matches
<1>7. Append(a, last) = Blocks(w)
  BY <1>1, <1>4, <1>5, <1>6, OneMore
<1> QED
  BY <1>7 DEF a

\* What a context holds when the data of a call is in it
LEMMA HeldBlocks ==
  ASSUME NEW c \in Contexts, NEW n, Holds(c, c.blen, <<>>, n)
  PROVE  /\ Len(c.acc) \in Nat /\ c.acc \in Seq(Compressed) /\ c.block \in ByteBlock /\ c.blen \in 0..HashBlock
         /\ Len(c.acc) * HashBlock \in Nat
         /\ n = Len(c.acc) * HashBlock + c.blen /\ n \in Nat
         /\ \A i \in 1..c.blen : c.block[i] = Len(c.acc) * HashBlock + i
         /\ c.algo # "blake2b" => /\ c.blen < HashBlock /\ c.counter = Len(c.acc)
                                  /\ \A b \in 1..Len(c.acc) : c.acc[b] = DataBlock(b)
         /\ \A b \in 1..Len(c.acc) : DataBlock(b) \in ByteBlock
         /\ \A b \in 1..Len(c.acc) : \A i \in 1..HashBlock :
              DataBlock(b)[i] = (b - 1) * HashBlock + i /\ (b - 1) * HashBlock + i \in 1..(Len(c.acc) * HashBlock)
<1> DEFINE k == Len(c.acc)
           K == k * HashBlock
<1>1. k \in Nat /\ c.acc \in Seq(Compressed) /\ c.block \in ByteBlock /\ c.blen \in 0..HashBlock
  BY LenProperties DEF Contexts
<1>2. K \in Nat /\ \A b \in 1..k : (b - 1) * HashBlock \in Nat /\ (b - 1) * HashBlock + HashBlock <= K
  BY <1>1, Multiples
<1>3. /\ n = K + c.blen + 0
      /\ \A i \in 1..c.blen : c.block[i] = K + i
      /\ c.algo # "blake2b" => /\ c.blen < HashBlock /\ c.counter = k
                               /\ \A b \in 1..k : c.acc[b] = DataBlock(b)
  BY DEF Holds, BlockInput
<1>4. ASSUME NEW b \in 1..k
      PROVE  /\ DataBlock(b) \in ByteBlock
             /\ \A i \in 1..HashBlock : DataBlock(b)[i] = (b - 1) * HashBlock + i /\ (b - 1) * HashBlock + i \in 1..K
  <2>1. b - 1 \in Nat /\ b - 1 + 1 = b
    OBVIOUS
  <2>2. DataBlock(b) \in ByteBlock /\ \A i \in 1..HashBlock : DataBlock(b)[i] = (b - 1) * HashBlock + i
    BY <2>1, DataBlockType
  <2> DEFINE lo == (b - 1) * HashBlock
  <2>3. lo \in Nat /\ lo + HashBlock <= K
    BY <1>2
  <2> HIDE DEF lo, K
  <2>4. \A i \in 1..HashBlock : lo + i \in 1..K
    BY <1>2, <2>3, HashNats
  <2> QED
    BY <2>2, <2>4 DEF lo
<1>5. n = K + c.blen /\ n \in Nat
  <2> HIDE DEF K
  <2> QED
    BY <1>1, <1>2, <1>3, HashNats
<1> QED
  BY <1>1, <1>2, <1>3, <1>4, <1>5

Message(n) == [i \in 1..n |-> i]
Begins(w, n) == \A j \in 1..n : w[j] = j
PaddedWith(w, n, first, g, end) ==
  /\ w \in Seq(Nat) /\ Len(w) = n + 1 + g + Len(end)
  /\ Begins(w, n)
  /\ w[n + 1] = first
  /\ \A j \in (n + 2)..(n + 1 + g) : w[j] = 0
  /\ \A j \in 1..Len(end) : w[n + 1 + g + j] = end[j]

\* The data, one byte, zeros, and an end
LEMMA PaddedMessage ==
  ASSUME NEW n \in Nat, NEW first \in Nat, NEW g \in Nat, NEW end \in Seq(Nat)
  PROVE  PaddedWith(Message(n) \o <<first>> \o ZeroBytes(g) \o end, n, first, g, end)
<1> DEFINE m == Message(n)
           w == m \o <<first>> \o ZeroBytes(g) \o end
           z == ZeroBytes(g)
           f == <<first>>
           a == m \o f
           b == a \o z
<1>1. m \in Seq(Nat) /\ Len(m) = n /\ \A j \in 1..n : m[j] = j
  BY DEF Message
<1>2. z \in Seq(Nat) /\ Len(z) = g /\ \A j \in 1..g : z[j] = 0
  BY DEF ZeroBytes
<1>3. f \in Seq(Nat) /\ Len(f) = 1 /\ f[1] = first /\ Len(end) \in Nat
  BY LenProperties
<1> HIDE DEF m, z, f
<1>4. /\ a \in Seq(Nat) /\ Len(a) = n + 1
      /\ \A i \in 1..(n + 1) : a[i] = IF i <= n THEN m[i] ELSE f[i - n]
  BY <1>1, <1>3, ConcatProperties
<1>5. (\A j \in 1..n : a[j] = j) /\ a[n + 1] = first
  <2>1. n + 1 - n = 1 /\ n + 1 \in 1..(n + 1) /\ ~(n + 1 <= n) /\ \A j \in 1..n : j \in 1..(n + 1) /\ j <= n
    OBVIOUS
  <2> QED
    <3>1. \A j \in 1..n : a[j] = m[j]
      BY <1>4, <2>1
    <3>2. a[n + 1] = f[n + 1 - n]
      BY <1>4, <2>1
    <3>3. a[n + 1] = first
      BY <1>3, <2>1, <3>2, Zenon
    <3> QED
      BY <1>1, <3>1, <3>3
<1> HIDE DEF a
<1>6. /\ b \in Seq(Nat) /\ Len(b) = n + 1 + g
      /\ \A i \in 1..(n + 1 + g) : b[i] = IF i <= n + 1 THEN a[i] ELSE z[i - (n + 1)]
  <2>1. /\ a \o z \in Seq(Nat) /\ Len(a \o z) = Len(a) + Len(z)
        /\ \A i \in 1..(Len(a) + Len(z)) : (a \o z)[i] = IF i <= Len(a) THEN a[i] ELSE z[i - Len(a)]
    BY <1>2, <1>4, ConcatProperties
  <2>2. Len(a) = n + 1 /\ Len(z) = g
    BY <1>2, <1>4
  <2> QED
    BY <2>1, <2>2, Zenon
<1>7. (\A j \in 1..(n + 1) : b[j] = a[j]) /\ \A j \in (n + 2)..(n + 1 + g) : b[j] = 0
  <2>1. \A j \in 1..(n + 1) : j \in 1..(n + 1 + g) /\ j <= n + 1
    OBVIOUS
  <2>2. \A j \in (n + 2)..(n + 1 + g) : j \in 1..(n + 1 + g) /\ ~(j <= n + 1) /\ j - (n + 1) \in 1..g
    OBVIOUS
  <2> QED
    BY <1>2, <1>6, <2>1, <2>2
<1> HIDE DEF b
<1>8. w = b \o end
  BY DEF a, b, m, z, f, w
<1> HIDE DEF w
<1>9. /\ w \in Seq(Nat) /\ Len(w) = n + 1 + g + Len(end)
      /\ \A i \in 1..(n + 1 + g + Len(end)) : w[i] = IF i <= n + 1 + g THEN b[i] ELSE end[i - (n + 1 + g)]
  <2>1. /\ b \o end \in Seq(Nat) /\ Len(b \o end) = Len(b) + Len(end)
        /\ \A i \in 1..(Len(b) + Len(end)) : (b \o end)[i] = IF i <= Len(b) THEN b[i] ELSE end[i - Len(b)]
    BY <1>6, ConcatProperties
  <2>2. Len(b) = n + 1 + g
    BY <1>6
  <2> QED
    BY <1>8, <2>1, <2>2, Zenon
<1>10. \A j \in 1..(n + 1 + g) : w[j] = b[j]
  <2>1. \A j \in 1..(n + 1 + g) : j \in 1..(n + 1 + g + Len(end)) /\ j <= n + 1 + g
    BY <1>3
  <2> QED
    BY <1>9, <2>1
<1>11. \A j \in 1..Len(end) : w[n + 1 + g + j] = end[j]
  <2>1. \A j \in 1..Len(end) : /\ n + 1 + g + j \in 1..(n + 1 + g + Len(end)) /\ ~(n + 1 + g + j <= n + 1 + g)
                               /\ n + 1 + g + j - (n + 1 + g) = j
    BY <1>3
  <2> QED
    BY <1>9, <2>1
<1>12. (\A j \in 1..n : w[j] = j) /\ w[n + 1] = first
  <2>1. n + 1 \in 1..(n + 1) /\ n + 1 \in 1..(n + 1 + g) /\ \A j \in 1..n : j \in 1..(n + 1) /\ j \in 1..(n + 1 + g)
    OBVIOUS
  <2> QED
    BY <1>5, <1>7, <1>10, <2>1
<1>13. \A j \in (n + 2)..(n + 1 + g) : w[j] = 0
  <2>1. \A j \in (n + 2)..(n + 1 + g) : j \in 1..(n + 1 + g)
    OBVIOUS
  <2> QED
    BY <1>7, <1>10, <2>1
<1> QED
  BY <1>9, <1>11, <1>12, <1>13 DEF PaddedWith, Begins, w, m

\* The blocks of the data are the first blocks of a message that begins with it.
LEMMA DataBlocksIn ==
  ASSUME NEW c \in Contexts, NEW n, NEW w, Holds(c, c.blen, <<>>, n), c.algo # "blake2b", Begins(w, n)
  PROVE  Matches(c.acc, w)
<1> DEFINE k == Len(c.acc)
           K == k * HashBlock
<1>1. /\ K \in Nat /\ n = K + c.blen /\ c.blen \in 0..HashBlock
      /\ \A b \in 1..k : c.acc[b] = DataBlock(b) /\ DataBlock(b) \in ByteBlock
      /\ \A b \in 1..k : \A i \in 1..HashBlock : DataBlock(b)[i] = (b - 1) * HashBlock + i /\ (b - 1) * HashBlock + i \in 1..K
  BY HeldBlocks
<1>2. \A j \in 1..K : j \in 1..n
  <2>1. K \in Nat /\ n = K + c.blen /\ c.blen \in Nat
    BY <1>1, HashNats
  <2> HIDE DEF K
  <2> QED
    BY <2>1
<1> QED
  BY <1>1, <1>2 DEF Begins, Matches

\* 80, zeros and the length, in one block more or in two: the padding of the
\* Merkle-Damgard hashes.
MdMessage(n, length) == Message(n) \o <<128>> \o ZeroBytes(Missing(n + 1 + HashLength)) \o length
LEMMA MdFinalPads ==
  ASSUME NEW c \in Contexts, c.algo \in MerkleDamgard, NEW n, Holds(c, c.blen, <<>>, n),
         NEW length \in Seq(Nat), Len(length) = HashLength
  PROVE  /\ MdFinal(c, length) \in Contexts
         /\ MdFinal(c, length).algo = c.algo /\ MdFinal(c, length).spent = TRUE
         /\ MdFinal(c, length).acc = Blocks(MdMessage(n, length))
<1> DEFINE k == Len(c.acc)
           K == k * HashBlock
           l == c.blen + 1
           mb == Write(c.block, c.blen, <<128>>)
           marked == [c EXCEPT !.block = mb, !.blen = @ + 1]
           cb == Clear(mb, l)
           more == HashBlock - l < HashLength
           padded == [marked EXCEPT !.block = cb]
           extra == [block_func(padded) EXCEPT !.blen = 0]
           last == IF more THEN extra ELSE marked
           block == Write(Clear(last.block, last.blen), HashBlock - HashLength, length)
           gap == IF more THEN 2 * HashBlock - l - HashLength ELSE HashBlock - l - HashLength
           msg == Message(n) \o <<128>> \o ZeroBytes(gap) \o length
<1>1. c.algo # "blake2b" /\ c.algo \in Algos
  BY DEF MerkleDamgard, Algos
<1>2. /\ k \in Nat /\ c.acc \in Seq(Compressed) /\ c.block \in ByteBlock /\ c.blen \in 0..HashBlock /\ c.blen < HashBlock
      /\ K \in Nat /\ n = K + c.blen /\ n \in Nat
      /\ \A i \in 1..c.blen : c.block[i] = K + i
  BY <1>1, HeldBlocks
<1>3. l \in 1..HashBlock /\ l \in 0..HashBlock /\ c.blen + 1 <= HashBlock /\ HashBlock - HashLength \in 0..HashBlock
      /\ HashBlock - HashLength + HashLength <= HashBlock
  BY <1>2, HashNats
<1>4. mb \in ByteBlock /\ (\A i \in 1..c.blen : mb[i] = K + i) /\ mb[l] = 128
  BY <1>2, WriteByte
<1>5. cb \in ByteBlock /\ (\A i \in 1..l : cb[i] = mb[i]) /\ (\A i \in (l + 1)..HashBlock : cb[i] = 0)
  <2> HIDE DEF mb, l
  <2> QED
    BY <1>3, <1>4, ClearFacts
<1> HIDE DEF mb, cb
<1>6. marked \in Contexts /\ marked.block = mb /\ marked.blen = l /\ marked.acc = c.acc /\ marked.algo = c.algo
  BY <1>2, <1>3, <1>4 DEF Contexts
<1> HIDE DEF marked
<1>7. padded \in Contexts /\ padded.block = cb /\ padded.acc = c.acc /\ padded.algo = c.algo
  BY <1>5, <1>6 DEF Contexts
<1>8. /\ extra \in Contexts /\ extra.block = cb /\ extra.blen = 0 /\ extra.acc = Append(c.acc, cb) /\ extra.algo = c.algo
  <2> DEFINE e == block_func(padded)
  <2>1. 0 \in 0..HashBlock /\ Append(c.acc, cb) \in Seq(Compressed)
    BY <1>2, <1>5, HashNats, Appended DEF Compressed
  <2>2. e = [padded EXCEPT !.acc = Append(c.acc, cb)]
    BY <1>1, <1>7, BlockFunc DEF Absorbed
  <2> HIDE DEF padded, e
  <2>3. e \in Contexts /\ e.block = cb /\ e.acc = Append(c.acc, cb) /\ e.algo = c.algo
    BY <1>7, <2>1, <2>2 DEF Contexts
  <2>4. extra = [e EXCEPT !.blen = 0]
    BY DEF e
  <2> HIDE DEF extra
  <2> QED
    BY <2>1, <2>3, <2>4 DEF Contexts
<1> HIDE DEF extra
<1>9. last \in Contexts /\ last.algo = c.algo
  BY <1>6, <1>8
<1>10. block \in ByteBlock
  <2>1. last.block \in ByteBlock /\ last.blen \in 0..HashBlock
    BY <1>9 DEF Contexts
  <2> HIDE DEF last
  <2>2. Clear(last.block, last.blen) \in ByteBlock
    BY <2>1, ClearFacts
  <2> QED
    BY <1>3, <2>2, WriteFacts
<1>11. /\ MdFinal(c, length) \in Contexts /\ MdFinal(c, length).algo = c.algo
       /\ MdFinal(c, length).spent = TRUE /\ MdFinal(c, length).acc = Append(last.acc, block)
  <2> DEFINE e == [last EXCEPT !.block = block]
  <2>1. MdFinal(c, length) = [block_func(e) EXCEPT !.spent = TRUE]
    BY DEF MdFinal, marked, extra, mb, cb, block, last
  <2> HIDE DEF last, block
  <2>2. e \in Contexts /\ e.block = block /\ e.acc = last.acc /\ e.algo = c.algo
    BY <1>9, <1>10 DEF Contexts
  <2> HIDE DEF e
  <2>3. block_func(e) = [e EXCEPT !.acc = Append(last.acc, block)]
    BY <1>1, <2>2, BlockFunc DEF Absorbed
  <2>4. Append(last.acc, block) \in Seq(Compressed)
    BY <1>9, <1>10, Appended DEF Contexts, Compressed
  <2>5. block_func(e) \in Contexts /\ block_func(e).algo = c.algo /\ block_func(e).acc = Append(last.acc, block)
    BY <2>2, <2>3, <2>4 DEF Contexts
  <2> QED
    BY <2>1, <2>5 DEF Contexts
<1> HIDE DEF last, block
<1>12. /\ gap \in Nat /\ gap \in 0..(HashBlock - 1)
       /\ more => n + 1 + HashLength + gap = K + HashBlock + HashBlock
       /\ ~more => n + 1 + HashLength + gap = K + HashBlock
  <2> DEFINE x == c.blen
  <2>1. K \in Nat /\ n = K + x /\ x \in Nat /\ x < HashBlock /\ l = x + 1
    BY <1>2, HashNats
  <2> HIDE DEF K, x, l
  <2>2. CASE more
    <3>1. gap = 2 * HashBlock - l - HashLength /\ HashBlock - l < HashLength
      BY <2>2
    <3> HIDE DEF gap
    <3> QED
      BY <2>1, <2>2, <3>1, HashNats
  <2>3. CASE ~more
    <3>1. gap = HashBlock - l - HashLength /\ ~(HashBlock - l < HashLength)
      BY <2>3
    <3> HIDE DEF gap
    <3> QED
      BY <2>1, <2>3, <3>1, HashNats
  <2> QED
    BY <2>2, <2>3
<1>13. Missing(n + 1 + HashLength) = gap
  <2>1. n + 1 + HashLength \in Nat /\ k + 1 \in Nat /\ k + 2 \in Nat
    BY <1>2, HashNats
  <2>2. (k + 1) * HashBlock = K + HashBlock /\ (k + 2) * HashBlock = K + HashBlock + HashBlock
    BY <1>2, Multiples
  <2>3. \/ n + 1 + HashLength + gap = (k + 1) * HashBlock
        \/ n + 1 + HashLength + gap = (k + 2) * HashBlock
    BY <1>12, <2>2, Zenon
  <2> HIDE DEF gap
  <2> QED
    BY <1>12, <2>1, <2>3, MissingIs
<1>14. PaddedWith(msg, n, 128, gap, length) /\ Begins(msg, n)
  <2> HIDE DEF gap
  <2>1. PaddedWith(msg, n, 128, gap, length)
    BY <1>2, <1>12, PaddedMessage
  <2> QED
    BY <2>1 DEF PaddedWith
<1> HIDE DEF msg
<1>15. Matches(c.acc, msg)
  BY <1>1, <1>14, DataBlocksIn
<1> DEFINE x == c.blen
           top == HashBlock - HashLength
<1>16. /\ K \in Nat /\ n = K + x /\ x \in Nat /\ x < HashBlock /\ l = x + 1 /\ gap \in Nat
       /\ more => l + gap + HashLength = HashBlock + HashBlock
       /\ ~more => l + gap + HashLength = HashBlock
       /\ top \in Nat /\ top + HashLength = HashBlock /\ top \in 0..HashBlock
  <2>1. K \in Nat /\ n = K + x /\ x \in Nat /\ x < HashBlock /\ l = x + 1
    BY <1>2, HashNats
  <2>2. top \in Nat /\ top + HashLength = HashBlock /\ top \in 0..HashBlock
    BY HashNats
  <2>3. /\ gap \in Nat
        /\ more => n + 1 + HashLength + gap = K + HashBlock + HashBlock
        /\ ~more => n + 1 + HashLength + gap = K + HashBlock
    BY <1>12
  <2> HIDE DEF K, x, l, gap, more, top
  <2>4. n + 1 = K + l
    BY <2>1
  <2>5. /\ more => l + gap + HashLength = HashBlock + HashBlock
        /\ ~more => l + gap + HashLength = HashBlock
    BY <2>1, <2>3, <2>4, HashNats
  <2> QED
    BY <2>1, <2>2, <2>3, <2>5
<1>17. /\ \A j \in 1..l : msg[K + j] = cb[j]
       /\ \A j \in (l + 1)..(l + gap) : msg[K + j] = 0
       /\ \A j \in 1..HashLength : msg[K + l + gap + j] = length[j]
       /\ Len(msg) = K + l + gap + HashLength
  <2> HIDE DEF K, x, l, gap, more
  <2>1. ASSUME NEW j \in 1..l PROVE msg[K + j] = cb[j]
    <3>1. CASE j = l
      <4>1. K + j = n + 1 /\ msg[n + 1] = 128
        BY <1>14, <1>16, <3>1 DEF PaddedWith
      <4>2. cb[j] = 128
        BY <1>4, <1>5, <3>1
      <4> QED
        BY <4>1, <4>2
    <3>2. CASE j # l
      <4>1. j \in 1..x /\ K + j \in 1..n
        BY <1>16, <3>2
      <4>2. msg[K + j] = K + j
        BY <1>14, <4>1 DEF Begins
      <4>3. cb[j] = K + j
        BY <1>4, <1>5, <4>1 DEF x
      <4> QED
        BY <4>2, <4>3
    <3> QED
      BY <3>1, <3>2
  <2>2. ASSUME NEW j \in (l + 1)..(l + gap) PROVE msg[K + j] = 0
    <3>1. K + j \in (n + 2)..(n + 1 + gap)
      BY <1>16
    <3> QED
      BY <1>14, <3>1 DEF PaddedWith
  <2>3. n + 1 + gap = K + l + gap
    BY <1>16
  <2>4. \A j \in 1..HashLength : msg[K + l + gap + j] = length[j]
    BY <1>14, <2>3 DEF PaddedWith
  <2>5. Len(msg) = K + l + gap + HashLength
    BY <1>14, <2>3 DEF PaddedWith
  <2> QED
    BY <2>1, <2>2, <2>4, <2>5
<1>18. \A a \in ByteBlock :
          LET e == Write(a, top, length)
          IN  (\A i \in 1..top : e[i] = a[i]) /\ (\A i \in 1..HashLength : e[top + i] = length[i])
  <2>1. top \in 0..HashBlock /\ top + Len(length) <= HashBlock
    BY <1>16, HashNats
  <2> HIDE DEF top
  <2>2. ASSUME NEW a \in ByteBlock
        PROVE  /\ \A i \in 1..top : Write(a, top, length)[i] = a[i]
               /\ \A i \in 1..Len(length) : Write(a, top, length)[top + i] = length[i]
    BY <2>1, WriteFacts
  <2> QED
    BY <2>2
<1>19. ASSUME ~more PROVE Append(last.acc, block) = Blocks(msg)
  <2>1. last.acc = c.acc /\ block = Write(cb, top, length)
    BY <1>6, <1>19 DEF last, block, cb
  <2>2. (\A i \in 1..top : block[i] = cb[i]) /\ (\A i \in 1..HashLength : block[top + i] = length[i])
    BY <1>5, <1>18, <2>1
  <2>3. Len(msg) = (k + 1) * HashBlock
    <3>1. (k + 1) * HashBlock = K + HashBlock
      BY <1>2, Multiples
    <3>2. Len(msg) = K + HashBlock
      <4> HIDE DEF K, x, l, gap
      <4> QED
        BY <1>16, <1>17, <1>19, HashNats
    <3> QED
      BY <3>1, <3>2
  <2>4. ASSUME NEW i \in 1..HashBlock PROVE block[i] = msg[K + i]
    <3> HIDE DEF K, x, l, gap, top, more
    <3>1. CASE i <= l
      <4>1. i \in 1..l /\ i \in 1..top
        BY <1>16, <1>19, <3>1, HashNats
      <4> QED
        BY <1>17, <2>2, <4>1
    <3>2. CASE i > l /\ i <= top
      <4>1. i \in 1..top /\ i \in (l + 1)..HashBlock /\ i \in (l + 1)..(l + gap)
        BY <1>16, <1>19, <3>2, HashNats
      <4> QED
        BY <1>5, <1>17, <2>2, <4>1
    <3>3. CASE i > top
      <4>1. i - top \in 1..HashLength /\ top + (i - top) = i /\ K + l + gap + (i - top) = K + i
        BY <1>16, <1>19, <3>3, HashNats
      <4>2. block[i] = length[i - top]
        BY <2>2, <4>1
      <4>3. msg[K + i] = length[i - top]
        BY <1>17, <4>1
      <4> QED
        BY <4>2, <4>3
    <3> QED
      BY <1>16, <3>1, <3>2, <3>3, HashNats
  <2>5. Append(c.acc, block) = Blocks(msg)
    <3>1. msg \in Seq(Nat)
      BY <1>14 DEF PaddedWith
    <3> QED
      BY <1>2, <1>10, <1>15, <2>3, <2>4, <3>1, OneMore
  <2> QED
    BY <2>1, <2>5
<1>20. ASSUME more PROVE Append(last.acc, block) = Blocks(msg)
  <2> DEFINE zeros == Clear(cb, 0)
  <2>1. last.acc = Append(c.acc, cb) /\ block = Write(zeros, top, length)
    BY <1>8, <1>20 DEF last, block
  <2>2. zeros \in ByteBlock /\ \A i \in 1..HashBlock : zeros[i] = 0
    <3>1. 0 \in 0..HashBlock /\ 0 + 1 = 1
      BY HashNats
    <3>2. zeros \in ByteBlock /\ \A i \in (0 + 1)..HashBlock : zeros[i] = 0
      BY <1>5, <3>1, ClearFacts
    <3> QED
      BY <3>1, <3>2
  <2> HIDE DEF zeros
  <2>3. (\A i \in 1..top : block[i] = zeros[i]) /\ (\A i \in 1..HashLength : block[top + i] = length[i])
    BY <1>18, <2>1, <2>2
  <2>4. Len(msg) = (k + 2) * HashBlock
    <3>1. (k + 2) * HashBlock = K + HashBlock + HashBlock
      BY <1>2, Multiples
    <3>2. Len(msg) = K + HashBlock + HashBlock
      <4> HIDE DEF K, x, l, gap
      <4> QED
        BY <1>16, <1>17, <1>20, HashNats
    <3> QED
      BY <3>1, <3>2
  <2>5. ASSUME NEW i \in 1..HashBlock PROVE cb[i] = msg[K + i]
    <3> HIDE DEF K, x, l, gap, top, more
    <3>1. CASE i \in 1..l
      BY <1>17, <3>1
    <3>2. CASE i \in (l + 1)..HashBlock
      <4>1. i \in (l + 1)..(l + gap)
        BY <1>16, <1>20, <3>2, HashNats
      <4> QED
        BY <1>5, <1>17, <3>2, <4>1
    <3> QED
      BY <1>16, <3>1, <3>2
  <2>6. ASSUME NEW i \in 1..HashBlock PROVE block[i] = msg[K + HashBlock + i]
    <3> HIDE DEF K, x, l, gap, top, more
    <3>1. CASE i <= top
      <4>1. i \in 1..top /\ HashBlock + i \in (l + 1)..(l + gap) /\ K + HashBlock + i = K + (HashBlock + i)
        BY <1>16, <1>20, <3>1, HashNats
      <4>2. msg[K + (HashBlock + i)] = 0
        BY <1>17, <4>1
      <4>3. block[i] = 0
        BY <2>2, <2>3, <4>1
      <4> QED
        BY <4>1, <4>2, <4>3
    <3>2. CASE i > top
      <4>1. i - top \in 1..HashLength /\ top + (i - top) = i /\ K + l + gap + (i - top) = K + HashBlock + i
        BY <1>16, <1>20, <3>2, HashNats
      <4>2. block[i] = length[i - top]
        BY <2>3, <4>1
      <4>3. msg[K + HashBlock + i] = length[i - top]
        BY <1>17, <4>1
      <4> QED
        BY <4>2, <4>3
    <3> QED
      BY <1>16, <3>1, <3>2, HashNats
  <2>7. Append(Append(c.acc, cb), block) = Blocks(msg)
    <3>1. msg \in Seq(Nat)
      BY <1>14 DEF PaddedWith
    <3> QED
      BY <1>2, <1>5, <1>10, <1>15, <2>4, <2>5, <2>6, <3>1, TwoMore
  <2> QED
    BY <2>1, <2>7
<1> QED
  <2>1. Append(last.acc, block) = Blocks(msg)
    BY <1>19, <1>20
  <2> QED
    BY <1>11, <1>13, <2>1 DEF msg, MdMessage

LEMMA MessageFacts == ASSUME NEW n \in Nat PROVE Message(n) \in Seq(Nat) /\ Len(Message(n)) = n /\ \A j \in 1..n : Message(n)[j] = j
  BY DEF Message

\* The data and one byte
LEMMA OneByteMessage ==
  ASSUME NEW n \in Nat, NEW last \in Nat
  PROVE  /\ Message(n) \o <<last>> \in Seq(Nat) /\ Len(Message(n) \o <<last>>) = n + 1
         /\ Begins(Message(n) \o <<last>>, n)
         /\ (Message(n) \o <<last>>)[n + 1] = last
<1> DEFINE m == Message(n)
           f == <<last>>
           a == m \o f
<1>1. m \in Seq(Nat) /\ Len(m) = n /\ \A j \in 1..n : m[j] = j
  BY MessageFacts
<1>2. f \in Seq(Nat) /\ Len(f) = 1 /\ f[1] = last
  OBVIOUS
<1> HIDE DEF m, f
<1>3. /\ a \in Seq(Nat) /\ Len(a) = n + 1
      /\ \A i \in 1..(n + 1) : a[i] = IF i <= n THEN m[i] ELSE f[i - n]
  BY <1>1, <1>2, ConcatProperties
<1> HIDE DEF a
<1>4. n + 1 - n = 1 /\ n + 1 \in 1..(n + 1) /\ ~(n + 1 <= n) /\ \A j \in 1..n : j \in 1..(n + 1) /\ j <= n
  OBVIOUS
<1>5. \A j \in 1..n : a[j] = m[j]
  BY <1>3, <1>4
<1>6. a[n + 1] = f[n + 1 - n]
  BY <1>3, <1>4
<1>7. a[n + 1] = last
  BY <1>2, <1>4, <1>6, Zenon
<1> QED
  BY <1>1, <1>3, <1>5, <1>7 DEF Begins, a, m, f

\* The data and zeros
LEMMA ZeroMessage ==
  ASSUME NEW n \in Nat, NEW g \in Nat
  PROVE  /\ Message(n) \o ZeroBytes(g) \in Seq(Nat) /\ Len(Message(n) \o ZeroBytes(g)) = n + g
         /\ Begins(Message(n) \o ZeroBytes(g), n)
         /\ \A j \in (n + 1)..(n + g) : (Message(n) \o ZeroBytes(g))[j] = 0
<1> DEFINE m == Message(n)
           z == ZeroBytes(g)
           a == m \o z
<1>1. m \in Seq(Nat) /\ Len(m) = n /\ \A j \in 1..n : m[j] = j
  BY MessageFacts
<1>2. z \in Seq(Nat) /\ Len(z) = g /\ \A j \in 1..g : z[j] = 0
  BY DEF ZeroBytes
<1> HIDE DEF m, z
<1>3. /\ a \in Seq(Nat) /\ Len(a) = n + g
      /\ \A i \in 1..(n + g) : a[i] = IF i <= n THEN m[i] ELSE z[i - n]
  <2>1. /\ a \in Seq(Nat) /\ Len(a) = Len(m) + Len(z)
        /\ \A i \in 1..(Len(m) + Len(z)) : a[i] = IF i <= Len(m) THEN m[i] ELSE z[i - Len(m)]
    BY <1>1, <1>2, ConcatProperties
  <2> QED
    BY <1>1, <1>2, <2>1, Zenon
<1> HIDE DEF a
<1>4. \A j \in 1..n : j \in 1..(n + g) /\ j <= n
  OBVIOUS
<1>5. \A j \in (n + 1)..(n + g) : j \in 1..(n + g) /\ ~(j <= n) /\ j - n \in 1..g
  OBVIOUS
<1>6. \A j \in 1..n : a[j] = j
  BY <1>1, <1>3, <1>4
<1>7. \A j \in (n + 1)..(n + g) : a[j] = 0
  BY <1>2, <1>3, <1>5
<1> QED
  BY <1>3, <1>6, <1>7 DEF Begins, a, m, z

\* The suffix of the sponge and its last bit, which may be one byte: the
\* padding of the Keccak hashes.
SpongeSuffix(algo) == CASE algo = "keccak" -> 1 [] algo = "sha3" -> 6 [] OTHER -> 31
SpongeMessage(algo, n) ==
  LET gap == Missing(n + 1)
  IN  IF gap = 0 THEN Message(n) \o <<SpongeSuffix(algo) + 128>>
      ELSE Message(n) \o <<SpongeSuffix(algo)>> \o ZeroBytes(gap - 1) \o <<128>>

LEMMA SpongePads ==
  ASSUME NEW c \in Contexts, c.algo \in Sponge, NEW n, Holds(c, c.blen, <<>>, n)
  PROVE  /\ spec_cx_sha3_final(c) \in Contexts
         /\ spec_cx_sha3_final(c).algo = c.algo /\ spec_cx_sha3_final(c).spent = TRUE
         /\ spec_cx_sha3_final(c).acc = Blocks(SpongeMessage(c.algo, n))
<1> DEFINE k == Len(c.acc)
           K == k * HashBlock
           x == c.blen
           l == x + 1
           domain == SpongeSuffix(c.algo)
           zeros == Clear(c.block, x)
           first == [zeros EXCEPT ![x + 1] = @ + domain]
           padded == [first EXCEPT ![HashBlock] = @ + 128]
           gap == HashBlock - l
           msg == SpongeMessage(c.algo, n)
<1>0. c.algo # "blake2b" /\ domain \in Nat
  BY DEF Sponge, SpongeSuffix
<1>1. domain = CASE c.algo = "keccak" -> 1 [] c.algo = "sha3" -> 6 [] c.algo = "shake" -> 31
  BY DEF Sponge, SpongeSuffix
<1>2. /\ k \in Nat /\ c.acc \in Seq(Compressed) /\ c.block \in ByteBlock /\ c.blen \in 0..HashBlock /\ c.blen < HashBlock
      /\ K \in Nat /\ n = K + c.blen /\ n \in Nat
      /\ \A i \in 1..c.blen : c.block[i] = K + i
  BY <1>0, HeldBlocks
<1>3. K \in Nat /\ n = K + x /\ x \in Nat /\ x < HashBlock /\ x \in 0..HashBlock /\ l = x + 1 /\ gap = HashBlock - l
  BY <1>2, HashNats
<1>4. \A i \in 1..x : c.block[i] = K + i
  BY <1>2
<1> HIDE DEF K, x, l, gap
<1>5. /\ l \in 1..HashBlock /\ l \in l..HashBlock /\ gap \in 0..(HashBlock - 1) /\ gap \in Nat /\ HashBlock \in 1..HashBlock
      /\ n + 1 + gap = K + HashBlock /\ n + 1 = K + l
  BY <1>3, HashNats
<1>6. zeros \in ByteBlock /\ (\A i \in 1..x : zeros[i] = K + i) /\ (\A i \in l..HashBlock : zeros[i] = 0)
  <2>1. zeros \in ByteBlock /\ (\A i \in 1..x : zeros[i] = c.block[i]) /\ (\A i \in (x + 1)..HashBlock : zeros[i] = 0)
    BY <1>2, <1>3, ClearFacts
  <2> QED
    BY <1>3, <1>4, <2>1
<1> HIDE DEF zeros, domain
<1>7. /\ first \in ByteBlock /\ first[l] = domain
      /\ \A i \in 1..HashBlock : i # l => first[i] = zeros[i]
  <2>1. zeros[l] = 0 /\ zeros[l] + domain = domain /\ l \in 1..HashBlock
    <3>1. l \in l..HashBlock
      BY <1>3, <1>5, HashNats
    <3>2. zeros[l] = 0
      BY <1>6, <3>1
    <3> QED
      BY <1>0, <1>3, <1>5, <3>2
  <2>2. first = [zeros EXCEPT ![l] = domain]
    BY <1>3, <2>1, Zenon
  <2> HIDE DEF first
  <2> QED
    BY <1>0, <1>6, <2>1, <2>2 DEF ByteBlock
<1> HIDE DEF first
<1>8. /\ padded \in ByteBlock /\ padded[HashBlock] = first[HashBlock] + 128
      /\ \A i \in 1..HashBlock : i # HashBlock => padded[i] = first[i]
  <2>1. first[HashBlock] \in Nat /\ first[HashBlock] + 128 \in Nat
    BY <1>3, <1>5, <1>7 DEF ByteBlock
  <2> QED
    BY <1>3, <1>5, <1>7, <2>1 DEF ByteBlock
<1> HIDE DEF padded
<1>9. /\ spec_cx_sha3_final(c) \in Contexts /\ spec_cx_sha3_final(c).algo = c.algo
      /\ spec_cx_sha3_final(c).spent = TRUE /\ spec_cx_sha3_final(c).acc = Append(c.acc, padded)
  <2> DEFINE e == [c EXCEPT !.block = padded]
             d == spec_cx_sha3_block(e)
  <2>1. spec_cx_sha3_final(c) = [d EXCEPT !.spent = TRUE]
    BY <1>1 DEF spec_cx_sha3_final, padded, first, zeros, x
  <2>2. e \in Contexts /\ e.block = padded /\ e.acc = c.acc /\ e.algo = c.algo
    BY <1>8 DEF Contexts
  <2>3. Append(c.acc, padded) \in Seq(Compressed)
    BY <1>2, <1>8, Appended DEF Compressed
  <2>4. d = [e EXCEPT !.acc = Append(c.acc, padded)]
    BY <2>2 DEF spec_cx_sha3_block, Absorbed
  <2> HIDE DEF e, d
  <2>5. d \in Contexts /\ d.algo = c.algo /\ d.acc = Append(c.acc, padded)
    BY <2>2, <2>3, <2>4 DEF Contexts
  <2> QED
    BY <2>1, <2>5 DEF Contexts
<1>10. Missing(n + 1) = gap
  <2>0. k + 1 \in Nat /\ n + 1 \in Nat
    BY <1>2
  <2>1. (k + 1) * HashBlock = K + HashBlock
    BY <1>2, Multiples DEF K
  <2>2. n + 1 + gap = (k + 1) * HashBlock
    BY <1>3, <1>5, <2>1, Zenon
  <2> QED
    BY <1>3, <1>5, <2>0, <2>2, MissingIs
<1>11. /\ msg \in Seq(Nat) /\ Len(msg) = K + HashBlock /\ Begins(msg, n)
       /\ gap = 0 => msg[n + 1] = domain + 128
       /\ gap # 0 => msg[n + 1] = domain /\ msg[K + HashBlock] = 128 /\ \A j \in (n + 2)..(K + HashBlock - 1) : msg[j] = 0
  <2>1. CASE gap = 0
    <3>0. domain + 128 \in Nat
      BY <1>0
    <3>1. msg = Message(n) \o <<domain + 128>>
      BY <1>10, <2>1 DEF SpongeMessage, domain
    <3>2. msg \in Seq(Nat) /\ Len(msg) = n + 1 /\ Begins(msg, n) /\ msg[n + 1] = domain + 128
      <4>1. n \in Nat
        BY <1>2
      <4>2. /\ Message(n) \o <<domain + 128>> \in Seq(Nat) /\ Len(Message(n) \o <<domain + 128>>) = n + 1
            /\ Begins(Message(n) \o <<domain + 128>>, n)
            /\ (Message(n) \o <<domain + 128>>)[n + 1] = domain + 128
        BY <3>0, <4>1, OneByteMessage
      <4> QED
        BY <3>1, <4>2
    <3>3. n + 1 = K + HashBlock
      <4> QED
        BY <1>2, <1>3, <1>5, <2>1, HashNats
    <3> QED
      BY <2>1, <3>2, <3>3
  <2>2. CASE gap # 0
    <3> DEFINE end == <<128>>
               g == gap - 1
    <3>1. msg = Message(n) \o <<domain>> \o ZeroBytes(g) \o end
      BY <1>10, <2>2 DEF SpongeMessage, domain
    <3>2. g \in Nat /\ end \in Seq(Nat) /\ Len(end) = 1 /\ end[1] = 128
      <4> QED
        BY <1>3, <1>5, <2>2, HashNats
    <3> HIDE DEF g, end
    <3>3. PaddedWith(msg, n, domain, g, end)
      <4>1. n \in Nat /\ domain \in Nat /\ g \in Nat /\ end \in Seq(Nat)
        BY <1>0, <1>2, <3>2
      <4>2. PaddedWith(Message(n) \o <<domain>> \o ZeroBytes(g) \o end, n, domain, g, end)
        BY <4>1, PaddedMessage
      <4> QED
        BY <3>1, <4>2
    <3>4. n + 1 + g + 1 = K + HashBlock /\ n + 1 + g = K + HashBlock - 1
      <4>1. g = gap - 1 /\ gap \in Nat /\ n + 1 + gap = K + HashBlock /\ n \in Nat /\ K \in Nat
        BY <1>2, <1>3, <1>5, HashNats DEF g
      <4> QED
        BY <4>1, HashNats
    <3>5. msg \in Seq(Nat) /\ Len(msg) = K + HashBlock /\ Begins(msg, n) /\ msg[n + 1] = domain
      <4> HIDE DEF msg
      <4> QED
        BY <3>2, <3>3, <3>4 DEF PaddedWith
    <3>6. msg[K + HashBlock] = 128
      <4>1. msg[n + 1 + g + 1] = end[1]
        BY <3>2, <3>3 DEF PaddedWith
      <4> QED
        BY <3>2, <3>4, <4>1, Zenon
    <3>7. \A j \in (n + 2)..(K + HashBlock - 1) : msg[j] = 0
      <4>1. \A j \in (n + 2)..(n + 1 + g) : msg[j] = 0
        BY <3>3 DEF PaddedWith
      <4> QED
        BY <3>4, <4>1, Zenon
    <3> QED
      BY <2>2, <3>5, <3>6, <3>7
  <2> QED
    BY <2>1, <2>2
<1> HIDE DEF msg
<1>12. Matches(c.acc, msg)
  BY <1>0, <1>11, DataBlocksIn
<1>13. ASSUME NEW i \in 1..HashBlock PROVE padded[i] = msg[K + i]
  <2>1. CASE i < l
    <3>1. i \in 1..x /\ i # HashBlock /\ i # l /\ K + i \in 1..n
      BY <1>2, <1>3, <1>5, <2>1, HashNats
    <3>2. padded[i] = K + i
      BY <1>6, <1>7, <1>8, <3>1
    <3> QED
      BY <1>11, <3>1, <3>2 DEF Begins
  <2>2. CASE i = l /\ i = HashBlock
    <3>1. gap = 0
      BY <1>2, <1>3, <1>5, <2>2, HashNats
    <3>2. padded[i] = domain + 128
      BY <1>7, <1>8, <2>2
    <3> QED
      BY <1>3, <1>5, <1>11, <2>2, <3>1, <3>2
  <2>3. CASE i = l /\ i # HashBlock
    <3>1. gap # 0
      BY <1>2, <1>3, <1>5, <2>3, HashNats
    <3>2. padded[i] = domain
      BY <1>7, <1>8, <2>3
    <3> QED
      BY <1>3, <1>5, <1>11, <2>3, <3>1, <3>2
  <2>4. CASE i > l /\ i = HashBlock
    <3>1. gap # 0 /\ i \in l..HashBlock /\ i # l
      BY <1>2, <1>3, <1>5, <2>4, HashNats
    <3>2. first[HashBlock] = 0
      BY <1>6, <1>7, <2>4, <3>1
    <3>3. padded[i] = 128
      BY <1>8, <2>4, <3>2
    <3> QED
      BY <1>11, <2>4, <3>1, <3>3
  <2>5. CASE i > l /\ i # HashBlock
    <3>1. gap # 0 /\ i \in l..HashBlock /\ i # l /\ K + i \in (n + 2)..(K + HashBlock - 1)
      BY <1>2, <1>3, <1>5, <2>5, HashNats
    <3>2. padded[i] = 0
      BY <1>6, <1>7, <1>8, <2>5, <3>1
    <3> QED
      BY <1>11, <3>1, <3>2
  <2> QED
    BY <1>3, <1>5, <2>1, <2>2, <2>3, <2>4, <2>5
<1>14. Append(c.acc, padded) = Blocks(msg)
  <2>1. (k + 1) * HashBlock = K + HashBlock
    BY <1>2, Multiples DEF K
  <2>2. msg \in Seq(Nat) /\ Len(msg) = (Len(c.acc) + 1) * HashBlock
    BY <1>11, <2>1
  <2>3. \A i \in 1..HashBlock : padded[i] = msg[Len(c.acc) * HashBlock + i]
    BY <1>13 DEF K
  <2> QED
    BY <1>2, <1>8, <1>12, <2>2, <2>3, OneMore
<1> QED
  BY <1>9, <1>14 DEF msg

\* Zeros to the end of the last block, which may be the only one; every block
\* with the number of bytes up to its end, and the last one marked: the
\* padding of blake2b.
BlakeMessage(n) == Message(n) \o ZeroBytes(IF n = 0 THEN HashBlock ELSE Missing(n))
Marked(whole, n) ==
  [b \in DOMAIN whole |-> IF b = Len(whole) THEN <<whole[b], n, TRUE>> ELSE <<whole[b], b * HashBlock, FALSE>>]

LEMMA BlakePads ==
  ASSUME NEW c \in Contexts, c.algo = "blake2b", NEW n, Holds(c, c.blen, <<>>, n)
  PROVE  /\ spec_blake2b_final(c) # <<>>
         /\ spec_blake2b_final(c)[1] \in Contexts /\ spec_blake2b_final(c)[1].algo = c.algo
         /\ spec_blake2b_final(c)[1].spent = TRUE /\ spec_blake2b_final(c)[1].f = TRUE
         /\ spec_blake2b_final(c)[1].acc = Marked(Blocks(BlakeMessage(n)), n)
<1> DEFINE k == Len(c.acc)
           K == k * HashBlock
           x == c.blen
           zeros == Clear(c.block, x)
           gap == HashBlock - x
           msg == BlakeMessage(n)
           input == <<zeros, n, TRUE>>
<1>1. /\ k \in Nat /\ c.acc \in Seq(Compressed) /\ c.block \in ByteBlock
      /\ K \in Nat /\ n = K + c.blen /\ n \in Nat
      /\ \A b \in 1..k : DataBlock(b) \in ByteBlock
      /\ \A b \in 1..k : \A i \in 1..HashBlock : DataBlock(b)[i] = (b - 1) * HashBlock + i /\ (b - 1) * HashBlock + i \in 1..K
  BY HeldBlocks
<1>2. /\ c.blen \in 0..HashBlock /\ \A i \in 1..c.blen : c.block[i] = K + i
  BY HeldBlocks
<1>3. /\ \A b \in 1..k : c.acc[b] = <<DataBlock(b), b * HashBlock, FALSE>>
      /\ c.counter = K /\ c.f = FALSE
      /\ k > 0 => c.blen + 0 > 0
  BY DEF Holds, BlockInput, Contexts
<1>4. K \in Nat /\ n = K + x /\ n \in Nat /\ x \in 0..HashBlock /\ gap = HashBlock - x /\ (k > 0 => x + 0 > 0)
      /\ (k = 0 => K = 0)
  <2>1. k = 0 => K = 0
    BY HashNats
  <2> HIDE DEF K
  <2> QED
    BY <1>1, <1>2, <1>3, <2>1
<1>5. \A i \in 1..x : c.block[i] = K + i
  BY <1>2
<1>6. zeros \in ByteBlock /\ (\A i \in 1..x : zeros[i] = K + i) /\ \A i \in (x + 1)..HashBlock : zeros[i] = 0
  BY <1>1, <1>2, <1>5, ClearFacts
<1> HIDE DEF zeros, K
<1>7. /\ spec_blake2b_final(c) = <<[[[[c EXCEPT !.counter = @ + c.blen] EXCEPT !.f = TRUE, !.block = zeros]
                                      EXCEPT !.acc = Append(c.acc, <<zeros, c.counter + c.blen, TRUE>>)] EXCEPT !.spent = TRUE]>>
  BY <1>3 DEF spec_blake2b_final, blake2b_increment_counter, blake2b_compress, zeros, Contexts
<1>8. input \in Compressed /\ Append(c.acc, input) \in Seq(Compressed)
  <2>1. input \in Compressed
    BY <1>4, <1>6 DEF Compressed
  <2> QED
    BY <1>1, <2>1, Appended
<1>9. /\ spec_blake2b_final(c) # <<>>
      /\ spec_blake2b_final(c)[1] \in Contexts /\ spec_blake2b_final(c)[1].algo = c.algo
      /\ spec_blake2b_final(c)[1].spent = TRUE /\ spec_blake2b_final(c)[1].f = TRUE
      /\ spec_blake2b_final(c)[1].acc = Append(c.acc, input)
  <2> DEFINE e == [[c EXCEPT !.counter = n] EXCEPT !.f = TRUE, !.block = zeros]
             d == [e EXCEPT !.acc = Append(c.acc, input)]
             final == [d EXCEPT !.spent = TRUE]
  <2>1. c.counter + c.blen = n
    BY <1>1, <1>3
  <2>2. spec_blake2b_final(c) = <<final>>
    BY <1>7, <2>1
  <2>3. e \in Contexts /\ e.algo = c.algo /\ e.f = TRUE
    BY <1>1, <1>6 DEF Contexts
  <2> HIDE DEF e, input
  <2>4. d \in Contexts /\ d.algo = c.algo /\ d.f = TRUE /\ d.acc = Append(c.acc, input)
    BY <1>8, <2>3 DEF Contexts
  <2> HIDE DEF d
  <2>5. final \in Contexts /\ final.algo = c.algo /\ final.f = TRUE /\ final.spent = TRUE /\ final.acc = Append(c.acc, input)
    BY <2>4 DEF Contexts
  <2> HIDE DEF final
  <2>6. spec_blake2b_final(c) # <<>> /\ spec_blake2b_final(c)[1] = final
    BY <2>2
  <2> QED
    BY <2>5, <2>6
<1> HIDE DEF x, gap
<1>10. (IF n = 0 THEN HashBlock ELSE Missing(n)) = gap /\ gap \in Nat /\ n + gap = K + HashBlock
  <2>1. gap \in Nat /\ n + gap = K + HashBlock
    BY <1>4, HashNats
  <2>2. CASE n = 0
    <3>1. x = 0
      BY <1>4, <2>2, HashNats
    <3> QED
      BY <1>4, <2>1, <2>2, <3>1, HashNats
  <2>3. CASE n # 0
    <3>1. x > 0
      BY <1>1, <1>4, <2>3, HashNats
    <3>2. gap \in 0..(HashBlock - 1) /\ k + 1 \in Nat
      BY <1>1, <1>4, <3>1, HashNats
    <3>3. (k + 1) * HashBlock = K + HashBlock
      BY <1>1, Multiples DEF K
    <3>4. n + gap = (k + 1) * HashBlock
      BY <2>1, <3>3, Zenon
    <3>5. Missing(n) = gap
      BY <1>1, <3>2, <3>4, MissingIs
    <3> QED
      BY <2>1, <2>3, <3>5
  <2> QED
    BY <2>2, <2>3
<1>11. msg \in Seq(Nat) /\ Len(msg) = (k + 1) * HashBlock /\ Begins(msg, n) /\ \A j \in (n + 1)..(K + HashBlock) : msg[j] = 0
  <2>1. msg = Message(n) \o ZeroBytes(gap)
    BY <1>10 DEF BlakeMessage
  <2>2. n \in Nat /\ gap \in Nat
    BY <1>1, <1>10
  <2>3. (k + 1) * HashBlock = K + HashBlock
    BY <1>1, Multiples DEF K
  <2>4. /\ Message(n) \o ZeroBytes(gap) \in Seq(Nat) /\ Len(Message(n) \o ZeroBytes(gap)) = n + gap
        /\ Begins(Message(n) \o ZeroBytes(gap), n)
        /\ \A j \in (n + 1)..(n + gap) : (Message(n) \o ZeroBytes(gap))[j] = 0
    BY <2>2, ZeroMessage
  <2> HIDE DEF msg
  <2> QED
    BY <1>10, <2>1, <2>3, <2>4, Zenon
<1> HIDE DEF msg
<1> DEFINE whole == Blocks(msg)
<1>12. /\ whole \in Seq(Compressed) /\ Len(whole) = k + 1
       /\ \A b \in 1..(k + 1) : whole[b] \in ByteBlock
       /\ \A b \in 1..(k + 1) : \A i \in 1..HashBlock : whole[b][i] = msg[(b - 1) * HashBlock + i]
  <2>1. k + 1 \in Nat
    BY <1>1
  <2> QED
    BY <1>11, <2>1, BlocksOf
<1> HIDE DEF whole
<1>13. ASSUME NEW b \in 1..k PROVE whole[b] = DataBlock(b)
  <2>1. b \in 1..(k + 1)
    BY <1>1
  <2>2. \A j \in 1..K : j \in 1..n
    BY <1>4, HashNats
  <2>3. \A i \in 1..HashBlock : whole[b][i] = DataBlock(b)[i]
    <3> SUFFICES ASSUME NEW i \in 1..HashBlock PROVE whole[b][i] = DataBlock(b)[i]
      OBVIOUS
    <3> DEFINE j == (b - 1) * HashBlock + i
    <3>1. whole[b][i] = msg[j]
      BY <1>12, <2>1
    <3>2. DataBlock(b)[i] = j /\ j \in 1..K
      BY <1>1
    <3> HIDE DEF j
    <3>3. msg[j] = j
      BY <1>11, <2>2, <3>2 DEF Begins
    <3> QED
      BY <3>1, <3>2, <3>3
  <2>4. whole[b] \in ByteBlock /\ DataBlock(b) \in ByteBlock
    BY <1>1, <1>12, <2>1
  <2> QED
    BY <2>3, <2>4, SameBlock
<1>14. whole[k + 1] = zeros
  <2>1. k + 1 \in 1..(k + 1) /\ k + 1 - 1 = k
    BY <1>1
  <2>2. whole[k + 1] \in ByteBlock /\ \A i \in 1..HashBlock : whole[k + 1][i] = msg[K + i]
    BY <1>12, <2>1 DEF K
  <2>3. ASSUME NEW i \in 1..HashBlock PROVE zeros[i] = msg[K + i]
    <3>1. CASE i <= x
      <4>1. i \in 1..x /\ K + i \in 1..n
        BY <1>4, <3>1, HashNats
      <4> QED
        BY <1>6, <1>11, <4>1 DEF Begins
    <3>2. CASE i > x
      <4>1. i \in (x + 1)..HashBlock /\ K + i \in (n + 1)..(K + HashBlock)
        BY <1>4, <3>2, HashNats
      <4> QED
        BY <1>6, <1>11, <4>1
    <3> QED
      BY <1>4, <3>1, <3>2, HashNats
  <2> QED
    BY <1>6, <2>2, <2>3, SameBlock
<1>15. Append(c.acc, input) = Marked(whole, n)
  <2> DEFINE a == Append(c.acc, input)
  <2>1. /\ a \in Seq(Compressed) /\ Len(a) = k + 1
        /\ \A b \in 1..k : a[b] = c.acc[b]
        /\ a[k + 1] = input
    BY <1>1, <1>8, Appended
  <2> HIDE DEF a
  <2>2. a = [b \in 1..(k + 1) |-> a[b]]
    BY <2>1, LenProperties
  <2>3. DOMAIN whole = 1..(k + 1) /\ Len(whole) = k + 1
    BY <1>12, LenProperties
  <2>4. ASSUME NEW b \in 1..(k + 1)
        PROVE  a[b] = IF b = k + 1 THEN <<whole[b], n, TRUE>> ELSE <<whole[b], b * HashBlock, FALSE>>
    <3>1. CASE b = k + 1
      BY <1>14, <2>1, <3>1
    <3>2. CASE b # k + 1
      <4>1. b \in 1..k
        BY <1>1, <3>2
      <4> QED
        BY <1>3, <1>13, <2>1, <3>2, <4>1
    <3> QED
      BY <3>1, <3>2
  <2>5. Marked(whole, n) = [b \in 1..(k + 1) |-> IF b = k + 1 THEN <<whole[b], n, TRUE>> ELSE <<whole[b], b * HashBlock, FALSE>>]
    BY <2>3, Zenon DEF Marked
  <2>6. a = Marked(whole, n)
    BY <2>2, <2>4, <2>5
  <2> QED
    BY <2>6 DEF a
<1> QED
  BY <1>9, <1>15 DEF whole, msg

\* The length of the message in bytes, in either order
LEMMA LengthBytes ==
  ASSUME NEW n \in Nat
  PROVE  /\ BigEndian(n, HashLength) \in Seq(Nat) /\ Len(BigEndian(n, HashLength)) = HashLength
         /\ LittleEndian(n, HashLength) \in Seq(Nat) /\ Len(LittleEndian(n, HashLength)) = HashLength
<1>1. \A e \in Int : 256^e \in Int
  OBVIOUS
<1>2. \A p \in Int : (n \div p) % 256 \in Nat
  OBVIOUS
<1>3. \A i \in 1..HashLength : (n \div 256^(HashLength - i)) % 256 \in Nat
  BY <1>1, <1>2, HashNats
<1>4. \A i \in 1..HashLength : (n \div 256^(i - 1)) % 256 \in Nat
  BY <1>1, <1>2, HashNats
<1>5. HashLength \in Nat
  BY HashNats
<1>6. BigEndian(n, HashLength) \in Seq(Nat) /\ Len(BigEndian(n, HashLength)) = HashLength
  BY <1>3, <1>5 DEF BigEndian
<1>7. LittleEndian(n, HashLength) \in Seq(Nat) /\ Len(LittleEndian(n, HashLength)) = HashLength
  BY <1>4, <1>5 DEF LittleEndian
<1> QED
  BY <1>6, <1>7

\* What each final function compresses is what its standard says.
LEMMA FinalStandard ==
  ASSUME NEW c \in Contexts, NEW n, Holds(c, c.blen, <<>>, n)
  PROVE  /\ spec_cx_hash_final(c) # <<>>
         /\ spec_cx_hash_final(c)[1] \in Contexts /\ spec_cx_hash_final(c)[1].algo = c.algo
         /\ spec_cx_hash_final(c)[1].spent = TRUE
         /\ c.algo = "blake2b" => spec_cx_hash_final(c)[1].f = TRUE
         /\ spec_cx_hash_final(c)[1].acc = Standard(c.algo, Message(n))
<1>1. n \in Nat /\ Len(c.acc) \in Nat /\ n = Len(c.acc) * HashBlock + c.blen /\ Len(c.acc) * HashBlock \in Nat
  BY HeldBlocks
<1>2. Message(n) \in Seq(Nat) /\ Len(Message(n)) = n /\ (Message(n) = <<>> <=> n = 0)
  BY <1>1, MessageFacts
<1>3. c.algo \in {"sha256", "sha512", "ripemd160", "sha3", "keccak", "shake", "blake2b"}
  BY DEF Contexts, Algos, MerkleDamgard, Sponge
<1>4. CASE c.algo \in {"sha256", "sha512"}
  <2> DEFINE length == BigEndian(8 * n, HashLength)
             d == MdFinal(c, length)
  <2>1. BitLen(c) = 8 * n
    <3>1. c.counter = Len(c.acc)
      BY <1>4, HeldBlocks
    <3> DEFINE K == Len(c.acc) * HashBlock
    <3>2. K \in Nat /\ n = K + c.blen /\ c.blen \in Nat
      BY <1>1, HashNats DEF Contexts
    <3>3. BitLen(c) = (K + c.blen) * 8
      BY <3>1 DEF BitLen
    <3> HIDE DEF K
    <3> QED
      BY <3>2, <3>3
  <2>2. spec_cx_hash_final(c) = <<d>>
    <3>1. spec_cx_hash_final(c) = <<MdFinal(c, BigEndian(BitLen(c), HashLength))>>
      BY <1>4 DEF spec_cx_hash_final, spec_cx_sha256_final, spec_cx_sha512_final, Sponge
    <3> QED
      BY <2>1, <3>1
  <2>3. 8 * n \in Nat /\ c.algo \in MerkleDamgard
    BY <1>1, <1>4 DEF MerkleDamgard
  <2>4. length \in Seq(Nat) /\ Len(length) = HashLength
    BY <2>3, LengthBytes
  <2>5. Standard(c.algo, Message(n)) = Blocks(MdMessage(n, length))
    <3> DEFINE m == Message(n)
    <3>1. Standard(c.algo, m)
            = Blocks(m \o <<128>> \o ZeroBytes(Missing(Len(m) + 1 + HashLength)) \o BigEndian(8 * Len(m), HashLength))
      <4> HIDE DEF m
      <4> QED
        BY <1>4 DEF Standard, Sponge
    <3> QED
      BY <1>2, <3>1 DEF MdMessage
  <2> HIDE DEF length
  <2>6. /\ d \in Contexts /\ d.algo = c.algo /\ d.spent = TRUE
        /\ d.acc = Blocks(MdMessage(n, length))
    BY <2>3, <2>4, MdFinalPads
  <2> HIDE DEF d
  <2>7. spec_cx_hash_final(c) # <<>> /\ spec_cx_hash_final(c)[1] = d /\ c.algo # "blake2b"
    BY <1>4, <2>2
  <2> QED
    BY <2>5, <2>6, <2>7
<1>5. CASE c.algo = "ripemd160"
  <2> DEFINE length == LittleEndian(8 * n, HashLength)
             d == MdFinal(c, length)
  <2>1. BitLen(c) = 8 * n
    <3>1. c.counter = Len(c.acc)
      BY <1>5, HeldBlocks
    <3> DEFINE K == Len(c.acc) * HashBlock
    <3>2. K \in Nat /\ n = K + c.blen /\ c.blen \in Nat
      BY <1>1, HashNats DEF Contexts
    <3>3. BitLen(c) = (K + c.blen) * 8
      BY <3>1 DEF BitLen
    <3> HIDE DEF K
    <3> QED
      BY <3>2, <3>3
  <2>2. spec_cx_hash_final(c) = <<d>>
    <3>1. spec_cx_hash_final(c) = <<MdFinal(c, LittleEndian(BitLen(c), HashLength))>>
      BY <1>5 DEF spec_cx_hash_final, spec_cx_ripemd160_final, Sponge
    <3> QED
      BY <2>1, <3>1
  <2>3. 8 * n \in Nat /\ c.algo \in MerkleDamgard
    BY <1>1, <1>5 DEF MerkleDamgard
  <2>4. length \in Seq(Nat) /\ Len(length) = HashLength
    BY <2>3, LengthBytes
  <2>5. Standard(c.algo, Message(n)) = Blocks(MdMessage(n, length))
    <3> DEFINE m == Message(n)
    <3>1. Standard(c.algo, m)
            = Blocks(m \o <<128>> \o ZeroBytes(Missing(Len(m) + 1 + HashLength)) \o LittleEndian(8 * Len(m), HashLength))
      <4> HIDE DEF m
      <4> QED
        BY <1>5 DEF Standard, Sponge
    <3> QED
      BY <1>2, <3>1 DEF MdMessage
  <2> HIDE DEF length
  <2>6. /\ d \in Contexts /\ d.algo = c.algo /\ d.spent = TRUE
        /\ d.acc = Blocks(MdMessage(n, length))
    BY <2>3, <2>4, MdFinalPads
  <2> HIDE DEF d
  <2>7. spec_cx_hash_final(c) # <<>> /\ spec_cx_hash_final(c)[1] = d /\ c.algo # "blake2b"
    BY <1>5, <2>2
  <2> QED
    BY <2>5, <2>6, <2>7
<1>6. CASE c.algo \in Sponge
  <2> DEFINE d == spec_cx_sha3_final(c)
  <2>1. spec_cx_hash_final(c) = <<d>>
    BY <1>6 DEF spec_cx_hash_final, Sponge
  <2>2. Standard(c.algo, Message(n)) = Blocks(SpongeMessage(c.algo, n))
    BY <1>2, <1>6 DEF Standard, Sponge, SpongeMessage, SpongeSuffix
  <2>3. d \in Contexts /\ d.algo = c.algo /\ d.spent = TRUE /\ d.acc = Blocks(SpongeMessage(c.algo, n))
    BY <1>6, SpongePads
  <2> HIDE DEF d
  <2>4. spec_cx_hash_final(c) # <<>> /\ spec_cx_hash_final(c)[1] = d /\ c.algo # "blake2b"
    BY <1>6, <2>1 DEF Sponge
  <2> QED
    BY <2>2, <2>3, <2>4
<1>7. CASE c.algo = "blake2b"
  <2>1. spec_cx_hash_final(c) = spec_blake2b_final(c)
    BY <1>7 DEF spec_cx_hash_final, Sponge
  <2>2. Standard(c.algo, Message(n)) = Marked(Blocks(BlakeMessage(n)), n)
    <3>1. BlakeMessage(n) = Message(n) \o ZeroBytes(IF Message(n) = <<>> THEN HashBlock ELSE Missing(Len(Message(n))))
      BY <1>2, Zenon DEF BlakeMessage
    <3> QED
      BY <1>2, <1>7, <3>1 DEF Standard, Sponge, Marked
  <2>3. /\ spec_blake2b_final(c) # <<>>
        /\ spec_blake2b_final(c)[1] \in Contexts /\ spec_blake2b_final(c)[1].algo = c.algo
        /\ spec_blake2b_final(c)[1].spent = TRUE /\ spec_blake2b_final(c)[1].f = TRUE
        /\ spec_blake2b_final(c)[1].acc = Marked(Blocks(BlakeMessage(n)), n)
    BY <1>7, BlakePads
  <2> QED
    BY <2>1, <2>2, <2>3
<1> QED
  BY <1>3, <1>4, <1>5, <1>6, <1>7 DEF Sponge

\* The end of a call leaves the context for the next call, or finishes it.
LEMMA EndKeeps == ASSUME HashInv, HashEnd PROVE HashInv'
<1> DEFINE done == spec_cx_hash_final(hctx)
<1>1. hctx \in Contexts /\ fed \in Nat /\ hcall.at = "final" /\ hcall.data = <<>>
  BY DEF HashInv, HashTypes, HashEnd
<1>2. hcall' = NoCall /\ fed' = fed
  BY DEF HashEnd
<1>3. ~hctx.spent => Holds(hctx, hctx.blen, <<>>, fed)
  BY <1>1 DEF HashInv, Streaming, Buffered
<1>4. hctx.spent => hctx.algo = "blake2b" /\ hctx.f
  BY <1>1 DEF HashInv, SpentStops
<1>5. ASSUME hctx' = hctx, digest' = NoDigest \/ digest' = Thrown PROVE HashInv'
  <2>1. HashTypes'
    BY <1>1, <1>2, <1>5, NoCallTyped DEF HashTypes
  <2>2. Streaming'
    BY <1>2, <1>3, <1>5, NoCallTyped DEF Streaming, Buffered
  <2>3. SpentStops' /\ HashOfWhole'
    BY <1>2, <1>4, <1>5, NoCallTyped DEF SpentStops, HashOfWhole
  <2> QED
    BY <2>1, <2>2, <2>3 DEF HashInv
<1>6. ASSUME done # <<>>, digest' = Digest(done[1].acc), hctx' = done[1] PROVE HashInv'
  <2>1. ~hctx.spent
    <3>1. ASSUME hctx.spent PROVE FALSE
      <4>1. hctx.algo = "blake2b" /\ hctx.f
        BY <1>4, <3>1
      <4>2. done = <<>>
        BY <4>1 DEF spec_cx_hash_final, spec_blake2b_final, Sponge
      <4> QED
        BY <1>6, <4>2
    <3> QED
      BY <3>1
  <2>2. /\ hctx' \in Contexts /\ hctx'.algo = hctx.algo /\ hctx'.spent = TRUE
        /\ hctx.algo = "blake2b" => hctx'.f = TRUE
        /\ done[1].acc = Standard(hctx.algo, Message(fed))
    BY <1>1, <1>3, <1>6, <2>1, FinalStandard
  <2>3. HashTypes'
    BY <1>1, <1>2, <2>2, NoCallTyped DEF HashTypes
  <2>4. Streaming'
    BY <2>2 DEF Streaming
  <2>5. SpentStops'
    BY <1>2, <2>2, NoCallTyped DEF SpentStops
  <2>6. HashOfWhole'
    <3>1. digest'.acc = Standard(hctx.algo, Message(fed))
      BY <1>6, <2>2 DEF Digest
    <3> QED
      BY <1>2, <2>2, <3>1 DEF HashOfWhole, Message
  <2> QED
    BY <2>3, <2>4, <2>5, <2>6 DEF HashInv
<1> QED
  BY <1>5, <1>6 DEF HashEnd

\* A step of an update function
LEMMA UpdateKeeps == ASSUME HashInv, spec_cx_hash_update PROVE HashInv'
<1>1. hcall.at \in {"update", "blocks"}
  BY DEF spec_cx_hash_update
<1>2. hctx \in Contexts /\ hcall.blen \in Nat /\ Len(hcall.data) \in Nat
  BY LenProperties, HashNats DEF HashInv, HashTypes, HashCalls
<1>3. CASE hctx.algo # "blake2b" /\ Update
  <2>1. CASE Turn
    BY <1>1, <1>3, <2>1, TurnKeeps
  <2>2. CASE hcall.blen + Len(hcall.data) < HashBlock /\ Rest
    <3>1. hcall.blen + Len(hcall.data) <= HashBlock
      BY <1>2, <2>2, HashNats
    <3> QED
      BY <1>1, <2>2, <3>1, RestKeeps
  <2> QED
    BY <1>3, <2>1, <2>2 DEF Update
<1>4. CASE spec_blake2b_update
  <2>1. hctx.algo = "blake2b"
    BY <1>4 DEF spec_blake2b_update
  <2>2. CASE Len(hcall.data) > HashBlock - hcall.blen /\ BlakeTurn
    BY <1>1, <2>1, <2>2, BlakeTurnKeeps
  <2>3. CASE Len(hcall.data) <= HashBlock - hcall.blen /\ Rest
    <3>1. hcall.blen + Len(hcall.data) <= HashBlock
      BY <1>2, <2>3, HashNats
    <3> QED
      BY <1>1, <2>1, <2>3, <3>1, RestKeeps
  <2> QED
    BY <1>4, <2>2, <2>3 DEF spec_blake2b_update
<1> QED
  BY <1>3, <1>4 DEF spec_cx_hash_update, spec_cx_sha256_update, spec_cx_sha512_update, spec_cx_ripemd160_update,
                    spec_cx_sha3_update, Sponge

LEMMA HashNextKeeps == ASSUME HashInv, [HashNext]_hashVars PROVE HashInv'
<1>1. CASE spec_cx_hash_init
  BY <1>1, ReinitKeeps
<1>2. ASSUME hctx.spent => hctx.algo = "blake2b", NEW n \in 0..HashMaxData, NEW last \in BOOLEAN, NEW room \in BOOLEAN,
             sys_cx_hash(n, last, room)
      PROVE  HashInv'
  BY <1>2, CallStarts
<1>3. CASE spec_cx_hash_update
  BY <1>3, UpdateKeeps
<1>4. CASE HashEnd
  BY <1>4, EndKeeps
<1>5. CASE UNCHANGED hashVars
  BY <1>5 DEF hashVars, HashInv, HashTypes, Streaming, Buffered, SpentStops, HashOfWhole
<1> QED
  BY <1>1, <1>2, <1>3, <1>4, <1>5 DEF HashNext

\* However an application cuts its data into calls of sys_cx_hash, and
\* whichever of the seven hashes it uses, the digest is that of the whole:
\* the update functions of cx_sha256.c, cx_sha512.c, cx_ripemd160.c,
\* cx_sha3.c and cx_blake2b.c compress every byte once and in its place, and
\* their final functions add the padding and the length of the standard, in
\* one block more or in two.
THEOREM DigestsWholeMessage == HashSpec => []HashOfWhole
<1>1. HashInit => HashInv
  BY HashInitHolds
<1>2. HashInv /\ [HashNext]_hashVars => HashInv'
  BY HashNextKeeps
<1>3. HashInv => HashOfWhole
  BY DEF HashInv
<1> QED
  BY <1>1, <1>2, <1>3, PTL DEF HashSpec

-----------------------------------------------------------------------------
(* Path authorisation                                                      *)

\* Between two turns of the loop the offset is where an entry k begins, and
\* no entry before k allows the path unless one that does was just met.
Walking(k) ==
  LET d == asked.declared
  IN  /\ checkOffset = d.starts[k]
      /\ pathValid => Listed(asked)
      /\ ~pathValid => \A j \in 1..(k - 1) : ~(Fits(d, j) /\ Allows(d.entries[j], asked.path, asked.mode = "SLIP21"))

PathInv ==
  /\ pathAt \in {"idle", "walk", "done"}
  /\ pathValid \in BOOLEAN
  /\ pathAt = "idle" => checkOffset = 1 /\ ~pathValid
  /\ pathAt = "walk" =>
       /\ asked \in PathRequests /\ asked.fromApp /\ asked.declared.length > 1 /\ CurveAuthorised(asked)
       /\ \E k \in 1..(Len(asked.declared.entries) + 1) : Walking(k)
  /\ PathAuthorised

LEMMA Quotient ==
  ASSUME NEW a \in Nat, NEW b \in Nat \ {0}, NEW q \in Int, NEW m \in 0..(b - 1), a = b * q + m
  PROVE  q * b + m = a
<1>1. q * b = b * q
  OBVIOUS
<1> QED
  BY <1>1

LEMMA Recompose ==
  ASSUME NEW a \in Nat, NEW b \in Nat \ {0}
  PROVE  (a \div b) * b + (a % b) = a /\ a \div b \in Int /\ a % b \in Int
<1> DEFINE q == a \div b
           m == a % b
<1>1. q \in Int /\ m \in 0..(b - 1) /\ a = b * q + m
  BY Z3
<1> HIDE DEF q, m
<1>2. q * b + m = a /\ q \in Int /\ m \in Int
  BY <1>1, Quotient
<1> QED
  BY <1>2 DEF q, m

\* What the length byte of an entry says.
LEMMA LengthRead ==
  ASSUME NEW n \in Nat, n < Slip21Marker
  PROVE  /\ n < Slip21Marker /\ n % Slip21Marker = n
         /\ Slip21Marker + n >= Slip21Marker /\ (Slip21Marker + n) % Slip21Marker = n
BY DEF Slip21Marker

LEMMA Requests ==
  ASSUME NEW r \in PathRequests
  PROVE  /\ PathRequest(r) /\ Declaration(r.declared) /\ r.path \in Seq(Nat)
         /\ IndexBase \in Nat \ {0} /\ BIP32_WILDCARD_VALUE \in Nat
  BY PathAssumption DEF PathRequest

LEMMA EntryRead ==
  ASSUME NEW r \in PathRequests, NEW k \in 1..Len(r.declared.entries)
  PROVE  LET d == r.declared
             e == d.entries[k]
             byte == d.bytes[d.starts[k]]
         IN  /\ e.slip21 \in BOOLEAN /\ e.path \in Seq(Nat) /\ Len(e.path) \in Nat
             /\ (byte >= Slip21Marker) = e.slip21 /\ byte % Slip21Marker = Len(e.path)
             /\ d.starts[k] + EntrySize(byte >= Slip21Marker, byte % Slip21Marker) = d.starts[k + 1]
<1> DEFINE d == r.declared
           e == d.entries[k]
           byte == d.bytes[d.starts[k]]
           n == Len(e.path)
<1>1. d.entries \in Seq(AppPrefixes) /\ n < Slip21Marker /\ byte = LengthByte(e) /\ d.starts[k + 1] = d.starts[k] + EntrySize(e.slip21, n)
  BY Requests DEF Declaration
<1>2. e \in AppPrefixes
  BY <1>1, ElementOfSeq
<1>3. e.slip21 \in BOOLEAN /\ e.path \in Seq(Nat) /\ n \in Nat
  BY <1>2 DEF AppPrefixes
<1> HIDE DEF n
<1>4. CASE e.slip21
  <2>1. byte = Slip21Marker + n
    BY <1>1, <1>4 DEF LengthByte, n
  <2>2. byte >= Slip21Marker /\ byte % Slip21Marker = n
    BY <2>1, <1>1, <1>3, LengthRead
  <2>3. (byte >= Slip21Marker) = e.slip21
    BY <2>2, <1>4, <1>3
  <2> QED
    BY <2>2, <2>3, <1>1, <1>3 DEF n
<1>5. CASE ~e.slip21
  <2>1. byte = 0 + n
    BY <1>1, <1>5 DEF LengthByte, n
  <2>2. ~(byte >= Slip21Marker) /\ byte % Slip21Marker = n
    BY <2>1, <1>1, <1>3, LengthRead DEF Slip21Marker
  <2>3. (byte >= Slip21Marker) = e.slip21
    BY <2>2, <1>5, <1>3
  <2> QED
    BY <2>2, <2>3, <1>1, <1>3 DEF n
<1> QED
  BY <1>3, <1>4, <1>5

\* A prefix that is written out is compared with the path as it stands.
LEMMA ComparedSlip21 ==
  ASSUME NEW e, NEW path, NEW bytes, NEW at, e.slip21 = TRUE, PrefixBytes(bytes, e, at), Len(path) >= Len(e.path)
  PROVE  hdkey_match_slip21_subpath(path, bytes, at, Len(e.path)) <=> Allows(e, path, TRUE)
  BY DEF PrefixBytes, hdkey_match_slip21_subpath, Allows

LEMMA ComparedBip32 ==
  ASSUME NEW e, NEW path, NEW bytes, NEW at, e.slip21 = FALSE, e.path \in Seq(Nat), IndexBase \in Nat \ {0},
         PrefixBytes(bytes, e, at), Len(path) >= Len(e.path)
  PROVE  hdkey_match_bip32_subpath(path, bytes, at, Len(e.path)) <=> Allows(e, path, FALSE)
<1>1. ASSUME NEW i \in 1..Len(e.path)
      PROVE  IndexAt(bytes, at + 1 + 2 * (i - 1)) = e.path[i]
  <2>1. e.path[i] \in Nat
    BY ElementOfSeq
  <2> DEFINE p == at + 1 + 2 * (i - 1)
             h == e.path[i] \div IndexBase
             l == e.path[i] % IndexBase
  <2>2. bytes[p] = h /\ bytes[p + 1] = l
    BY DEF PrefixBytes
  <2>3. h * IndexBase + l = e.path[i] /\ h \in Int /\ l \in Int
    BY <2>1, Recompose
  <2>4. IndexAt(bytes, p) = bytes[p] * IndexBase + bytes[p + 1]
    BY DEF IndexAt
  <2> HIDE DEF p, h, l
  <2>5. bytes[p] * IndexBase + bytes[p + 1] = e.path[i]
    BY <2>2, <2>3
  <2>6. IndexAt(bytes, p) = e.path[i]
    BY <2>4, <2>5
  <2> QED
    BY <2>6 DEF p
<1> QED
  BY <1>1 DEF hdkey_match_bip32_subpath, Allows

LEMMA Compared ==
  ASSUME NEW r \in PathRequests, NEW k \in 1..Len(r.declared.entries), Fits(r.declared, k)
  PROVE  LET d == r.declared
             e == d.entries[k]
             slip21 == r.mode = "SLIP21"
             n == Len(e.path)
         IN  (/\ Len(r.path) >= n /\ e.slip21 = slip21
              /\ IF slip21 THEN hdkey_match_slip21_subpath(r.path, d.bytes, d.starts[k], n)
                 ELSE hdkey_match_bip32_subpath(r.path, d.bytes, d.starts[k], n))
             <=> Allows(e, r.path, slip21)
<1> DEFINE d == r.declared
           e == d.entries[k]
           slip21 == r.mode = "SLIP21"
<1>1. PrefixBytes(d.bytes, e, d.starts[k])
  BY Requests DEF Declaration
<1>2. e.slip21 \in BOOLEAN /\ e.path \in Seq(Nat) /\ IndexBase \in Nat \ {0}
  BY EntryRead, Requests
<1>3. CASE ~(Len(r.path) >= Len(e.path) /\ e.slip21 = slip21)
  BY <1>3 DEF Allows
<1>4. CASE Len(r.path) >= Len(e.path) /\ e.slip21 = slip21 /\ slip21
  <2>1. e.slip21 = TRUE /\ slip21 = TRUE
    BY <1>4
  <2>2. hdkey_match_slip21_subpath(r.path, d.bytes, d.starts[k], Len(e.path)) <=> Allows(e, r.path, TRUE)
    BY <1>1, <1>4, <2>1, ComparedSlip21
  <2> QED
    BY <1>4, <2>1, <2>2
<1>5. CASE Len(r.path) >= Len(e.path) /\ e.slip21 = slip21 /\ ~slip21
  <2>1. e.slip21 = FALSE /\ slip21 = FALSE
    BY <1>5
  <2>2. hdkey_match_bip32_subpath(r.path, d.bytes, d.starts[k], Len(e.path)) <=> Allows(e, r.path, FALSE)
    BY <1>1, <1>2, <1>5, <2>1, ComparedBip32
  <2> QED
    BY <1>5, <2>1, <2>2
<1> QED
  BY <1>3, <1>4, <1>5

LEMMA Starts ==
  ASSUME NEW r \in PathRequests
  PROVE  LET d == r.declared
             n == Len(d.entries)
         IN  /\ n \in Nat /\ d.length \in Nat /\ d.starts[1] = 1 /\ d.length <= d.starts[n + 1]
             /\ \A k \in 1..(n + 1) : d.starts[k] \in Nat
             /\ \A k \in 1..n : d.starts[k] < d.length
             /\ d.length > 1 <=> n # 0
             /\ d.entries = <<>> <=> n = 0
<1> DEFINE d == r.declared
           n == Len(d.entries)
<1>1. d.entries \in Seq(AppPrefixes) /\ d.starts \in [1..(n + 1) -> Nat] /\ d.length \in Nat /\ d.starts[1] = 1 /\ d.length <= d.starts[n + 1]
  BY Requests DEF Declaration
<1>2. n \in Nat /\ (d.entries = <<>> <=> n = 0)
  BY <1>1, EmptySeq
<1>3. \A k \in 1..n : d.starts[k] < d.length
  BY Requests DEF Declaration
<1>4. \A k \in 1..(n + 1) : d.starts[k] \in Nat
  BY <1>1
<1>5. d.length > 1 <=> n # 0
  <2> HIDE DEF n
  <2>1. CASE n = 0
    BY <1>1, <2>1
  <2>2. CASE n # 0
    <3>1. 1 \in 1..n
      BY <1>2, <2>2
    <3> QED
      BY <1>1, <1>3, <2>2, <3>1
  <2> QED
    BY <2>1, <2>2
<1> QED
  BY <1>1, <1>2, <1>3, <1>4, <1>5

\* What is decided before the entries are looked at.
LEMMA Decided ==
  ASSUME PathInv, pathAt = "idle", NEW r \in PathRequests, os_perso_derive_node_bip32_check_path(r) \/ hdkey_validate_path(r)
  PROVE  PathInv'
<1> USE DEF PathInv
<1> DEFINE d == r.declared
<1>1. PathRequest(r) /\ asked' = r /\ checkOffset' = 1 /\ pathValid' = FALSE
  BY Requests DEF os_perso_derive_node_bip32_check_path, hdkey_validate_path, Begin
<1>2. d.length \in Nat /\ (d.length > 1 <=> d.entries # <<>>) /\ d.starts[1] = 1 /\ Len(d.entries) \in Nat
  BY Starts
<1>3. pathAt' = "walk" => r.fromApp /\ d.length > 1 /\ CurveAuthorised(r)
  <2>1. CASE os_perso_derive_node_bip32_check_path(r)
    BY <1>1, <1>2, <2>1 DEF os_perso_derive_node_bip32_check_path, Begin, CurveAuthorised, PathRequest, Bip32Modes
  <2>2. CASE hdkey_validate_path(r)
    BY <1>1, <1>2, <2>2 DEF hdkey_validate_path, hdkey_validate_curve, Begin, CurveAuthorised, PathRequest, HdkeyModes, Bip32Modes
  <2> QED
    BY <2>1, <2>2
<1>4. pathAt' = "done" =>
        (pathAnswer' = "OK" <=>
           \/ ~r.fromApp \/ d.length = 0
           \/ r.f = "hdkey" /\ d.length = 1
           \/ CurveAuthorised(r) /\ (d.entries = <<>> \/ Listed(r)))
  <2>1. CASE os_perso_derive_node_bip32_check_path(r)
    <3>1. d.entries # <<>> => d.length > 1
      BY <1>2
    <3> QED
      BY <1>1, <1>2, <2>1 DEF os_perso_derive_node_bip32_check_path, Begin, CurveAuthorised, PathRequest, Bip32Modes
  <2>2. CASE hdkey_validate_path(r)
    BY <1>1, <1>2, <2>2 DEF hdkey_validate_path, hdkey_validate_curve, Begin, CurveAuthorised, PathRequest, HdkeyModes, Bip32Modes
  <2> QED
    BY <2>1, <2>2
<1>5. pathAt' \in {"walk", "done"}
  BY DEF os_perso_derive_node_bip32_check_path, hdkey_validate_path, Begin
<1>6. Walking(1)' /\ 1 \in 1..(Len(asked'.declared.entries) + 1)
  BY <1>1, <1>2 DEF Walking
<1>7. PathAuthorised'
  BY <1>1, <1>4 DEF PathAuthorised, CurveAuthorised, Listed, Fits, Allows
<1>8. CurveAuthorised(asked)' <=> CurveAuthorised(r)
  BY <1>1 DEF CurveAuthorised
<1> QED
  BY <1>1, <1>3, <1>5, <1>6, <1>7, <1>8

LEMMA EntryStep ==
  ASSUME PathInv, CheckEntry
  PROVE  PathInv'
<1> USE DEF PathInv
<1> DEFINE d == asked.declared
           slip21 == asked.mode = "SLIP21"
           N == Len(d.entries)
           marked == d.bytes[checkOffset] >= Slip21Marker
           n == d.bytes[checkOffset] % Slip21Marker
           next == checkOffset + EntrySize(marked, n)
           match == IF slip21 THEN hdkey_match_slip21_subpath(asked.path, d.bytes, checkOffset, n)
                    ELSE hdkey_match_bip32_subpath(asked.path, d.bytes, checkOffset, n)
           Good(j) == Fits(d, j) /\ Allows(d.entries[j], asked.path, slip21)
<1>1. pathAt = "walk" /\ checkOffset < d.length /\ ~pathValid /\ asked' = asked /\ asked \in PathRequests
  BY DEF CheckEntry
<1>2. PICK k \in 1..(N + 1) : Walking(k)
  BY <1>1
<1>3. checkOffset = d.starts[k] /\ \A j \in 1..(k - 1) : ~Good(j)
  BY <1>1, <1>2 DEF Walking
<1>4. N \in Nat /\ d.length \in Nat /\ d.length <= d.starts[N + 1] /\ (\A j \in 1..(N + 1) : d.starts[j] \in Nat)
      /\ (\A j \in 1..N : d.starts[j] < d.length)
  BY <1>1, Starts
<1>5. k \in 1..N
  <2>1. k # N + 1
    <3>1. SUFFICES ASSUME k = N + 1 PROVE FALSE
      OBVIOUS
    <3>2. d.starts[k] \in Nat /\ d.starts[k] >= d.length /\ d.starts[k] < d.length
      BY <1>1, <1>3, <1>4, <3>1
    <3> QED
      BY <3>2, <1>4
  <2> QED
    BY <1>4, <2>1
<1>6. marked = d.entries[k].slip21 /\ n = Len(d.entries[k].path) /\ next = d.starts[k + 1] /\ d.entries[k].slip21 \in BOOLEAN
  BY <1>1, <1>3, <1>5, EntryRead
<1>7. CASE asked.f = "hdkey" /\ next > d.length /\ pathAt' = "done" /\ pathAnswer' = Refusal /\ UNCHANGED <<checkOffset, pathValid>>
  <2>1. k = N
    <3>1. SUFFICES ASSUME k # N PROVE FALSE
      OBVIOUS
    <3>2. k + 1 \in 1..N
      BY <1>4, <1>5, <3>1
    <3>3. d.starts[k + 1] < d.length /\ d.starts[k + 1] \in Nat
      BY <1>4, <3>2
    <3> QED
      BY <1>4, <1>6, <1>7, <3>3
  <2>2. ~Fits(d, k)
    <3>1. d.starts[k + 1] \in Nat
      BY <1>4, <1>5
    <3> QED
      BY <1>4, <1>6, <1>7, <3>1 DEF Fits
  <2>3. ~Listed(asked)
    <3>1. ASSUME NEW j \in 1..N PROVE ~Good(j)
      <4>1. j = k \/ j \in 1..(k - 1)
        BY <2>1, <1>4
      <4> QED
        BY <4>1, <1>3, <2>2
    <3> QED
      BY <3>1 DEF Listed
  <2>4. d.entries # <<>> /\ asked.fromApp /\ d.length > 1
    BY <1>1, <1>4, <1>5, Starts
  <2>5. pathAnswer' # "OK"
    BY <1>7 DEF Refusal
  <2>6. PathAuthorised'
    <3>1. ~(\/ ~asked.fromApp \/ d.length = 0
            \/ asked.f = "hdkey" /\ d.length = 1
            \/ CurveAuthorised(asked) /\ (d.entries = <<>> \/ Listed(asked)))
      BY <2>3, <2>4
    <3> QED
      BY <1>1, <1>7, <2>5, <3>1 DEF PathAuthorised, CurveAuthorised, Listed, Fits, Allows
  <2> QED
    BY <1>7, <2>6
<1>8. CASE /\ asked.f = "hdkey" => next <= d.length
           /\ pathValid' = (Len(asked.path) >= n /\ marked = slip21 /\ match)
           /\ checkOffset' = next
           /\ UNCHANGED <<pathAt, pathAnswer>>
  <2>1. Fits(d, k)
    <3>1. CASE asked.f = "hdkey"
      BY <3>1, <1>6, <1>8 DEF Fits
    <3>2. CASE asked.f # "hdkey"
      BY <3>2, <1>1, <1>5, Requests DEF PathRequest
    <3> QED
      BY <3>1, <3>2
  <2>2. (Len(asked.path) >= n /\ marked = slip21 /\ match) <=> Allows(d.entries[k], asked.path, slip21)
    BY <1>1, <1>3, <1>5, <1>6, <2>1, Compared
  <2>3. pathValid' \in BOOLEAN /\ (pathValid' <=> Good(k))
    BY <1>8, <2>1, <2>2
  <2>4. pathValid' => Listed(asked)
    BY <1>5, <2>3 DEF Listed
  <2>5. ~pathValid' => \A j \in 1..k : ~Good(j)
    <3>1. ASSUME ~pathValid', NEW j \in 1..k PROVE ~Good(j)
      <4>1. j = k \/ j \in 1..(k - 1)
        BY <1>5
      <4> QED
        BY <3>1, <4>1, <1>3, <2>3
    <3> QED
      BY <3>1
  <2>6. k + 1 \in 1..(N + 1) /\ (k + 1) - 1 = k
    BY <1>4, <1>5
  <2>7. Walking(k + 1)'
    BY <1>1, <1>6, <1>8, <2>4, <2>5, <2>6 DEF Walking, Listed, Fits, Allows
  <2>8. PathAuthorised'
    BY <1>1, <1>8 DEF PathAuthorised
  <2>9. CurveAuthorised(asked)'
    BY <1>1 DEF CurveAuthorised
  <2> QED
    BY <1>1, <1>8, <2>3, <2>6, <2>7, <2>8, <2>9
<1> QED
  BY <1>7, <1>8 DEF CheckEntry

LEMMA EndStep ==
  ASSUME PathInv, CheckEnd
  PROVE  PathInv'
<1> USE DEF PathInv
<1> DEFINE d == asked.declared
           N == Len(d.entries)
           Good(j) == Fits(d, j) /\ Allows(d.entries[j], asked.path, asked.mode = "SLIP21")
<1>1. pathAt = "walk" /\ asked' = asked /\ asked \in PathRequests /\ pathAt' = "done" /\ pathValid' = pathValid
  BY DEF CheckEnd
<1>2. PICK k \in 1..(N + 1) : Walking(k)
  BY <1>1
<1>3. checkOffset = d.starts[k] /\ (pathValid => Listed(asked)) /\ (~pathValid => \A j \in 1..(k - 1) : ~Good(j))
  BY <1>1, <1>2 DEF Walking
<1>4. N \in Nat /\ d.length \in Nat /\ (\A j \in 1..(N + 1) : d.starts[j] \in Nat)
      /\ (\A j \in 1..N : d.starts[j] < d.length) /\ d.entries # <<>>
  BY <1>1, Starts
<1>5. ~pathValid => ~Listed(asked)
  <2>1. SUFFICES ASSUME ~pathValid PROVE ~Listed(asked)
    OBVIOUS
  <2>2. checkOffset >= d.length
    BY <2>1 DEF CheckEnd
  <2>3. k = N + 1
    <3>1. SUFFICES ASSUME k # N + 1 PROVE FALSE
      OBVIOUS
    <3>2. k \in 1..N
      BY <1>4, <3>1
    <3> QED
      BY <1>3, <1>4, <2>2, <3>2
  <2>4. \A j \in 1..N : ~Good(j)
    BY <1>3, <1>4, <2>1, <2>3
  <2> QED
    BY <2>4 DEF Listed
<1>6. pathAnswer' = "OK" <=> Listed(asked)
  BY <1>3, <1>5 DEF CheckEnd, Refusal
<1>7. (\/ ~asked.fromApp \/ d.length = 0
       \/ asked.f = "hdkey" /\ d.length = 1
       \/ CurveAuthorised(asked) /\ (d.entries = <<>> \/ Listed(asked))) <=> Listed(asked)
  BY <1>1, <1>4
<1>8. PathAuthorised'
  BY <1>1, <1>6, <1>7 DEF PathAuthorised, CurveAuthorised, Listed, Fits, Allows
<1> QED
  BY <1>1, <1>8

\* The declaration of an application, of any number of entries of either kind
\* and of any length, is read entry by entry: the two checks allow exactly
\* the paths and the curves that it lists.
THEOREM OnlyDeclaredPaths == PathSpec => []PathAuthorised
<1>1. PathInit => PathInv
  BY DEF PathInit, PathInv, PathAuthorised
<1>2. PathInv /\ [PathNext]_pathVars => PathInv'
  <2> SUFFICES ASSUME PathInv, [PathNext]_pathVars PROVE PathInv'
    OBVIOUS
  <2>1. CASE pathAt = "idle" /\ \E r \in PathRequests : os_perso_derive_node_bip32_check_path(r) \/ hdkey_validate_path(r)
    BY <2>1, Decided
  <2>2. CASE CheckEntry
    BY <2>2, EntryStep
  <2>3. CASE CheckEnd
    BY <2>3, EndStep
  <2>4. CASE PathReturn
    BY <2>4 DEF PathReturn, PathInv, PathAuthorised
  <2>5. CASE UNCHANGED pathVars
    BY <2>5 DEF pathVars, PathInv, PathAuthorised, Walking, CurveAuthorised, Listed, Fits, Allows
  <2> QED
    BY <2>1, <2>2, <2>3, <2>4, <2>5 DEF PathNext
<1>3. PathInv => PathAuthorised
  BY DEF PathInv
<1> QED
  BY <1>1, <1>2, <1>3, PTL DEF PathSpec

-----------------------------------------------------------------------------
\* c stands in b from position i on.
Stands(b, i, c) == i + Len(c) <= Len(b) + 1 /\ \A j \in 1..Len(c) : b[i + j - 1] = c[j]

LEMMA StandsJoined ==
  ASSUME NEW b \in Seq(Nat), NEW c \in Seq(Nat), NEW d \in Seq(Nat), NEW i \in Nat \ {0}
  PROVE  Stands(b, i, c \o d) <=> Stands(b, i, c) /\ Stands(b, i + Len(c), d)
<1> DEFINE m == Len(c)
           n == Len(d)
           e == c \o d
<1>1. m \in Nat /\ n \in Nat /\ Len(b) \in Nat
  BY LenProperties
<1>2. Len(e) = m + n /\ \A j \in 1..(m + n) : e[j] = IF j <= m THEN c[j] ELSE d[j - m]
  BY ConcatProperties
<1> HIDE DEF m, n, e
<1>3. ASSUME Stands(b, i, e) PROVE Stands(b, i, c) /\ Stands(b, i + m, d)
  <2>1. i + (m + n) <= Len(b) + 1 /\ \A j \in 1..(m + n) : b[i + j - 1] = e[j]
    BY <1>2, <1>3 DEF Stands
  <2>2. ASSUME NEW j \in 1..m PROVE b[i + j - 1] = c[j]
    <3>1. j \in 1..(m + n) /\ j <= m
      BY <1>1
    <3> QED
      BY <1>2, <2>1, <3>1
  <2>3. ASSUME NEW j \in 1..n PROVE b[(i + m) + j - 1] = d[j]
    <3>1. m + j \in 1..(m + n) /\ ~(m + j <= m) /\ (m + j) - m = j /\ i + (m + j) - 1 = (i + m) + j - 1
      BY <1>1
    <3> QED
      BY <1>2, <2>1, <3>1
  <2>4. i + m <= Len(b) + 1 /\ (i + m) + n <= Len(b) + 1
    BY <1>1, <2>1
  <2> QED
    BY <2>2, <2>3, <2>4 DEF Stands, m, n
<1>4. ASSUME Stands(b, i, c), Stands(b, i + m, d) PROVE Stands(b, i, e)
  <2>1. (i + m) + n <= Len(b) + 1 /\ (\A j \in 1..m : b[i + j - 1] = c[j]) /\ (\A j \in 1..n : b[(i + m) + j - 1] = d[j])
    BY <1>4 DEF Stands, m, n
  <2>2. ASSUME NEW j \in 1..(m + n) PROVE b[i + j - 1] = e[j]
    <3>1. CASE j <= m
      <4>1. j \in 1..m
        BY <1>1, <3>1
      <4> QED
        BY <1>2, <2>1, <3>1, <4>1
    <3>2. CASE ~(j <= m)
      <4>1. j - m \in 1..n /\ (i + m) + (j - m) - 1 = i + j - 1
        BY <1>1, <3>2
      <4> QED
        BY <1>2, <2>1, <3>2, <4>1
    <3> QED
      BY <3>1, <3>2
  <2>3. i + (m + n) <= Len(b) + 1
    BY <1>1, <2>1
  <2> QED
    BY <1>2, <2>2, <2>3 DEF Stands
<1> QED
  BY <1>3, <1>4 DEF m, e

LEMMA StandsWhole ==
  ASSUME NEW b \in Seq(Nat), NEW c \in Seq(Nat)
  PROVE  b = c <=> Stands(b, 1, c) /\ Len(b) = Len(c)
<1>1. Len(b) \in Nat /\ Len(c) \in Nat
  BY LenProperties
<1>2. ASSUME b = c PROVE Stands(b, 1, c) /\ Len(b) = Len(c)
  BY <1>1, <1>2 DEF Stands
<1>3. ASSUME Stands(b, 1, c), Len(b) = Len(c) PROVE b = c
  <2>1. \A j \in 1..Len(b) : b[j] = c[j]
    <3>1. ASSUME NEW j \in 1..Len(b) PROVE b[j] = c[j]
      <4>1. 1 + j - 1 = j /\ j \in 1..Len(c)
        BY <1>1, <1>3
      <4>2. b[1 + j - 1] = c[j]
        BY <1>3, <4>1 DEF Stands
      <4> QED
        BY <4>1, <4>2
    <3> QED
      BY <3>1
  <2> QED
    BY <1>3, <2>1, SeqEqual
<1> QED
  BY <1>2, <1>3

LEMMA StandsOne ==
  ASSUME NEW b \in Seq(Nat), NEW i \in Nat \ {0}, NEW x \in Nat
  PROVE  Stands(b, i, <<x>>) <=> i <= Len(b) /\ b[i] = x
<1>1. Len(<<x>>) = 1 /\ <<x>>[1] = x /\ Len(b) \in Nat /\ i + 1 - 1 = i
  BY LenProperties
<1>2. \A j \in 1..1 : j = 1
  OBVIOUS
<1>3. 1 \in 1..1
  OBVIOUS
<1>4. Stands(b, i, <<x>>) <=> i + 1 <= Len(b) + 1 /\ b[i + 1 - 1] = x
  BY <1>1, <1>2, <1>3 DEF Stands
<1> QED
  BY <1>1, <1>4

LEMMA StandsTwo ==
  ASSUME NEW b \in Seq(Nat), NEW i \in Nat \ {0}, NEW x \in Nat, NEW y \in Nat
  PROVE  Stands(b, i, <<x, y>>) <=> i + 1 <= Len(b) /\ b[i] = x /\ b[i + 1] = y
<1>1. Len(<<x, y>>) = 2 /\ <<x, y>>[1] = x /\ <<x, y>>[2] = y /\ Len(b) \in Nat /\ i + 1 - 1 = i /\ i + 2 - 1 = i + 1
  BY LenProperties
<1>2. \A j \in 1..2 : j = 1 \/ j = 2
  OBVIOUS
<1>3. 1 \in 1..2 /\ 2 \in 1..2
  OBVIOUS
<1>4. Stands(b, i, <<x, y>>) <=> i + 2 <= Len(b) + 1 /\ b[i + 1 - 1] = x /\ b[i + 2 - 1] = y
  BY <1>1, <1>2, <1>3 DEF Stands
<1> QED
  BY <1>1, <1>4

LEMMA StandsAfter ==
  ASSUME NEW b \in Seq(Nat), NEW i \in Nat \ {0}, NEW x \in Nat, NEW c \in Seq(Nat)
  PROVE  Stands(b, i, <<x>> \o c) <=> i <= Len(b) /\ b[i] = x /\ Stands(b, i + 1, c)
<1> DEFINE o == <<x>>
<1>1. o \in Seq(Nat) /\ Len(o) = 1
  OBVIOUS
<1>2. Stands(b, i, o) <=> i <= Len(b) /\ b[i] = x
  BY StandsOne
<1> HIDE DEF o
<1>3. Stands(b, i, o \o c) <=> Stands(b, i, o) /\ Stands(b, i + Len(o), c)
  BY <1>1, StandsJoined
<1>4. Stands(b, i, o \o c) <=> i <= Len(b) /\ b[i] = x /\ Stands(b, i + 1, c)
  BY <1>1, <1>2, <1>3
<1> QED
  BY <1>4 DEF o

LEMMA LengthShape ==
  ASSUME NEW v \in Nat
  PROVE  DerLength(v) \in Seq(Nat) /\ Len(DerLength(v)) = IF v < 128 THEN 1 ELSE 2
  BY DEF DerLength

\* A length that is read is one in the shortest form, and the other way round.
LEMMA LengthIsShortest ==
  ASSUME NEW b \in Seq(Nat), NEW i \in Nat \ {0}, asn1_read_len(b, i) # <<>>
  PROVE  LET l == asn1_read_len(b, i)
         IN  l[1] \in Nat /\ Stands(b, i, DerLength(l[1])) /\ l[2] = i + Len(DerLength(l[1]))
<1> DEFINE l == asn1_read_len(b, i)
<1>1. Len(b) \in Nat /\ i <= Len(b)
  BY LenProperties DEF asn1_read_len
<1>2. b[i] \in Nat
  BY <1>1, ElementOfSeq
<1>3. CASE b[i] < 128
  <2>1. l = <<b[i], i + 1>>
    BY <1>1, <1>3 DEF asn1_read_len
  <2>2. DerLength(b[i]) = <<b[i]>> /\ Len(<<b[i]>>) = 1
    BY <1>3 DEF DerLength
  <2>3. Stands(b, i, <<b[i]>>)
    BY <1>1, <1>2, StandsOne
  <2>4. l[1] = b[i] /\ l[2] = i + 1
    BY <2>1
  <2> HIDE DEF l
  <2>5. l[1] \in Nat /\ Stands(b, i, DerLength(l[1])) /\ l[2] = i + Len(DerLength(l[1]))
    BY <1>2, <2>2, <2>3, <2>4
  <2> QED
    BY <2>5 DEF l
<1>4. CASE ~(b[i] < 128)
  <2>1. b[i] = 129 /\ i + 1 <= Len(b)
    BY <1>1, <1>2, <1>4 DEF asn1_read_len
  <2>2. b[i + 1] \in Nat
    BY <1>1, <2>1, ElementOfSeq
  <2>3. l = <<b[i + 1], i + 2>> /\ ~(b[i + 1] < 128)
    BY <1>1, <1>4, <2>1 DEF asn1_read_len
  <2>4. DerLength(b[i + 1]) = <<129, b[i + 1]>> /\ Len(<<129, b[i + 1]>>) = 2
    BY <2>3 DEF DerLength
  <2>5. Stands(b, i, <<129, b[i + 1]>>)
    BY <2>1, <2>2, StandsTwo
  <2>6. l[1] = b[i + 1] /\ l[2] = i + 2
    BY <2>3
  <2> HIDE DEF l
  <2>7. l[1] \in Nat /\ Stands(b, i, DerLength(l[1])) /\ l[2] = i + Len(DerLength(l[1]))
    BY <2>2, <2>4, <2>5, <2>6
  <2> QED
    BY <2>7 DEF l
<1> QED
  BY <1>3, <1>4

LEMMA ShortestIsRead ==
  ASSUME NEW b \in Seq(Nat), NEW i \in Nat \ {0}, NEW v \in Nat, Stands(b, i, DerLength(v)),
         i + Len(DerLength(v)) + v <= Len(b) + 1
  PROVE  asn1_read_len(b, i) = <<v, i + Len(DerLength(v))>>
<1>1. Len(b) \in Nat
  BY LenProperties
<1>2. CASE v < 128
  <2>1. DerLength(v) = <<v>> /\ Len(<<v>>) = 1
    BY <1>2 DEF DerLength
  <2>2. i <= Len(b) /\ b[i] = v
    BY <2>1, StandsOne
  <2> QED
    BY <1>1, <1>2, <2>1, <2>2 DEF asn1_read_len
<1>3. CASE ~(v < 128)
  <2>1. DerLength(v) = <<129, v>> /\ Len(<<129, v>>) = 2
    BY <1>3 DEF DerLength
  <2>2. i + 1 <= Len(b) /\ b[i] = 129 /\ b[i + 1] = v
    BY <2>1, StandsTwo
  <2>3. i + 2 + v <= Len(b) + 1
    BY <2>1
  <2>4. ~(v > Len(b) - i - 1) /\ i <= Len(b)
    BY <1>1, <2>2, <2>3
  <2>5. ~(i > Len(b)) /\ ~(b[i] < 128) /\ ~(b[i] # 129 \/ i + 1 > Len(b)) /\ ~(b[i + 1] < 128 \/ b[i + 1] > Len(b) - i - 1)
    BY <1>1, <1>3, <2>2, <2>4
  <2>6. asn1_read_len(b, i) = <<b[i + 1], i + 2>>
    BY <2>5 DEF asn1_read_len
  <2> QED
    BY <2>1, <2>2, <2>6
<1> QED
  BY <1>2, <1>3

\* How many leading zeros the reader skips: none, or the one in front.
LEMMA ZerosNone ==
  ASSUME NEW b, NEW p \in Nat \ {0}, NEW len \in Nat, NEW past, Len(b) \in Nat,
         len = 0 \/ (p <= Len(b) /\ b[p] # 0)
  PROVE  LeadingZeros(b, p, len, past) = 0
<1> DEFINE Good(z) == /\ \A j \in 0..(z - 1) : p + j <= Len(b) /\ ByteAt(b, p + j, past) = 0
                      /\ z = len \/ p + z > Len(b) \/ ByteAt(b, p + z, past) # 0
<1>1. p + 0 = p /\ (p <= Len(b) => ByteAt(b, p, past) = b[p])
  BY DEF ByteAt
<1>2. 0 \in 0..len /\ Good(0)
  BY <1>1
<1>3. ASSUME NEW z \in 0..len, Good(z) PROVE z = 0
  <2>1. CASE len = 0
    BY <2>1
  <2>2. CASE len # 0 /\ z # 0
    <3>1. 0 \in 0..(z - 1)
      BY <2>2
    <3>2. ByteAt(b, p + 0, past) = 0
      BY <1>3, <3>1
    <3> QED
      BY <1>1, <2>2, <3>2
  <2> QED
    BY <2>1, <2>2
<1> HIDE DEF Good
<1>4. (CHOOSE z \in 0..len : Good(z)) = 0
  BY <1>2, <1>3
<1> QED
  BY <1>4 DEF LeadingZeros, Good

LEMMA ZerosOne ==
  ASSUME NEW b, NEW p \in Nat \ {0}, NEW len \in Nat \ {0}, NEW past, Len(b) \in Nat, p <= Len(b), b[p] = 0,
         len = 1 \/ (p + 1 <= Len(b) /\ b[p + 1] # 0)
  PROVE  LeadingZeros(b, p, len, past) = 1
<1> DEFINE Good(z) == /\ \A j \in 0..(z - 1) : p + j <= Len(b) /\ ByteAt(b, p + j, past) = 0
                      /\ z = len \/ p + z > Len(b) \/ ByteAt(b, p + z, past) # 0
<1>1. p + 0 = p /\ ByteAt(b, p, past) = 0 /\ (p + 1 <= Len(b) => ByteAt(b, p + 1, past) = b[p + 1])
  BY DEF ByteAt
<1>2. 1 \in 0..len /\ Good(1)
  <2>1. \A j \in 0..(1 - 1) : j = 0
    OBVIOUS
  <2> QED
    BY <1>1, <2>1
<1>3. ASSUME NEW z \in 0..len, Good(z) PROVE z = 1
  <2>1. z # 0
    <3>1. SUFFICES ASSUME z = 0 PROVE FALSE
      OBVIOUS
    <3>2. 0 = len \/ p + 0 > Len(b) \/ ByteAt(b, p + 0, past) # 0
      BY <1>3, <3>1
    <3> QED
      BY <1>1, <3>2
  <2>2. z <= 1
    <3>1. SUFFICES ASSUME z > 1 PROVE FALSE
      OBVIOUS
    <3>2. 1 \in 0..(z - 1) /\ len # 1
      BY <3>1
    <3>3. ByteAt(b, p + 1, past) = 0
      BY <1>3, <3>2
    <3> QED
      BY <1>1, <3>2, <3>3
  <2> QED
    BY <2>1, <2>2
<1> HIDE DEF Good
<1>4. (CHOOSE z \in 0..len : Good(z)) = 1
  BY <1>2, <1>3
<1> QED
  BY <1>4 DEF LeadingZeros, Good

LEMMA SameInterval ==
  ASSUME NEW m \in Nat, NEW k \in Nat, 1..m = 1..k
  PROVE  m = k
<1>1. m # 0 => m \in 1..m
  OBVIOUS
<1>2. k # 0 => k \in 1..k
  OBVIOUS
<1>3. (m # 0 => m \in 1..k) /\ (k # 0 => k \in 1..m)
  BY <1>1, <1>2
<1>4. (m # 0 => m <= k) /\ (k # 0 => k <= m)
  BY <1>3
<1> QED
  BY <1>4

\* The bytes from position q on, as the reader collects them.
LEMMA Collected ==
  ASSUME NEW b \in Seq(Nat), NEW q \in Nat \ {0}, NEW k \in Nat, NEW n \in Seq(Nat), NEW past, q + k <= Len(b) + 1
  PROVE  n = Bytes(b, q, k, past) <=> Len(n) = k /\ Stands(b, q, n)
<1> DEFINE f == Bytes(b, q, k, past)
           m == Len(n)
<1>1. Len(b) \in Nat /\ m \in Nat /\ DOMAIN n = 1..m /\ n = [j \in 1..m |-> n[j]]
  BY LenProperties
<1>2. ASSUME NEW j \in 1..k PROVE f[j] = b[q + j - 1]
  <2>1. q + j - 1 <= Len(b)
    BY <1>1
  <2> QED
    BY <2>1 DEF ByteAt, Bytes
<1>3. DOMAIN f = 1..k /\ f = [j \in 1..k |-> f[j]]
  BY DEF Bytes
<1> HIDE DEF f, m
<1>4. ASSUME n = f PROVE m = k /\ Stands(b, q, n)
  <2>1. 1..m = 1..k
    BY <1>1, <1>3, <1>4
  <2>2. m = k
    BY <1>1, <2>1, SameInterval
  <2>3. \A j \in 1..m : b[q + j - 1] = n[j]
    BY <1>2, <1>4, <2>2
  <2> QED
    BY <2>2, <2>3 DEF Stands, m
<1>5. ASSUME m = k, Stands(b, q, n) PROVE n = f
  <2>1. \A j \in 1..k : n[j] = f[j]
    BY <1>2, <1>5 DEF Stands, m
  <2> QED
    BY <1>1, <1>3, <1>5, <2>1
<1> QED
  BY <1>4, <1>5 DEF f, m

LEMMA ContentShape ==
  ASSUME NEW n \in Seq(Nat), Positive(n)
  PROVE  /\ Len(n) \in Nat \ {0} /\ n[1] \in Nat \ {0}
         /\ Content(n) \in Seq(Nat) /\ Len(Content(n)) = IF n[1] < 128 THEN Len(n) ELSE Len(n) + 1
<1>1. Len(n) \in Nat \ {0}
  BY EmptySeq DEF Positive
<1>2. n[1] \in Nat \ {0}
  BY <1>1, ElementOfSeq DEF Positive
<1>3. <<0>> \in Seq(Nat) /\ Len(<<0>>) = 1
  OBVIOUS
<1>4. <<0>> \o n \in Seq(Nat) /\ Len(<<0>> \o n) = 1 + Len(n)
  BY <1>3, ConcatProperties
<1>5. CASE n[1] < 128
  BY <1>1, <1>2, <1>5 DEF Content
<1>6. CASE ~(n[1] < 128)
  BY <1>1, <1>2, <1>4, <1>6 DEF Content
<1> QED
  BY <1>5, <1>6

\* The content of a positive number is read as that number ...
LEMMA ContentIsRead ==
  ASSUME NEW b \in Seq(Nat), NEW p \in Nat \ {0}, NEW n \in Seq(Nat), NEW past, Positive(n), Stands(b, p, Content(n))
  PROVE  IntegerAt(b, p, Len(Content(n)), past) = <<n, Len(n), p + Len(Content(n))>>
<1> DEFINE len == Len(Content(n))
           zeros == LeadingZeros(b, p, len, past)
           first == ByteAt(b, p, past)
           f == Bytes(b, p + zeros, len - zeros, past)
<1>1. Len(b) \in Nat /\ Len(n) \in Nat \ {0} /\ n[1] \in Nat \ {0} /\ Content(n) \in Seq(Nat)
  BY LenProperties, ContentShape
<1>2. CASE n[1] < 128
  <2>1. Content(n) = n /\ len = Len(n)
    BY <1>2 DEF Content
  <2>2. p + len <= Len(b) + 1 /\ b[p + 1 - 1] = n[1]
    BY <1>1, <2>1 DEF Stands
  <2>3. p <= Len(b) /\ b[p] = n[1] /\ first = b[p]
    BY <1>1, <2>1, <2>2 DEF ByteAt
  <2>4. zeros = 0
    BY <1>1, <2>1, <2>3, ZerosNone
  <2>5. n = Bytes(b, p, len, past)
    BY <1>1, <2>1, <2>2, Collected
  <2>6. f = n
    <3>1. len - zeros = len /\ p + zeros = p
      BY <1>1, <2>1, <2>4
    <3> QED
      BY <2>5, <3>1
  <2>7. ~(first >= 128 \/ (first = 0 /\ len >= 2 /\ ByteAt(b, p + 1, past) < 128))
    BY <1>1, <1>2, <2>3
  <2>8. IntegerAt(b, p, len, past) = <<f, len - zeros, p + len>>
    BY <2>7 DEF IntegerAt
  <2>9. len - zeros = Len(n)
    BY <1>1, <2>1, <2>4
  <2> HIDE DEF f, len, zeros
  <2> QED
    BY <2>6, <2>8, <2>9 DEF len
<1>3. CASE ~(n[1] < 128)
  <2>1. Content(n) = <<0>> \o n /\ len = Len(n) + 1 /\ <<0>> \in Seq(Nat) /\ Len(<<0>>) = 1
    BY <1>3, ContentShape DEF Content
  <2>2. Stands(b, p, <<0>>) /\ Stands(b, p + 1, n)
    BY <2>1, StandsJoined
  <2>3. p <= Len(b) /\ b[p] = 0
    BY <2>2, StandsOne
  <2>4. (p + 1) + Len(n) <= Len(b) + 1 /\ b[(p + 1) + 1 - 1] = n[1]
    BY <1>1, <2>2 DEF Stands
  <2>5. p + 1 <= Len(b) /\ b[p + 1] = n[1] /\ first = 0 /\ ByteAt(b, p + 1, past) = n[1]
    BY <1>1, <2>3, <2>4 DEF ByteAt
  <2>6. zeros = 1
    BY <1>1, <2>1, <2>3, <2>5, ZerosOne
  <2>7. n = Bytes(b, p + 1, Len(n), past)
    BY <1>1, <2>2, <2>4, Collected
  <2>8. f = n
    <3>1. len - zeros = Len(n) /\ p + zeros = p + 1
      BY <1>1, <2>1, <2>6
    <3> QED
      BY <2>7, <3>1
  <2>9. ~(first >= 128 \/ (first = 0 /\ len >= 2 /\ ByteAt(b, p + 1, past) < 128))
    BY <1>1, <1>3, <2>5
  <2>10. IntegerAt(b, p, len, past) = <<f, len - zeros, p + len>>
    BY <2>9 DEF IntegerAt
  <2>11. len - zeros = Len(n)
    BY <1>1, <2>1, <2>6
  <2> HIDE DEF f, len, zeros
  <2> QED
    BY <2>8, <2>10, <2>11 DEF len
<1> QED
  BY <1>2, <1>3

\* ... and a positive number that is read within the input is its content.
LEMMA ReadIsContent ==
  ASSUME NEW b \in Seq(Nat), NEW p \in Nat \ {0}, NEW len \in Nat, NEW past, NEW n \in Seq(Nat), Positive(n),
         IntegerAt(b, p, len, past) # <<>>, IntegerAt(b, p, len, past)[1] = n, IntegerAt(b, p, len, past)[3] <= Len(b) + 1
  PROVE  /\ len = Len(Content(n)) /\ Stands(b, p, Content(n))
         /\ IntegerAt(b, p, len, past)[2] = Len(n) /\ IntegerAt(b, p, len, past)[3] = p + len
<1> DEFINE zeros == LeadingZeros(b, p, len, past)
           first == ByteAt(b, p, past)
           f == Bytes(b, p + zeros, len - zeros, past)
<1>1. Len(b) \in Nat /\ Len(n) \in Nat \ {0} /\ n[1] \in Nat \ {0} /\ Content(n) \in Seq(Nat)
  BY LenProperties, ContentShape
<1>2. ~(first >= 128 \/ (first = 0 /\ len >= 2 /\ ByteAt(b, p + 1, past) < 128))
  BY DEF IntegerAt
<1>3. IntegerAt(b, p, len, past) = <<f, len - zeros, p + len>>
  BY <1>2 DEF IntegerAt
<1>4. n = f /\ p + len <= Len(b) + 1 /\ IntegerAt(b, p, len, past)[2] = len - zeros /\ IntegerAt(b, p, len, past)[3] = p + len
  <2> HIDE DEF f, zeros
  <2> QED
    BY <1>3
<1>5. CASE len = 0
  <2>1. zeros = 0
    BY <1>1, <1>5, ZerosNone
  <2>2. n = Bytes(b, p, 0, past)
    <3>1. len - zeros = 0 /\ p + zeros = p
      BY <1>5, <2>1
    <3> QED
      BY <1>4, <3>1
  <2>3. Len(n) = 0
    BY <1>4, <1>5, <2>2, Collected
  <2> QED
    BY <1>1, <2>3
<1>6. CASE len # 0 /\ b[p] # 0
  <2>1. p <= Len(b) /\ first = b[p]
    BY <1>1, <1>4, <1>6 DEF ByteAt
  <2>2. zeros = 0
    BY <1>1, <1>6, <2>1, ZerosNone
  <2>3. n = Bytes(b, p, len, past)
    <3>1. len - zeros = len /\ p + zeros = p
      BY <2>2
    <3> QED
      BY <1>4, <3>1
  <2>4. Len(n) = len /\ Stands(b, p, n)
    BY <1>4, <2>3, Collected
  <2>5. b[p + 1 - 1] = n[1] /\ p + 1 - 1 = p
    BY <1>1, <2>4 DEF Stands
  <2>6. b[p] \in Nat
    BY <1>1, <2>1, ElementOfSeq
  <2>7. n[1] < 128
    BY <1>2, <2>1, <2>5, <2>6
  <2>8. Content(n) = n
    BY <2>7 DEF Content
  <2> QED
    BY <1>4, <2>2, <2>4, <2>8
<1>7. CASE len = 1 /\ b[p] = 0
  <2>1. p <= Len(b)
    BY <1>1, <1>4, <1>7
  <2>2. zeros = 1
    BY <1>1, <1>7, <2>1, ZerosOne
  <2>3. n = Bytes(b, p + 1, 0, past)
    <3>1. len - zeros = 0 /\ p + zeros = p + 1
      BY <1>7, <2>2
    <3> QED
      BY <1>4, <3>1
  <2>4. Len(n) = 0
    <3>1. p + 1 \in Nat \ {0} /\ (p + 1) + 0 <= Len(b) + 1
      BY <1>1, <2>1
    <3> QED
      BY <2>3, <3>1, Collected
  <2> QED
    BY <1>1, <2>4
<1>8. CASE len >= 2 /\ b[p] = 0
  <2>1. p <= Len(b) /\ p + 1 <= Len(b) /\ first = 0 /\ ByteAt(b, p + 1, past) = b[p + 1]
    BY <1>1, <1>4, <1>8 DEF ByteAt
  <2>2. b[p + 1] \in Nat /\ b[p + 1] >= 128
    <3>1. b[p + 1] \in Nat
      BY <1>1, <2>1, ElementOfSeq
    <3> QED
      BY <1>2, <1>8, <2>1, <3>1
  <2>3. zeros = 1
    BY <1>1, <1>8, <2>1, <2>2, ZerosOne
  <2>4. n = Bytes(b, p + 1, len - 1, past)
    <3>1. len - zeros = len - 1 /\ p + zeros = p + 1
      BY <2>3
    <3> QED
      BY <1>4, <3>1
  <2>5. Len(n) = len - 1 /\ Stands(b, p + 1, n)
    <3>1. p + 1 \in Nat \ {0} /\ len - 1 \in Nat /\ (p + 1) + (len - 1) <= Len(b) + 1
      BY <1>1, <1>4, <1>8
    <3> QED
      BY <2>4, <3>1, Collected
  <2>6. b[(p + 1) + 1 - 1] = n[1] /\ (p + 1) + 1 - 1 = p + 1
    BY <1>1, <2>5 DEF Stands
  <2>12. ~(n[1] < 128)
    BY <1>1, <2>2, <2>6
  <2>7. Content(n) = <<0>> \o n /\ <<0>> \in Seq(Nat) /\ Len(<<0>>) = 1
    BY <2>12 DEF Content
  <2>9. Stands(b, p, Content(n))
    <3>2. Stands(b, p, <<0>> \o n)
      BY <1>8, <2>1, <2>5, StandsAfter
    <3> QED
      BY <2>7, <3>2
  <2>10. Len(Content(n)) = len
    <3>1. ~(n[1] < 128)
      BY <1>1, <2>2, <2>6
    <3>2. Len(Content(n)) = Len(n) + 1
      BY <3>1, ContentShape
    <3> QED
      BY <1>1, <1>8, <2>5, <3>2
  <2>11. len - zeros = Len(n)
    BY <2>3, <2>5
  <2> HIDE DEF f, zeros
  <2> QED
    BY <1>4, <2>9, <2>10, <2>11
<1>9. len = 0 \/ (len # 0 /\ b[p] # 0) \/ (len = 1 /\ b[p] = 0) \/ (len >= 2 /\ b[p] = 0)
  OBVIOUS
<1> QED
  BY <1>5, <1>6, <1>7, <1>8, <1>9

\* What is tagged x and has the bytes c and then d.
LEMMA StandsTagged ==
  ASSUME NEW b \in Seq(Nat), NEW i \in Nat \ {0}, NEW x \in Nat, NEW c \in Seq(Nat), NEW d \in Seq(Nat)
  PROVE  /\ <<x>> \o c \o d \in Seq(Nat) /\ Len(<<x>> \o c \o d) = 1 + Len(c) + Len(d)
         /\ Stands(b, i, <<x>> \o c \o d) <=>
              i <= Len(b) /\ b[i] = x /\ Stands(b, i + 1, c) /\ Stands(b, i + 1 + Len(c), d)
<1> DEFINE o == <<x>>
           e == o \o c
<1>1. o \in Seq(Nat) /\ Len(o) = 1
  OBVIOUS
<1>2. Stands(b, i, e) <=> i <= Len(b) /\ b[i] = x /\ Stands(b, i + 1, c)
  BY StandsAfter
<1> HIDE DEF o
<1>3. e \in Seq(Nat) /\ Len(e) = 1 + Len(c)
  BY <1>1, ConcatProperties
<1> HIDE DEF e
<1>4. Stands(b, i, e \o d) <=> Stands(b, i, e) /\ Stands(b, i + Len(e), d)
  BY <1>3, StandsJoined
<1>5. e \o d \in Seq(Nat) /\ Len(e \o d) = Len(e) + Len(d)
  BY <1>3, ConcatProperties
<1>6. Len(c) \in Nat /\ i + (1 + Len(c)) = i + 1 + Len(c)
  BY LenProperties
<1>7. Stands(b, i + Len(e), d) <=> Stands(b, i + 1 + Len(c), d)
  BY <1>3, <1>6
<1>8. Stands(b, i, e \o d) <=> i <= Len(b) /\ b[i] = x /\ Stands(b, i + 1, c) /\ Stands(b, i + 1 + Len(c), d)
  BY <1>2, <1>4, <1>7
<1>9. Len(e \o d) = 1 + Len(c) + Len(d)
  BY <1>3, <1>5
<1> QED
  BY <1>5, <1>8, <1>9 DEF e, o

LEMMA IntegerShape ==
  ASSUME NEW b \in Seq(Nat), NEW i \in Nat \ {0}, NEW n \in Seq(Nat), Positive(n)
  PROVE  LET k == Len(Content(n))
             l == Len(DerLength(k))
         IN  /\ k \in Nat /\ l \in Nat
             /\ DerInteger(n) \in Seq(Nat) /\ Len(DerInteger(n)) = 1 + l + k
             /\ Stands(b, i, DerInteger(n)) <=>
                  i <= Len(b) /\ b[i] = 2 /\ Stands(b, i + 1, DerLength(k)) /\ Stands(b, i + 1 + l, Content(n))
<1> DEFINE c == Content(n)
           k == Len(c)
           d == DerLength(k)
<1>1. c \in Seq(Nat)
  BY ContentShape
<1> HIDE DEF c
<1>2. k \in Nat
  BY <1>1, LenProperties
<1> HIDE DEF k
<1>3. d \in Seq(Nat)
  BY <1>2, LengthShape
<1> HIDE DEF d
<1>4. Len(d) \in Nat
  BY <1>3, LenProperties
<1>5. /\ <<2>> \o d \o c \in Seq(Nat) /\ Len(<<2>> \o d \o c) = 1 + Len(d) + Len(c)
      /\ Stands(b, i, <<2>> \o d \o c) <=> i <= Len(b) /\ b[i] = 2 /\ Stands(b, i + 1, d) /\ Stands(b, i + 1 + Len(d), c)
  BY <1>1, <1>3, StandsTagged
<1>6. DerInteger(n) = <<2>> \o d \o c
  BY DEF DerInteger, d, k, c
<1>7. DerInteger(n) \in Seq(Nat) /\ Len(DerInteger(n)) = 1 + Len(d) + Len(c)
  BY <1>5, <1>6
<1>8. Stands(b, i, DerInteger(n)) <=> i <= Len(b) /\ b[i] = 2 /\ Stands(b, i + 1, d) /\ Stands(b, i + 1 + Len(d), c)
  BY <1>5, <1>6
<1> QED
  BY <1>2, <1>4, <1>7, <1>8 DEF d, k, c

\* A positive number in DER is read as that number ...
LEMMA IntegerIsRead ==
  ASSUME NEW b \in Seq(Nat), NEW i \in Nat \ {0}, NEW n \in Seq(Nat), NEW past, Positive(n), Stands(b, i, DerInteger(n))
  PROVE  asn1_parse_integer(b, i, past) = <<n, Len(n), i + Len(DerInteger(n))>>
<1> DEFINE c == Content(n)
           k == Len(c)
           d == DerLength(k)
           l == Len(d)
           tag == asn1_read_tag(b, i, 2)
<1>1. /\ k \in Nat /\ l \in Nat /\ Len(DerInteger(n)) = 1 + l + k
      /\ i <= Len(b) /\ b[i] = 2 /\ Stands(b, i + 1, d) /\ Stands(b, i + 1 + l, c)
  BY IntegerShape
<1>2. IntegerAt(b, i + 1 + l, k, past) = <<n, Len(n), i + 1 + l + k>>
  BY <1>1, ContentIsRead
<1>3. i + 1 + l + k <= Len(b) + 1
  BY <1>1 DEF Stands
<1>4. asn1_read_len(b, i + 1) = <<k, i + 1 + l>>
  BY <1>1, <1>3, ShortestIsRead
<1>5. Len(b) \in Nat
  BY LenProperties
<1> HIDE DEF c, k, l, d
<1>6. tag = <<k, i + 1 + l>>
  BY <1>1, <1>4, <1>5 DEF asn1_read_tag
<1> HIDE DEF tag
<1>7. tag # <<>> /\ tag[1] = k /\ tag[2] = i + 1 + l
  BY <1>6
<1>8. asn1_parse_integer(b, i, past) = IntegerAt(b, tag[2], tag[1], past)
  BY <1>7 DEF asn1_parse_integer, tag
<1>9. asn1_parse_integer(b, i, past) = IntegerAt(b, i + 1 + l, k, past)
  BY <1>7, <1>8
<1>10. i + Len(DerInteger(n)) = i + 1 + l + k
  BY <1>1
<1> QED
  BY <1>2, <1>9, <1>10

LEMMA TagRead ==
  ASSUME NEW b \in Seq(Nat), NEW i \in Nat \ {0}, NEW x \in Nat, asn1_read_tag(b, i, x) # <<>>
  PROVE  LET t == asn1_read_tag(b, i, x)
         IN  /\ i <= Len(b) /\ b[i] = x /\ t[1] \in Nat /\ Stands(b, i + 1, DerLength(t[1]))
             /\ t[2] = i + 1 + Len(DerLength(t[1])) /\ t[2] \in Nat \ {0}
<1> DEFINE t == asn1_read_tag(b, i, x)
<1>1. Len(b) \in Nat
  BY LenProperties
<1>2. i <= Len(b) /\ b[i] = x /\ t = asn1_read_len(b, i + 1)
  BY <1>1 DEF asn1_read_tag
<1>3. asn1_read_len(b, i + 1) # <<>>
  BY <1>2
<1>4. t[1] \in Nat /\ Stands(b, i + 1, DerLength(t[1])) /\ t[2] = i + 1 + Len(DerLength(t[1]))
  <2> DEFINE q == i + 1
             l == asn1_read_len(b, q)
  <2>1. q \in Nat \ {0} /\ l # <<>> /\ t = l
    BY <1>2, <1>3
  <2> HIDE DEF q, t
  <2>2. l[1] \in Nat /\ Stands(b, q, DerLength(l[1])) /\ l[2] = q + Len(DerLength(l[1]))
    BY <2>1, LengthIsShortest
  <2> HIDE DEF l
  <2>3. t[1] \in Nat /\ Stands(b, q, DerLength(t[1])) /\ t[2] = q + Len(DerLength(t[1]))
    BY <2>1, <2>2
  <2> QED
    BY <2>3 DEF q
<1>5. DerLength(t[1]) \in Seq(Nat)
  BY <1>4, LengthShape
<1> HIDE DEF t
<1>6. Len(DerLength(t[1])) \in Nat
  BY <1>5, LenProperties
<1>7. t[2] \in Nat \ {0}
  BY <1>4, <1>6
<1> QED
  BY <1>2, <1>4, <1>7 DEF t

LEMMA ReadGoesOn ==
  ASSUME NEW b \in Seq(Nat), NEW i \in Nat \ {0}, NEW past, asn1_parse_integer(b, i, past) # <<>>
  PROVE  LET t == asn1_read_tag(b, i, 2)
         IN  /\ t # <<>> /\ asn1_parse_integer(b, i, past) = IntegerAt(b, t[2], t[1], past)
             /\ asn1_parse_integer(b, i, past)[3] = t[2] + t[1]
<1> DEFINE t == asn1_read_tag(b, i, 2)
<1>1. t # <<>> /\ asn1_parse_integer(b, i, past) = IntegerAt(b, t[2], t[1], past)
  BY DEF asn1_parse_integer
<1> HIDE DEF t
<1>2. IntegerAt(b, t[2], t[1], past) # <<>>
  BY <1>1
<1>3. IntegerAt(b, t[2], t[1], past)[3] = t[2] + t[1]
  <2> DEFINE p == t[2]
             len == t[1]
  <2>1. IntegerAt(b, p, len, past) # <<>>
    BY <1>2
  <2> HIDE DEF p, len
  <2> DEFINE z == LeadingZeros(b, p, len, past)
             f == Bytes(b, p + z, len - z, past)
  <2>2. IntegerAt(b, p, len, past) = <<f, len - z, p + len>>
    BY <2>1 DEF IntegerAt
  <2> HIDE DEF f, z
  <2>3. IntegerAt(b, p, len, past)[3] = p + len
    BY <2>2
  <2> QED
    BY <2>3 DEF p, len
<1> QED
  BY <1>1, <1>3 DEF t

\* ... and a number that is read within the input is there in DER.
LEMMA ReadIsInteger ==
  ASSUME NEW b \in Seq(Nat), NEW i \in Nat \ {0}, NEW n \in Seq(Nat), NEW past, Positive(n),
         asn1_parse_integer(b, i, past) # <<>>, asn1_parse_integer(b, i, past)[1] = n,
         asn1_parse_integer(b, i, past)[3] <= Len(b) + 1
  PROVE  /\ Stands(b, i, DerInteger(n)) /\ asn1_parse_integer(b, i, past)[2] = Len(n)
         /\ asn1_parse_integer(b, i, past)[3] = i + Len(DerInteger(n))
<1> DEFINE t == asn1_read_tag(b, i, 2)
           v == t[1]
           p == t[2]
           a == asn1_parse_integer(b, i, past)
           c == Content(n)
           k == Len(c)
<1>1. t # <<>> /\ a = IntegerAt(b, p, v, past)
  BY ReadGoesOn
<1>2. /\ i <= Len(b) /\ b[i] = 2 /\ v \in Nat /\ Stands(b, i + 1, DerLength(v))
      /\ p = i + 1 + Len(DerLength(v)) /\ p \in Nat \ {0}
  BY <1>1, TagRead
<1>3. a # <<>> /\ a[1] = n /\ a[3] <= Len(b) + 1
  OBVIOUS
<1> HIDE DEF t, v, p, a
<1>4. IntegerAt(b, p, v, past) # <<>> /\ IntegerAt(b, p, v, past)[1] = n /\ IntegerAt(b, p, v, past)[3] <= Len(b) + 1
  BY <1>1, <1>3
<1>5. /\ v = k /\ Stands(b, p, c)
      /\ IntegerAt(b, p, v, past)[2] = Len(n) /\ IntegerAt(b, p, v, past)[3] = p + v
  <2>1. v \in Nat /\ p \in Nat \ {0}
    BY <1>2
  <2> QED
    BY <2>1, <1>4, ReadIsContent
<1>6. Stands(b, i + 1, DerLength(k)) /\ Stands(b, i + 1 + Len(DerLength(k)), c)
  BY <1>2, <1>5
<1>7. Stands(b, i, DerInteger(n))
  BY <1>2, <1>6, IntegerShape
<1>8. Len(DerInteger(n)) = 1 + Len(DerLength(k)) + k /\ k \in Nat /\ Len(DerLength(k)) \in Nat
  BY IntegerShape
<1> HIDE DEF c, k
<1>9. a[2] = Len(n) /\ a[3] = p + k /\ p = i + 1 + Len(DerLength(k))
  BY <1>1, <1>2, <1>5
<1>10. a[3] = i + Len(DerInteger(n))
  BY <1>8, <1>9
<1> QED
  BY <1>7, <1>9, <1>10 DEF a

LEMMA SignatureShape ==
  ASSUME NEW b \in Seq(Nat), NEW r \in Seq(Nat), NEW s \in Seq(Nat), Positive(r), Positive(s)
  PROVE  LET v == Len(DerInteger(r)) + Len(DerInteger(s))
             h == 2 + Len(DerLength(v))
         IN  /\ v \in Nat /\ h \in Nat /\ Len(DerInteger(r)) \in Nat /\ Len(DerInteger(s)) \in Nat
             /\ DerSignature(r, s) \in Seq(Nat) /\ Len(DerSignature(r, s)) + 1 = h + v
             /\ Stands(b, 1, DerSignature(r, s)) <=>
                  /\ 1 <= Len(b) /\ b[1] = 48 /\ Stands(b, 2, DerLength(v))
                  /\ Stands(b, h, DerInteger(r)) /\ Stands(b, h + Len(DerInteger(r)), DerInteger(s))
<1> DEFINE c == DerInteger(r)
           d == DerInteger(s)
           e == c \o d
           v == Len(c) + Len(d)
           l == DerLength(v)
           h == 2 + Len(l)
<1>1. c \in Seq(Nat) /\ d \in Seq(Nat)
  BY IntegerShape
<1> HIDE DEF c, d
<1>2. Len(c) \in Nat /\ Len(d) \in Nat /\ e \in Seq(Nat) /\ Len(e) = v
  BY <1>1, LenProperties, ConcatProperties
<1>3. v \in Nat
  BY <1>2
<1> HIDE DEF v
<1>4. l \in Seq(Nat)
  BY <1>3, LengthShape
<1> HIDE DEF l
<1>5. Len(l) \in Nat
  BY <1>4, LenProperties
<1>6. h \in Nat \ {0} /\ h = 1 + 1 + Len(l)
  BY <1>5
<1>7. Stands(b, h, e) <=> Stands(b, h, c) /\ Stands(b, h + Len(c), d)
  BY <1>1, <1>6, StandsJoined
<1> HIDE DEF e
<1>8. /\ <<48>> \o l \o e \in Seq(Nat) /\ Len(<<48>> \o l \o e) = 1 + Len(l) + Len(e)
      /\ Stands(b, 1, <<48>> \o l \o e) <=> 1 <= Len(b) /\ b[1] = 48 /\ Stands(b, 1 + 1, l) /\ Stands(b, 1 + 1 + Len(l), e)
  <2> DEFINE one == 1
             x == 48
  <2>1. one \in Nat \ {0} /\ x \in Nat
    OBVIOUS
  <2> HIDE DEF one, x
  <2>2. /\ <<x>> \o l \o e \in Seq(Nat) /\ Len(<<x>> \o l \o e) = 1 + Len(l) + Len(e)
        /\ Stands(b, one, <<x>> \o l \o e) <=>
             one <= Len(b) /\ b[one] = x /\ Stands(b, one + 1, l) /\ Stands(b, one + 1 + Len(l), e)
    BY <1>2, <1>4, <2>1, StandsTagged
  <2> QED
    BY <2>2 DEF one, x
<1>9. DerSignature(r, s) = <<48>> \o l \o e
  <2>1. DerSignature(r, s) = <<48>> \o DerLength(Len(e)) \o e
    BY DEF DerSignature, e, c, d
  <2> QED
    BY <1>2, <2>1 DEF l
<1>10. DerSignature(r, s) \in Seq(Nat) /\ Len(DerSignature(r, s)) = 1 + Len(l) + Len(e)
  BY <1>8, <1>9
<1>11. Len(DerSignature(r, s)) + 1 = h + v
  BY <1>2, <1>3, <1>5, <1>10
<1>12. Stands(b, 1, DerSignature(r, s)) <=> 1 <= Len(b) /\ b[1] = 48 /\ Stands(b, 1 + 1, l) /\ Stands(b, h, e)
  BY <1>6, <1>8, <1>9
<1> HIDE DEF h
<1>13. Stands(b, 1, DerSignature(r, s)) <=> /\ 1 <= Len(b) /\ b[1] = 48 /\ Stands(b, 2, l)
                                            /\ Stands(b, h, c) /\ Stands(b, h + Len(c), d)
  BY <1>7, <1>12
<1> QED
  BY <1>2, <1>3, <1>6, <1>10, <1>11, <1>13 DEF h, l, v, c, d

\* The DER encoding of two positive numbers is read as these ...
LEMMA SignatureIsRead ==
  ASSUME NEW r \in Seq(Nat), NEW s \in Seq(Nat), NEW max \in Nat, NEW past, Positive(r), Positive(s),
         Len(r) <= max, Len(s) <= max, NEW b, b = DerSignature(r, s)
  PROVE  spec_cx_ecfp_decode_sig_der(b, max, past) = <<r, s>>
<1> DEFINE m == Len(DerInteger(r))
           n == Len(DerInteger(s))
           v == m + n
           k == Len(DerLength(v))
           h == 2 + k
           head == asn1_read_tag(b, 1, 48)
           R == asn1_parse_integer(b, head[2], past)
           S == asn1_parse_integer(b, R[3], past)
<1>1. b \in Seq(Nat)
  BY SignatureShape
<1>2. Stands(b, 1, DerSignature(r, s)) /\ Len(b) \in Nat
  BY <1>1, StandsWhole, LenProperties
<1>3. /\ v \in Nat /\ h \in Nat /\ m \in Nat /\ n \in Nat /\ Len(b) + 1 = h + v
      /\ 1 <= Len(b) /\ b[1] = 48 /\ Stands(b, 2, DerLength(v))
      /\ Stands(b, h, DerInteger(r)) /\ Stands(b, h + m, DerInteger(s))
  BY <1>1, <1>2, SignatureShape
<1>4. Len(DerLength(v)) \in Nat
  BY <1>3, LengthShape, LenProperties
<1> HIDE DEF m, n, v
<1>5. k \in Nat /\ 2 + k + v <= Len(b) + 1 /\ h \in Nat \ {0} /\ h + m \in Nat \ {0}
  BY <1>3, <1>4
<1> HIDE DEF h, k
<1>6. asn1_read_len(b, 2) = <<v, 2 + Len(DerLength(v))>>
  BY <1>1, <1>3, <1>5, ShortestIsRead DEF k
<1>7. head = <<v, h>>
  BY <1>2, <1>3, <1>6 DEF asn1_read_tag, h, k
<1> HIDE DEF head
<1>8. head # <<>> /\ head[1] = v /\ head[2] = h
  BY <1>7
<1>9. asn1_parse_integer(b, h, past) = <<r, Len(r), h + m>>
  BY <1>1, <1>3, <1>5, IntegerIsRead DEF m
<1>10. R = <<r, Len(r), h + m>>
  BY <1>8, <1>9
<1> HIDE DEF R
<1>11. R # <<>> /\ R[1] = r /\ R[2] = Len(r) /\ R[3] = h + m
  BY <1>10
<1>12. asn1_parse_integer(b, h + m, past) = <<s, Len(s), h + m + n>>
  BY <1>1, <1>3, <1>5, IntegerIsRead DEF n
<1>13. S = <<s, Len(s), h + m + n>>
  BY <1>11, <1>12
<1> HIDE DEF S
<1>14. S # <<>> /\ S[1] = s /\ S[2] = Len(s) /\ S[3] = h + m + n
  BY <1>13
<1>15. h + m + n = Len(b) + 1 /\ v + h = Len(b) + 1 /\ ~(Len(r) > max) /\ ~(Len(s) > max)
  <2>1. Len(r) \in Nat /\ Len(s) \in Nat /\ v = m + n
    BY LenProperties DEF v
  <2> QED
    BY <1>3, <2>1
<1>16. head[1] + head[2] = Len(b) + 1 /\ S[3] = Len(b) + 1 /\ ~(R[2] > max) /\ ~(S[2] > max)
  BY <1>8, <1>11, <1>14, <1>15
<1>17. spec_cx_ecfp_decode_sig_der(b, max, past) = <<R[1], S[1]>>
  BY <1>8, <1>11, <1>14, <1>16 DEF spec_cx_ecfp_decode_sig_der, head, R, S
<1> QED
  BY <1>11, <1>14, <1>17

\* ... and nothing else is.
LEMMA ReadIsSignature ==
  ASSUME NEW b \in Seq(Nat), NEW r \in Seq(Nat), NEW s \in Seq(Nat), NEW max \in Nat, NEW past, Positive(r), Positive(s),
         spec_cx_ecfp_decode_sig_der(b, max, past) = <<r, s>>
  PROVE  b = DerSignature(r, s) /\ Len(r) <= max /\ Len(s) <= max
<1> DEFINE head == asn1_read_tag(b, 1, 48)
           R == asn1_parse_integer(b, head[2], past)
           S == asn1_parse_integer(b, R[3], past)
           m == Len(DerInteger(r))
           n == Len(DerInteger(s))
           h == head[2]
           v == head[1]
<1>1. /\ head # <<>> /\ R # <<>> /\ S # <<>>
      /\ head[1] + head[2] = Len(b) + 1 /\ S[3] = Len(b) + 1 /\ ~(R[2] > max) /\ ~(S[2] > max)
      /\ <<R[1], S[1]>> = <<r, s>>
  <2>1. <<>> # <<r, s>>
    OBVIOUS
  <2> DEFINE D == spec_cx_ecfp_decode_sig_der(b, max, past)
  <2>2. D = IF head = <<>> THEN <<>>
            ELSE IF head[1] + head[2] # Len(b) + 1 THEN <<>>
            ELSE IF R = <<>> THEN <<>>
            ELSE IF S = <<>> THEN <<>>
            ELSE IF S[3] # Len(b) + 1 \/ R[2] > max \/ S[2] > max THEN <<>>
            ELSE <<R[1], S[1]>>
    BY DEF spec_cx_ecfp_decode_sig_der
  <2>3. D = <<r, s>>
    OBVIOUS
  <2> HIDE DEF D, S, R, head
  <2> QED
    BY <2>1, <2>2, <2>3
<1>2. R[1] = r /\ S[1] = s
  <2> HIDE DEF S, R, head
  <2> QED
    BY <1>1
<1>3. Len(b) \in Nat /\ Len(r) \in Nat /\ Len(s) \in Nat
  BY LenProperties
<1>4. /\ 1 <= Len(b) /\ b[1] = 48 /\ v \in Nat /\ Stands(b, 1 + 1, DerLength(v))
      /\ h = 1 + 1 + Len(DerLength(v)) /\ h \in Nat \ {0}
  <2>1. head # <<>>
    BY <1>1
  <2> QED
    BY <2>1, TagRead
<1>5. R # <<>> /\ S # <<>>
  BY <1>1
<1> HIDE DEF head, v, S
<1>6. R[3] \in Nat \ {0}
  <2> HIDE DEF h
  <2> DEFINE t == asn1_read_tag(b, h, 2)
             a == asn1_parse_integer(b, h, past)
  <2>1. a # <<>> /\ R = a
    BY <1>5 DEF h
  <2>2. t # <<>> /\ a[3] = t[2] + t[1]
    BY <1>4, <2>1, ReadGoesOn
  <2>3. t[1] \in Nat /\ t[2] \in Nat \ {0}
    BY <1>4, <2>2, TagRead
  <2> HIDE DEF t, a, R
  <2> QED
    BY <2>1, <2>2, <2>3
<1> HIDE DEF R
<1>7. R[3] <= Len(b)
  <2>1. asn1_parse_integer(b, R[3], past) # <<>>
    BY <1>5 DEF S
  <2>2. asn1_read_tag(b, R[3], 2) # <<>>
    BY <1>6, <2>1, ReadGoesOn
  <2> QED
    BY <1>6, <2>2, TagRead
<1>8. Stands(b, h, DerInteger(r)) /\ R[2] = Len(r) /\ R[3] = h + m
  <2> HIDE DEF h
  <2> DEFINE a == asn1_parse_integer(b, h, past)
  <2>1. a # <<>> /\ R = a
    BY <1>5 DEF h, R
  <2> HIDE DEF a
  <2>2. a[1] = r /\ a[3] <= Len(b) + 1
    BY <1>2, <1>3, <1>6, <1>7, <2>1
  <2>3. Stands(b, h, DerInteger(r)) /\ a[2] = Len(r) /\ a[3] = h + m
    BY <1>4, <2>1, <2>2, ReadIsInteger DEF a
  <2> QED
    BY <2>1, <2>3
<1>9. Stands(b, R[3], DerInteger(s)) /\ S[2] = Len(s) /\ S[3] = R[3] + n
  <2> DEFINE q == R[3]
             a == asn1_parse_integer(b, q, past)
  <2>1. a # <<>> /\ S = a /\ q \in Nat \ {0}
    BY <1>5, <1>6 DEF S
  <2> HIDE DEF a, q
  <2>2. a[1] = s /\ a[3] <= Len(b) + 1
    BY <1>1, <1>2, <1>3, <2>1
  <2>3. Stands(b, q, DerInteger(s)) /\ a[2] = Len(s) /\ a[3] = q + n
    BY <2>1, <2>2, ReadIsInteger DEF a
  <2>4. Stands(b, q, DerInteger(s)) /\ S[2] = Len(s) /\ S[3] = q + n
    BY <2>1, <2>3
  <2> QED
    BY <2>4 DEF q
<1>10. m \in Nat /\ n \in Nat
  BY SignatureShape
<1> HIDE DEF m, n, h
<1>11. v = m + n /\ Stands(b, h + m, DerInteger(s))
  <2>1. v + h = Len(b) + 1
    BY <1>1 DEF v, h
  <2>2. S[3] = Len(b) + 1
    BY <1>1
  <2>3. v = m + n
    BY <1>3, <1>4, <1>8, <1>9, <1>10, <2>1, <2>2
  <2> QED
    BY <1>8, <1>9, <2>3
<1>12. Stands(b, 1, DerSignature(r, s)) /\ Len(DerSignature(r, s)) = Len(b)
  <2> DEFINE w == m + n
             g == 2 + Len(DerLength(w))
  <2>1. h = g /\ v = w
    <3>1. v = w
      BY <1>11
    <3>2. Len(DerLength(v)) \in Nat
      BY <1>4, LengthShape, LenProperties
    <3>3. h = 2 + Len(DerLength(v))
      BY <1>4, <3>2
    <3> QED
      BY <3>1, <3>3
  <2>2. /\ Len(DerSignature(r, s)) + 1 = g + w /\ DerSignature(r, s) \in Seq(Nat)
        /\ Stands(b, 1, DerSignature(r, s)) <=>
             /\ 1 <= Len(b) /\ b[1] = 48 /\ Stands(b, 2, DerLength(w))
             /\ Stands(b, g, DerInteger(r)) /\ Stands(b, g + m, DerInteger(s))
    BY SignatureShape DEF m, n
  <2> HIDE DEF w, g
  <2>3. Len(DerSignature(r, s)) \in Nat
    BY <2>2, LenProperties
  <2>4. Stands(b, 2, DerLength(w)) /\ Stands(b, g, DerInteger(r)) /\ Stands(b, g + m, DerInteger(s))
    BY <1>4, <1>8, <1>11, <2>1
  <2>5. g + w = Len(b) + 1
    BY <1>1, <1>4, <2>1 DEF v, h
  <2>6. Len(DerSignature(r, s)) = Len(b)
    BY <1>3, <2>2, <2>3, <2>5
  <2> QED
    BY <1>4, <2>2, <2>4, <2>6
<1>13. b = DerSignature(r, s)
  <2>1. DerSignature(r, s) \in Seq(Nat)
    BY SignatureShape
  <2> QED
    BY <1>12, <2>1, StandsWhole
<1>14. Len(r) <= max /\ Len(s) <= max
  BY <1>1, <1>3, <1>8, <1>9
<1> QED
  BY <1>13, <1>14

LEMMA OctetsAreNaturals ==
  ASSUME NEW n \in Seq(Octet)
  PROVE  n \in Seq(Nat)
<1>1. Len(n) \in Nat /\ n \in [1..Len(n) -> Octet]
  BY LenProperties
<1>2. \A x \in Octet : x \in Nat
  BY DEF Octet
<1>3. n \in [1..Len(n) -> Nat]
  BY <1>1, <1>2
<1> QED
  BY <1>1, <1>3, IsASeq

LEMMA LeastIndex ==
  ASSUME NEW S, S \subseteq Nat, S # {}
  PROVE  \E i \in S : \A j \in S : i <= j
<1> DEFINE R == OpToRel(<, Nat)
<1>1. IsWellFoundedOn(R, Nat)
  BY NatLessThanWellFounded
<1>2. \A x, y \in Nat : x < y => <<x, y>> \in R
  BY DEF OpToRel
<1> HIDE DEF R
<1>3. PICK i \in S : \A j \in S : ~(<<j, i>> \in R)
  BY <1>1, WFMin
<1>4. \A j \in S : ~(j < i)
  BY <1>3, <1>2
<1> QED
  BY <1>4

\* A number without its leading zeros.
LEMMA StrippedShape ==
  ASSUME NEW n \in Seq(Nat), Stripped(n) # <<>>
  PROVE  Stripped(n) \in Seq(Nat) /\ Positive(Stripped(n))
<1> DEFINE L == Len(n)
           First(z) == n[z] # 0 /\ \A j \in 1..(z - 1) : n[j] = 0
           c == CHOOSE z \in 1..L : First(z)
<1>1. L \in Nat
  BY LenProperties
<1>2. ~(\A j \in 1..L : n[j] = 0)
  BY DEF Stripped
<1>3. Stripped(n) = SubSeq(n, c, L)
  BY <1>2 DEF Stripped
<1>4. \E z \in 1..L : First(z)
  <2> HIDE DEF L
  <2> DEFINE X == {z \in 1..L : n[z] # 0}
  <2>1. X \subseteq Nat /\ X # {}
    BY <1>1, <1>2
  <2>2. PICK i \in X : \A j \in X : i <= j
    <3> HIDE DEF X
    <3> QED
      BY <2>1, LeastIndex
  <2>3. i \in 1..L /\ n[i] # 0
    OBVIOUS
  <2>4. ASSUME NEW j \in 1..(i - 1) PROVE n[j] = 0
    <3>1. j \in 1..L /\ ~(i <= j)
      BY <1>1, <2>3
    <3> QED
      BY <2>2, <3>1
  <2> QED
    BY <2>3, <2>4
<1> HIDE DEF First
<1>5. c \in 1..L /\ First(c)
  BY <1>4
<1> HIDE DEF c
<1>6. n[c] # 0
  BY <1>5 DEF First
<1>7. SubSeq(n, c, L) \in Seq(Nat) /\ Len(SubSeq(n, c, L)) = L - c + 1 /\ SubSeq(n, c, L)[1] = n[c + 1 - 1]
  <2>1. /\ c \in 1..(Len(n) + 1) /\ L \in (c - 1)..Len(n)
    BY <1>1, <1>5
  <2>2. /\ SubSeq(n, c, L) \in Seq(Nat) /\ Len(SubSeq(n, c, L)) = IF c <= L THEN L - c + 1 ELSE 0
        /\ \A i \in 1..(L - c + 1) : SubSeq(n, c, L)[i] = n[c + i - 1]
    BY <2>1, SubSeqProperties
  <2>3. 1 \in 1..(L - c + 1) /\ c <= L
    BY <1>1, <1>5
  <2> QED
    BY <2>2, <2>3
<1>8. SubSeq(n, c, L)[1] # 0
  <2>1. c + 1 - 1 = c
    BY <1>5
  <2> QED
    BY <1>6, <1>7, <2>1
<1> HIDE DEF L
<1>9. Stripped(n) \in Seq(Nat) /\ Stripped(n)[1] # 0
  BY <1>3, <1>7, <1>8
<1> QED
  BY <1>9 DEF Positive

LEMMA PaddedIsContent ==
  ASSUME NEW n \in Seq(Nat), Positive(n)
  PROVE  Padded(n) = Content(n)
<1>1. n[1] \in Nat
  BY ContentShape
<1>2. n[1] >= 128 <=> ~(n[1] < 128)
  BY <1>1
<1> QED
  BY <1>2 DEF Padded, Content

\* Names for terms that the provers would otherwise rewrite.
Join(a, b) == a \o b
Pair(a, b) == <<a, b>>
Quad(a, b, c, d) == <<a, b, c, d>>

LEMMA Joined ==
  ASSUME NEW x \in Seq(Nat), NEW y \in Seq(Nat)
  PROVE  Join(x, y) \in Seq(Nat)
  BY ConcatProperties DEF Join

LEMMA Associative ==
  ASSUME NEW x \in Seq(Nat), NEW y \in Seq(Nat), NEW z \in Seq(Nat)
  PROVE  Join(Join(x, y), z) = Join(x, Join(y, z))
<1>1. (x \o y) \o z = x \o (y \o z)
  BY ConcatAssociative, SMTT(40)
<1> QED
  BY <1>1 DEF Join

LEMMA Regrouped ==
  ASSUME NEW x \in Seq(Nat), NEW y \in Seq(Nat), NEW c \in Seq(Nat), NEW z \in Seq(Nat), NEW d \in Seq(Nat)
  PROVE  Join(Join(Join(Join(x, y), c), z), d) = Join(x, Join(Join(y, c), Join(z, d)))
<1>1. Join(y, c) \in Seq(Nat) /\ Join(z, d) \in Seq(Nat) /\ Join(x, Join(y, c)) \in Seq(Nat)
  BY Joined
<1>2. Join(Join(x, y), c) = Join(x, Join(y, c))
  BY Associative
<1>3. Join(Join(Join(x, Join(y, c)), z), d) = Join(Join(x, Join(y, c)), Join(z, d))
  BY <1>1, Associative
<1>4. Join(Join(x, Join(y, c)), Join(z, d)) = Join(x, Join(Join(y, c), Join(z, d)))
  BY <1>1, Associative
<1> QED
  BY <1>2, <1>3, <1>4

LEMMA IntegerLength ==
  ASSUME NEW n \in Seq(Nat), Positive(n)
  PROVE  DerInteger(n) \in Seq(Nat) /\ Len(DerInteger(n)) = 1 + Len(DerLength(Len(Content(n)))) + Len(Content(n))
<1>1. ASSUME NEW b \in Seq(Nat), NEW i \in Nat \ {0}
      PROVE  DerInteger(n) \in Seq(Nat) /\ Len(DerInteger(n)) = 1 + Len(DerLength(Len(Content(n)))) + Len(Content(n))
  BY IntegerShape
<1>2. 1 \in Nat \ {0}
  OBVIOUS
<1> QED
  BY <1>1, <1>2

LEMMA SignatureLength ==
  ASSUME NEW r \in Seq(Nat), NEW s \in Seq(Nat), Positive(r), Positive(s)
  PROVE  LET v == Len(DerInteger(r)) + Len(DerInteger(s))
         IN  DerSignature(r, s) \in Seq(Nat) /\ Len(DerSignature(r, s)) + 1 = 2 + Len(DerLength(v)) + v
<1> DEFINE v == Len(DerInteger(r)) + Len(DerInteger(s))
<1>1. ASSUME NEW b \in Seq(Nat)
      PROVE  DerSignature(r, s) \in Seq(Nat) /\ Len(DerSignature(r, s)) + 1 = 2 + Len(DerLength(v)) + v
  BY SignatureShape
<1> QED
  BY <1>1

LEMMA TwoBytes ==
  ASSUME NEW a \in Nat, NEW b \in Nat
  PROVE  <<a>> \o <<b>> = <<a, b>>
<1> DEFINE f == <<a>>
           g == <<b>>
           e == f \o g
           t == <<a, b>>
<1>1. f \in Seq(Nat) /\ g \in Seq(Nat) /\ t \in Seq(Nat) /\ Len(f) = 1 /\ Len(g) = 1 /\ Len(t) = 2
  OBVIOUS
<1>2. f[1] = a /\ g[1] = b /\ t[1] = a /\ t[2] = b
  OBVIOUS
<1> HIDE DEF f, g, t
<1>3. /\ e \in Seq(Nat) /\ Len(e) = Len(f) + Len(g)
      /\ \A i \in 1..(Len(f) + Len(g)) : e[i] = IF i <= Len(f) THEN f[i] ELSE g[i - Len(f)]
  BY <1>1, ConcatProperties
<1> HIDE DEF e
<1>4. Len(e) = 2 /\ \A i \in 1..2 : e[i] = IF i <= 1 THEN f[i] ELSE g[i - 1]
  BY <1>1, <1>3
<1>5. \A i \in 1..2 : i = 1 \/ i = 2
  OBVIOUS
<1>6. e[1] = t[1] /\ e[2] = t[2]
  BY <1>2, <1>4
<1>7. \A i \in 1..2 : e[i] = t[i]
  BY <1>5, <1>6
<1>8. \A i \in 1..Len(e) : e[i] = t[i]
  BY <1>4, <1>7
<1>9. e = t
  BY <1>1, <1>3, <1>4, <1>8, SeqEqual
<1> QED
  BY <1>9 DEF e, f, g, t

LEMMA FourBytes ==
  ASSUME NEW a \in Nat, NEW b \in Nat, NEW c \in Nat, NEW d \in Nat
  PROVE  Quad(a, b, c, d) = Join(Pair(a, b), Pair(c, d))
<1> DEFINE f == <<a, b>>
           g == <<c, d>>
           e == f \o g
           t == <<a, b, c, d>>
<1>1. f \in Seq(Nat) /\ g \in Seq(Nat) /\ t \in Seq(Nat) /\ Len(f) = 2 /\ Len(g) = 2 /\ Len(t) = 4
  OBVIOUS
<1>2. f[1] = a /\ f[2] = b /\ g[1] = c /\ g[2] = d /\ t[1] = a /\ t[2] = b /\ t[3] = c /\ t[4] = d
  OBVIOUS
<1> HIDE DEF f, g, t
<1>3. /\ e \in Seq(Nat) /\ Len(e) = Len(f) + Len(g)
      /\ \A i \in 1..(Len(f) + Len(g)) : e[i] = IF i <= Len(f) THEN f[i] ELSE g[i - Len(f)]
  BY <1>1, ConcatProperties
<1> HIDE DEF e
<1>4. Len(e) = 4 /\ \A i \in 1..4 : e[i] = IF i <= 2 THEN f[i] ELSE g[i - 2]
  BY <1>1, <1>3
<1>5. \A i \in 1..4 : i = 1 \/ i = 2 \/ i = 3 \/ i = 4
  OBVIOUS
<1>6. e[1] = t[1] /\ e[2] = t[2] /\ e[3] = t[3] /\ e[4] = t[4]
  BY <1>2, <1>4
<1>7. \A i \in 1..4 : e[i] = t[i]
  BY <1>5, <1>6
<1>8. \A i \in 1..Len(e) : e[i] = t[i]
  BY <1>4, <1>7
<1>9. e = t
  BY <1>1, <1>3, <1>4, <1>8, SeqEqual
<1>10. t = Join(f, g)
  BY <1>9 DEF e, Join
<1> QED
  BY <1>10 DEF f, g, t, Pair, Quad

\* The writer writes the DER encoding as long as a length is one byte.
LEMMA Written ==
  ASSUME NEW r0 \in Seq(Nat), NEW s0 \in Seq(Nat), NEW room \in Nat,
         NEW r, NEW s, r = Stripped(r0), s = Stripped(s0), r # <<>>, s # <<>>,
         Len(DerInteger(r)) + Len(DerInteger(s)) < 128
  PROVE  /\ Positive(r) /\ Positive(s)
         /\ spec_cx_ecfp_encode_sig_der(room, r0, s0) =
              IF room < Len(DerSignature(r, s)) THEN <<>> ELSE DerSignature(r, s)
<1> DEFINE c == Content(r)
           d == Content(s)
           m == Len(c)
           n == Len(d)
           v == 4 + m + n
           x == <<48>> \o <<v>>
           y == <<2>> \o <<m>>
           z == <<2>> \o <<n>>
           out == spec_cx_ecfp_encode_sig_der(room, r0, s0)
<1>1. r \in Seq(Nat) /\ s \in Seq(Nat) /\ Positive(r) /\ Positive(s)
  BY StrippedShape
<1> DEFINE w == Len(DerInteger(r)) + Len(DerInteger(s))
<1>0. DerSignature(r, s) \in Seq(Nat) /\ Len(DerSignature(r, s)) + 1 = 2 + Len(DerLength(w)) + w
  BY <1>1, SignatureLength
<1>2. c \in Seq(Nat) /\ d \in Seq(Nat) /\ m \in Nat /\ n \in Nat
  BY <1>1, ContentShape, LenProperties
<1>3. /\ Len(DerInteger(r)) = 1 + Len(DerLength(m)) + m /\ Len(DerLength(m)) = (IF m < 128 THEN 1 ELSE 2)
      /\ Len(DerInteger(s)) = 1 + Len(DerLength(n)) + n /\ Len(DerLength(n)) = (IF n < 128 THEN 1 ELSE 2)
  BY <1>1, <1>2, IntegerLength, LengthShape
<1>4. Padded(r) = c /\ Padded(s) = d
  BY <1>1, PaddedIsContent
<1> HIDE DEF c, d
<1>5. out = IF room < 6 + Len(c) + Len(d) THEN <<>>
            ELSE <<48, (4 + Len(c) + Len(d)) % 256, 2, Len(c)>> \o c \o <<2, Len(d)>> \o d
  <2>1. Padded(Stripped(r0)) = c /\ Padded(Stripped(s0)) = d /\ ~(Stripped(r0) = <<>> \/ Stripped(s0) = <<>>)
    BY <1>4
  <2> QED
    BY <2>1 DEF spec_cx_ecfp_encode_sig_der
<1> HIDE DEF m, n, out
<1>6. m < 128 /\ n < 128 /\ v < 128 /\ v \in Nat /\ v % 256 = v
  <2>1. (1 + (IF m < 128 THEN 1 ELSE 2) + m) + (1 + (IF n < 128 THEN 1 ELSE 2) + n) < 128
    BY <1>3
  <2>2. m < 128 /\ n < 128 /\ v < 128 /\ v \in Nat
    BY <1>2, <2>1
  <2> HIDE DEF v
  <2> QED
    BY <2>2
<1>7. DerLength(m) = <<m>> /\ DerLength(n) = <<n>> /\ DerLength(v) = <<v>>
  BY <1>6 DEF DerLength
<1>8. Len(DerInteger(r)) + Len(DerInteger(s)) = v /\ Len(DerInteger(r)) = 2 + m /\ Len(DerInteger(s)) = 2 + n
  BY <1>2, <1>3, <1>6
<1>9. /\ Len(DerSignature(r, s)) \in Nat
      /\ Len(DerSignature(r, s)) + 1 = 2 + Len(DerLength(v)) + v
  <2> HIDE DEF v
  <2>1. DerSignature(r, s) \in Seq(Nat) /\ Len(DerSignature(r, s)) + 1 = 2 + Len(DerLength(v)) + v
    <3>1. v = w
      BY <1>8
    <3> HIDE DEF w
    <3> QED
      BY <1>0, <3>1
  <2> QED
    BY <2>1, LenProperties
<1>10. Len(DerSignature(r, s)) = 6 + m + n
  <2>1. Len(DerLength(v)) = 1
    BY <1>7
  <2>2. Len(DerSignature(r, s)) + 1 = 2 + 1 + v
    <3> HIDE DEF v
    <3> QED
      BY <1>9, <2>1
  <2> QED
    BY <1>2, <1>9, <2>2
<1>11. <<48, v, 2, m>> = x \o y /\ <<2, n>> = z
  <2> HIDE DEF v
  <2> DEFINE e == 48
             f == 2
  <2>1. e \in Nat /\ f \in Nat
    OBVIOUS
  <2> HIDE DEF e, f, x, y, z
  <2>2. Quad(e, v, f, m) = Join(Pair(e, v), Pair(f, m))
    <3>1. e \in Nat
      BY <2>1
    <3>2. v \in Nat
      BY <1>6
    <3>3. f \in Nat
      BY <2>1
    <3>4. m \in Nat
      BY <1>2
    <3> QED
      BY <3>1, <3>2, <3>3, <3>4, FourBytes
  <2>3. <<e>> \o <<v>> = <<e, v>> /\ <<f>> \o <<m>> = <<f, m>> /\ <<f>> \o <<n>> = <<f, n>>
    BY <1>2, <1>6, <2>1, TwoBytes
  <2>4. x = Pair(e, v) /\ y = Pair(f, m) /\ z = Pair(f, n)
    BY <2>3 DEF e, f, x, y, z, Pair
  <2>5. <<e, v, f, m>> = x \o y /\ <<f, n>> = z
    <3>1. Quad(e, v, f, m) = Join(x, y) /\ Pair(f, n) = z
      BY <2>2, <2>4
    <3> QED
      BY <3>1 DEF Join, Quad, Pair
  <2> QED
    BY <2>5 DEF e, f
<1>12. DerInteger(r) = y \o c /\ DerInteger(s) = z \o d
  BY <1>7 DEF DerInteger, c, d, m, n
<1>13. x \in Seq(Nat) /\ y \in Seq(Nat) /\ z \in Seq(Nat)
  <2> HIDE DEF v
  <2> QED
    BY <1>2, <1>6, <1>11, TwoBytes
<1>14. y \o c \in Seq(Nat) /\ z \o d \in Seq(Nat)
  BY <1>1, <1>12, IntegerLength
<1>15. DerSignature(r, s) = x \o ((y \o c) \o (z \o d))
  <2> HIDE DEF v, y, z
  <2>1. Len(DerInteger(r) \o DerInteger(s)) = v
    <3>1. DerInteger(r) \in Seq(Nat) /\ DerInteger(s) \in Seq(Nat)
      BY <1>12, <1>14
    <3> QED
      BY <1>8, <3>1, ConcatProperties
  <2>2. DerSignature(r, s) = <<48>> \o DerLength(v) \o (DerInteger(r) \o DerInteger(s))
    BY <2>1 DEF DerSignature
  <2> QED
    BY <1>7, <1>12, <2>2
<1>16. out = IF room < 6 + m + n THEN <<>> ELSE (((x \o y) \o c) \o z) \o d
  <2>1. out = IF room < 6 + m + n THEN <<>> ELSE <<48, v, 2, m>> \o c \o <<2, n>> \o d
    BY <1>5, <1>6 DEF m, n
  <2> HIDE DEF v, x, y, z
  <2> QED
    BY <1>11, <2>1
<1>17. (((x \o y) \o c) \o z) \o d = x \o ((y \o c) \o (z \o d))
  <2> HIDE DEF v, x, y, z
  <2>1. Join(Join(Join(Join(x, y), c), z), d) = Join(x, Join(Join(y, c), Join(z, d)))
    BY <1>2, <1>13, Regrouped
  <2> QED
    BY <2>1 DEF Join
<1> HIDE DEF v, x, y, z
<1>18. out = IF room < Len(DerSignature(r, s)) THEN <<>> ELSE DerSignature(r, s)
  BY <1>10, <1>15, <1>16, <1>17
<1> QED
  BY <1>1, <1>18 DEF out

\* For every input shorter than 256 bytes and every two positive numbers,
\* spec_cx_ecfp_decode_sig_der returns the numbers exactly when the input is
\* their DER encoding and they fit; spec_cx_ecfp_encode_sig_der writes that
\* encoding of the numbers without their leading zeros, or refuses when a
\* number is zero or the buffer too short, as long as a length is one byte.
THEOREM SignaturesAreDer == DerSpec => []DerRoundTrip
<1>1. DerInit => DerRoundTrip
  BY DEF DerInit, NoDer, DerRoundTrip
<1>2. ASSUME NEW r0 \in DerNumbers, NEW s0 \in DerNumbers, NEW room \in DerRooms, Encode(r0, s0, room)
      PROVE  DerRoundTrip'
  <2> DEFINE r == Stripped(r0)
             s == Stripped(s0)
             out == spec_cx_ecfp_encode_sig_der(room, r0, s0)
  <2>1. r0 \in Seq(Nat) /\ s0 \in Seq(Nat) /\ room \in Nat
    BY DerAssumption, OctetsAreNaturals
  <2>2. ASSUME r = <<>> \/ s = <<>> PROVE out = <<>>
    BY <2>2 DEF spec_cx_ecfp_encode_sig_der
  <2>3. ASSUME r # <<>>, s # <<>>, Len(DerInteger(r)) + Len(DerInteger(s)) < 128
        PROVE  Positive(r) /\ Positive(s) /\ out = IF room < Len(DerSignature(r, s)) THEN <<>> ELSE DerSignature(r, s)
    BY <2>1, <2>3, Written
  <2> HIDE DEF out
  <2>4. derCall' = [f |-> "encode", r |-> r0, s |-> s0, room |-> room, out |-> out]
    BY <1>2 DEF Encode, out
  <2>5. derCall'.f = "encode" /\ derCall'.r = r0 /\ derCall'.s = s0 /\ derCall'.room = room /\ derCall'.out = out
    BY <2>4
  <2>6. derCall'.f # "decode"
    BY <2>5
  <2>7. IF Stripped(derCall'.r) = <<>> \/ Stripped(derCall'.s) = <<>> THEN derCall'.out = <<>>
        ELSE Len(DerInteger(Stripped(derCall'.r))) + Len(DerInteger(Stripped(derCall'.s))) < 128 =>
               /\ Positive(Stripped(derCall'.r)) /\ Positive(Stripped(derCall'.s))
               /\ derCall'.out = IF derCall'.room < Len(DerSignature(Stripped(derCall'.r), Stripped(derCall'.s))) THEN <<>>
                                 ELSE DerSignature(Stripped(derCall'.r), Stripped(derCall'.s))
    BY <2>2, <2>3, <2>5
  <2> QED
    BY <2>6, <2>7 DEF DerRoundTrip
<1>3. ASSUME NEW q \in DerInputs, Decode(q)
      PROVE  DerRoundTrip'
  <2> DEFINE b == q.b
             max == q.max
             out == spec_cx_ecfp_decode_sig_der(b, max, q.past)
  <2>1. b \in Seq(Nat) /\ max \in Nat
    BY DerAssumption, OctetsAreNaturals
  <2>2. derCall' = [f |-> "decode", b |-> b, max |-> max, out |-> out]
    BY <1>3 DEF Decode
  <2> HIDE DEF b, max
  <2>3. ASSUME NEW r \in DerNumbers, NEW s \in DerNumbers, Positive(r), Positive(s)
        PROVE  out = <<r, s>> <=> b = DerSignature(r, s) /\ Len(r) <= max /\ Len(s) <= max
    <3>1. r \in Seq(Nat) /\ s \in Seq(Nat)
      BY DerAssumption, OctetsAreNaturals
    <3>2. ASSUME out = <<r, s>> PROVE b = DerSignature(r, s) /\ Len(r) <= max /\ Len(s) <= max
      BY <2>1, <2>3, <3>1, <3>2, ReadIsSignature
    <3>3. ASSUME b = DerSignature(r, s), Len(r) <= max, Len(s) <= max PROVE out = <<r, s>>
      BY <2>1, <2>3, <3>1, <3>3, SignatureIsRead
    <3> QED
      BY <3>2, <3>3
  <2> HIDE DEF out
  <2>4. derCall'.f = "decode" /\ derCall'.b = b /\ derCall'.max = max /\ derCall'.out = out
    BY <2>2
  <2>5. derCall'.f # "encode"
    BY <2>4
  <2>6. \A r, s \in DerNumbers :
          Positive(r) /\ Positive(s) =>
            (derCall'.out = <<r, s>> <=> derCall'.b = DerSignature(r, s) /\ Len(r) <= derCall'.max /\ Len(s) <= derCall'.max)
    BY <2>3, <2>4
  <2> QED
    BY <2>5, <2>6 DEF DerRoundTrip
<1>4. ASSUME derCall' = NoDer PROVE DerRoundTrip'
  BY <1>4 DEF NoDer, DerRoundTrip
<1>5. DerRoundTrip /\ [DerNext]_derCall => DerRoundTrip'
  <2>1. ASSUME DerRoundTrip, UNCHANGED derCall PROVE DerRoundTrip'
    BY <2>1 DEF DerRoundTrip
  <2> QED
    BY <1>2, <1>3, <1>4, <2>1 DEF DerNext
<1> QED
  BY <1>1, <1>5, PTL DEF DerSpec
=============================================================================
