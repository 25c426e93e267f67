------------------------------- MODULE OsPki -------------------------------
(***************************************************************************)
(* Certificates: os_pki.c and os_signature.c.  A certificate certifies a   *)
(* public key for a usage; it is signed by the root or by the key of the   *)
(* certificate that was loaded before it.                                  *)
(*                                                                         *)
(* A certificate is read field by field, the application handing in any    *)
(* fields; what the system keeps is in os_pki, and the key that is read    *)
(* goes into the caller's buffer first.  A key is its curve and a name.  A *)
(* signature is who made it and for which algorithm: it is over the fields *)
(* that were read.  The numbers of validity are major * 256 + minor.       *)
(***************************************************************************)
EXTENDS Naturals

CONSTANTS
  KeyNames,   \* of the keys that are not a root
  TestRoot,   \* speculos_root_ca_public_key
  ProdRoot,   \* root_ca_public_key
  NoName,     \* of the key in a buffer without a valid W
  pki_prod,   \* the option --pki-prod
  FieldValues \* what the value of a field can be, and its length
ASSUME PkiAssumption == pki_prod \in BOOLEAN /\ NoName \notin KeyNames \cup {TestRoot, ProdRoot}

VARIABLES
  os_pki, os_pki_set,  \* as in os_pki.c
  public_key,          \* the caller's buffer
  expected_key_usage,  \* of the certificate that is read or was loaded last
  pki_at,              \* "idle", "fields" while a certificate is read, "crash"
  bn_locked,           \* whether the application has the big number unit
  certified,           \* history: the root, and keys that a certified key signed for
  verdict              \* history: the signer that os_pki_verify last confirmed
pkiVars == <<os_pki, os_pki_set, public_key, expected_key_usage, pki_at, bn_locked, certified, verdict>>

CX_CURVE_SECP256K1 == 33
CX_CURVE_Ed25519 == 113
Domains == {CX_CURVE_SECP256K1, CX_CURVE_Ed25519}
Key(curve, name) == [curve |-> curve, name |-> name]
NoKey == Key(0, NoName)
Buffers == [curve : Domains \cup {0}, name : KeyNames \cup {NoName}]
RootKey == Key(CX_CURVE_SECP256K1, IF pki_prod THEN ProdRoot ELSE TestRoot)
Signatures == [key : [curve : Domains, name : KeyNames \cup {TestRoot, ProdRoot}], algo : {0, 1, 16}]

LEDGER_ROOT_V3 == 2
Blank == [key_usage |-> 0, signer_sign_algo |-> 0, pk_sign_algo |-> 0, trusted_name |-> 0, signer_id |-> 0, public_key |-> NoKey]

---------------------------------------------------------------------------
Info(value, field_len) == [value |-> value, field_len |-> field_len]
VAR_LEN == 255
ANY == 2^30
C_os_pki_certificate_tag_info ==
  [STRUCTURE_TYPE |-> Info(1, 1), VERSION |-> Info(3, 1), VALIDITY |-> Info(ANY, 4), VALIDITY_INDEX |-> Info(1, 4),
   CHALLENGE |-> Info(ANY, VAR_LEN), SIGNER_KEY_ID |-> Info(11, 2), SIGN_ALGO_ID |-> Info(17, 1), TIME_VALIDITY |-> Info(ANY, 4),
   TRUSTED_NAME |-> Info(ANY, VAR_LEN), PUBLIC_KEY_ID |-> Info(11, 2), PUBLIC_KEY_USAGE |-> Info(15, 1), CURVE_ID |-> Info(127, 1),
   COMPRESSED_KEY |-> Info(11, VAR_LEN), PK_SIGN_ALGO_ID |-> Info(17, 1), TARGET_DEVICE |-> Info(8, 1), DEPTH |-> Info(ANY, 1)]
Tags == DOMAIN C_os_pki_certificate_tag_info
ASSUME FieldAssumption == \A tag \in Tags \cup {"OTHER"} : FieldValues[tag] \subseteq Nat \X Nat
BoundedTags == {"VERSION", "SIGN_ALGO_ID", "CURVE_ID", "PK_SIGN_ALGO_ID", "TARGET_DEVICE", "DEPTH"}

\* strncmp of VERSION, which is 1.0.0, with a text whose digits are '0' plus a byte: the patch never decides.
DigitChar(b) == (48 + b) % 256
TooOld(v) == DigitChar(v \div 256) < DigitChar(1) \/ (DigitChar(v \div 256) = DigitChar(1) /\ DigitChar(v % 256) < DigitChar(0))

\* The fields that os_pki_check_value returns an error for by their value and length.
BadField(tag, v, len) ==
  IF tag \notin Tags THEN TRUE
  ELSE LET info == C_os_pki_certificate_tag_info[tag]
       IN  \/ info.field_len # VAR_LEN /\ len # info.field_len
           \/ tag = "STRUCTURE_TYPE" /\ v # info.value
           \/ tag \in BoundedTags /\ v >= info.value
           \/ tag = "VALIDITY" /\ TooOld(v)
           \/ tag = "VALIDITY_INDEX" /\ v <= info.value
           \/ tag = "TRUSTED_NAME" /\ len > 32

\* What a field changes in os_pki.
Kept(tag, v) ==
  CASE tag = "SIGNER_KEY_ID" -> [os_pki EXCEPT !.signer_id = v]
    [] tag = "SIGN_ALGO_ID" -> [os_pki EXCEPT !.signer_sign_algo = v]
    [] tag = "TRUSTED_NAME" -> [os_pki EXCEPT !.trusted_name = v]
    [] tag = "PUBLIC_KEY_USAGE" -> [os_pki EXCEPT !.key_usage = v]
    [] tag = "PK_SIGN_ALGO_ID" -> [os_pki EXCEPT !.pk_sign_algo = v]
    [] OTHER -> os_pki

---------------------------------------------------------------------------
\* The outcomes of a verification.  ECDSA without a domain, or with a curve that OpenSSL has
\* no group for, follows a null pointer, the latter once the signature is decoded.
Answers(yes) == {IF yes THEN "yes" ELSE "no"}
cx_ecdsa_internal_verify(key, algo, s) ==
  CASE key.curve \notin Domains -> {"crash"}
    [] key.curve = CX_CURVE_Ed25519 -> {"crash", "no"}
    [] OTHER -> Answers(s = [key |-> key, algo |-> algo])
cx_eddsa_internal_verify(key, algo, s) == Answers(key.curve = CX_CURVE_Ed25519 /\ s = [key |-> key, algo |-> algo])
cx_verify(key, algo, s) ==
  CASE algo \in 1..4 -> cx_ecdsa_internal_verify(key, algo, s)
    [] algo = 16 -> cx_eddsa_internal_verify(key, algo, s)
    [] OTHER -> {"no"}
os_ecdsa_verify_with_root_ca(algo, s) == cx_ecdsa_internal_verify(RootKey, algo, s)

\* cx_ecdsa_internal_init_public_key: a buffer without a valid W gives an empty key.
InitKey(key) == IF key.name = NoName THEN NoKey ELSE key

---------------------------------------------------------------------------
PkiInit ==
  /\ os_pki = Blank /\ os_pki_set = FALSE
  /\ public_key = NoKey /\ expected_key_usage = 0
  /\ pki_at = "idle" /\ bn_locked = FALSE
  /\ certified = {RootKey} /\ verdict = RootKey

\* The application locks the big numbers (external).
AppLock ==
  /\ pki_at = "idle" /\ ~bn_locked
  /\ bn_locked' = TRUE
  /\ UNCHANGED <<os_pki, os_pki_set, public_key, expected_key_usage, pki_at, certified, verdict>>

\* sys_os_pki_load_certificate, up to its loop.
LoadBegins(usage, buffer) ==
  /\ pki_at = "idle"
  /\ os_pki_set' = FALSE
  /\ expected_key_usage' = usage /\ public_key' = buffer
  /\ pki_at' = "fields"
  /\ UNCHANGED <<os_pki, bn_locked, certified, verdict>>

\* The end of a load with an error.
Refuse ==
  /\ os_pki' = Blank
  /\ pki_at' = "idle"
  /\ UNCHANGED <<os_pki_set, public_key, expected_key_usage, certified, verdict>>

Crash ==
  /\ pki_at' = "crash"
  /\ UNCHANGED <<os_pki, os_pki_set, public_key, expected_key_usage, bn_locked, certified, verdict>>

BadFieldRead(tag, v, len) ==
  /\ pki_at = "fields"
  /\ BadField(tag, v, len)
  /\ Refuse /\ UNCHANGED bn_locked

\* Whatever the field is, the end of os_pki_check_value unlocks the big numbers.
FieldRead(tag, v, len) ==
  /\ pki_at = "fields" /\ tag # "COMPRESSED_KEY"
  /\ ~BadField(tag, v, len)
  /\ os_pki' = Kept(tag, v)
  /\ public_key' = IF tag = "CURVE_ID" THEN [public_key EXCEPT !.curve = v] ELSE public_key
  /\ bn_locked' = FALSE
  /\ UNCHANGED <<os_pki_set, expected_key_usage, pki_at, certified, verdict>>

\* The key goes into the caller's buffer, on the curve that is there.
SelfCertified(name) ==                                                    \* mutant
  /\ pki_at = "fields"
  /\ public_key.curve \in Domains /\ ~bn_locked
  /\ public_key' = Key(public_key.curve, name)
  /\ os_pki' = [os_pki EXCEPT !.public_key = Key(public_key.curve, name)]
  /\ UNCHANGED <<os_pki_set, expected_key_usage, pki_at, bn_locked, certified, verdict>>
KeyRead(name) ==
  /\ pki_at = "fields"
  /\ public_key.curve \in Domains /\ ~bn_locked
  /\ public_key' = Key(public_key.curve, name)
  /\ UNCHANGED <<os_pki, os_pki_set, expected_key_usage, pki_at, bn_locked, certified, verdict>>

\* There is no such curve, the application holds the big numbers, or x is not one of a point.
KeyBad ==
  /\ pki_at = "fields"
  /\ Refuse /\ bn_locked' = FALSE

\* The rest of the load, after the fields: the usage, the signature, and the key.
WrongUsage ==
  /\ pki_at = "fields"
  /\ expected_key_usage # os_pki.key_usage
  /\ Refuse /\ UNCHANGED bn_locked

\* An algorithm without a hash leaves the context of the hash uninitialized.
Hashed(algo) == algo \in (1..4) \cup {16}
LoadOutcomes(s) ==
  LET algo == os_pki.signer_sign_algo
  IN  (IF os_pki.signer_id = LEDGER_ROOT_V3 THEN os_ecdsa_verify_with_root_ca(algo, s)
       ELSE cx_verify(os_pki.public_key, algo, s)) \cup (IF Hashed(algo) THEN {} ELSE {"no", "crash"})
SignatureRead(s) ==
  /\ pki_at = "fields"
  /\ expected_key_usage = os_pki.key_usage
  /\ \/ "no" \in LoadOutcomes(s) /\ Refuse /\ UNCHANGED bn_locked
     \/ "crash" \in LoadOutcomes(s) /\ Crash
     \/ "yes" \in LoadOutcomes(s) /\ public_key.curve \notin Domains /\ Crash
     \/ /\ "yes" \in LoadOutcomes(s) /\ public_key.curve \in Domains
        /\ os_pki' = [os_pki EXCEPT !.public_key = InitKey(public_key)]
        /\ os_pki_set' = TRUE
        /\ pki_at' = "idle"
        /\ certified' = IF s.key \in certified THEN certified \cup {InitKey(public_key)} ELSE certified
        /\ UNCHANGED <<public_key, expected_key_usage, bn_locked, verdict>>

sys_os_pki_verify(s) ==
  /\ pki_at = "idle"
  /\ \E outcome \in IF os_pki_set THEN cx_verify(os_pki.public_key, os_pki.pk_sign_algo, s) ELSE {"no"} :
       \/ outcome = "crash" /\ Crash
       \/ outcome # "crash" /\ verdict' = (IF outcome = "yes" THEN s.key ELSE RootKey)
          /\ UNCHANGED <<os_pki, os_pki_set, public_key, expected_key_usage, pki_at, bn_locked, certified>>

\* sys_os_pki_get_info: the key again goes through cx_ecdsa_internal_init_public_key.
sys_os_pki_get_info ==
  /\ pki_at = "idle" /\ os_pki_set
  /\ IF os_pki.public_key.curve \notin Domains THEN Crash
     ELSE /\ public_key' = InitKey(os_pki.public_key)
          /\ UNCHANGED <<os_pki, os_pki_set, expected_key_usage, pki_at, bn_locked, certified, verdict>>

PkiNext ==
  \/ AppLock
  \/ \E usage \in {1, 2}, buffer \in Buffers : LoadBegins(usage, buffer)
  \/ \E tag \in Tags \cup {"OTHER"} : \E f \in FieldValues[tag] : FieldRead(tag, f[1], f[2]) \/ BadFieldRead(tag, f[1], f[2])
  \/ \E name \in KeyNames : KeyRead(name)
  \/ KeyBad
  \/ WrongUsage
  \/ \E s \in Signatures : SignatureRead(s) \/ sys_os_pki_verify(s)
  \/ sys_os_pki_get_info

PkiSpec == PkiInit /\ [][PkiNext]_pkiVars

---------------------------------------------------------------------------
\* The key in force is one that a chain of signatures from the root certifies, or none, its
\* usage the one the application asked for, and no signature of another key is ever confirmed:
\* neither a certificate that was refused half-way nor one that is signed with its own key
\* changes that (os_pki_load_certificate, os_pki_verify).
PkiTrusted ==
  /\ os_pki_set => os_pki.public_key \in certified \cup {NoKey} /\ os_pki.key_usage = expected_key_usage
  /\ verdict \in certified
=============================================================================
