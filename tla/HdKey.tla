------------------------------- MODULE HdKey --------------------------------
(***************************************************************************)
(* Hierarchical keys: os_bip32.c (BIP32, SLIP-10, BIP32-Ed25519, SLIP-21)  *)
(* and hdkey/ (BLS12-377, ZIP-32).  checked is what the check of the path  *)
(* said (PathCheck).                                                       *)
(*                                                                         *)
(* A hash of 64 bytes is a pair of numbers below KeySpan (2^256).  The     *)
(* hash functions are parameters (CxHash and CxHmac are about them).  A    *)
(* public key is its discrete logarithm; Compressed is what gets hashed.   *)
(* NULL is <<>>, any other pointer <<value>>.                              *)
(***************************************************************************)
EXTENDS Integers, Sequences, SequencesExt, TLC

CONSTANTS
  KeyBits,           \* 256
  Order,             \* of the curve, and of Ed25519 and Jubjub below it
  EdChildBits,       \* bits of ZL that BIP32-Ed25519 keeps (224)
  HardBit,           \* 0x80000000
  Hmac512(_, _),     \* HMAC-SHA512 of a key and a sequence of fields
  Blake2b512(_, _)   \* BLAKE2b-512 with a personalisation

ASSUME HdAssumption ==
  /\ {KeyBits, Order, EdChildBits, HardBit} \subseteq Nat
  /\ 2^(KeyBits - 1) < Order /\ Order < 2^KeyBits

KeySpan == 2^KeyBits
NormalCurves == {"256K1", "256R1", "Ed25519"}
is_hardened_child(i) == i >= HardBit
Throw(what) == [err |-> what, k |-> 0, chain |-> 0]
ExtKey(k, chain) == [err |-> "OK", k |-> k, chain |-> chain]

\* The point kG and its negative have the same x and different parities.
Compressed(k) == IF k < Order - k THEN <<2, k>> ELSE <<3, Order - k>>

-----------------------------------------------------------------------------
(* os_bip32.c: the derivations                                             *)

\* Strings such as "Bitcoin seed", as numbers that no key has.
SeedKeys == ("256K1" :> 1 @@ "256R1" :> 2 @@ "Ed25519" :> 3 @@ "SLIP21" :> 4 @@ "BLS12_377_G1" :> 5)
get_seed_key(curve) == KeySpan + SeedKeys[curve]
get_seed_key_slip21 == KeySpan + SeedKeys["SLIP21"]

expand_seed_slip10(sk, seed) == LET I == Hmac512(sk, seed) IN ExtKey(I[1], I[2])

\* The chain code is an HMAC-SHA256, here the right half of a hash.  The bits
\* of the clamped left half: 0x20 is refused, 0x40 set, 0x80 and the lowest
\* three cleared.
ThirdBit(k) == (k \div 2^(KeyBits - 3)) % 2
Clamped(k) == ((k % 2^(KeyBits - 2)) \div 8) * 8 + 2^(KeyBits - 2)
RECURSIVE Unclamped(_, _)
Unclamped(sk, I) == IF ThirdBit(I[1]) = 1 THEN Unclamped(sk, Hmac512(sk, I)) ELSE I
expand_seed_ed25519_bip32(sk, seed) ==
  LET I == Unclamped(sk, Hmac512(sk, seed))
  IN  ExtKey(<<Clamped(I[1]), I[2]>>, Hmac512(sk, <<1>> \o seed)[2])

RECURSIVE MasterFrom(_, _)
MasterFrom(sk, I) == IF I[1] = 0 \/ I[1] >= Order THEN MasterFrom(sk, Hmac512(sk, I)) ELSE ExtKey(I[1], I[2])
expand_seed(sk, seed) == MasterFrom(sk, Hmac512(sk, seed))

\* One level of hdw_bip32_ed25519: kL = 8 ZL + kL with the top bytes of ZL
\* cleared, kR = ZR + kR, both cut to the width.
EdInput(key, i) == IF is_hardened_child(i) THEN <<0, key.k[1], key.k[2]>> ELSE <<2, key.k[1] % Order>>
ChildEd25519(key, i) ==
  LET in == EdInput(key, i)
      Z == Hmac512(key.chain, in \o <<i>>)
      c == Hmac512(key.chain, [in EXCEPT ![1] = @ + 1] \o <<i>>)
  IN  ExtKey(<<(8 * (Z[1] % 2^EdChildBits) + key.k[1]) % KeySpan, (Z[2] + key.k[2]) % KeySpan>>, c[2])
hdw_bip32_ed25519(key, path) == FoldLeft(ChildEd25519, key, path)

ChildSlip10(key, i) ==
  IF key.err # "OK" \/ ~is_hardened_child(i) THEN Throw("EXCEPTION")
  ELSE LET I == Hmac512(key.chain, <<0, key.k, i>>) IN ExtKey(I[1], I[2])
hdw_slip10(key, path) == FoldLeft(ChildSlip10, key, path)

\* The retry of SLIP-10: 01, the right half and the index.
RECURSIVE ChildFrom(_, _, _)
ChildFrom(key, tmp, i) ==
  LET I == Hmac512(key.chain, tmp \o <<i>>)
      sum == (I[1] + key.k) % Order
  IN  IF I[1] < Order /\ sum # 0 THEN ExtKey(sum, I[2]) ELSE ChildFrom(key, <<1, I[2]>>, i)
SecretAlways(key, i) == ChildFrom(key, <<0, key.k>>, i)                    \* mutant
ChildBip32(key, i) == ChildFrom(key, IF is_hardened_child(i) THEN <<0, key.k>> ELSE Compressed(key.k), i)
hdw_bip32(key, curve, path) ==
  IF curve \notin {"256K1", "256R1"} THEN Throw("EXCEPTION") ELSE FoldLeft(ChildBip32, key, path)

hdw_slip21(sk, seed, path) ==
  IF path = <<>> \/ path[1] # 0 THEN Throw("EXCEPTION")
  ELSE ExtKey(Hmac512(Hmac512(sk, seed)[1], path)[2], 0)

\* derivesMaster is APPLICATION_FLAG_DERIVE_MASTER.
sys_os_perso_derive_node_with_seed_key_internal(mode, curve, path, checked, seed, seedKey, derivesMaster, fromApp) ==
  LET sk == IF seedKey # <<>> THEN seedKey[1] ELSE IF mode = "SLIP21" THEN get_seed_key_slip21 ELSE get_seed_key(curve)
  IN  CASE mode # "SLIP21" /\ fromApp /\ ~derivesMaster /\ \A i \in DOMAIN path : ~is_hardened_child(path[i]) ->
             Throw("VAL_12")
        [] OTHER ->
             IF checked # "OK" THEN Throw(checked)
             ELSE IF seedKey = <<>> /\ mode # "SLIP21" /\ curve \notin NormalCurves THEN Throw("exit")
             ELSE IF mode = "SLIP21" THEN hdw_slip21(sk, seed, path)
             ELSE IF curve # "Ed25519" THEN hdw_bip32(expand_seed(sk, seed), curve, path)
             ELSE IF mode = "SLIP10" THEN hdw_slip10(expand_seed_slip10(sk, seed), path)
             ELSE hdw_bip32_ed25519(expand_seed_ed25519_bip32(sk, seed), path)

sys_os_perso_derive_node_bip32(curve, path, checked, seed, derivesMaster) ==
  sys_os_perso_derive_node_with_seed_key_internal("NORMAL", curve, path, checked, seed, <<>>, derivesMaster, TRUE)
sys_os_perso_get_master_key_identifier(seed) ==
  Compressed(sys_os_perso_derive_node_with_seed_key_internal("NORMAL", "256K1", <<>>, "OK", seed, <<>>, FALSE, FALSE).k)

-----------------------------------------------------------------------------
(* hdkey/: params is a record of mode, curve, path, keyRoom (the length of *)
(* private_key), chainRoom (NULL or the length of chain) and seedKey.      *)

DeriveModes == {"NORMAL", "SLIP10", "SLIP21", "ALEO", "SAPLING", "ORCHARD", "REGISTERED"}
KeyLength == 1    \* room of a key, in keys
Failed(err) == [err |-> err, out |-> <<>>]

hdkey_validate_params(p) ==
  IF p.mode = "SLIP21" /\ p.path[1] # 0 THEN "BAD_FORMAT"
  ELSE IF p.mode \notin DeriveModes THEN "BAD_PARAM" ELSE "OK"

hdkey_validate_hardened(p, derivesMaster) ==
  IF p.mode # "SLIP21" /\ ~derivesMaster /\ \A i \in DOMAIN p.path : ~is_hardened_child(p.path[i])
    THEN "BAD_PARAM" ELSE "OK"

HDKEY_VALIDATE_secure_context(p, checked, derivesMaster) ==
  LET checks == <<IF Len(p.path) >= 2^28 THEN "OVERFLOW" ELSE "OK", hdkey_validate_params(p), hdkey_validate_hardened(p, derivesMaster), checked>>
      bad == SelectSeq(checks, LAMBDA c : c # "OK")
  IN  IF bad = <<>> THEN "OK" ELSE bad[1]

-----------------------------------------------------------------------------
(* hdkey_bip32.c and hdkey_bls12377.c                                      *)

hdkey_bip32_get_default_seed(p) ==
  IF p.seedKey # <<>> THEN p.seedKey
  ELSE IF p.curve \in DOMAIN SeedKeys THEN <<KeySpan + SeedKeys[p.curve]>> ELSE <<>>

\* BLS12-377 has room for 64 bytes; Ed25519 would need 96.
hdkey_bip32_check_result_len(curve) == curve # "Ed25519"
HDKEY_BIP32_get_seed_hmac(p, seed) ==
  IF ~hdkey_bip32_check_result_len(p.curve) THEN Failed("BAD_PARAM")
  ELSE IF hdkey_bip32_get_default_seed(p) = <<>> THEN Failed("NOT_IMPLEMENTED")
  ELSE [err |-> "OK", out |-> Hmac512(hdkey_bip32_get_default_seed(p)[1], seed)]

hdkey_bls12377_derive_child(I, i) == Hmac512(I[2], <<0, I[1], i>>)
hdkey_bls12377_derive_path(I, path) == FoldLeft(hdkey_bls12377_derive_child, I, path)

HDKEY_BLS12377_derive(p, seed) ==
  LET master == HDKEY_BIP32_get_seed_hmac(p, seed)
  IN  IF p.keyRoom < KeyLength \/ (p.chainRoom # <<>> /\ p.chainRoom[1] # KeyLength) THEN Failed("SHORT_BUFFER")
      ELSE IF master.err # "OK" THEN master
      ELSE [err |-> "OK", out |-> hdkey_bls12377_derive_path(master.out, p.path)]

-----------------------------------------------------------------------------
(* hdkey_zip32.c.  Little-endian conversions are part of the hash.         *)

hdkey_zip32_prf_expand(key, input) == Blake2b512("ExpandSeed", <<key>> \o input)
hdkey_zip32_to_scalar(h) == ((h[1] % Order) + (KeySpan % Order) * (h[2] % Order)) % Order
hdkey_zip32_add_scalar(a, b) == (a + b) % Order

HDKEY_ZIP32_sapling_master_key(seed) ==
  LET I == Blake2b512("Sapling", seed)
      expand(tag) == hdkey_zip32_prf_expand(I[1], <<tag>>)
  IN  [ask |-> hdkey_zip32_to_scalar(expand(0)), nsk |-> hdkey_zip32_to_scalar(expand(1)),
       ovk |-> expand(2)[1], dk |-> expand(16)[1], chain |-> I[2]]

HDKEY_ZIP32_sapling_derive_child(parent, i) ==
  LET I == hdkey_zip32_prf_expand(parent.chain, <<17, parent.ask, parent.nsk, parent.ovk, parent.dk, i>>)
      scalar(tag) == hdkey_zip32_to_scalar(hdkey_zip32_prf_expand(I[1], <<tag>>))
  IN  [ask |-> hdkey_zip32_add_scalar(scalar(19), parent.ask), nsk |-> hdkey_zip32_add_scalar(scalar(20), parent.nsk),
       ovk |-> hdkey_zip32_prf_expand(I[1], <<21, parent.ovk>>)[1],
       dk |-> hdkey_zip32_prf_expand(I[1], <<22, parent.dk>>)[1], chain |-> I[2]]

\* Only a turn of the loop sets the key that is copied out.
LastChild(path, key, zeros) == IF path = <<>> THEN zeros ELSE key
RoomOf(p, n) ==
  IF p.keyRoom < n * KeyLength THEN "SHORT_BUFFER"
  ELSE IF p.chainRoom # <<>> /\ p.chainRoom[1] # KeyLength THEN "BAD_LEN" ELSE "OK"

\* The scalars need the lock of the big numbers: a lock that the application
\* holds makes the derivation fail, and is released on the way out.
HDKEY_ZIP32_sapling_derive(p, seed, locked) ==
  IF p.chainRoom # <<>> /\ p.chainRoom[1] # KeyLength THEN Failed("BAD_LEN")
  ELSE IF RoomOf(p, 4) # "OK" THEN Failed(RoomOf(p, 4))
  ELSE IF locked THEN Failed("CRYPTO_INTERNAL")
  ELSE [err |-> "OK",
        out |-> LastChild(p.path, FoldLeft(HDKEY_ZIP32_sapling_derive_child, HDKEY_ZIP32_sapling_master_key(seed), p.path),
                          [ask |-> 0, nsk |-> 0, ovk |-> 0, dk |-> 0, chain |-> 0])]

HDKEY_ZIP32_orchard_master_key(seed) == Blake2b512("Orchard", seed)
HDKEY_ZIP32_orchard_derive_child(parent, i) == hdkey_zip32_prf_expand(parent[2], <<129, parent[1], i>>)
HDKEY_ZIP32_orchard_derive(p, seed) ==
  IF RoomOf(p, 1) # "OK" THEN Failed(RoomOf(p, 1))
  ELSE [err |-> "OK",
        out |-> LastChild(p.path, FoldLeft(HDKEY_ZIP32_orchard_derive_child, HDKEY_ZIP32_orchard_master_key(seed), p.path),
                          <<0, 0>>)]

\* The lead byte is only hashed before a tag sequence.
HDKEY_ZIP32_hardened_derive_child(parent, i, lead, tag) ==
  Blake2b512("ExpandSeed",
    <<parent[2], 172, parent[1], i>> \o (IF lead # 0 \/ tag # <<>> THEN <<lead>> ELSE <<>>)
                                     \o (IF tag = <<>> THEN <<>> ELSE tag[1]))
HDKEY_ZIP32_hardened_subtree_root_key(seed, zip, context) ==
  HDKEY_ZIP32_hardened_derive_child(
    Blake2b512("Registered", <<IF context = <<>> THEN 0 ELSE Len(context[1])>> \o (IF context = <<>> THEN <<>> ELSE context[1])
                             \o <<Len(seed)>> \o seed), zip, 0, <<>>)

\* The tag at offset at (0: the first byte) of a sequence of tag, length and
\* value; a tag that is not the expected one has been read past.
ContextTag == 22
SequenceTag == 160
Parsed(err, value, at) == [err |-> err, value |-> value, at |-> at]
hdkey_zip32_parse_tlv_tag(expected, buffer, old, at) ==
  IF buffer = <<>> THEN Parsed("OK", <<>>, at)
  ELSE LET b == buffer[1]
       IN  IF at >= Len(b) THEN Parsed("OVERFLOW", old, at)
           ELSE IF at + 2 > Len(b) THEN Parsed("SHORT_BUFFER", old, at)
           ELSE IF b[at + 1] # expected THEN Parsed("NOT_FOUND", old, at + 2)
           ELSE IF at + 2 + b[at + 2] > Len(b) THEN Parsed("OVERFLOW", old, at + 2)
           ELSE Parsed("OK", IF b[at + 2] = 0 THEN <<>> ELSE <<SubSeq(b, at + 3, at + 2 + b[at + 2])>>, at + 2 + b[at + 2])

\* The loop of registered_derive: the tag sequence of the next index is read
\* while there is one; what the last parse said is what is returned.
TagNeverRead(tag, p) == tag                                               \* mutant
NextTag(tag, p) ==
  IF tag.at >= (IF p.seedKey = <<>> THEN 0 ELSE Len(p.seedKey[1])) THEN [tag EXCEPT !.err = "OK"]
  ELSE hdkey_zip32_parse_tlv_tag(SequenceTag, p.seedKey, tag.value, tag.at)

RECURSIVE RegisteredFrom(_, _, _, _, _)
RegisteredFrom(p, parent, child, tag, i) ==
  IF tag.err \notin {"OK", "NOT_FOUND"} THEN Failed(tag.err)
  ELSE IF i > Len(p.path) THEN [err |-> tag.err, out |-> child]
  ELSE LET next == HDKEY_ZIP32_hardened_derive_child(parent, p.path[i], 0, tag.value)
       IN  RegisteredFrom(p, next, next, NextTag(tag, p), i + 1)

HDKEY_ZIP32_registered_derive(p, seed) ==
  LET context == hdkey_zip32_parse_tlv_tag(ContextTag, p.seedKey, <<>>, 0)
      tag == hdkey_zip32_parse_tlv_tag(SequenceTag, p.seedKey, context.value, context.at)
      root == HDKEY_ZIP32_hardened_subtree_root_key(seed, p.path[1], context.value)
  IN  IF RoomOf(p, 1) # "OK" THEN Failed(RoomOf(p, 1))
      ELSE IF context.err # "OK" THEN Failed(context.err)
      ELSE IF tag.err # "OK" THEN Failed(tag.err)
      ELSE RegisteredFrom(p, root, <<0, 0>>, tag, 2)

\* hdkey.c
HDKEY_derive(p, checked, seed, derivesMaster, locked) ==
  LET valid == HDKEY_VALIDATE_secure_context(p, checked, derivesMaster)
  IN  CASE valid # "OK" -> Failed(valid)
        [] valid = "OK" /\ p.mode = "ALEO" -> HDKEY_BLS12377_derive(p, seed)
        [] valid = "OK" /\ p.mode = "SAPLING" -> HDKEY_ZIP32_sapling_derive(p, seed, locked)
        [] valid = "OK" /\ p.mode = "ORCHARD" -> HDKEY_ZIP32_orchard_derive(p, seed)
        [] valid = "OK" /\ p.mode = "REGISTERED" -> HDKEY_ZIP32_registered_derive(p, seed)
        [] OTHER -> Failed("NOT_IMPLEMENTED")

-----------------------------------------------------------------------------
(* What the standards say.                                                 *)

\* CKDpub: the child of a public key, from what a watching wallet knows.
RECURSIVE PublicFrom(_, _, _, _)
PublicFrom(K, chain, tmp, i) ==
  LET I == Hmac512(chain, tmp \o <<i>>)
  IN  IF I[1] >= Order \/ (I[1] + K) % Order = 0 THEN PublicFrom(K, chain, <<1, I[2]>>, i)
      ELSE [K |-> (I[1] + K) % Order, chain |-> I[2]]
CKDpub(node, i) == PublicFrom(node.K, node.chain, Compressed(node.K), i)
EdCKDpub(node, i) ==
  [K |-> (node.K + 8 * (Hmac512(node.chain, <<2, node.K, i>>)[1] % 2^EdChildBits)) % Order,
   chain |-> Hmac512(node.chain, <<3, node.K, i>>)[2]]
=============================================================================
