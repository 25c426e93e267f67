---------------------------- MODULE Endorsement ----------------------------
(***************************************************************************)
(* The endorsement keys: endorsement.c and their part of environment.c.    *)
(*                                                                         *)
(* E is the environment after env_init_endorsement.  A private key is      *)
(* [d_len, d]; k is the nonce that cx_ecdsa_sign is given; a string that   *)
(* is hashed is a sequence of numbers, which Sha256 maps below the order.  *)
(***************************************************************************)
EXTENDS EcKeys

CONSTANTS Sha256(_), CODE_HASH

NoInfo == [odd |-> FALSE, xGTn |-> FALSE]
\* sys_cx_ecdsa_sign into a buffer, in DER, and the length that is taken from its second byte.
CutToLength(der) == SubSeq(der, 1, der[2] + 2)
InDer(sig, room) ==
  IF sig.err # "OK" THEN Ret(sig.err, <<>>)
  ELSE Ret("OK", CutToLength(spec_cx_ecfp_encode_sig_der(room, <<sig.v.r>>, <<sig.v.s>>)))
Signed(D, d, hash, k, room) == InDer(sys_cx_ecdsa_sign(D, d, hash, <<k>>, TRUE, NoInfo), room)

-----------------------------------------------------------------------------
\* unhex: a text is its number of hexadecimal digits, -1 for one with another character, and its value.
unhex(room, text) == IF text.digits < 0 \/ text.digits > 2 * room THEN -1 ELSE text.digits \div 2

\* A key in the environment variable counts only when it is hexadecimal and has the size of the key.
env_init_user_hex_private_key(texts, default) ==
  LET good == {t \in texts : unhex(default.d_len, t) = default.d_len}
  IN  IF good = {} THEN default ELSE [default EXCEPT !.d = (CHOOSE t \in good : TRUE).value]

env_get_user_private_key(E, index) == E.user[index]
PublicPoint(D, key) == sys_cx_ecfp_generate_pair2(D, key.d, key.d).v

\* The certificate of a slot: the attestation key signs 0xfe and the public key.
env_init_user_certificate(D, attestation, user, k) ==
  Signed(D, attestation.d, Sha256(<<254>> \o PublicPoint(D, user)), k, 72).v

\* Both slots read the same environment variable.
Environment(D, attestation, user, k) ==
  [attestation |-> attestation, user |-> <<user, user>>,
   certificate |-> [index \in 1..2 |-> env_init_user_certificate(D, attestation, user, k)]]
env_init_endorsement(D, attestation, user, defaults, k) ==
  Environment(D, env_init_user_hex_private_key(attestation, defaults.attestation),
              env_init_user_hex_private_key(user, defaults.user), k)

-----------------------------------------------------------------------------
sys_os_endorsement_get_code_hash == CODE_HASH
sys_os_endorsement_get_public_key(D, E, index) ==
  IF index \notin 1..2 THEN Ret("THROW", <<>>) ELSE Ret("OK", PublicPoint(D, env_get_user_private_key(E, index)))
sys_os_endorsement_get_public_key_certificate(E, index) ==
  IF index \notin 1..2 THEN Ret("THROW", <<>>)
  ELSE IF E.certificate[index] = <<>> THEN Ret("THROW", <<>>)
  ELSE Ret("OK", E.certificate[index])
sys_os_endorsement_key1_sign_data(D, E, data, k) ==
  Signed(D, env_get_user_private_key(E, 1).d, Sha256(data \o sys_os_endorsement_get_code_hash), k, 72)
sys_os_endorsement_key1_sign_without_code_hash(D, E, data, k) ==
  Signed(D, env_get_user_private_key(E, 1).d, Sha256(data), k, 72)

\* The calls of the later API levels return a code.
Fail(code) == Ret(code, <<>>)
sys_ENDORSEMENT_get_public_key(D, E, slot) ==
  IF slot \notin 1..2 THEN Fail("4209")
  ELSE IF E.user[slot].d_len = 0 THEN Fail("4103")
  ELSE Ret("OK", PublicPoint(D, E.user[slot]))
sys_ENDORSEMENT_key1_sign_data(D, E, data, k) ==
  IF E.user[1].d_len = 0 THEN Fail("4106") ELSE sys_os_endorsement_key1_sign_data(D, E, data, k)
sys_ENDORSEMENT_key1_sign_without_code_hash(D, E, data, k) ==
  IF E.user[1].d_len = 0 THEN Fail("4117") ELSE sys_os_endorsement_key1_sign_without_code_hash(D, E, data, k)
sys_ENDORSEMENT_get_public_key_certificate(E, slot) ==
  IF slot \notin 1..2 THEN Fail("420A")
  ELSE IF E.certificate[slot] = <<>> THEN Fail("4104")
  ELSE Ret("OK", E.certificate[slot])
sys_ENDORSEMENT_GET_CODE_HASH(room) ==
  IF room < 32 THEN Fail("1") ELSE Ret("OK", sys_os_endorsement_get_code_hash)
=============================================================================
