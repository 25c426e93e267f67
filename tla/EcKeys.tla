------------------------------- MODULE EcKeys -------------------------------
(***************************************************************************)
(* Keys and signatures: the second half of cx_ec.c and cx_rng_rfc6979.c.   *)
(*                                                                         *)
(* What HMAC and the hash functions return is any value, so a signature is *)
(* a set of outcomes, one for each nonce.                                  *)
(* "THROW" and "EXIT" stand for THROW(INVALID_PARAMETER) and errx.         *)
(***************************************************************************)
EXTENDS EcCurves, Der, SequencesExt

-----------------------------------------------------------------------------
(* Nonces.  q has q_len bits and the buffers r_len, the next multiple of   *)
(* eight; a string of b_len bits is a sequence of bytes.                   *)

cx_rfc6979_bitslength(q) ==
  LET n == Stripped(q) IN IF n = <<>> THEN 0 ELSE 8 * (Len(n) - 1) + CHOOSE k \in 1..8 : n[1] < 2^k /\ n[1] >= 2^(k - 1)
RLen(q) == (cx_rfc6979_bitslength(q) + 7) \div 8

cx_rfc6979_bits2int(q, b) ==
  LET r == RLen(q)
      shift == (8 * Len(b) - cx_rfc6979_bitslength(q)) % 8
      carry(i) == IF i = 1 THEN 0 ELSE (b[i - 1] * 2^(8 - shift)) % 256
  IN  IF 8 * Len(b) > cx_rfc6979_bitslength(q)
      THEN IF shift = 0 THEN SubSeq(b, 1, r)
           ELSE [i \in 1..r |-> carry(i) + b[i] \div 2^shift]
      ELSE [i \in 1..r |-> IF i <= r - Len(b) THEN 0 ELSE b[i - (r - Len(b))]]

Number(b) == FoldLeft(LAMBDA n, d : n * 256 + d, 0, b)
Octets(n, len) == [i \in 1..len |-> (n \div 256^(len - i)) % 256]

\* q itself is not reduced.
cx_rfc6979_bits2octets(q, b) ==
  LET z == Number(cx_rfc6979_bits2int(q, b))
  IN  Octets(IF z > Number(q) THEN z - Number(q) ELSE z, RLen(q))
cx_rfc6979_int2octets(q, b) ==
  LET r == RLen(q)
  IN  IF Len(b) < r THEN [i \in 1..(r - Len(b)) |-> 0] \o b ELSE SubSeq(b, Len(b) - r + 1, Len(b))

\* HMAC returns md bytes: what K and V are after init, and the candidates of
\* next, are chains of it.  A call is the term <<key, message>>.
cx_rfc6979_hmacVK(c, opt, data) == <<c.k, <<c.v>> \o opt \o data>>
spec_cx_rng_rfc6979_init(q, x, h1) ==
  LET data == <<cx_rfc6979_int2octets(q, x), cx_rfc6979_bits2octets(q, h1)>>
      keyed(c, byte) == [c EXCEPT !.k = cx_rfc6979_hmacVK(c, <<byte>>, data)]
      stepped(c) == [c EXCEPT !.v = cx_rfc6979_hmacVK(c, <<>>, <<>>)]
  IN  FoldLeft(LAMBDA c, byte : stepped(keyed(c, byte)), [k |-> "zeros", v |-> "ones"], <<0, 1>>)

\* The bytes T that HMAC yields, one after the other, until one is below q.
spec_cx_rng_rfc6979_next(q, Ts) ==
  LET k(i) == Number(cx_rfc6979_bits2int(q, SubSeq(Ts[i], 1, RLen(q))))
      found == {i \in DOMAIN Ts : k(i) < Number(q)}
  IN  IF found = {} THEN <<>> ELSE <<k(CHOOSE i \in found : \A j \in found : i <= j)>>

-----------------------------------------------------------------------------
(* ECDSA with key d on a Weierstrass curve, for a hash h below n.          *)

NInv(D, a) == CHOOSE x \in 1..(D.n - 1) : (a * x) % D.n = 1
Base(D) == <<D.x, D.y>>

\* ECDSA_do_sign_ex and ECDSA_do_verify of OpenSSL.
ECDSA_do_sign_ex(D, d, h, k, r) == (NInv(D, k) * ((h + r * d) % D.n)) % D.n
ECDSA_do_verify(D, W, h, r, s) ==
  /\ r \in 1..(D.n - 1) /\ s \in 1..(D.n - 1)
  /\ LET w == NInv(D, s)
         X == EC_POINT_add(D, EC_POINT_mul(D, Base(D), (h * w) % D.n), EC_POINT_mul(D, W, (r * w) % D.n))
     IN  X # <<"inf">> /\ (IF X = <<"inf">> THEN FALSE ELSE X[1] % D.n = r)

ParityKept(D, d, h, k, first, canonical, info) ==                         \* mutant
  LET R == EC_POINT_mul(D, Base(D), k)
      r == R[1] % D.n
      s == ECDSA_do_sign_ex(D, d, h, k, r)
      high == canonical /\ s > D.n \div 2
  IN  IF r = 0 \/ s = 0 THEN Ret("AGAIN", info)
      ELSE Ret("OK", [r |-> r, s |-> IF high THEN D.n - s ELSE s, odd |-> R[2] % 2 = 1, xGTn |-> R[1] >= D.n])
\* One pass of the loop: the nonce k gives r, s and the flags in info, which
\* keep what was there.  When r is zero the loop tests the pointer of the pass
\* before, which the first pass finds unwritten; when s is, OpenSSL fails.
SignWith(D, d, h, k, first, canonical, info) ==
  LET R == EC_POINT_mul(D, Base(D), k)
      r == R[1] % D.n
      s == ECDSA_do_sign_ex(D, d, h, k, r)
      high == canonical /\ s > D.n \div 2
      odd == info.odd \/ R[2] % 2 = 1
      over == info.xGTn \/ R[1] >= D.n
  IN  IF R = <<"inf">> THEN Ret("EXIT", info)
      ELSE IF r = 0 THEN Ret(IF first THEN "UNDEFINED" ELSE "AGAIN", [info EXCEPT !.xGTn = over])
      ELSE IF s = 0 THEN Ret("AGAIN", [odd |-> odd, xGTn |-> over])
      ELSE Ret("OK", [r |-> r, s |-> IF high THEN D.n - s ELSE s,
                      odd |-> IF high THEN ~odd ELSE odd, xGTn |-> over])
\* ks: the nonces drawn, in order; info: the flags the caller passes.
sys_cx_ecdsa_sign(D, d, h, ks, canonical, info) ==
  LET pass(ret, i) == IF ret.err # "AGAIN" THEN ret ELSE SignWith(D, d, h, ks[i], i = 1, canonical, ret.v)
  IN  FoldLeft(pass, Ret("AGAIN", info), [i \in DOMAIN ks |-> i])

sys_cx_ecdsa_verify(D, W, h, sig) ==
  /\ OnWeierstrass(D, W[1], W[2])
  /\ ECDSA_do_verify(D, W, h, sig.r, sig.s)

-----------------------------------------------------------------------------
(* Keys                                                                    *)

\* A public key is its first byte and its length; refused ones throw.
sys_cx_ecfp_init_public_key(D, prefix, len) ==
  LET expected == CASE prefix = 2 /\ D.kind # "WEIERSTRASS" -> 1 + D.length
                    [] prefix = 4 /\ D.kind # "MONTGOMERY" -> 1 + 2 * D.length
                    [] OTHER -> 0
  IN  IF expected = 0 \/ len # expected THEN Ret("THROW", 0) ELSE Ret("OK", len)

\* digest: the low half of SHA-512 of the key.
sys_cx_eddsa_get_public_key(D, sha512, len, digest) ==
  LET low == (digest - (digest % 8)) % 2^(D.bits - 1)
      clamped == IF BN_is_bit_set(low, D.bits - 2) THEN low ELSE low + 2^(D.bits - 2)
  IN  IF ~sha512 \/ len # D.length THEN Ret("EXIT", <<>>)
      ELSE Ret("OK", scalarmult_ed25519(D, Base(D), clamped))

sys_cx_ecfp_generate_pair2(D, d, digest) ==
  IF D.curve = "Ed25519" THEN sys_cx_eddsa_get_public_key(D, TRUE, D.length, digest)
  ELSE Ret("OK", EC_POINT_mul(D, Base(D), d))

sys_cx_ecfp_scalar_mult(D, prefix, P, k) ==
  LET c == scalarmult_curve25519(D, k, P[1])
      w == cx_weierstrass_mult(D, P[1], P[2], k)
  IN  CASE D.curve = "Curve25519" -> IF prefix # 2 \/ c.err # 0 THEN Ret("EXIT", P) ELSE Ret("OK", <<c.v, P[2]>>)
        [] D.curve = "Ed25519" -> Ret("OK", scalarmult_ed25519(D, P, k))
        [] D.curve = "SECP256K1" -> IF prefix # 4 \/ w.err # "OK" THEN Ret("EXIT", P) ELSE Ret("OK", w.v)
        [] OTHER -> Ret("EXIT", P)

sys_cx_ecfp_add_point(D, P, Q) ==
  IF D.curve = "Ed25519" THEN Ret("OK", edwards_add(D, P, Q)) ELSE Ret("EXIT", P)

\* The point of CX_ECDH_POINT needs a buffer for 32-byte coordinates.
ecdh_simple_compute_key_hack(D, d, W, room) ==
  LET R == EC_POINT_mul(D, W, d) IN IF R = <<"inf">> \/ room < 65 THEN <<>> ELSE R
sys_cx_ecdh(D, d, W, mode, room) ==
  LET R == ecdh_simple_compute_key_hack(D, d, W, room)
  IN  IF mode = "POINT" THEN IF R = <<>> THEN Ret("THROW", R) ELSE Ret("OK", R)
      ELSE Ret("OK", <<EC_POINT_mul(D, W, d)[1]>>)

=============================================================================
