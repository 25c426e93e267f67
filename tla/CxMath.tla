------------------------------- MODULE CxMath -------------------------------
(***************************************************************************)
(* The older arithmetic calls (cx_math.c) and the byte helpers of          *)
(* cx_utils.c.                                                             *)
(*                                                                         *)
(* A buffer of len bytes is its big-endian number for cx_math.c and a      *)
(* sequence of bytes for cx_utils.c.  A call returns what its result       *)
(* buffer holds afterwards, r being what it held before, and its value.    *)
(* Moduli are not zero.  The widths are those of CxMpi.                    *)
(***************************************************************************)
EXTENDS CxMpi, SequencesExt

Written(buffer, value) == [buffer |-> buffer, value |-> value]
ReturnsNothing == -559038737   \* 0xdeadbeef as an int

\* BN_bn2binpad writes nothing when the number is too long, and the absolute value of a negative one.
Abs(n) == IF n < 0 THEN -n ELSE n
BN_bn2binpad(r, n, len) == IF Abs(n) < Span(len) THEN Abs(n) ELSE r
BN_bn2binpad_truncate(n, len) == [to |-> n % Span(len), truncated |-> n >= Span(len)]

sys_cx_math_cmp(a, b) == IF a = b THEN 0 ELSE IF a < b THEN -1 ELSE 1
sys_cx_math_is_zero(a) == IF a = 0 THEN 1 ELSE 0
sys_cx_math_add(a, b, len) ==
  LET rr == BN_bn2binpad_truncate(a + b, len) IN Written(rr.to, IF rr.truncated THEN 1 ELSE 0)
\* The difference of a smaller number is not taken modulo the width, and no borrow is reported.
sys_cx_math_sub(r, a, b, len) == Written(BN_bn2binpad(r, a - b, len), 0)
sys_cx_math_mult(r, a, b, len) == Written(BN_bn2binpad(r, a * b, 2 * len), ReturnsNothing)
sys_cx_math_addm(r, a, b, m, len) == Written(BN_bn2binpad(r, (a + b) % m, len), ReturnsNothing)
sys_cx_math_subm(r, a, b, m, len) == Written(BN_bn2binpad(r, (a - b) % m, len), 0)
sys_cx_math_multm(r, a, b, m, len) == Written(BN_bn2binpad(r, (a * b) % m, len), ReturnsNothing)
sys_cx_math_powm(r, a, e, m, len) == Written(BN_bn2binpad(r, BN_mod_exp(a, e, m), len), 0)
sys_cx_math_modm(v, len_v, m) == Written(BN_bn2binpad(v, v % m, len_v), ReturnsNothing)
\* The number stays zero, and is written, where there is no inverse.
Inverted(r, a, m, len) ==
  LET inverses == IF m = 1 THEN {} ELSE BN_mod_inverse(a, m)
  IN  BN_bn2binpad(r, IF inverses = {} THEN 0 ELSE CHOOSE x \in inverses : TRUE, len)
sys_cx_math_invprimem(r, a, m, len) == Written(Inverted(r, a, m, len), 0)
sys_cx_math_invintm(r, a, m, len) == Written(Inverted(r, a % Span(U32Bytes), m, len), 0)
sys_cx_math_is_prime(a) == IF BN_is_prime(a) THEN 1 ELSE 0
\* The prime is found but never written to the buffer.
sys_cx_math_next_prime(buf) == Written(buf, 0)

-----------------------------------------------------------------------------
(* Bytes: v is a sequence of them, and a word has four.                    *)

Swapped(v, i, j) == [v EXCEPT ![i] = v[j], ![j] = v[i]]

\* i and j are moved twice in each turn of the loop.
be2le(v) ==
  FoldLeft(LAMBDA w, turn : Swapped(w, 2 * turn + 1, Len(v) - 2 * turn), v, [t \in 1..(Len(v) \div 2) |-> t - 1])
le2be(v) == be2le(v)
cx_swap_bytes(v) ==
  FoldLeft(LAMBDA w, i : Swapped(w, i, Len(v) + 1 - i), v, [i \in 1..(Len(v) \div 2) |-> i])

spec_cx_swap_uint32(v) == <<v[4], v[3], v[2], v[1]>>
spec_cx_swap_uint64(v) == spec_cx_swap_uint32(SubSeq(v, 5, 8)) \o spec_cx_swap_uint32(SubSeq(v, 1, 4))
spec_cx_swap_buffer32(words) == [i \in DOMAIN words |-> spec_cx_swap_uint32(words[i])]
spec_cx_swap_buffer64(words) == [i \in DOMAIN words |-> spec_cx_swap_uint64(words[i])]

U2BE_ENCODE(value) == <<(value \div 256) % 256, value % 256>>
U4BE_ENCODE(value) == <<(value \div 2^24) % 256, (value \div 2^16) % 256, (value \div 256) % 256, value % 256>>
U4LE_ENCODE(value) == spec_cx_swap_uint32(U4BE_ENCODE(value))
U2BE(v) == v[1] * 256 + v[2]
U4BE(v) == v[1] * 2^24 + v[2] * 2^16 + v[3] * 256 + v[4]
cx_memxor(v, w) == [i \in DOMAIN v |-> v[i] ^^ w[i]]
=============================================================================
