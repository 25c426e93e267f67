------------------------------- MODULE CxMpi -------------------------------
(***************************************************************************)
(* Multi-precision integers of the device (src/bolos/cx_mpi.c).            *)
(*                                                                         *)
(* A number lives in a slot; an operation gets slots, which may be the     *)
(* same ones (r = a + r), so each is a function of the store s (slot ->    *)
(* number) and returns the error code and the new store.  BIGNUMs are      *)
(* unbounded; what cx_mpi.c adds is the width: a number takes the fewest   *)
(* words of w bytes, and results are cut to such widths.  Numbers are      *)
(* naturals: cx_mpi_sub replaces a negative difference, and cx_mpi_dec is  *)
(* called on positive numbers only.  OpenSSL never runs out of memory.     *)
(*                                                                         *)
(* The widths are scaled down: a byte has ByteBits bits (8 in the code),   *)
(* sizes are multiples of Align bytes (16), a u32 has U32Bytes (4) and no  *)
(* number has more than MaxBytes (2048).  OpenSSL's limbs have LimbBits.   *)
(***************************************************************************)
EXTENDS Integers, FiniteSets, Bitwise

CONSTANTS ByteBits, Align, U32Bytes, MaxBytes, LimbBits

ASSUME MpiAssumption ==
  /\ {ByteBits, Align, U32Bytes, MaxBytes, LimbBits} \subseteq Nat \ {0}
  /\ MaxBytes % Align = 0

Result(e, s) == [err |-> e, s |-> s]
Ok(s) == Result("OK", s)
Set(s, r, v) == [s EXCEPT ![r] = v]

MaxOf(m, n) == IF m > n THEN m ELSE n
\* 2^(8 n): one more than the largest number of n bytes
Span(n) == 2 ^ (ByteBits * n)

-----------------------------------------------------------------------------
(* OpenSSL, as cx_mpi.c uses it.                                           *)

BN_num_bits(v) == CHOOSE k \in 0..v : v < 2^k /\ (k = 0 \/ v >= 2^(k - 1))
BN_num_bytes(v) == (BN_num_bits(v) + ByteBits - 1) \div ByteBits
BN_mask(v, n) == v % Span(n)
BN_is_bit_set(v, k) == (v \div 2^k) % 2 = 1
BN_is_prime(v) == v > 1 /\ \A d \in 2..(v - 1) : v % d # 0
BN_mod_exp(a, e, n) ==
  LET pow[k \in 0..e] == IF k = 0 THEN 1 % n ELSE (pow[k - 1] * a) % n IN pow[e]
\* Inverses and square roots as sets: empty when OpenSSL fails.
BN_mod_inverse(a, n) == {x \in 0..(n - 1) : (a * x) % n = 1}
BN_mod_sqrt(a, n) == {x \in 0..(n - 1) : (x * x) % n = a % n}
\* Product and remainder of polynomials over GF(2), as bit patterns.
GF2_mul(a, b) ==
  LET row[k \in Nat] == IF k = 0 THEN 0
                        ELSE row[k - 1] ^^ (IF BN_is_bit_set(b, k - 1) THEN a * 2^(k - 1) ELSE 0)
  IN  row[BN_num_bits(b)]
BN_GF2m_mod_mul(a, b, n) ==
  CHOOSE r \in 0..(2^(BN_num_bits(n) - 1) - 1) :
    \E q \in 0..(2^(BN_num_bits(a) + BN_num_bits(b)) - 1) : GF2_mul(q, n) ^^ r = GF2_mul(a, b)

-----------------------------------------------------------------------------
(* Widths                                                                  *)

RoundUp(n, unit) == IF n = 0 THEN unit ELSE ((n + unit - 1) \div unit) * unit

size_to_mpi_bytes(n) == RoundUp(n, Align)
size_to_mpi_word_bytes(n, w) == RoundUp(n, w)
cx_mpi_nbytes(v, w) == size_to_mpi_word_bytes(size_to_mpi_bytes(BN_num_bytes(v)), w)
TooWide(v, w) == cx_mpi_nbytes(v, w) > MaxBytes

-----------------------------------------------------------------------------
(* Conversions                                                             *)

cx_mpi_init(s, r, bytes) == Ok(Set(s, r, bytes))

\* What len bytes of destination receive: the low bytes, zeros before them.
cx_mpi_export(v, w, len) ==
  IF TooWide(v, w) THEN [err |-> "INVALID_PARAMETER", bytes |-> 0]
  ELSE [err |-> "OK", bytes |-> BN_mask(v, len)]

cx_mpi_copy(s, w, dst, src) ==
  IF dst = src THEN Ok(s)
  ELSE IF TooWide(s[src], w) THEN Result("INVALID_PARAMETER", s)
  ELSE Ok(Set(s, dst, s[src]))

cx_mpi_set_u32(s, r, n) == Ok(Set(s, r, n % Span(U32Bytes)))
cx_mpi_get_u32(v) == BN_mask(v, U32Bytes)

\* The low U32Bytes are compared; anything above them makes a the larger.
cx_mpi_cmp_u32(v, n) ==
  IF BN_num_bytes(v) > U32Bytes THEN 1
  ELSE IF v < n THEN -1 ELSE IF v = n THEN 0 ELSE 1

\* Numbers of different widths are not compared: the result stays -1.
cx_mpi_cmp(v, u, w) ==
  IF TooWide(v, w) \/ TooWide(u, w) THEN 1
  ELSE IF cx_mpi_nbytes(v, w) # cx_mpi_nbytes(u, w) \/ v < u THEN -1
  ELSE IF v = u THEN 0 ELSE 1

cx_mpi_reverse(s, r, n) ==
  LET digit(k) == (BN_mask(s[r], n) \div Span(k)) % Span(1)
      rev[k \in Nat] == IF k = 0 THEN 0 ELSE rev[k - 1] * Span(1) + digit(k - 1)
  IN  Ok(Set(s, r, rev[n]))

cx_mpi_swap(s, a, b, c) == Ok(IF c THEN [s EXCEPT ![a] = s[b], ![b] = s[a]] ELSE s)

-----------------------------------------------------------------------------
(* Bits                                                                    *)

Outside(v, w, k) == k > cx_mpi_nbytes(v, w) * ByteBits - 1

cx_mpi_tst_bit(v, w, k) ==
  IF Outside(v, w, k) THEN [err |-> "INVALID_PARAMETER", set |-> FALSE]
  ELSE [err |-> "OK", set |-> BN_is_bit_set(v, k)]
cx_mpi_set_bit(s, w, r, k) ==
  IF Outside(s[r], w, k) THEN Result("INVALID_PARAMETER", s)
  ELSE Ok(IF BN_is_bit_set(s[r], k) THEN s ELSE Set(s, r, s[r] + 2^k))
\* OpenSSL refuses a bit above the number's own top limb.
cx_mpi_clr_bit(s, r, k) ==
  IF k \div LimbBits >= (BN_num_bits(s[r]) + LimbBits - 1) \div LimbBits
  THEN Result("INTERNAL_ERROR", s)
  ELSE Ok(IF BN_is_bit_set(s[r], k) THEN Set(s, r, s[r] - 2^k) ELSE s)

\* For zero the loop reads a byte that was never written: any count may come.
cx_mpi_cnt_bits(v) == IF v = 0 THEN Nat ELSE {BN_num_bits(v)}

cx_mpi_shr(s, w, r, n) ==
  IF n > cx_mpi_nbytes(s[r], w) * ByteBits THEN Result("INVALID_PARAMETER", s)
  ELSE Ok(Set(s, r, s[r] \div 2^n))
cx_mpi_shl(s, w, r, n) ==
  LET width == cx_mpi_nbytes(s[r], w)
      t == Set(s, r, s[r] * 2^n)
  IN  IF n > width * ByteBits THEN Result("INVALID_PARAMETER", s)
      ELSE IF TooWide(t[r], w) THEN Result("INVALID_PARAMETER", t)
      ELSE Ok(Set(s, r, BN_mask(t[r], width)))

\* The shorter number is extended with zeros.
OnBytes(s, w, r, a, b, v) ==
  IF TooWide(s[a], w) \/ TooWide(s[b], w) THEN Result("INVALID_PARAMETER", s)
  ELSE Ok(Set(s, r, v))
cx_mpi_xor(s, w, r, a, b) == OnBytes(s, w, r, a, b, s[a] ^^ s[b])
cx_mpi_or(s, w, r, a, b) == OnBytes(s, w, r, a, b, s[a] | s[b])
\* No width is checked here: wider numbers overrun the buffers.
cx_mpi_and(s, w, r, a, b) ==
  IF TooWide(s[a], w) \/ TooWide(s[b], w) THEN Result("UNDEFINED", s)
  ELSE Ok(Set(s, r, s[a] & s[b]))
cx_mpi_not(s, w, r) ==
  IF TooWide(s[r], w) THEN Result("INVALID_PARAMETER", s)
  ELSE Ok(Set(s, r, Span(cx_mpi_nbytes(s[r], w)) - 1 - s[r]))

-----------------------------------------------------------------------------
(* Arithmetic                                                              *)

\* The width of the operands is measured after r was assigned: when r is one
\* of them, its new value is measured.
Width(t, w, a, b) == MaxOf(cx_mpi_nbytes(t[a], w), cx_mpi_nbytes(t[b], w))

SumNotCut(s, w, r, a, b) ==                                               \* mutant
  LET t == Set(s, r, s[a] + s[b]) IN Result(IF BN_num_bytes(t[r]) > Width(t, w, a, b) THEN "CARRY" ELSE "OK", t)
cx_mpi_add(s, w, r, a, b) ==
  LET t == Set(s, r, s[a] + s[b])
      len == Width(t, w, a, b)
  IN  IF BN_num_bytes(t[r]) > len THEN Result("CARRY", Set(t, r, BN_mask(t[r], len)))
      ELSE Ok(t)

cx_mpi_inc(s, r) == Ok(Set(s, r, s[r] + 1))
cx_mpi_dec(s, r) == Ok(Set(s, r, s[r] - 1))
cx_mpi_neg(s, w, r) ==
  LET n == cx_mpi_not(s, w, r)
  IN  IF n.err = "OK" THEN cx_mpi_inc(n.s, r) ELSE n

\* A negative difference is complemented in the width of its own magnitude.
cx_mpi_sub(s, w, r, a, b) ==
  IF s[a] >= s[b] THEN Ok(Set(s, r, s[a] - s[b]))
  ELSE LET t == Set(s, r, s[b] - s[a])
           len == Width(t, w, a, b)
           n == cx_mpi_neg(Set(t, r, BN_mask(t[r], len)), w, r)
       IN  IF n.err = "OK" THEN Result("CARRY", n.s) ELSE n

cx_mpi_mul(s, r, a, b) == Ok(Set(s, r, s[a] * s[b]))
cx_mpi_div(s, r, d, n) == IF s[n] = 0 THEN Result("INTERNAL_ERROR", s) ELSE Ok(Set(s, r, s[d] \div s[n]))
cx_mpi_rem(s, r, d, n) == IF s[n] = 0 THEN Result("INTERNAL_ERROR", s) ELSE Ok(Set(s, r, s[d] % s[n]))

\* Random numbers: the set of what may come.
cx_mpi_rand(s, w, r) == {Ok(Set(s, r, v)) : v \in 0..(Span(cx_mpi_nbytes(s[r], w)) - 1)}
cx_mpi_rng(s, r, n) ==
  IF s[n] < 2 THEN {Result("INVALID_PARAMETER", s)}
  ELSE {Ok(Set(s, r, v)) : v \in 1..(s[n] - 1)}

-----------------------------------------------------------------------------
(* Modular arithmetic, primes                                              *)

cx_mpi_mod_add(s, r, a, b, n) ==
  IF s[n] = 0 THEN Result("INTERNAL_ERROR", s) ELSE Ok(Set(s, r, (s[a] + s[b]) % s[n]))
cx_mpi_mod_sub(s, r, a, b, n) ==
  IF s[n] = 0 THEN Result("INTERNAL_ERROR", s) ELSE Ok(Set(s, r, (s[a] - s[b]) % s[n]))
cx_mpi_mod_mul(s, r, a, b, n) ==
  IF s[n] % 2 = 0 THEN Result("INVALID_PARAMETER_VALUE", s)
  ELSE Ok(Set(s, r, (s[a] * s[b]) % s[n]))
cx_mpi_mod_pow(s, r, a, e, n) ==
  IF s[n] % 2 = 0 THEN Result("INVALID_PARAMETER", s)
  ELSE Ok(Set(s, r, BN_mod_exp(s[a], s[e], s[n])))
\* Fermat: the inverse when n is prime.  room: the exponent could be allocated.
cx_mpi_mod_invert_nprime(s, r, a, n, room) ==
  IF ~room THEN Result("MEMORY_FULL", s)
  ELSE IF s[n] = 0 THEN Result("INTERNAL_ERROR", s)
  ELSE Ok(Set(s, r, BN_mod_exp(s[a], MaxOf(s[n], 2) - 2, s[n])))
cx_mpi_mod_u32_invert(s, r, e, n) ==
  LET t == cx_mpi_set_u32(s, r, e).s
      inv == BN_mod_inverse(t[r], t[n])
  IN  IF inv = {} THEN Result("INTERNAL_ERROR", t) ELSE Ok(Set(t, r, CHOOSE x \in inv : TRUE))

\* For a prime n.  OpenSSL returns either root; the other one is taken when the parity is wrong.
cx_mpi_mod_sqrt(s, r, a, n, sign) ==
  LET roots == BN_mod_sqrt(s[a], s[n])
      signed(x) == IF x % 2 = sign THEN x ELSE s[n] - x
  IN  IF roots = {} THEN {Result("INTERNAL_ERROR", s)}
      ELSE {Ok(Set(s, r, signed(x))) : x \in roots}

cx_mpi_is_prime(v) == BN_is_prime(v)

\* Odd numbers from x + 2 on; an even x is made odd first and then skipped.
cx_mpi_next_prime(s, w, r) ==
  LET odd == s[r] + (IF s[r] % 2 = 0 THEN 1 ELSE 0)
      width == cx_mpi_nbytes(odd, w)
      beyond(v) == cx_mpi_nbytes(v, w) > width
      stop(v) == v > odd /\ v % 2 = 1 /\ (beyond(v) \/ BN_is_prime(v))
      last == CHOOSE v \in (odd + 2)..(Span(width) + 1) :
                stop(v) /\ \A u \in (odd + 2)..(v - 1) : ~stop(u)
  IN  Result(IF beyond(last) THEN "OVERFLOW" ELSE "OK", Set(s, r, last))

cx_mpi_gf2_n_mul(s, r, a, b, n) ==
  IF s[n] = 0 THEN Result("INTERNAL_ERROR", s)
  ELSE Ok(Set(s, r, BN_GF2m_mod_mul(s[a], s[b], s[n])))
=============================================================================
