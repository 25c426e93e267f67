------------------------------ MODULE EcCurves ------------------------------
(***************************************************************************)
(* Points of elliptic curves: cx_ecpoint.c, cx_weierstrass.c,              *)
(* cx_twisted_edwards.c, cx_montgomery.c, cx_ed25519.c and                 *)
(* cx_curve25519.c, for any domain record D (cx_ec_domain.c).              *)
(*                                                                         *)
(* D.kind is the range of the curve and D.curve its identifier; D.p, D.a,  *)
(* D.b, D.n, D.h, D.x and D.y are its parameters, D.length its bytes and   *)
(* D.bits its bit_size.  A point is [x, y, z].  Calls that write a point   *)
(* take the store s (name -> point) when the names may be equal, and       *)
(* return the error code and what they wrote.  Temporaries are always      *)
(* found (CxBn has the memory) and OpenSSL's own failures are left out.    *)
(* The limbs of cx_curve25519.c are abstracted to the element they stand   *)
(* for.                                                                    *)
(***************************************************************************)
EXTENDS CxMpi, Sequences

Pt(x, y, z) == [x |-> x, y |-> y, z |-> z]
Infinity == Pt(0, 1, 0)
Ret(e, v) == [err |-> e, v |-> v]

-----------------------------------------------------------------------------
(* The field                                                               *)
FAdd(D, a, b) == (a + b) % D.p
FSub(D, a, b) == (a - b) % D.p
FMul(D, a, b) == (a * b) % D.p
\* cx_mpi_mod_invert_nprime: zero has inverse zero.
FInv(D, a) == IF a % D.p = 0 THEN 0 ELSE CHOOSE x \in BN_mod_inverse(a, D.p) : TRUE

\* cx_mpi_mod_sqrt on the square of a coordinate, with the test before it
\* that refuses a sign for zero.  Any root of either parity may come first.
Root(D, square, sign) ==
  LET roots == BN_mod_sqrt(square, D.p)
  IN  IF square = 0 /\ sign = 1 THEN Ret("INVALID_PARAMETER", 0)
      ELSE IF roots = {} THEN Ret("INTERNAL_ERROR", 0)
      ELSE Ret("OK", CHOOSE x \in 0..D.p : \E r \in roots : x = IF r % 2 = sign THEN r ELSE D.p - r)

-----------------------------------------------------------------------------
(* OpenSSL's groups of Weierstrass curves: affine pairs and "inf".         *)
OnWeierstrass(D, x, y) == (y * y) % D.p = FAdd(D, FMul(D, FMul(D, x, x), x), D.a * x + D.b)

EC_POINT_add(D, P, Q) ==
  LET slope == IF P = Q THEN FMul(D, 3 * P[1] * P[1] + D.a, FInv(D, 2 * P[2]))
               ELSE FMul(D, Q[2] - P[2], FInv(D, Q[1] - P[1]))
      x == FSub(D, slope * slope, P[1] + Q[1])
  IN  CASE P = <<"inf">> -> Q
        [] P # <<"inf">> /\ Q = <<"inf">> -> P
        [] OTHER -> IF P[1] = Q[1] /\ (P[2] + Q[2]) % D.p = 0 THEN <<"inf">>
                    ELSE <<x, FSub(D, slope * (P[1] - x), P[2])>>
EC_POINT_mul(D, P, k) ==
  LET mul[i \in 0..k] == IF i = 0 THEN <<"inf">> ELSE EC_POINT_add(D, mul[i - 1], P) IN mul[k]

cx_weierstrass_mult(D, x, y, k) ==
  LET Q == EC_POINT_mul(D, <<x % D.p, y % D.p>>, k)
  IN  IF ~OnWeierstrass(D, x, y) \/ Q = <<"inf">> THEN Ret("INTERNAL_ERROR", <<>>) ELSE Ret("OK", Q)

cx_weierstrass_recover_y(D, x, sign) ==
  Root(D, FAdd(D, FAdd(D, D.b, FMul(D, D.a, x)), FMul(D, FMul(D, x, x), x)), sign)

-----------------------------------------------------------------------------
(* Twisted Edwards curves a x^2 + y^2 = 1 + b x^2 y^2                      *)

DoubleForAOne(D, P) ==                                                    \* mutant
  LET A == FMul(D, P.x, P.x)
      B == FMul(D, P.y, P.y)
      E == FSub(D, (P.x + P.y) * (P.x + P.y), A + B)
      F == FSub(D, A + B, 2 * P.z * P.z)
  IN  [x |-> FMul(D, E, F), y |-> FMul(D, A + B, A - B), z |-> FMul(D, F, A + B), t |-> FMul(D, E, A - B)]
\* In extended coordinates, with t = x y / z.
cx_twisted_edwards_dbl(D, P) ==
  LET A == FMul(D, P.x, P.x)
      B == FMul(D, P.y, P.y)
      C == FAdd(D, P.z * P.z, P.z * P.z)
      E == FSub(D, (P.x + P.y) * (P.x + P.y), A + B)
      dA == FMul(D, D.a, A)
      G == FAdd(D, dA, B)
      F == FSub(D, G, C)
      H == FSub(D, dA, B)
  IN  [x |-> FMul(D, E, F), y |-> FMul(D, G, H), z |-> FMul(D, F, G), t |-> FMul(D, E, H)]

\* The projective sum, written to the second point.
cx_twisted_edwards_add_simple(D, P, Q) ==
  LET A == FMul(D, P.z, Q.z)
      B == FMul(D, A, A)
      C == FMul(D, P.x, Q.x)
      Dd == FMul(D, P.y, Q.y)
      F == FMul(D, FMul(D, D.b, C), Dd)
      E == FSub(D, B, F)
      G == FAdd(D, B, F)
      cross == FSub(D, (P.x + P.y) * (Q.x + Q.y), C + Dd)
  IN  Pt(FMul(D, A, FMul(D, cross, E)), FMul(D, FMul(D, G, FSub(D, Dd, D.a * C)), A), FMul(D, E, G))

\* The sum for the ladder, which does not use b: not for equal points.
cx_twisted_edwards_add(D, P, Q) ==
  LET A == FMul(D, P.x, Q.x)
      B == FMul(D, P.y, Q.y)
      C == FMul(D, P.z, Q.t)
      Dd == FMul(D, P.t, Q.z)
      F == FAdd(D, FSub(D, B, A), FMul(D, FSub(D, P.x, P.y), FAdd(D, Q.x, Q.y)))
      G == FAdd(D, B, D.a * A)
      E == FAdd(D, Dd, C)
      H == FSub(D, Dd, C)
  IN  [x |-> FMul(D, E, F), y |-> FMul(D, G, H), z |-> FMul(D, F, G), t |-> FMul(D, E, H)]

cx_twisted_edwards_recover_x(D, y, sign) ==
  LET yy == FMul(D, y, y)
  IN  Root(D, FMul(D, FSub(D, yy, 1), FInv(D, FSub(D, FMul(D, yy, D.b), D.a))), sign)

\* To affine coordinates; a Weierstrass point is Jacobian.
cx_mpi_ecpoint_normalize(D, P) ==
  LET i == FInv(D, P.z)
      ii == FMul(D, i, i)
  IN  IF P.z = 0 THEN Ret("EC_INFINITE_POINT", Infinity)
      ELSE IF P.z = 1 THEN Ret("OK", P)
      ELSE IF D.kind = "WEIERSTRASS"
      THEN Ret("OK", Pt(FMul(D, P.x, ii), FMul(D, P.y, FMul(D, ii, i)), 1))
      ELSE Ret("OK", Pt(FMul(D, P.x, i), FMul(D, P.y, i), 1))

\* r receives p before q is read, so r = q adds p to itself.  The infinity of
\* opposite points is reported by the normalisation.
cx_twisted_edwards_add_point(D, s, r, p, q) ==
  LET t == [s EXCEPT ![r] = s[p]]
      sum == IF t[p].y # t[q].y THEN cx_twisted_edwards_add_simple(D, t[q], t[r])
             ELSE IF t[p].x # t[q].x THEN Infinity
             ELSE LET two == cx_twisted_edwards_dbl(D, t[r]) IN Pt(two.x, two.y, two.z)
      n == cx_mpi_ecpoint_normalize(D, sum)
  IN  Ret(n.err, [t EXCEPT ![r] = n.v])

\* A ladder on <<R0, R1>> = <<m P, (m + 1) P>> from below the top bit of k.
cx_twisted_edwards_mul_point(D, P, k) ==
  LET one == [x |-> P.x, y |-> P.y, z |-> P.z, t |-> FMul(D, P.x, P.y)]
      top == BN_num_bits(k) - 1
      step(R, bit) ==
        LET sum == cx_twisted_edwards_add(D, R[bit + 1], R[2 - bit])
            two == cx_twisted_edwards_dbl(D, R[bit + 1])
        IN  IF bit = 1 THEN <<sum, two>> ELSE <<two, sum>>
      \* RR at bit position i
      RR[i \in 0..top] ==
        IF i = top THEN <<one, cx_twisted_edwards_dbl(D, one)>>
        ELSE step(RR[i + 1], IF BN_is_bit_set(k, i) THEN 1 ELSE 0)
      R0 == RR[0][1]
  IN  IF k = 0 THEN Ret("EC_INFINITE_POINT", Infinity)
      ELSE cx_mpi_ecpoint_normalize(D, Pt(R0.x, R0.y, R0.z))

-----------------------------------------------------------------------------
(* Montgomery curves b y^2 = x^3 + a x^2 + x                               *)

cx_montgomery_recover_y(D, x, sign) ==
  LET xx == FMul(D, x, x)
  IN  Root(D, FMul(D, FAdd(D, FAdd(D, FMul(D, D.a, xx), x), FMul(D, xx, x)), FInv(D, D.b)), sign)

cx_montgomery_is_point_on_curve(D, P) ==
  IF P.z = 0 THEN Ret("EC_INFINITE_POINT", FALSE)
  ELSE Ret("OK", FSub(D, FMul(D, P.x, P.x) * P.x + D.a * FMul(D, P.x, P.x) + P.x, D.b * P.y * P.y) = 0)

\* The u coordinate of a byte string read from its end: the top bit is masked
\* for Curve25519.
cx_decode_coordinate(D, u) ==
  LET masked == IF D.curve = "Curve25519" /\ BN_is_bit_set(u, ByteBits - 1) THEN u - 2^(ByteBits - 1) ELSE u
  IN  cx_mpi_reverse([r \in {1} |-> masked], 1, D.length).s[1]

\* The scalar, also a byte string read from its end, is clamped.
cx_decode_scalar(D, k) ==
  IF D.curve = "Curve25519"
  THEN LET low == (k - (k % 8)) % 2^(D.bits - 1)
       IN  IF BN_is_bit_set(low, D.bits - 2) THEN low ELSE low + 2^(D.bits - 2)
  ELSE LET low == k - (k % 4)
       IN  IF BN_is_bit_set(low, D.bits - 1) THEN low ELSE low + 2^(D.bits - 1)

\* The ladder on the u coordinate: L.a and L.b are <<X, Z>> of m P and of
\* (m + 1) P, exchanged when L.swap; Z is the new Z of the double, from the
\* squares AA and BB of the sum and the difference.
Ladder(D, u, k, top, Z) ==
  LET turn(L, bit) ==
        LET sw == L.swap # bit
            P == IF sw THEN L.b ELSE L.a
            Q == IF sw THEN L.a ELSE L.b
            AA == FMul(D, P[1] + P[2], P[1] + P[2])
            BB == FMul(D, P[1] - P[2], P[1] - P[2])
            DA == FMul(D, Q[1] - Q[2], P[1] + P[2])
            CB == FMul(D, Q[1] + Q[2], P[1] - P[2])
        IN  [swap |-> bit,
             a |-> <<FMul(D, AA, BB), Z[AA, BB]>>,
             b |-> <<FMul(D, DA + CB, DA + CB), FMul(D, u, FMul(D, DA - CB, DA - CB))>>]
      at[i \in 0..(top + 1)] ==
        IF i = top + 1 THEN [swap |-> FALSE, a |-> <<1, 0>>, b |-> <<u, 1>>]
        ELSE turn(at[i + 1], BN_is_bit_set(k, i))
      R == IF at[0].swap THEN at[0].b ELSE at[0].a
  IN  FMul(D, FInv(D, R[2]), R[1])

cx_montgomery_mul_coordinate(D, u, k) ==
  LET A24 == (D.a - 2) \div 4
      Z == [AA, BB \in 0..(D.p - 1) |-> FMul(D, FSub(D, AA, BB), FAdd(D, FMul(D, A24, FSub(D, AA, BB)), AA))]
      top == IF D.curve = "Curve25519" THEN D.bits - 2 ELSE D.bits - 1
  IN  IF k = 0 THEN Ret("EC_INFINITE_POINT", u)
      ELSE Ret("OK", Ladder(D, cx_decode_coordinate(D, u) % D.p, cx_decode_scalar(D, k), top, Z))

\* The error of the multiplication is not looked at.
sys_cx_ecpoint_x25519(D, u, k) == Ret("OK", cx_montgomery_mul_coordinate(D, u, k).v)
sys_cx_ecpoint_x448(D, u, k) == Ret("OK", cx_montgomery_mul_coordinate(D, u, k).v)

-----------------------------------------------------------------------------
(* cx_curve25519.c: big-endian, the scalar is not clamped.                 *)
fe_frombytes(D, v) == (v % 2^(D.bits - 1)) % D.p
fe_tobytes(D, f) == f % D.p
fe_add(D, f, g) == FAdd(D, f, g)
fe_sub(D, f, g) == FSub(D, f, g)
fe_mul(D, f, g) == FMul(D, f, g)
fe_mul121666(D, f) == FMul(D, (D.a + 2) \div 4, f)
curve25519_scalar_mult_generic(D, k, v) ==
  LET Z == [AA, BB \in 0..(D.p - 1) |->
             LET E == fe_sub(D, AA, BB) IN fe_mul(D, E, fe_add(D, BB, fe_mul121666(D, E)))]
  IN  fe_tobytes(D, Ladder(D, fe_frombytes(D, v), k, D.bits - 2, Z))
scalarmult_curve25519(D, k, v) ==
  LET out == curve25519_scalar_mult_generic(D, k, v) IN Ret(IF out = 0 THEN -1 ELSE 0, out)

-----------------------------------------------------------------------------
(* cx_ed25519.c: affine, a = -1 and d1 = D.b.                              *)
initialize(D) == [d1 |-> D.b, I |-> CHOOSE i \in 0..(D.p - 1) : (i * i + 1) % D.p = 0]

edwards_add(D, P, Q) ==
  LET e == FMul(D, initialize(D).d1, FMul(D, P[1] * Q[2], Q[1] * P[2]))
  IN  <<FMul(D, FAdd(D, P[1] * Q[2], Q[1] * P[2]), FInv(D, 1 + e)),
        FMul(D, FAdd(D, P[2] * Q[2], P[1] * Q[1]), FInv(D, 1 - e))>>

scalarmult_ed25519(D, P, k) ==
  LET Q[i \in 0..BN_num_bits(k)] ==
        IF i = BN_num_bits(k) THEN <<0, 1>>
        ELSE LET two == edwards_add(D, Q[i + 1], Q[i + 1])
             IN  IF BN_is_bit_set(k, i) THEN edwards_add(D, two, P) ELSE two
  IN  Q[0]

\* The even root, by Fermat for p = 5 modulo 8; I is a root of -1.
xrecover(D, y) ==
  LET xx == FMul(D, FSub(D, y * y, 1), FInv(D, FMul(D, D.b, FMul(D, y, y)) + 1))
      x0 == BN_mod_exp(xx, (D.p + 3) \div 8, D.p)
      I == initialize(D).I
      x == IF FSub(D, x0 * x0, xx) # 0 THEN FMul(D, x0, I) ELSE x0
  IN  IF x % 2 = 1 THEN D.p - x ELSE x

\* The little-endian y with the parity of x in its top bit.
cx_compress(D, P) == P[2] + (IF P[1] % 2 = 1 THEN 2^(D.bits - 1) ELSE 0)
SignIgnored(D, c) == LET y == c % 2^(D.bits - 1) IN <<xrecover(D, y), y>>   \* mutant
cx_decompress(D, c) ==
  LET y == c % 2^(D.bits - 1)
      x == xrecover(D, y)
  IN  <<IF c >= 2^(D.bits - 1) THEN FSub(D, D.p, x) ELSE x, y>>

-----------------------------------------------------------------------------
(* The system calls on points.  P is what the handles of a point name.     *)

sys_cx_ecpoint_init(x, y) == Ret("OK", Pt(x, y, 1))

sys_cx_ecpoint_export(D, P) == cx_mpi_ecpoint_normalize(D, P)

\* The curves are told apart by D.curve as in the switch of the code.
sys_cx_ecpoint_scalarmul(D, P, k) ==
  LET affine(Q) == Pt(Q[1], Q[2], P.z)
      w == cx_weierstrass_mult(D, P.x, P.y, k)
      c == scalarmult_curve25519(D, k, sys_cx_ecpoint_export(D, P).v.x)
      y == cx_montgomery_recover_y(D, c.v, 0)
  IN  CASE D.curve = "Ed25519" -> Ret("OK", affine(scalarmult_ed25519(D, <<P.x, P.y>>, k)))
        [] D.kind = "WEIERSTRASS" -> IF w.err = "OK" THEN Ret("OK", affine(w.v)) ELSE Ret(w.err, P)
        [] D.curve = "Curve25519" ->
             IF c.err # 0 THEN Ret("EXIT", P) ELSE Ret(y.err, Pt(c.v, y.v, 1))
        [] D.curve = "JUBJUB" -> cx_twisted_edwards_mul_point(D, P, k)
        [] OTHER -> Ret("EC_INVALID_CURVE", P)

\* s[p], s[q] and s[r] are points of one curve.  Only the twisted Edwards
\* curves use z; the result takes the z of p.
sys_cx_ecpoint_add(D, s, r, p, q) ==
  LET P == <<s[p].x, s[p].y>>
      Q == <<s[q].x, s[q].y>>
      on(A) == OnWeierstrass(D, A[1], A[2])
      R == EC_POINT_add(D, P, Q)
      write(A) == [s EXCEPT ![r] = Pt(A[1], A[2], s[p].z)]
  IN  CASE D.curve = "Ed25519" -> Ret("OK", write(edwards_add(D, P, Q)))
        [] D.curve = "JUBJUB" -> Ret("OK", cx_twisted_edwards_add_point(D, s, r, p, q).v)
        [] OTHER -> IF ~on(P) \/ ~on(Q) THEN Ret("MEMORY_FULL", s)
                    ELSE IF R = <<"inf">> THEN Ret("INTERNAL_ERROR", s)
                    ELSE Ret("OK", write(R))

\* Both points are multiplied in place before they are added; the second one
\* is read after the first was written.
AddMultiples(D, s, r, p, q, a, b) ==
  IF a.err # "OK" THEN Ret(a.err, [s EXCEPT ![p] = a.v])
  ELSE IF b.err # "OK" THEN Ret(b.err, [s EXCEPT ![p] = a.v, ![q] = b.v])
  ELSE sys_cx_ecpoint_add(D, [s EXCEPT ![p] = a.v, ![q] = b.v], r, p, q)
ThenSecond(D, s, r, p, q, a, l) ==
  AddMultiples(D, s, r, p, q, a, sys_cx_ecpoint_scalarmul(D, IF p = q THEN a.v ELSE s[q], l))
sys_cx_ecpoint_double_scalarmul(D, s, r, p, q, k, l) ==
  ThenSecond(D, s, r, p, q, sys_cx_ecpoint_scalarmul(D, s[p], k), l)

sys_cx_ecpoint_cmp(D, P, Q) ==
  LET a == cx_mpi_ecpoint_normalize(D, P)
      b == cx_mpi_ecpoint_normalize(D, Q)
  IN  IF a.err # "OK" THEN Ret(a.err, FALSE)
      ELSE Ret(b.err, b.err = "OK" /\ a.v.x = b.v.x /\ a.v.y = b.v.y)

\* p minus the coordinate: zero becomes p.
sys_cx_ecpoint_neg(D, P) ==
  Ret("OK", IF D.kind = "TWISTED_EDWARDS" THEN [P EXCEPT !.x = D.p - @] ELSE [P EXCEPT !.y = D.p - @])

\* One coordinate and the parity of the other.
sys_cx_ecpoint_compress(D, P) ==
  LET n == cx_mpi_ecpoint_normalize(D, P)
      edwards == D.kind = "TWISTED_EDWARDS"
  IN  IF n.err # "OK" THEN Ret(n.err, <<>>)
      ELSE Ret("OK", IF edwards THEN <<n.v.y, n.v.x % 2>> ELSE <<n.v.x, n.v.y % 2>>)

sys_cx_ecpoint_decompress(D, c) ==
  LET root == CASE D.kind = "WEIERSTRASS" -> cx_weierstrass_recover_y(D, c[1], c[2])
                [] D.kind = "TWISTED_EDWARDS" -> cx_twisted_edwards_recover_x(D, c[1], c[2])
                [] D.kind = "MONTGOMERY" -> cx_montgomery_recover_y(D, c[1], c[2])
  IN  Ret(root.err, IF D.kind = "TWISTED_EDWARDS" THEN Pt(root.v, c[1], 1) ELSE Pt(c[1], root.v, 1))

sys_cx_ecpoint_is_at_infinity(P) == P = Infinity

\* For Weierstrass curves setting the coordinates already fails off the
\* curve; twisted Edwards curves have no OpenSSL group.
sys_cx_ecpoint_is_on_curve(D, P) ==
  IF D.kind = "MONTGOMERY" THEN cx_montgomery_is_point_on_curve(D, P)
  ELSE Ret("OK", D.kind = "WEIERSTRASS" /\ OnWeierstrass(D, P.x, P.y))

-----------------------------------------------------------------------------
(* The group of a curve, as textbooks define it, on affine pairs.  The     *)
(* neutral element is <<0, 1>> for twisted Edwards curves.                 *)
OnEdwards(D, P) == (D.a * P[1] * P[1] + P[2] * P[2] - 1 - D.b * (P[1] * P[1] % D.p) * (P[2] * P[2] % D.p)) % D.p = 0
OnMontgomery(D, P) == (D.b * P[2] * P[2] - P[1] * (P[1] * P[1] % D.p) - D.a * P[1] * P[1] - P[1]) % D.p = 0
AffinePoints(D) ==
  {P \in (0..(D.p - 1)) \X (0..(D.p - 1)) :
     CASE D.kind = "WEIERSTRASS" -> OnWeierstrass(D, P[1], P[2])
       [] D.kind = "TWISTED_EDWARDS" -> OnEdwards(D, P)
       [] D.kind = "MONTGOMERY" -> OnMontgomery(D, P)}

EdwardsSum(D, P, Q) ==
  CHOOSE R \in (0..(D.p - 1)) \X (0..(D.p - 1)) :
    LET e == (D.b * (P[1] * Q[1] % D.p) * (P[2] * Q[2] % D.p)) % D.p
    IN  /\ (R[1] * (1 + e) - P[1] * Q[2] - P[2] * Q[1]) % D.p = 0
        /\ (R[2] * (1 - e) - P[2] * Q[2] + D.a * P[1] * Q[1]) % D.p = 0
MontgomerySum(D, P, Q) ==
  LET slope == IF P = Q THEN FMul(D, 3 * P[1] * P[1] + 2 * D.a * P[1] + 1, FInv(D, 2 * D.b * P[2]))
               ELSE FMul(D, Q[2] - P[2], FInv(D, Q[1] - P[1]))
      x == FSub(D, D.b * slope * slope, D.a + P[1] + Q[1])
  IN  CASE P = <<"inf">> -> Q
        [] P # <<"inf">> /\ Q = <<"inf">> -> P
        [] OTHER -> IF P[1] = Q[1] /\ (P[2] + Q[2]) % D.p = 0 THEN <<"inf">>
                    ELSE <<x, FSub(D, slope * (P[1] - x), P[2])>>
Multiple(D, P, k) ==
  LET zero == IF D.kind = "TWISTED_EDWARDS" THEN <<0, 1>> ELSE <<"inf">>
      plus(A) == CASE D.kind = "WEIERSTRASS" -> EC_POINT_add(D, A, P)
                   [] D.kind = "TWISTED_EDWARDS" -> EdwardsSum(D, A, P)
                   [] D.kind = "MONTGOMERY" -> MontgomerySum(D, A, P)
      mul[i \in 0..k] == IF i = 0 THEN zero ELSE plus(mul[i - 1])
  IN  mul[k]
=============================================================================
