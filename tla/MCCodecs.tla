------------------------------ MODULE MCCodecs ------------------------------
(***************************************************************************)
(* The functions of the cryptographic system calls, called one at a time   *)
(* on small inputs: call records the operation, its input and its result,  *)
(* and each property compares the result with a definition that does not   *)
(* follow the code.  The context of CxHmac is not used: HKDF has its own.  *)
(***************************************************************************)
EXTENDS Endorsement, EcDomains, CxMath, CxHmac, HdKey, Rle

VARIABLE call

Idle == [f |-> "none"]
Called(f, in, out) == [f |-> f, in |-> in, out |-> out]
Starts == call = Idle /\ UNCHANGED hmacVars

-----------------------------------------------------------------------------
(* Toy hashes: two numbers from a mixture of everything that goes in.      *)
Mixed(key, fields) == FoldLeft(LAMBDA h, x : (h * 181 + x * x * 7 + x * 77 + 13) % 1048573, key + 1, fields)
ToyHmac512(key, fields) == LET h == Mixed(key, fields) IN <<(h \div 1024) % 1024, (h * 5 + h \div 64) % 1024>>
ToySha256(fields) == Mixed(7, fields) % 23
ToyCodeHash == <<12, 34>>
Persons == [ExpandSeed |-> 1, Sapling |-> 2, Orchard |-> 3, Registered |-> 4]
ToyBlake2b512(person, fields) == ToyHmac512(Persons[person], fields)

-----------------------------------------------------------------------------
(* Small curves and numbers                                                *)
Weier == [kind |-> "WEIERSTRASS", curve |-> "SECP256K1", p |-> 29, a |-> 1, b |-> 12, n |-> 23,
          x |-> 1, y |-> 0, bits |-> 5, length |-> 2]
Jub == [kind |-> "TWISTED_EDWARDS", curve |-> "JUBJUB", p |-> 29, a |-> 28, b |-> 2, n |-> 7, bits |-> 6, length |-> 2]
Ed == [Jub EXCEPT !.curve = "Ed25519"]
Mont == [kind |-> "MONTGOMERY", curve |-> "Curve25519", p |-> 29, a |-> 6, b |-> 1, n |-> 5, bits |-> 6, length |-> 2]
Mont448 == [Mont EXCEPT !.curve = "Curve448"]
Affine(P) == Pt(P[1], P[2], 1)
\* Points of Jub of the orders 1, 2, 4, 7, 14 and 28.
OfEachOrder == {P \in AffinePoints(Jub) : P[1] \in {0, 2, 3, 12}}
PrimeSubgroup == {P \in AffinePoints(Jub) : Multiple(Jub, P, Jub.n) = <<0, 1>>}
Generator == CHOOSE P \in AffinePoints(Weier) : TRUE
W0 == [Weier EXCEPT !.x = Generator[1], !.y = Generator[2]]

-----------------------------------------------------------------------------
(* One action for each family of calls                                     *)

Store(a, b, n) == <<0, a, b, n>>
\* Numbers of one and of two words (64 is the first of two), at the ends of both widths.
OneOrTwoWords == 0..3 \cup {31, 32, 33} \cup 61..66 \cup {127, 128, 2048} \cup 4031..4034 \cup {4093, 4094, 4095}
\* The result goes to a slot of its own (1) or to that of an operand (2, 3), and both operands
\* may be in one slot.
CallNumbers ==
  /\ Starts
  /\ \/ \E a, b \in OneOrTwoWords, to \in 1..3 :
         call' \in {Called("add", <<a, b, to, to # 1>>, cx_mpi_add(Store(a, b, 0), Align, to, 2, 3)),
                    Called("sub", <<a, b, to>>, cx_mpi_sub(Store(a, b, 0), Align, to, 2, 3)),
                    Called("add", <<a, a, to, to = 2>>, cx_mpi_add(Store(a, a, 0), Align, to, 2, 2)),
                    Called("sub", <<a, a, to>>, cx_mpi_sub(Store(a, a, 0), Align, to, 2, 2))}
     \/ \E a, b \in 0..63 :
         call' = Called("export", <<a, b>>, cx_mpi_export(cx_mpi_init(Store(0, 0, 0), 1, a + 64 * b).s[1], Align, 3))
CallField ==
  /\ Starts
  /\ \E a \in 0..63, n \in {3, 13, 29} :
    \/ \E sign \in 0..1 : \E root \in cx_mpi_mod_sqrt(Store(a, 0, n), 1, 2, 4, sign) :
         call' = Called("sqrt", <<a, n, sign>>, root)
    \/ call' = Called("invert", <<a, n>>, cx_mpi_mod_invert_nprime(Store(a, 0, n), 1, 2, 4, TRUE))
    \/ a > 2 /\ a < 57 /\ call' = Called("next_prime", <<a>>, cx_mpi_next_prime(<<a>>, Align, 1))

\* Either operand may be the wider one; in "twice" a slot is both an operand and the result.
CallWords ==
  /\ Starts
  /\ \E a \in (0..63) \cup {64, 65, 90, 4000}, b \in {0, 1, 6, 27, 63, 64, 90, 4000} :
       call' = Called("words", <<a, b>>,
         [xor |-> cx_mpi_xor(Store(a, b, 0), Align, 1, 2, 3).s[1], or |-> cx_mpi_or(Store(a, b, 0), Align, 1, 2, 3).s[1],
          and |-> cx_mpi_and(Store(a, b, 0), Align, 1, 2, 3).s[1], cmp |-> cx_mpi_cmp(a, b, Align),
          cmp32 |-> cx_mpi_cmp_u32(b, a % 64), low |-> cx_mpi_get_u32(cx_mpi_set_u32(Store(0, 0, 0), 1, a).s[1]),
          mul |-> cx_mpi_mul(Store(a, b, 0), 1, 2, 3).s[1], div |-> cx_mpi_div(Store(a, b, 0), 1, 3, 2),
          rem |-> cx_mpi_rem(Store(a, b, 0), 1, 3, 2), next |-> cx_mpi_dec(cx_mpi_inc(Store(a, b, 0), 2).s, 2).s[2],
          swap |-> cx_mpi_swap(Store(a, b, 0), 2, 3, TRUE).s, copy |-> cx_mpi_copy(Store(a, b, 0), Align, 2, 3).s,
          twice |-> [xor |-> cx_mpi_xor(Store(a, b, 0), Align, 2, 2, 3).s[2], itself |-> cx_mpi_xor(Store(a, b, 0), Align, 2, 2, 2).s[2],
                     and |-> cx_mpi_and(Store(a, b, 0), Align, 3, 2, 3).s[3], mul |-> cx_mpi_mul(Store(a, b, 0), 3, 2, 3).s[3],
                     div |-> cx_mpi_div(Store(a, b, 0), 2, 3, 2).s[2], rem |-> cx_mpi_rem(Store(a, b, 0), 3, 3, 2).s[3]]])
CallBits ==
  /\ Starts
  /\ \E a \in 0..80, k \in 0..7 :
       call' = Called("bits", <<a, k>>,
         [test |-> cx_mpi_tst_bit(a, Align, k), set |-> cx_mpi_set_bit(Store(a, 0, 0), Align, 2, k),
          clear |-> cx_mpi_clr_bit(Store(a, 0, 0), 2, k), right |-> cx_mpi_shr(Store(a, 0, 0), Align, 2, k),
          left |-> cx_mpi_shl(Store(a, 0, 0), Align, 2, k), count |-> IF a = 0 THEN {} ELSE cx_mpi_cnt_bits(a)])
CallModular ==
  /\ Starts
  /\ \/ \E a, b \in 0..15, n \in {5, 9, 13, 16} :
         call' = Called("modular", <<a, b, n>>,
           [add |-> cx_mpi_mod_add(Store(a, b, n), 1, 2, 3, 4), sub |-> cx_mpi_mod_sub(Store(a, b, n), 1, 2, 3, 4),
            mul |-> cx_mpi_mod_mul(Store(a, b, n), 1, 2, 3, 4), pow |-> cx_mpi_mod_pow(Store(a, b, n), 1, 2, 3, 4),
            invert |-> cx_mpi_mod_u32_invert(Store(0, 0, n), 1, a, 4), prime |-> cx_mpi_is_prime(n)])
     \/ \E n \in {0, 1, 2, 13} : \E r \in cx_mpi_rng(Store(0, 0, n), 1, 4) : call' = Called("rng", <<n>>, r)
     \/ \E a \in {0, 63, 64} : \E r \in cx_mpi_rand(Store(a, 0, 0), Align, 2) : call' = Called("rand", <<a>>, r)
     \/ \E a, b \in 0..7 : call' = Called("gf2", <<a, b>>, cx_mpi_gf2_n_mul(Store(a, b, 11), 1, 2, 3, 4))

\* The older calls on buffers of one byte, of two for a product, r holding 6 before.
CallMath ==
  /\ Starts
  /\ \E a, b \in 0..7, m \in 1..7 :
       call' = Called("math", <<a, b, m>>,
         [cmp |-> sys_cx_math_cmp(a, b), zero |-> sys_cx_math_is_zero(a), add |-> sys_cx_math_add(a, b, 1),
          sub |-> sys_cx_math_sub(6, a, b, 1), mult |-> sys_cx_math_mult(6, a, b, 1), addm |-> sys_cx_math_addm(6, a, b, m, 1),
          subm |-> sys_cx_math_subm(6, a, b, m, 1), multm |-> sys_cx_math_multm(6, a, b, m, 1),
          powm |-> sys_cx_math_powm(6, a, b, m, 1), modm |-> sys_cx_math_modm(a, 1, m),
          inverse |-> sys_cx_math_invprimem(6, a, m, 1), inverseOfInt |-> sys_cx_math_invintm(6, a + 64, m, 1),
          prime |-> sys_cx_math_is_prime(a), next |-> sys_cx_math_next_prime(a)])
\* Buffers of n bytes, all different, and numbers with a byte in each place.
CallBytes ==
  /\ Starts
  /\ \/ \E n \in 0..9 : \E v \in {[i \in 1..n |-> 16 * i + n]} :
         call' = Called("bytes", v, [swapped |-> cx_swap_bytes(v), le |-> be2le(v), be |-> le2be(be2le(v)), mask |-> cx_memxor(cx_memxor(v, cx_swap_bytes(v)), v)])
     \/ \E b \in {0, 1, 127}, c \in {0, 1, 255}, d \in {0, 255} : \E n \in {b * 2^24 + c * 2^16 + d * 256 + c} :
         call' = Called("integers", <<n>>,
           [word |-> U4BE(U4BE_ENCODE(n)), half |-> U2BE(U2BE_ENCODE(n)), little |-> spec_cx_swap_buffer32(<<U4LE_ENCODE(n)>>)[1],
            big |-> U4BE_ENCODE(n), long |-> spec_cx_swap_buffer64(<<U4BE_ENCODE(n) \o U4BE_ENCODE(c)>>)[1]])

CallAdd ==
  /\ Starts
  /\ \E P, Q \in AffinePoints(Jub) :
    call' \in {Called("ecpoint_add", <<P, Q>>, sys_cx_ecpoint_add(Jub, <<Infinity, Affine(P), Affine(Q)>>, 1, 2, 3).v[1]),
               Called("ed25519_add", <<P, Q>>, sys_cx_ecpoint_add(Ed, <<Infinity, Affine(P), Affine(Q)>>, 1, 2, 3).v[1])}
CallScalar ==
  /\ Starts
  /\ \E k \in 1..31 :
    \/ \E P \in OfEachOrder :
         call' = Called("jubjub", <<P, k>>, sys_cx_ecpoint_scalarmul(Jub, Affine(P), k).v)
    \/ \E P \in AffinePoints(Ed) :
         call' = Called("ed25519", <<P, k>>, sys_cx_ecpoint_scalarmul(Ed, Affine(P), k).v)
    \/ \E P \in AffinePoints(Mont) :
         call' \in {Called("curve25519", <<P, k>>, scalarmult_curve25519(Mont, k, P[1]).v),
                    Called("x25519", <<P, k>>, sys_cx_ecpoint_x25519(Mont, cx_mpi_reverse(<<P[1]>>, 1, 2).s[1], k).v)}
\* Two multiples of points of each kind of curve, and the tests on a sum.
Jub0 == CHOOSE P \in PrimeSubgroup : P # <<0, 1>>
EdBase == [Ed EXCEPT !.n = Cardinality(AffinePoints(Ed))] @@ [x |-> Jub0[1], y |-> Jub0[2]]
PointCases == {<<D, Jub0, Q>> : D \in {Jub, Ed}, Q \in OfEachOrder} \cup {<<W0, Base(W0), Q>> : Q \in AffinePoints(W0)}
CallPoints ==
  /\ Starts
  /\ \E k, l \in {1, 2, 3, 7} :
    \/ \E c \in PointCases :
         call' = Called("double", c \o <<k, l>>,
                   sys_cx_ecpoint_double_scalarmul(c[1], <<Infinity, sys_cx_ecpoint_init(c[2][1], c[2][2]).v, Affine(c[3])>>, 1, 2, 3, k, l))
    \/ \E P, Q \in AffinePoints(Jub) :
         \* the point of P with z = k
         /\ l = 1
         /\ call' = Called("negate", <<P, Q, k>>,
                   [same |-> sys_cx_ecpoint_cmp(Jub, Pt(FMul(Jub, P[1], k), FMul(Jub, P[2], k), k), Affine(Q)),
                    sum |-> sys_cx_ecpoint_add(Jub, <<Infinity, Affine(P), sys_cx_ecpoint_neg(Jub, Affine(P)).v>>, 1, 2, 3)])
    \/ \E D \in {W0, Mont}, P \in (0..28) \X (0..28) :
         k = 1 /\ l = 1 /\ call' = Called("on_curve", <<D, P>>, sys_cx_ecpoint_is_on_curve(D, Affine(P)))
\* Key agreement, as both sides compute it, and public keys.
CallKeys ==
  /\ Starts
  /\ \E d, e \in 1..22, D \in {W0, EdBase} :
    \E A \in {sys_cx_ecfp_generate_pair2(D, d, d).v} : \E B \in {sys_cx_ecfp_generate_pair2(D, e, e).v} :
    \/ /\ D = W0
       /\ call' = Called("ecdh", <<d, e>>, <<sys_cx_ecdh(W0, d, B, "POINT", 65), sys_cx_ecdh(W0, e, A, "X", 65)>>)
    \/ call' = Called("multiple", <<D, B, d>>, sys_cx_ecfp_scalar_mult(D, 4, B, d))
    \/ /\ D = EdBase
       /\ call' = Called("eddsa", <<d, e>>, <<A, sys_cx_ecfp_add_point(Ed, A, B).v>>)
CallPublic ==
  /\ Starts
  /\ \/ \E D \in {W0, Ed, Mont}, prefix \in {2, 3, 4}, len \in 1..6 :
         call' = Called("public_key", <<D.kind, prefix, len>>, sys_cx_ecfp_init_public_key(D, prefix, len))
     \/ \E P \in AffinePoints(Mont), k \in 1..22 :
         call' = Called("x448", <<P, k>>, sys_cx_ecpoint_x448(Mont448, cx_mpi_reverse(<<P[1]>>, 1, 2).s[1], k).v)
CallCompress ==
  /\ Starts
  /\ \/ \E D \in {Weier, Jub, Mont}, P \in (0..28) \X (0..28) :
            /\ P \in AffinePoints(D)
            /\ call' = Called("compress", <<P>>, sys_cx_ecpoint_decompress(D, sys_cx_ecpoint_compress(D, Affine(P)).v).v)
     \/ \E P \in AffinePoints(Ed) :
            call' = Called("compress", <<P>>, Affine(cx_decompress(Ed, cx_compress(Ed, P))))

\* A nonce is the first of the candidates that is below the order; another is
\* drawn when it is refused.  The caller may pass flags it did not clear.
CallSign ==
  /\ Starts
  /\ \E d \in 1..22, h \in {0, 5, 22}, k \in 1..22, before \in {<<>>, <<<<184>>>>, <<<<255>>, <<190>>>>}, canonical \in BOOLEAN :
     \E info \in {NoInfo} \cup (IF before = <<>> /\ h = 5 THEN {[odd |-> TRUE, xGTn |-> FALSE], [odd |-> FALSE, xGTn |-> TRUE]} ELSE {}) :
       LET next == spec_cx_rng_rfc6979_next(<<W0.n>>, before \o <<<<8 * k + 3>>, <<8>>>>)
           ks == <<next[1], (k % 22) + 1>>
       IN  call' = Called("sign", <<d, h, ks, canonical, info>>, sys_cx_ecdsa_sign(W0, d, h, ks, canonical, info))

\* The environment with and without the variables, and every call of endorsement.c in it.
Texts == {{}, {[digits |-> 64, value |-> 5]}, {[digits |-> 66, value |-> 5]}, {[digits |-> 63, value |-> 5]}, {[digits |-> -1, value |-> 5]}}
Defaults == [user |-> [d_len |-> 32, d |-> 9], attestation |-> [d_len |-> 32, d |-> 20]]
CallEndorse ==
  /\ Starts
  /\ \E user, attestation \in Texts, slot \in 0..3, data \in {<<>>, <<4>>, <<4, 200>>}, k \in {2, 7}, room \in {31, 32} :
       \E E \in {env_init_endorsement(W0, attestation, user, Defaults, k)} :
         call' = Called("endorse", <<user, attestation, slot, data>>,
           [public |-> sys_os_endorsement_get_public_key(W0, E, slot), newer |-> sys_ENDORSEMENT_get_public_key(W0, E, slot),
            certificate |-> sys_os_endorsement_get_public_key_certificate(E, slot), signature |-> sys_ENDORSEMENT_get_public_key_certificate(E, slot),
            data |-> sys_ENDORSEMENT_key1_sign_data(W0, E, data, k), bare |-> sys_ENDORSEMENT_key1_sign_without_code_hash(W0, E, data, k),
            code |-> sys_ENDORSEMENT_GET_CODE_HASH(room)])

\* The state of the nonce generator for a key and the hash of a message, of
\* one byte and of two.
CallNonce ==
  /\ Starts
  /\ \E x \in {<<3>>, <<0, 22>>}, h1 \in {<<b>> : b \in 0..255} \cup {<<b, 7>> : b \in 176..200} :
       call' = Called("nonce", <<x, h1>>, spec_cx_rng_rfc6979_init(<<W0.n>>, x, h1))

CallDomain ==
  /\ Starts
  /\ \/ \E i \in DOMAIN C_cx_allCurves :
         call' = Called("domain", <<i>>, cx_ecdomain(C_cx_allCurves[i].curve)[1])
     \/ \E i \in DOMAIN C_cx_allCurves, room \in {31, 32, 64} :
         LET curve == C_cx_allCurves[i].curve
         IN  call' = Called("accessors", <<i, room>>,
               [legacy |-> cx_ecfp_get_domain(curve), nid |-> cx_nid_from_curve(curve), oldNid |-> nid_from_curve(curve),
                length |-> sys_cx_ecdomain_parameters_length(curve), size |-> sys_cx_ecdomain_size(curve),
                a |-> sys_cx_ecdomain_parameter(curve, "a", room), Hn |-> sys_cx_ecdomain_parameter_bn(curve, "Hn"),
                p |-> sys_cx_ecdomain_parameter_bn(curve, "p"), G |-> sys_cx_ecdomain_generator(curve, room),
                point |-> sys_cx_ecdomain_generator_bn(curve, C_cx_allCurves[1].curve)])

CallHkdf ==
  /\ Starts
  /\ \/ \E k \in {1, 2, 4}, i \in 0..2, len \in 0..5 :
            call' = Called("expand", <<KeyBytes(k), DataBytes(0, i), len>>, spec_cx_hkdf_expand(KeyBytes(k), DataBytes(0, i), len))
     \/ \E k \in 1..3, index \in 0..1 :
            call' = Called("lamport", <<KeyBytes(k), index>>, cx_parent_sk_to_lamport_pk(KeyBytes(k), index))
     \/ \E ikm \in {KeyBytes(2), KeyBytes(3)}, salt \in {<<>>, <<KeyBytes(1)>>, <<KeyBytes(3)>>}, zeros \in 0..1 :
            call' = Called("mod_r", <<ikm, salt, zeros>>, cx_hkdf_mod_r(ikm, salt, KeyInfo, zeros))
     \/ \E index \in 0..1 : call' = Called("child", <<KeyBytes(1), index>>, cx_derive_child_sk(KeyBytes(1), <<index>>))
     \/ \E curve \in {"256K1", "BLS12_381_G1"}, path \in {<<>>, <<0>>} :
            call' = Called("eip2333", <<curve, path>>, sys_os_perso_derive_eip2333(curve, KeyBytes(1), path))

Seeds == {<<i>> : i \in 1..20}
Paths(indices, n) == UNION {[1..k -> indices] : k \in 0..n}
CallDerive ==
  /\ Starts
  /\ \E seed \in Seeds, hard \in Paths({9}, 1), soft \in Paths({1, 2}, 3) :
       \/ call' = Called("bip32", <<seed, hard, soft>>,
                         sys_os_perso_derive_node_bip32("256K1", hard \o soft, "OK", seed, TRUE))
       \/ call' = Called("bip32_ed25519", <<seed, hard, soft>>,
                         sys_os_perso_derive_node_bip32("Ed25519", hard \o soft, "OK", seed, TRUE))

TagValues == {<<>>, <<7>>, <<SequenceTag, 1>>}
Tlv(tag, value) == <<tag, Len(value)>> \o value
CallZip32 ==
  /\ Starts
  /\ \E context \in TagValues, tags \in Paths(TagValues, 3) \ {<<>>}, path \in Paths({9, 10}, 3) :
       LET p == [mode |-> "REGISTERED", curve |-> "256K1", path |-> <<8>> \o path, keyRoom |-> 1, chainRoom |-> <<>>,
                 seedKey |-> <<Tlv(ContextTag, context) \o FlattenSeq([i \in DOMAIN tags |-> Tlv(SequenceTag, tags[i])])>>]
       IN  call' = Called("registered", <<context, tags, path>>, HDKEY_derive(p, "OK", <<1>>, TRUE, FALSE))

\* Bitmaps of a few runs around the lengths where an encoding changes, and of
\* pixels that differ from their neighbours.
RunLengths == {1, 2, 3, 8, 9, 15, 16, 17, 64, 65, 128, 129, 255, 256}
Levels(bpp) == IF bpp = 4 THEN {0, 3, White} ELSE {0, 1}
RunBitmaps(bpp) == {values_to_bpp(bpp, decode_pass1(<<<<n, v>>, <<m, w>>, <<1, v>>>>)) :
                    n \in RunLengths, m \in {1, 2, 7, 64}, v \in Levels(bpp), w \in Levels(bpp)}
SingleBitmaps(bpp) == {values_to_bpp(bpp, [i \in 1..n |-> IF bpp = 1 THEN i % 2 ELSE IF i = white THEN White ELSE i % 13]) :
                       n \in 1..16, white \in {0, 5, 13}} \cup {values_to_bpp(bpp, [i \in 1..140 |-> i % 2])}
CallRle ==
  /\ Starts
  /\ \E bpp \in {1, 4}, method \in {"1", "2", "3", "4", "N", "A", "B"} :
       /\ IF bpp = 4 THEN method \in {"1", "2", "3", "N"} ELSE method \in {"4", "N", "A", "B"}
       /\ \E data \in RunBitmaps(bpp) \cup SingleBitmaps(bpp) :
            call' = Called("rle", <<method, bpp, data>>, encode(method, bpp, data))

Return == call # Idle /\ call' = Idle /\ UNCHANGED hmacVars
CallInit == call = Idle /\ hmacKey = 0 /\ HmacInit
CallNext == CallDomain \/ CallNonce \/ CallSign \/ CallHkdf \/ CallDerive \/ CallZip32
            \/ CallNumbers \/ CallWords \/ CallBits \/ CallModular \/ CallField \/ CallMath \/ CallBytes \/ CallEndorse \/ CallAdd \/ CallScalar \/ CallPoints \/ CallKeys \/ CallPublic \/ CallCompress \/ CallRle \/ Return

-----------------------------------------------------------------------------
(* Properties                                                              *)

\* The pieces of MpiExact.  SpanOf is one more than the largest number of
\* the width of a number of one or two words.  A sum is cut to the width of the operands and
\* reports the carry, but into the slot of an operand it is not cut and reports none.
\* A negative difference is complemented in its own width, not in theirs.
SpanOf(n) == IF n < 64 THEN 64 ELSE 4096
SumExact(a, b, inPlace, o, r) ==
  LET span == SpanOf(MaxOf(a, b))
  IN  IF inPlace THEN o.err = "OK" /\ r = a + b
      ELSE r = (a + b) % span /\ (o.err = "CARRY" <=> a + b >= span)
DifferenceExact(a, b, o, r) ==
  IF a >= b THEN o.err = "OK" /\ r = a - b
  ELSE o.err = "CARRY" /\ r + b - a = SpanOf(b - a)
\* A sum has the bits of both and carries those they share; a comparison is
\* right for numbers of one width and says "less" for all others, the wider
\* number first or not.
WordsExact(a, b, o) ==
  /\ o.or = o.xor + o.and /\ o.xor + 2 * o.and = a + b
  /\ IF SpanOf(a) = SpanOf(b) THEN (o.cmp < 0 <=> a < b) /\ (o.cmp = 0 <=> a = b) ELSE o.cmp = -1
  /\ (o.cmp32 < 0 <=> b < a % 64) /\ (o.cmp32 = 0 <=> a % 64 = b)
  /\ IF a = 0 THEN o.div.err # "OK" /\ o.rem.err # "OK"
     ELSE b = a * o.div.s[1] + o.rem.s[1] /\ o.rem.s[1] < a
  /\ o.mul = a * b /\ o.next = a /\ o.low = a % 64
  /\ o.twice.xor = o.xor /\ o.twice.itself = 0 /\ o.twice.and = o.and /\ o.twice.mul = o.mul
  /\ a # 0 => o.twice.div = o.div.s[1] /\ o.twice.rem = o.rem.s[1]
  /\ <<o.swap[2], o.swap[3], o.copy[2], o.copy[3]>> = <<b, a, b, b>>
\* A shift to the left stays in the width of the number, which a bit that is
\* tested, set or counted is in, and one that is cleared is in the top limb.
BitsExact(a, k, o) ==
  LET width == IF a < 64 THEN 6 ELSE 12
      bit == (a \div 2^k) % 2 = 1
  IN  /\ (o.test.err = "OK") <=> k < width
      /\ (o.set.err = "OK") <=> k < width
      /\ k < width => o.test.set = bit /\ (o.set.s[2] = a + IF bit THEN 0 ELSE 2^k)
      /\ o.clear.err # "OK" => ~bit
      /\ o.clear.s[2] = a - (IF bit THEN 2^k ELSE 0)
      /\ IF k > width THEN o.right.err # "OK" /\ o.left.err # "OK"
         ELSE o.right.s[2] = a \div 2^k /\ (o.left.err = "OK" => o.left.s[2] = (a * 2^k) % 2^width)
      /\ a # 0 => \E c \in o.count : 2^(c - 1) <= a /\ a < 2^c
ModularExact(a, b, n, o) ==
  LET odd == n % 2 = 1
  IN  /\ o.add.s[1] \in 0..(n - 1) /\ (o.add.s[1] - a - b) % n = 0
      /\ o.sub.s[1] \in 0..(n - 1) /\ (o.sub.s[1] - a + b) % n = 0
      /\ (o.mul.err = "OK" <=> odd) /\ (o.pow.err = "OK" <=> odd)
      /\ odd => (o.mul.s[1] - a * b) % n = 0
      \* Fermat, by which cx_mpi_mod_invert_nprime inverts
      /\ o.prime /\ b = n - 1 /\ a % n # 0 => o.pow.s[1] = 1
      /\ odd /\ b = 2 => (o.pow.s[1] - a * a) % n = 0
      /\ o.invert.err = "OK" => (o.invert.s[1] * a) % n = 1
      /\ o.prime <=> n \in {5, 13}

\* The older calls: sums and products are exact with their carry, and results below the modulus
\* congruent; a difference is exact only where it is not negative.
MathExact(a, b, m, o) ==
  /\ o.add.buffer + 8 * o.add.value = a + b /\ o.mult.buffer = a * b
  /\ (o.cmp >= 0 => o.sub.buffer = a - b) /\ (o.zero = 1 <=> \A x \in 1..7 : x > a)
  /\ \A r \in {o.addm, o.subm, o.multm, o.powm, o.modm, o.inverse, o.inverseOfInt} : r.buffer \in 0..(m - 1)
  /\ (o.addm.buffer - a - b) % m = 0 /\ (o.subm.buffer + b - a) % m = 0
  /\ (o.multm.buffer - o.mult.buffer) % m = 0 /\ (o.modm.buffer - a) % m = 0
  /\ b = 2 => (o.powm.buffer - a * a) % m = 0
  /\ o.inverse.buffer # 0 => (a * o.inverse.buffer) % m = 1
  /\ o.inverse = o.inverseOfInt
  /\ o.prime = 1 <=> a \in {2, 3, 5, 7}
\* be2le reverses the buffers of an even length, as all of its callers' are.
BytesExact(v, o) ==
  /\ o.swapped = Reverse(v)
  /\ Len(v) % 2 = 0 => o.le = Reverse(v) /\ o.be = v
  /\ o.mask = Reverse(v)

\* Numbers of one and two words: cx_mpi_add and cx_mpi_sub give the sum and
\* the difference in the widths that SumExact and DifferenceExact state, also
\* when slots coincide, cx_mpi_cmp calls the number of another width the
\* larger one when it is the second, and never when it is the first,
\* cx_mpi_export gives the low bytes that fit, a root of cx_mpi_mod_sqrt is a root of the
\* asked parity and is refused only where there is none, an inverse is one,
\* and cx_mpi_next_prime of an odd number skips no prime.  The calls of
\* cx_math.c and the byte orders of cx_utils.c do the same on their buffers.
MpiExact ==
  LET i == call.in
      o == call.out
  IN  CASE call.f = "add" -> SumExact(i[1], i[2], i[4], o, o.s[i[3]])
        [] call.f = "sub" -> DifferenceExact(i[1], i[2], o, o.s[i[3]])
        [] call.f = "export" -> o.bytes = (i[1] + 64 * i[2]) % 512
        [] call.f = "sqrt" -> IF o.err = "OK" THEN (o.s[1] * o.s[1] - i[1]) % i[2] = 0 /\ (i[1] % i[2] # 0 => o.s[1] % 2 = i[3])
                              ELSE \A x \in 0..(i[2] - 1) : (x * x - i[1]) % i[2] # 0
        [] call.f = "invert" -> i[1] % i[2] # 0 => (o.s[1] * i[1]) % i[2] = 1
        [] call.f = "next_prime" -> i[1] % 2 = 1 =>
             BN_is_prime(o.s[1]) /\ o.s[1] > i[1] /\ \A q \in (i[1] + 1)..(o.s[1] - 1) : ~BN_is_prime(q)
        [] call.f = "words" -> WordsExact(i[1], i[2], o)
        [] call.f = "bits" -> BitsExact(i[1], i[2], o)
        [] call.f = "modular" -> ModularExact(i[1], i[2], i[3], o)
        [] call.f = "math" -> MathExact(i[1], i[2], i[3], o)
        [] call.f = "bytes" -> BytesExact(i, o)
        [] call.f = "integers" -> o.word = i[1] /\ o.half = i[1] % 65536 /\ o.little = o.big /\ SubSeq(o.long, 5, 8) = Reverse(o.big)
        [] call.f = "rng" -> IF i[1] > 1 THEN o.s[1] > 0 /\ o.s[1] < i[1] ELSE o.err # "OK"
        [] call.f = "rand" -> (o.s[2] < 64 \/ i[1] >= 64) /\ cx_mpi_nbytes(o.s[2], Align) <= cx_mpi_nbytes(MaxOf(i[1], 1), Align)
        [] call.f = "gf2" -> o.s[1] \in 0..7 /\ (o.s[1] = 0 <=> 0 \in {i[1], i[2]}) /\ (i[2] = 1 => o.s[1] = i[1])
        [] OTHER -> TRUE

\* k P + l Q; opposite points of JUBJUB add to the infinity with z = 0.
SumOfMultiples(D, P, Q, k, l, out) ==
  LET A == Multiple(D, P, k)
      B == Multiple(D, Q, l)
      sum == IF D.kind = "WEIERSTRASS" THEN EC_POINT_add(D, A, B) ELSE EdwardsSum(D, A, B)
      opposite == D.curve = "JUBJUB" /\ sum = <<0, 1>> /\ A # B
  IN  out.err = "OK" => out.v[1] = IF opposite THEN Infinity ELSE Affine(sum)
\* RFC 8032: the low half of the digest, clamped.
EdScalar(digest) == 16 + 8 * ((digest \div 8) % 2)

\* The formulas of cx_twisted_edwards.c and cx_ed25519.c in their own
\* coordinates, and the ladder of cx_curve25519.c, are the group law: every
\* sum and every multiple is the one that repeated affine addition gives, the
\* neutral point and the points of small order included, but for JUBJUB,
\* whose infinity has z = 0: there opposite points add to the infinity, and
\* cx_twisted_edwards_mul_point gives it for every multiple of a point on an
\* axis (the neutral one, those of orders 2 and 4) that takes an addition:
\* the formula of cx_twisted_edwards_add is not one for two points on axes.
GroupLaw ==
  LET i == call.in
      P == i[1]
      abscissa(k) == LET Q == Multiple(Mont, P, k) IN IF Q = <<"inf">> THEN 0 ELSE Q[1]
  IN  CASE call.f = "ecpoint_add" ->
             call.out = IF EdwardsSum(Jub, P, i[2]) = <<0, 1>> /\ P # i[2] THEN Infinity ELSE Affine(EdwardsSum(Jub, P, i[2]))
        [] call.f = "ed25519_add" -> call.out = Affine(EdwardsSum(Ed, P, i[2]))
        [] call.f = "jubjub" -> call.out = IF 0 \in {P[1], P[2]} /\ i[2] \notin {1, 2, 4, 8, 16} THEN Infinity
                                           ELSE Affine(Multiple(Jub, P, i[2]))
        [] call.f = "ed25519" -> call.out = Affine(Multiple(Ed, P, i[2]))
        [] call.f = "curve25519" -> call.out = abscissa(i[2])
        [] call.f = "x25519" -> call.out = abscissa(cx_decode_scalar(Mont, i[2]))
        [] call.f = "x448" -> call.out = abscissa(cx_decode_scalar(Mont448, i[2]))
        [] call.f = "double" -> SumOfMultiples(i[1], i[2], i[3], i[4], i[5], call.out)
        [] call.f = "negate" -> /\ call.out.same.v <=> P = i[2]
                                /\ P[1] # 0 => sys_cx_ecpoint_is_at_infinity(call.out.sum.v[1])
        [] call.f = "on_curve" -> call.out.v <=> i[2] \in AffinePoints(i[1])
        [] call.f = "ecdh" -> /\ call.out[1] = Ret("OK", Multiple(W0, Base(W0), (P * i[2]) % W0.n))
                              /\ call.out[2].v[1] = call.out[1].v[1]
        [] call.f = "multiple" -> call.out = Ret("OK", Multiple(i[1], i[2], i[3]))
        [] call.f = "public_key" -> call.out.err = "OK" <=>
             (i[2] = 2 /\ i[3] = 3 /\ i[1] # "WEIERSTRASS") \/ (i[2] = 4 /\ i[3] = 5 /\ i[1] # "MONTGOMERY")
        [] call.f = "eddsa" -> /\ call.out[1] = Multiple(Ed, Jub0, EdScalar(P) % Jub.n)
                               /\ call.out[2] = Multiple(Ed, Jub0, (EdScalar(P) + EdScalar(i[2])) % Jub.n)
        [] OTHER -> TRUE

\* sys_cx_ecpoint_decompress gives back the point that
\* sys_cx_ecpoint_compress was given, on curves of the three kinds, and
\* cx_decompress the one of cx_compress: the sign picks the right root also
\* where the coordinate is zero.
CompressionLossless == call.f = "compress" => call.out = Affine(call.in[1])

\* RFC 6979, 3.2 d. to g., with the hash of m reduced modulo q.
Rfc6979Seed(q, x, h1) ==
  LET bits == 8 * Len(h1)
      z == Number(h1) \div 2^(bits - 5)
      data == <<Octets(Number(x), 1), Octets(z % q, 1)>>
      K[i \in 1..2] == IF i = 1 THEN <<"zeros", <<"ones", 0>> \o data>> ELSE <<K[1], <<<<K[1], <<"ones">>>>, 1>> \o data>>
  IN  [k |-> K[2], v |-> <<K[2], <<<<K[1], <<"ones">>>>>>>>]

\* A signature in DER verifies under the key that the texts give (the default one but for 64
\* digits), and a slot that is not there is refused.
KeyOf(texts, default) == IF \E t \in texts : t.digits = 64 THEN 5 ELSE default.d
VerifiesDer(d, hash, der) ==
  \E rs \in {spec_cx_ecfp_decode_sig_der(der, 2, 0)} :
    rs # <<>> /\ sys_cx_ecdsa_verify(W0, EC_POINT_mul(W0, Base(W0), d), hash, [r |-> rs[1][1], s |-> rs[2][1]])
Endorsed(user, attestation, slot, data, o) ==
  LET d == KeyOf(user, Defaults.user)
      W == EC_POINT_mul(W0, Base(W0), d)
  IN  /\ {o.public.err, o.newer.err, o.certificate.err, o.signature.err} = IF slot \in 1..2 THEN {"OK"} ELSE {"THROW", "4209", "420A"}
      /\ slot \in 1..2 =>
           /\ o.public.v = W /\ o.newer.v = W /\ o.certificate = o.signature
           /\ VerifiesDer(KeyOf(attestation, Defaults.attestation), ToySha256(<<254>> \o W), o.certificate.v)
      /\ o.data.err = "OK" => VerifiesDer(d, ToySha256(data \o CODE_HASH), o.data.v)
      /\ o.bare.err = "OK" => VerifiesDer(d, ToySha256(data), o.bare.v)
      /\ o.code.err = "OK" => o.code.v = CODE_HASH


\* The flags a signature starts from: the caller's, and those of a refused nonce.
FlagsOf(R) == {f \in {"odd", "xGTn"} : IF f = "odd" THEN R[2] % 2 = 1 ELSE R[1] >= W0.n}
Refused(d, h, k) == (h + (EC_POINT_mul(W0, Base(W0), k)[1] % W0.n) * d) % W0.n = 0
Accepted(d, h, ks) == IF Refused(d, h, ks[1]) THEN ks[2] ELSE ks[1]
LeftFlags(d, h, ks, info) ==
  {f \in {"odd", "xGTn"} : info[f]}
    \cup (IF Refused(d, h, ks[1]) THEN FlagsOf(EC_POINT_mul(W0, Base(W0), ks[1])) ELSE {})

\* A signature of sys_cx_ecdsa_sign, with the nonce that
\* spec_cx_rng_rfc6979_next picks among its candidates, verifies under
\* sys_cx_ecdsa_verify, is in the lower half when it was asked to be, and its
\* info flags (parity of the point, x above the order) recover the public key,
\* unless a flag that the point does not have was left by the caller or by a
\* nonce that was refused: the code only ever adds flags.
\* The generator starts in the state of RFC 6979, unless the number of the hash
\* is the order, which cx_rfc6979_bits2octets does not reduce.  The
\* endorsement keys sign what they are said to, each with its own key.
SignatureVerifies ==
  IF call.f = "endorse" THEN Endorsed(call.in[1], call.in[2], call.in[3], call.in[4], call.out)
  ELSE IF call.f = "nonce"
  THEN call.in[2][1] \div 8 # W0.n => call.out = Rfc6979Seed(W0.n, call.in[1], call.in[2])
  ELSE call.f = "sign" /\ call.out.err = "OK" =>
    LET d == call.in[1]
        h == call.in[2]
        sig == call.out.v
        W == EC_POINT_mul(W0, Base(W0), d)
        x == IF sig.xGTn THEN sig.r + W0.n ELSE sig.r
        R == CHOOSE P \in AffinePoints(W0) : P[1] = x /\ (P[2] % 2 = 1 <=> sig.odd)
        inv == NInv(W0, sig.r)
        recovered == EC_POINT_add(W0, EC_POINT_mul(W0, R, (sig.s * inv) % W0.n),
                                  EC_POINT_mul(W0, Base(W0), ((W0.n - h) * inv) % W0.n))
    IN  /\ sys_cx_ecdsa_verify(W0, W, h, sig)
        /\ call.in[4] => 2 * sig.s <= W0.n
        /\ LeftFlags(d, h, call.in[3], call.in[5]) \subseteq FlagsOf(EC_POINT_mul(W0, Base(W0), Accepted(d, h, call.in[3]))) =>
             recovered = W

\* What the calls tell of the curve C.  OpenSSL's group is the one of the
\* table (a curve the older nid_from_curve knows has the same name in both);
\* the root of -1 and the exponent of cx_ec.c's Ed25519 are those of its p.
AccessorsAgree(C, room, o) ==
  /\ o.legacy.err = "OK" => \A f \in DOMAIN C : o.legacy.v[f] = C[f]
  /\ C.curve = "Ed25519" =>
       /\ MulMod(o.legacy.v.I, o.legacy.v.I, C.p) = Minus(C.p, One(C.p))
       /\ Shifted(o.legacy.v.Qplus3div8, C.p, 0, 3, C.p) = Zeros(Len(C.p) - 1) \o <<3>>
  /\ o.nid # "EXIT" => cx_group_from_nid_and_curve(o.nid, C.curve) = C
  /\ o.oldNid # "EXIT" => o.oldNid = o.nid /\ o.legacy.err = "OK"
  /\ o.length.v = C.length /\ o.p.v = C.p /\ o.Hn.err # "OK"
  /\ C.kind = "WEIERSTRASS" => o.size.v \in (8 * C.length - 7)..(8 * C.length)
  /\ (o.a.err = "OK" <=> C.length <= room) /\ (o.G.err = "OK" => o.G.v = <<C.x, C.y>>)
  /\ (o.point.err = "OK" <=> C = C_cx_allCurves[1])

\* The tables of cx_ec_domain.c that cx_ecdomain finds: the generator is on
\* the curve and the Montgomery constants are those of p and n (the second one
\* of EdBLS12 is not: SecondConstants).
CurveTables ==
  CASE call.f = "accessors" -> AccessorsAgree(C_cx_allCurves[call.in[1]], call.in[2], call.out)
    [] call.f = "domain" ->
    LET C == call.out
    IN  /\ GeneratorOnCurve(C)
        /\ C.Hp = MontgomeryConstant(C, C.p)
        /\ C.curve # "EdBLS12" => C.Hn = MontgomeryConstant(C, C.n)
    [] OTHER -> TRUE

\* Hn is the second Montgomery constant, 2^(2 * width) mod n: so says the
\* comment of cx_ec_domain.c:1146 of it for one curve, and the number in the
\* comment above the one of EdBLS12 (:1545) is that constant.
SecondConstants == call.f = "domain" => call.out.Hn = MontgomeryConstant(call.out, call.out.n)

\* spec_cx_hkdf_expand is the expansion of RFC 5869 for every length, a
\* multiple of the hash or not, and cx_parent_sk_to_lamport_pk, which inlines
\* it, is the Lamport key of EIP-2333, from which cx_hkdf_mod_r gets the
\* child, hashing the salt again while the key is zero.
ExpansionStandard ==
  /\ call.f = "expand" => call.out = Rfc5869(call.in[1], call.in[2], call.in[3])
  /\ call.f = "lamport" => call.out = Eip2333Lamport(call.in[1], call.in[2])
  /\ call.f = "mod_r" => call.out = Eip2333ModR(call.in[1], call.in[2], call.in[3])
  /\ call.f = "child" => call.out = Eip2333ModR(Eip2333Lamport(call.in[1], call.in[2]) \o <<Zero>>, <<>>, 0)
  /\ call.f = "eip2333" =>
       call.out = IF call.in # <<"BLS12_381_G1", <<0>>>> THEN <<"EXCEPTION">>
                  ELSE Eip2333ModR(Eip2333Lamport(Eip2333ModR(KeyBytes(1) \o <<Zero>>, <<>>, 0), 0) \o <<Zero>>, <<>>, 0)

\* A path that hdw_bip32 or hdw_bip32_ed25519 derives is one that a wallet
\* with the public key follows: its soft indices derived on the public side
\* from the last hardened node give the same key and chain code, also after
\* an invalid child was retried; the key keeps its clamped bits.
PublicDerivation ==
  LET seed == call.in[1]
      parent(curve) == sys_os_perso_derive_node_bip32(curve, call.in[2], "OK", seed, TRUE)
  IN  CASE call.f = "bip32" ->
             LET p == parent("256K1")
                 w == FoldLeft(CKDpub, [K |-> p.k, chain |-> p.chain], call.in[3])
             IN  /\ call.in[2] = <<>> /\ call.in[3] = <<>> => sys_os_perso_get_master_key_identifier(seed) = Compressed(call.out.k)
                 /\ call.out.k \in 1..(Order - 1) /\ call.out.k = w.K /\ call.out.chain = w.chain
        [] call.f = "bip32_ed25519" ->
             LET p == parent("Ed25519")
                 w == FoldLeft(EdCKDpub, [K |-> p.k[1] % Order, chain |-> p.chain], call.in[3])
                 kL == call.out.k[1]
             IN  /\ kL % 8 = 0 /\ kL \in 2^(KeyBits - 2)..(2^(KeyBits - 1) - 1)
                 /\ kL % Order = w.K /\ call.out.chain = w.chain
        [] OTHER -> TRUE

\* HDKEY_ZIP32_registered_derive gives each index of the path its own tag of
\* the TLV stream, empty tags included, and the last one to those that are
\* left.
TagOfEachIndex ==
  call.f = "registered" /\ call.in[3] # <<>> =>
    LET context == call.in[1]
        tags == call.in[2]
        path == call.in[3]
        pointer(v) == IF v = <<>> THEN <<>> ELSE <<v>>
        node[i \in 0..Len(path)] ==
          IF i = 0 THEN HDKEY_ZIP32_hardened_subtree_root_key(<<1>>, 8, pointer(context))
          ELSE HDKEY_ZIP32_hardened_derive_child(node[i - 1], path[i], 0, pointer(tags[IF i < Len(tags) THEN i ELSE Len(tags)]))
    IN  call.out = [err |-> "OK", out |-> node[Len(path)]]

\* A bitmap survives its encoding: each class of rle_custom.py decodes what it
\* encoded to the same bytes (RLECustomBase.encode exits with 111 otherwise),
\* and so does nbgl_uncompress_rle of the device for the method of each depth;
\* at run lengths where a count is full, and for pixels that come one by one.
RleRoundTrip ==
  call.f = "rle" =>
    LET method == call.in[1]
        bpp == call.in[2]
        data == call.in[3]
        pixels == (8 \div bpp) * Len(data)
        drawn == nbgl_uncompress_rle(bpp, pixels, call.out, 2 * pixels)[1]
    IN  /\ decode(method, bpp, call.out) = data
        /\ method = MethodOf(bpp) => data = [i \in DOMAIN data |-> drawn[i - 1]]
=============================================================================
