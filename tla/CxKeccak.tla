------------------------------ MODULE CxKeccak ------------------------------
(***************************************************************************)
(* The permutation of cx_sha3.c.  A lane of 64 bits is the set of its bits *)
(* that are one; the state has 25 lanes, lane x + 5 y for column x, row y. *)
(***************************************************************************)
EXTENDS Integers, FiniteSets, FiniteSetsExt, Sequences

VARIABLE perm   \* the round, the step of it that comes next, and the state

Lane == 64
ROTL64(a, n) == {(i + n) % Lane : i \in a}
S64(s, x, y) == s[x + 5 * y]

cx_sha3_theta(s) ==
  LET C == [i \in 0..4 |-> {b \in 0..(Lane - 1) : Cardinality({y \in 0..4 : b \in S64(s, i, y)}) % 2 = 1}]
      D == [i \in 0..4 |-> SymDiff(C[(i + 4) % 5], ROTL64(C[(i + 1) % 5], 1))]
  IN  [l \in 0..24 |-> SymDiff(s[l], D[l % 5])]

LanesSwapped == <<10, 7, 11, 17, 18, 3, 5, 16, 8, 21, 24, 4, 15, 23, 19, 13, 12, 2, 20, 14, 22, 6, 9, 1>>   \* mutant
C_cx_pi_table == <<10, 7, 11, 17, 18, 3, 5, 16, 8, 21, 24, 4, 15, 23, 19, 13, 12, 2, 20, 14, 22, 9, 6, 1>>
C_cx_rho_table == <<1, 3, 6, 10, 15, 21, 28, 36, 45, 55, 2, 14, 27, 41, 56, 8, 25, 43, 62, 18, 39, 61, 20, 44>>

\* One walk moves every lane but the first to its place, rotated: A is the
\* lane the walk carries.
cx_sha3_rho_pi(s) ==
  LET walk[i \in 0..24] ==
        IF i = 0 THEN [s |-> s, A |-> s[1]]
        ELSE LET w == walk[i - 1]
                 j == C_cx_pi_table[i]
             IN  [s |-> [w.s EXCEPT ![j] = ROTL64(w.A, C_cx_rho_table[i])], A |-> w.s[j]]
  IN  walk[24].s

cx_sha3_chi(s) ==
  [l \in 0..24 |-> LET row == l - (l % 5)
                   IN  SymDiff(s[l], s[row + ((l + 2) % 5)] \ s[row + ((l + 1) % 5)])]

\* The bits of the constants: bits 63 and 31, then those of the low word.
C_cx_iota_RC ==
  <<{0}, {15, 7, 1}, {63, 15, 7, 3, 1}, {63, 31, 15}, {15, 7, 3, 1, 0}, {31, 0}, {63, 31, 15, 7, 0},
    {63, 15, 3, 0}, {7, 3, 1}, {7, 3}, {31, 15, 3, 0}, {31, 3, 1}, {31, 15, 7, 3, 1, 0}, {63, 7, 3, 1, 0},
    {63, 15, 7, 3, 0}, {63, 15, 1, 0}, {63, 15, 1}, {63, 7}, {15, 3, 1}, {63, 31, 3, 1},
    {63, 31, 15, 7, 0}, {63, 15, 7}, {31, 0}, {63, 31, 15, 3}>>
cx_sha3_iota(s, round) == [s EXCEPT ![0] = SymDiff(@, C_cx_iota_RC[round + 1])]

\* The loop of spec_cx_sha3_block, from the state of an empty context.
KeccakInit == perm = [round |-> 0, step |-> "theta", s |-> [l \in 0..24 |-> {}]]
KeccakNext ==
  /\ perm.round < 24
  /\ perm' = CASE perm.step = "theta" -> [perm EXCEPT !.step = "rho_pi", !.s = cx_sha3_theta(@)]
               [] perm.step = "rho_pi" -> [perm EXCEPT !.step = "chi", !.s = cx_sha3_rho_pi(@)]
               [] perm.step = "chi" -> [perm EXCEPT !.step = "iota", !.s = cx_sha3_chi(@)]
               [] perm.step = "iota" ->
                    [round |-> perm.round + 1, step |-> "theta", s |-> cx_sha3_iota(perm.s, perm.round)]

-----------------------------------------------------------------------------
(* FIPS 202, section 3.2                                                   *)

\* Lane (y, 2 x + 3 y) of pi is lane (x, y); rho turns the lane met at step t
\* of the walk (x, y) -> (y, 2 x + 3 y) from (1, 0) by (t + 1)(t + 2) / 2.
FipsPi(x, y) == y + 5 * ((2 * x + 3 * y) % 5)
FipsWalk ==
  LET step(p) == <<p[2], (2 * p[1] + 3 * p[2]) % 5>>
      at[t \in 0..23] == IF t = 0 THEN <<1, 0>> ELSE step(at[t - 1])
  IN  at
FipsRho(x, y) ==
  IF <<x, y>> = <<0, 0>> THEN 0
  ELSE LET t == CHOOSE t \in 0..23 : FipsWalk[t] = <<x, y>> IN (((t + 1) * (t + 2)) \div 2) % Lane

\* Bit t of the linear feedback shift register of iota, R as a sequence of
\* eight bits: x^8 + x^6 + x^5 + x^4 + 1.
FipsRc(t) ==
  LET step(R) == LET s == <<0>> \o R IN [i \in 1..8 |-> IF i \in {1, 5, 6, 7} THEN (s[i] + s[9]) % 2 ELSE s[i]]
      R[n \in 0..167] == IF n = 0 THEN <<1, 0, 0, 0, 0, 0, 0, 0>> ELSE step(R[n - 1])
  IN  R[t][1] = 1
FipsIota(round) == {2^j - 1 : j \in {j \in 0..6 : FipsRc(j + 7 * round)}}

FipsRhoPi(s) ==
  [l \in 0..24 |-> LET p == CHOOSE p \in (0..4) \X (0..4) : FipsPi(p[1], p[2]) = l
                   IN  ROTL64(S64(s, p[1], p[2]), FipsRho(p[1], p[2]))]

\* The first lane of the permutation of the zero state, as the authors of
\* Keccak publish it: F1258F7940E1DDE7.
KnownLane == {0, 1, 2, 5, 6, 7, 8, 10, 11, 12, 14, 15, 16, 21, 22, 23, 30, 32, 35, 36, 37, 38, 40, 41, 42, 43,
              47, 48, 50, 53, 56, 60, 61, 62, 63}

\* The tables of cx_sha3.c are those of the standard: its walk over the lanes
\* is rho and pi on every state the rounds reach, its constants are iota's,
\* and 24 rounds give the published result (cx_sha3_theta to cx_sha3_iota).
KeccakStandard ==
  /\ perm.step = "rho_pi" => cx_sha3_rho_pi(perm.s) = FipsRhoPi(perm.s)
  /\ perm.step = "iota" => C_cx_iota_RC[perm.round + 1] = FipsIota(perm.round)
  /\ perm.round = 24 => perm.s[0] = KnownLane
=============================================================================
