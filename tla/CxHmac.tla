------------------------------- MODULE CxHmac -------------------------------
(***************************************************************************)
(* Keyed hashing: cx_hmac.c, cx_hkdf.c and, on top, os_eip2333.c.          *)
(*                                                                         *)
(* A hash function is uninterpreted (CxHash has its streaming): byte i of  *)
(* the hash of m is the term <<"H", m, i>>.  Bytes of data are <<"d", k>>, *)
(* and a byte under the exclusive or with the pads is <<"x", pads, byte>>. *)
(* Hashes have MdLen bytes, blocks HmacBlock.  A hash that was finished is *)
(* in a state that is not told apart: Spent, in place of the bytes fed.    *)
(***************************************************************************)
EXTENDS Integers, Sequences

CONSTANTS MdLen, HmacBlock, HmacKeys, HmacMax, LamportChunks

ASSUME HmacAssumption ==
  /\ {MdLen, HmacBlock, HmacMax, LamportChunks} \subseteq Nat \ {0}
  /\ MdLen <= HmacBlock /\ HmacKeys \subseteq Nat

VARIABLES
  hmac,      \* the context: key and the bytes fed to its hash
  hmacKey,   \* the length of the last key an application gave it
  hmacSet,   \* what the context was last set up with: "given", "zeros", or "spent" if it was finished and not
  hmacMsg,   \* the bytes of the message it gave since
  hmacOut    \* [of, msg, code]: the last result, of that setting and message

hmacVars == <<hmac, hmacKey, hmacSet, hmacMsg, hmacOut>>

NoCode == [of |-> "none", msg |-> <<>>, code |-> <<>>]
Spent == <<<<"spent">>>>
Hash(m) == [i \in 1..MdLen |-> <<"H", m, i>>]
Zero == <<"d", 0>>
\* Exclusive or with the pads of a set: a pad applied twice is not applied.
PadXor(b, pads) ==
  LET old == IF b[1] = "x" THEN b[2] ELSE {}
      new == (old \ pads) \cup (pads \ old)
      bare == IF b[1] = "x" THEN b[3] ELSE b
  IN  IF new = {} THEN bare ELSE <<"x", new, bare>>
Fill(bytes, n) == [i \in 1..n |-> IF i <= Len(bytes) THEN bytes[i] ELSE Zero]

-----------------------------------------------------------------------------
(* cx_hmac.c.  The key is <<>> for NULL, else <<bytes>>.                   *)

spec_cx_hmac_init(key) ==
  LET short == IF Len(key[1]) > HmacBlock THEN Hash(key[1]) ELSE key[1]
      padded == IF key = <<>> THEN Fill(<<>>, HmacBlock)
                ELSE [i \in 1..HmacBlock |-> PadXor(Fill(short, HmacBlock)[i], {"ipad"})]
  IN  [key |-> padded, fed |-> padded]

\* data is <<>> for NULL, which is refused.
spec_cx_hmac_update(c, data) == IF data = <<>> THEN c ELSE [c EXCEPT !.fed = @ \o data[1]]

InnerPadLeft(c, room) ==                                                    \* mutant
  LET hkey == [i \in 1..HmacBlock |-> PadXor(c.key[i], {"opad"})]
  IN  SubSeq(Hash(hkey \o Hash(c.fed)), 1, IF room >= MdLen THEN MdLen ELSE room)
\* The result is cut to the room of out.
spec_cx_hmac_final(c, room) ==
  LET hkey == [i \in 1..HmacBlock |-> PadXor(c.key[i], {"opad", "ipad"})]
      out == Hash(hkey \o Hash(c.fed))
  IN  SubSeq(out, 1, IF room >= MdLen THEN MdLen ELSE room)

spec_cx_hmac(key, in, room) == spec_cx_hmac_final(spec_cx_hmac_update(spec_cx_hmac_init(key), in), room)

KeyBytes(n) == [i \in 1..n |-> <<"d", i>>]
DataBytes(from, n) == [i \in 1..n |-> <<"d", 100 + from + i>>]

HmacInit ==
  /\ hmacKey \in HmacKeys
  /\ hmac = spec_cx_hmac_init(<<KeyBytes(hmacKey)>>)
  /\ hmacSet = "given"
  /\ hmacMsg = <<>>
  /\ hmacOut = NoCode

\* cx_hmac without CX_LAST, or with CX_LAST and CX_NO_REINIT and no room for a result: update only.
HmacUpdate(n) ==
  LET data == DataBytes(Len(hmacMsg), n)
  IN  /\ Len(hmacMsg) + n <= HmacMax
      /\ hmac' = spec_cx_hmac_update(hmac, <<data>>)
      /\ hmacMsg' = hmacMsg \o data
      /\ UNCHANGED <<hmacKey, hmacSet, hmacOut>>

\* cx_hmac with CX_LAST; out is FALSE for NULL, with which final does nothing.  The context of a
\* finished message is set up again, with no key; with CX_NO_REINIT its hash stays finished.
HmacLast(n, out, reinit) ==
  LET data == DataBytes(Len(hmacMsg), n)
      c == spec_cx_hmac_update(hmac, <<data>>)
  IN  /\ Len(hmacMsg) + n <= HmacMax
      /\ out \/ reinit
      /\ hmacOut' = IF out THEN [of |-> hmacSet, msg |-> hmacMsg \o data, code |-> spec_cx_hmac_final(c, MdLen)] ELSE hmacOut
      /\ hmac' = IF reinit THEN spec_cx_hmac_init(<<>>) ELSE [key |-> c.key, fed |-> Spent]
      /\ hmacSet' = IF reinit THEN "zeros" ELSE "spent"
      /\ hmacMsg' = <<>>
      /\ UNCHANGED hmacKey

cx_hmac == \E n \in 0..HmacMax : HmacUpdate(n) \/ \E out, reinit \in BOOLEAN : HmacLast(n, out, reinit)

\* cx_hmac_sha256_init and the others, with a key or with NULL.
cx_hmac_init ==
  \/ /\ \E n \in HmacKeys : hmac' = spec_cx_hmac_init(<<KeyBytes(n)>>) /\ hmacKey' = n
     /\ hmacSet' = "given" /\ hmacMsg' = <<>> /\ hmacOut' = NoCode
  \/ /\ hmac' = spec_cx_hmac_init(<<>>) /\ hmacSet' = "zeros" /\ hmacMsg' = <<>>
     /\ UNCHANGED <<hmacKey, hmacOut>>

HmacNext == cx_hmac_init \/ cx_hmac
HmacSpec == HmacInit /\ [][HmacNext]_hmacVars

-----------------------------------------------------------------------------
(* cx_hkdf.c                                                               *)

cx_hkdf_extract(ikm, salt) ==
  spec_cx_hmac(IF salt = <<>> THEN <<Fill(<<>>, MdLen)>> ELSE salt, <<ikm>>, MdLen)

\* Every turn hashes what the turn before copied out.
spec_cx_hkdf_expand(prk, info, len) ==
  LET turn[i \in 0..len] ==
        IF i = 0 THEN [okm |-> <<>>, T |-> <<>>, left |-> len]
        ELSE IF turn[i - 1].left = 0 THEN turn[i - 1]
        ELSE LET before == turn[i - 1]
                 T == spec_cx_hmac(<<prk>>, <<before.T \o info \o <<<<"i", i>>>>>>, MdLen)
                 offset == IF before.left < MdLen THEN before.left ELSE MdLen
             IN  [okm |-> before.okm \o SubSeq(T, 1, offset), T |-> SubSeq(T, 1, offset), left |-> before.left - offset]
  IN  turn[len].okm

\* A number of one and a half hashes modulo the order of the group: one term for all its bytes.
ModR(okm) == <<<<"mod", okm>>>>
OkmLen == MdLen + MdLen \div 2

\* okm modulo the order, again with the hashed salt while it is zero, which
\* happens zeros times.  A salt is cut to the length of a hash.
cx_hkdf_mod_r(ikm, salt, info, zeros) ==
  LET cut == SubSeq(salt[1], 1, IF Len(salt[1]) < MdLen THEN Len(salt[1]) ELSE MdLen)
      key_salt[i \in 0..zeros] ==
        IF i > 0 THEN Hash(key_salt[i - 1])
        ELSE IF salt = <<>> THEN Hash(<<"BLS-SIG-KEYGEN-SALT-">>) ELSE cut
  IN  ModR(spec_cx_hkdf_expand(cx_hkdf_extract(ikm, <<key_salt[zeros]>>), info, OkmLen))

-----------------------------------------------------------------------------
(* os_eip2333.c.  Lamport keys have LamportChunks pieces (255).            *)

Flat(f, n) == LET upTo[i \in 0..n] == IF i = 0 THEN <<>> ELSE upTo[i - 1] \o f[i] IN upTo[n]
IndexBytes(i) == <<<<"index", i>>>>
KeyInfo == <<<<"d", 0>>, <<"d", 48>>>>

\* The pieces are made one by one, each from the one before, as the turns of
\* the expansion would; the counter goes on from 1 for the flipped key.
CounterRunsOn(sk, index) ==                                               \* mutant
  LET prk(flipped) == cx_hkdf_extract(IF flipped THEN [i \in DOMAIN sk |-> PadXor(sk[i], {"flip"})] ELSE sk, <<IndexBytes(index)>>)
      chain(key, from) ==
        LET tmp[j \in 0..LamportChunks] ==
              IF j = 0 THEN <<>> ELSE spec_cx_hmac(<<key>>, <<tmp[j - 1] \o <<<<"i", from + j>>>>>>, MdLen)
        IN  Flat([j \in 1..LamportChunks |-> Hash(tmp[j])], LamportChunks)
  IN  Hash(chain(prk(FALSE), 0) \o chain(prk(TRUE), LamportChunks))
cx_parent_sk_to_lamport_pk(sk, index) ==
  LET prk(flipped) == cx_hkdf_extract(IF flipped THEN [i \in DOMAIN sk |-> PadXor(sk[i], {"flip"})] ELSE sk, <<IndexBytes(index)>>)
      chain(key) ==
        LET tmp[j \in 0..LamportChunks] ==
              IF j = 0 THEN <<>> ELSE spec_cx_hmac(<<key>>, <<tmp[j - 1] \o <<<<"i", j>>>>>>, MdLen)
        IN  Flat([j \in 1..LamportChunks |-> Hash(tmp[j])], LamportChunks)
  IN  Hash(chain(prk(FALSE)) \o chain(prk(TRUE)))

cx_derive_master_sk(seed) == cx_hkdf_mod_r(seed \o <<Zero>>, <<>>, KeyInfo, 0)
cx_derive_child_sk(sk, path) ==
  LET child[i \in 0..Len(path)] ==
        IF i = 0 THEN sk
        ELSE cx_hkdf_mod_r(cx_parent_sk_to_lamport_pk(child[i - 1], path[i]) \o <<Zero>>, <<>>, KeyInfo, 0)
  IN  child[Len(path)]
sys_os_perso_derive_eip2333(curve, seed, path) ==
  IF curve # "BLS12_381_G1" \/ path = <<>> THEN <<"EXCEPTION">>
  ELSE cx_derive_child_sk(cx_derive_master_sk(seed), path)

-----------------------------------------------------------------------------
\* RFC 2104, RFC 5869 and EIP-2333
Rfc2104(key, m) ==
  LET k == Fill(IF Len(key) > HmacBlock THEN Hash(key) ELSE key, HmacBlock)
      with(pad) == [i \in 1..HmacBlock |-> <<"x", {pad}, k[i]>>]
  IN  Hash(with("opad") \o Hash(with("ipad") \o m))
Rfc5869(prk, info, len) ==
  LET T[i \in 0..len] == IF i = 0 THEN <<>> ELSE Rfc2104(prk, T[i - 1] \o info \o <<<<"i", i>>>>)
      all[i \in 0..len] == IF i = 0 THEN <<>> ELSE all[i - 1] \o T[i]
  IN  SubSeq(all[len], 1, len)
Eip2333Lamport(sk, index) ==
  LET lamport(ikm) == Rfc5869(Rfc2104(IndexBytes(index), ikm), <<>>, LamportChunks * MdLen)
      piece(okm, j) == Hash(SubSeq(okm, (j - 1) * MdLen + 1, j * MdLen))
      not == [i \in DOMAIN sk |-> PadXor(sk[i], {"flip"})]
  IN  Hash(Flat([j \in 1..LamportChunks |-> piece(lamport(sk), j)]
                \o [j \in 1..LamportChunks |-> piece(lamport(not), j)], 2 * LamportChunks))

Eip2333ModR(ikm, salt, zeros) ==
  LET H[i \in 0..zeros] == IF i > 0 THEN Hash(H[i - 1])
                           ELSE IF salt = <<>> THEN Hash(<<"BLS-SIG-KEYGEN-SALT-">>)
                           ELSE SubSeq(salt[1], 1, MdLen - (IF Len(salt[1]) < MdLen THEN MdLen - Len(salt[1]) ELSE 0))
  IN  ModR(Rfc5869(Rfc2104(H[zeros], ikm), KeyInfo, OkmLen))

\* The key of a block of inner pads, under which the first block fed to the hash is zeros.
PadKeyMac(m) ==
  LET opad == [i \in 1..HmacBlock |-> <<"x", {"opad", "ipad"}, Zero>>]
  IN  Hash(opad \o Hash(Fill(<<>>, HmacBlock) \o m))

\* The code of a message given in pieces is the HMAC of RFC 2104 under the
\* application's key, for keys below, at and above the size of a block, when
\* it is the first after the key was given (spec_cx_hmac_init keeps the key
\* with the inner pad in it, and final turns it into the outer pad).  The
\* messages after that have the code of the same key for every application,
\* a block of inner pads, which is what the key of zeros that cx_hmac sets up
\* again stands for; of a context that CX_NO_REINIT left nothing is said.
MacOfKey ==
  /\ hmacOut.of = "given" => hmacOut.code = Rfc2104(KeyBytes(hmacKey), hmacOut.msg)
  /\ hmacOut.of = "zeros" => hmacOut.code = PadKeyMac(hmacOut.msg)
=============================================================================
