------------------------------- MODULE CxHash -------------------------------
(***************************************************************************)
(* Hash functions of the device: cx_hash.c, cx_sha256.c, cx_sha512.c,      *)
(* cx_ripemd160.c, cx_sha3.c, cx_blake2b.c, and cx_hmac.c on top of them.  *)
(*                                                                         *)
(* What is modelled is the streaming: how updates of any size fill the     *)
(* block of a context and what padding makes of the last bytes.  A         *)
(* compression function is uninterpreted: the chaining value acc is the    *)
(* sequence of what was compressed.  Bytes are real; blocks have HashBlock *)
(* bytes (64, 128 or the rate of the sponge) of which the length takes     *)
(* HashLength (8 or 16), and at most HashMaxBlocks (65535) are accepted.   *)
(* Byte k of the data an application hashes is its number k, for at most   *)
(* HashMaxData bytes, fewer than make the 32-bit counter of blocks wrap.   *)
(*                                                                         *)
(* A call of sys_cx_hash takes several steps, one per turn of the loop of  *)
(* its update function; the application waits for its end.                 *)
(***************************************************************************)
EXTENDS Integers, Sequences

CONSTANTS HashBlock, HashLength, HashMaxBlocks, HashMaxData

ASSUME HashAssumption ==
  /\ {HashBlock, HashLength, HashMaxBlocks, HashMaxData} \subseteq Nat \ {0}
  /\ HashLength < HashBlock /\ HashMaxData < 2^30

VARIABLES
  hctx,    \* the context: algo, blen, block, counter, acc; f is blake2b's
           \* last block flag, spent is TRUE once final has run or the
           \* limit on blocks was met
  fed,     \* how many bytes were given since init
  digest,  \* what the last call answered
  hcall    \* the call under way: where it is, the local blen of update, the
           \* data it has not copied, CX_LAST, and whether out is long enough

hashVars == <<hctx, fed, digest, hcall>>

MerkleDamgard == {"sha256", "sha512", "ripemd160"}
Sponge == {"sha3", "keccak", "shake"}
Algos == MerkleDamgard \cup Sponge \cup {"blake2b"}

\* memcpy(block + at, data, Len(data)) and memset(block + at, 0, rest)
Write(block, at, data) ==
  [i \in 1..HashBlock |-> IF i > at /\ i <= at + Len(data) THEN data[i - at] ELSE block[i]]
Clear(block, at) == [i \in 1..HashBlock |-> IF i > at THEN 0 ELSE block[i]]

-----------------------------------------------------------------------------
(* Initialisation                                                          *)
Fresh(algo) == [algo |-> algo, blen |-> 0, block |-> [i \in 1..HashBlock |-> 0],
                counter |-> 0, acc |-> <<>>, f |-> FALSE, spent |-> FALSE]
cx_sha256_init == Fresh("sha256")
cx_sha512_init == Fresh("sha512")
cx_ripemd160_init == Fresh("ripemd160")
cx_sha3_init == Fresh("sha3")
cx_keccak_init == Fresh("keccak")
cx_sha3_xof_init == Fresh("shake")
spec_blake2b_init_param == Fresh("blake2b")
cx_blake2b_init2(size, salt, perso) ==
  IF salt > 16 \/ perso > 16 \/ size % 8 # 0 \/ size < 8 \/ size > 512 THEN <<>>
  ELSE <<spec_blake2b_init_param>>

-----------------------------------------------------------------------------
(* Compression, each in its own file.                                      *)
Absorbed(c) == [c EXCEPT !.acc = Append(@, c.block)]
cx_sha256_block(c) == Absorbed(c)
cx_sha512_block(c) == Absorbed(c)
cx_ripemd160_block(c) == Absorbed(c)
spec_cx_sha3_block(c) == Absorbed(c)
block_func(c) ==
  CASE c.algo = "sha256" -> cx_sha256_block(c)
    [] c.algo = "sha512" -> cx_sha512_block(c)
    [] c.algo = "ripemd160" -> cx_ripemd160_block(c)
    [] c.algo \in Sponge -> spec_cx_sha3_block(c)
\* The block, the bytes so far and the last block flag.
blake2b_compress(c, block) == [c EXCEPT !.acc = Append(@, <<block, c.counter, c.f>>)]
blake2b_increment_counter(c, n) == [c EXCEPT !.counter = @ + n]

-----------------------------------------------------------------------------
(* Updates                                                                 *)

NoCall == [at |-> "idle", blen |-> 0, data |-> <<>>, last |-> FALSE, room |-> FALSE]
NoDigest == [st |-> "NONE", acc |-> <<>>]
Thrown == [st |-> "THROW", acc |-> <<>>]
Digest(acc) == [st |-> "DIGEST", acc |-> acc]

\* A turn of the do-while loop: r bytes fill the block at blen, which is 0
\* after the first turn.  sha256 alone has no limit on the number of blocks.
Turn ==
  LET r == HashBlock - hcall.blen
      full == [hctx EXCEPT !.blen = 0, !.block = Write(@, hcall.blen, SubSeq(hcall.data, 1, r))]
  IN  /\ hcall.blen + Len(hcall.data) >= HashBlock
      /\ IF hctx.algo # "sha256" /\ hctx.counter = HashMaxBlocks
         THEN /\ hctx' = [hctx EXCEPT !.blen = 0, !.spent = TRUE]
              /\ hcall' = NoCall
              /\ digest' = Thrown
         ELSE /\ hctx' = [block_func(full) EXCEPT !.counter = @ + 1]
              /\ hcall' = [hcall EXCEPT !.blen = 0, !.data = SubSeq(@, r + 1, Len(@))]
              /\ UNCHANGED digest
      /\ UNCHANGED fed

\* The rest stays in the block.
Rest ==
  /\ hctx' = [hctx EXCEPT !.block = Write(@, hcall.blen, hcall.data), !.blen = hcall.blen + Len(hcall.data)]
  /\ hcall' = [hcall EXCEPT !.at = "final", !.blen = 0, !.data = <<>>]
  /\ UNCHANGED <<fed, digest>>

Update == Turn \/ (hcall.blen + Len(hcall.data) < HashBlock /\ Rest)
spec_cx_sha256_update == hctx.algo = "sha256" /\ Update
spec_cx_sha512_update == hctx.algo = "sha512" /\ Update
spec_cx_ripemd160_update == hctx.algo = "ripemd160" /\ Update
spec_cx_sha3_update == hctx.algo \in Sponge /\ Update

\* A turn of blake2b: the buffer when it was filled, then blocks of the data
\* as they are.
BlakeTurn ==
  LET fill == HashBlock - hcall.blen
      buf == IF hcall.at = "update" THEN Write(hctx.block, hcall.blen, SubSeq(hcall.data, 1, fill)) ELSE hctx.block
      block == IF hcall.at = "update" THEN buf ELSE SubSeq(hcall.data, 1, HashBlock)
      start == [hctx EXCEPT !.blen = 0, !.block = buf]
  IN  /\ hctx' = blake2b_compress(blake2b_increment_counter(start, HashBlock), block)
      /\ hcall' = [hcall EXCEPT !.at = "blocks", !.blen = 0, !.data = SubSeq(@, fill + 1, Len(@))]
      /\ UNCHANGED <<fed, digest>>

LastBlockEarly ==                                                           \* mutant
  /\ hctx.algo = "blake2b"
  /\ \/ Len(hcall.data) >= HashBlock - hcall.blen /\ BlakeTurn
     \/ Len(hcall.data) < HashBlock - hcall.blen /\ Rest
\* The last block stays in the buffer, even when it is full.
spec_blake2b_update ==
  /\ hctx.algo = "blake2b"
  /\ \/ Len(hcall.data) > HashBlock - hcall.blen /\ BlakeTurn
     \/ Len(hcall.data) <= HashBlock - hcall.blen /\ Rest

spec_cx_hash_update ==
  /\ hcall.at \in {"update", "blocks"}
  /\ \/ spec_cx_sha256_update
     \/ spec_cx_sha512_update
     \/ spec_cx_ripemd160_update
     \/ spec_cx_sha3_update
     \/ spec_blake2b_update

-----------------------------------------------------------------------------
(* Padding.  final changes the context and leaves it so.                   *)

BigEndian(n, len) == [i \in 1..len |-> (n \div 256^(len - i)) % 256]
LittleEndian(n, len) == [i \in 1..len |-> (n \div 256^(i - 1)) % 256]

\* 80, zeros to the length of the message in bits; one more block when the
\* length does not fit.
MdFinal(c, length) ==
  LET marked == [c EXCEPT !.block = Write(@, c.blen, <<128>>), !.blen = @ + 1]
      more == HashBlock - marked.blen < HashLength
      extra == [block_func([marked EXCEPT !.block = Clear(@, marked.blen)]) EXCEPT !.blen = 0]
      last == IF more THEN extra ELSE marked
      block == Write(Clear(last.block, last.blen), HashBlock - HashLength, length)
  IN  [block_func([last EXCEPT !.block = block]) EXCEPT !.spent = TRUE]
BitLen(c) == (c.counter * HashBlock + c.blen) * 8
spec_cx_sha256_final(c) == MdFinal(c, BigEndian(BitLen(c), HashLength))
spec_cx_sha512_final(c) == MdFinal(c, BigEndian(BitLen(c), HashLength))
spec_cx_ripemd160_final(c) == MdFinal(c, LittleEndian(BitLen(c), HashLength))

\* The first and the last byte of the padding may be the same byte.
spec_cx_sha3_final(c) ==
  LET domain == CASE c.algo = "keccak" -> 1 [] c.algo = "sha3" -> 6 [] c.algo = "shake" -> 31
      zeros == Clear(c.block, c.blen)
      first == [zeros EXCEPT ![c.blen + 1] = @ + domain]
      padded == [first EXCEPT ![HashBlock] = @ + 128]
  IN  [spec_cx_sha3_block([c EXCEPT !.block = padded]) EXCEPT !.spent = TRUE]

\* <<>> when the context was finished before.
spec_blake2b_final(c) ==
  LET last == [blake2b_increment_counter(c, c.blen) EXCEPT !.f = TRUE, !.block = Clear(@, c.blen)]
  IN  IF c.f THEN <<>> ELSE <<[blake2b_compress(last, last.block) EXCEPT !.spent = TRUE]>>

spec_cx_hash_final(c) ==
  CASE c.algo = "sha256" -> <<spec_cx_sha256_final(c)>>
    [] c.algo = "sha512" -> <<spec_cx_sha512_final(c)>>
    [] c.algo = "ripemd160" -> <<spec_cx_ripemd160_final(c)>>
    [] c.algo \in Sponge -> <<spec_cx_sha3_final(c)>>
    [] c.algo = "blake2b" -> spec_blake2b_final(c)

-----------------------------------------------------------------------------
(* The system calls                                                        *)

cx_hash_validate_context(c) == c.blen < HashBlock \/ (c.algo = "blake2b" /\ c.blen = HashBlock)

InitContext(algo) ==
  CASE algo = "sha256" -> cx_sha256_init
    [] algo = "sha512" -> cx_sha512_init
    [] algo = "ripemd160" -> cx_ripemd160_init
    [] algo = "sha3" -> cx_sha3_init
    [] algo = "keccak" -> cx_keccak_init
    [] algo = "shake" -> cx_sha3_xof_init
    [] algo = "blake2b" -> cx_blake2b_init2(256, 0, 0)[1]

HashInit ==
  /\ hctx \in {InitContext(a) : a \in Algos}
  /\ fed = 0
  /\ digest = NoDigest
  /\ hcall = NoCall

spec_cx_hash_init ==
  /\ hcall.at = "idle"
  /\ hctx' = InitContext(hctx.algo)
  /\ fed' = 0
  /\ digest' = NoDigest
  /\ UNCHANGED hcall

\* The call, with n more bytes, until it enters the update function.
sys_cx_hash(n, last, room) ==
  /\ hcall.at = "idle"
  /\ cx_hash_validate_context(hctx)
  /\ fed + n <= HashMaxData
  /\ hcall' = [at |-> "update", blen |-> hctx.blen, data |-> [i \in 1..n |-> fed + i], last |-> last, room |-> room]
  /\ fed' = fed + n
  /\ digest' = NoDigest
  /\ UNCHANGED hctx

\* The rest of the call: the size of out is looked at when the bytes are
\* already in.
HashEnd ==
  LET done == spec_cx_hash_final(hctx)
  IN  /\ hcall.at = "final"
      /\ \/ /\ ~hcall.last
            /\ digest' = NoDigest
            /\ UNCHANGED hctx
         \/ /\ hcall.last
            /\ ~hcall.room \/ done = <<>>
            /\ digest' = Thrown
            /\ UNCHANGED hctx
         \/ /\ hcall.last /\ hcall.room
            /\ done # <<>>
            /\ digest' = Digest(done[1].acc)
            /\ hctx' = done[1]
      /\ hcall' = NoCall
      /\ UNCHANGED fed

\* An application starts every message with init; only blake2b itself looks
\* whether it did.
HashNext ==
  \/ spec_cx_hash_init
  \/ /\ hctx.spent => hctx.algo = "blake2b"
     /\ \E n \in 0..HashMaxData, last, room \in BOOLEAN : sys_cx_hash(n, last, room)
  \/ spec_cx_hash_update
  \/ HashEnd

HashSpec == HashInit /\ [][HashNext]_hashVars

-----------------------------------------------------------------------------
(* What the standards say is compressed for a message m.                   *)
Blocks(m) == [b \in 1..(Len(m) \div HashBlock) |-> SubSeq(m, (b - 1) * HashBlock + 1, b * HashBlock)]
ZeroBytes(n) == [i \in 1..n |-> 0]
\* n bytes more make m a whole number of blocks
Missing(n) == (-n) % HashBlock
Standard(algo, m) ==
  LET md(length) == Blocks(m \o <<128>> \o ZeroBytes(Missing(Len(m) + 1 + HashLength)) \o length)
      gap == Missing(Len(m) + 1)
      suffix == CASE algo = "keccak" -> 1 [] algo = "sha3" -> 6 [] OTHER -> 31
      whole == Blocks(m \o ZeroBytes(IF m = <<>> THEN HashBlock ELSE Missing(Len(m))))
  IN  CASE algo \in {"sha256", "sha512"} -> md(BigEndian(8 * Len(m), HashLength))
        [] algo = "ripemd160" -> md(LittleEndian(8 * Len(m), HashLength))
        [] algo \in Sponge ->
             Blocks(IF gap = 0 THEN m \o <<suffix + 128>> ELSE m \o <<suffix>> \o ZeroBytes(gap - 1) \o <<128>>)
        [] algo = "blake2b" ->
             [b \in DOMAIN whole |->
                IF b = Len(whole) THEN <<whole[b], Len(m), TRUE>> ELSE <<whole[b], b * HashBlock, FALSE>>]

\* However an application cuts its data into calls, the digest is the one of
\* the whole: every byte is compressed once, in its place, with the padding
\* and the length of the standard (the update and final functions of the
\* hash files, and sys_cx_hash, which validates, updates and finishes).
HashOfWhole ==
  digest.st = "DIGEST" => digest.acc = Standard(hctx.algo, [i \in 1..fed |-> i])
=============================================================================
