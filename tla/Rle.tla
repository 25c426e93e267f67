-------------------------------- MODULE Rle --------------------------------
(***************************************************************************)
(* Run-length encodings of bitmaps: speculos/mcu/rle_custom.py, and the    *)
(* decoders of the device, src/bolos/nbgl_rle.c.                           *)
(*                                                                         *)
(* Pixels have 1 or 4 bits; a bitmap is a sequence of bytes, a run a pair  *)
(* <<repeat, value>>.  An encoding is a sequence of bytes, or of commands  *)
(* [cmd, count, pixels] for RLECustomN.                                    *)
(***************************************************************************)
EXTENDS Integers, Sequences, SequencesExt, FiniteSetsExt

Bits(byte, shift, n) == (byte \div 2^shift) % 2^n
Copies(n, x) == [i \in 1..n |-> x]

-----------------------------------------------------------------------------
(* RLECustomBase: pixels, and the runs of the first pass.                  *)

bpp4_to_values(data) == [i \in 1..(2 * Len(data)) |-> Bits(data[(i + 1) \div 2], IF i % 2 = 1 THEN 4 ELSE 0, 4)]
bpp1_to_values(data) == [i \in 1..(8 * Len(data)) |-> Bits(data[(i + 7) \div 8], 7 - ((i - 1) % 8), 1)]
bpp_to_values(bpp, data) == IF bpp = 4 THEN bpp4_to_values(data) ELSE bpp1_to_values(data)

\* The last byte is filled with zeros.
Pixel(values, i) == IF i <= Len(values) THEN values[i] ELSE 0
values_to_bpp4(values) ==
  [b \in 1..((Len(values) + 1) \div 2) |-> 16 * Pixel(values, 2 * b - 1) + Pixel(values, 2 * b)]
values_to_bpp1(values) ==
  [b \in 1..((Len(values) + 7) \div 8) |-> MapThenSumSet(LAMBDA k : Pixel(values, 8 * b - k) * 2^k, 0..7)]
values_to_bpp(bpp, values) == IF bpp = 4 THEN values_to_bpp4(values) ELSE values_to_bpp1(values)

\* Where a maximal run of equal values begins, and where the k-th of them ends.
Begins(values) ==
  SelectSeq([i \in DOMAIN values |-> i], LAMBDA i : i = 1 \/ values[i] # values[i - 1])
EndOf(starts, k, n) == IF k = Len(starts) THEN n ELSE starts[k + 1] - 1

encode_pass1(values) ==
  LET starts == Begins(values)
  IN  [k \in DOMAIN starts |-> <<EndOf(starts, k, Len(values)) - starts[k] + 1, values[starts[k]]>>]
decode_pass1(pairs) == FlattenSeq([k \in DOMAIN pairs |-> Copies(pairs[k][1], pairs[k][2])])
remove_duplicates(pairs) ==
  LET starts == Begins([i \in DOMAIN pairs |-> pairs[i][2]])
  IN  [k \in DOMAIN starts |->
         <<MapThenSumSet(LAMBDA i : pairs[i][1], starts[k]..EndOf(starts, k, Len(pairs))), pairs[starts[k]][2]>>]

\* A repeat count in pieces of at most max; byte[n] stands for a piece of n.
Pieces(repeat, max, byte) ==
  LET full == (repeat - 1) \div max
  IN  Copies(full, byte[max]) \o <<byte[repeat - full * max]>>

-----------------------------------------------------------------------------
(* RLECustom1: RRRRVVVV; RLECustom4: RRRRRRRV.                             *)
encode1(pairs) ==
  FlattenSeq([k \in DOMAIN pairs |-> Pieces(pairs[k][1], 16, [n \in 1..16 |-> 16 * (n - 1) + pairs[k][2]])])
decode1(data) == remove_duplicates([i \in DOMAIN data |-> <<1 + Bits(data[i], 4, 4), Bits(data[i], 0, 4)>>])
encode4(pairs) ==
  FlattenSeq([k \in DOMAIN pairs |-> Pieces(pairs[k][1], 128, [n \in 1..128 |-> 2 * (n - 1) + pairs[k][2]])])
decode4(data) == remove_duplicates([i \in DOMAIN data |-> <<1 + Bits(data[i], 1, 7), Bits(data[i], 0, 1)>>])

(* RLECustom2: whites 1RRRRRRR, others 0RRRVVVV.                           *)
White == 15
encode2(pairs, max) ==
  FlattenSeq([k \in DOMAIN pairs |->
    IF pairs[k][2] = White THEN Pieces(pairs[k][1], max, [n \in 1..max |-> 128 + n - 1])
    ELSE Pieces(pairs[k][1], 8, [n \in 1..8 |-> 16 * (n - 1) + pairs[k][2]])])
RunOf(byte) == <<1 + Bits(byte, 4, 3), Bits(byte, 0, 4)>>
decode2(data) ==
  remove_duplicates([i \in DOMAIN data |->
    IF data[i] >= 128 THEN <<1 + Bits(data[i], 0, 7), White>> ELSE RunOf(data[i])])

(* RLECustom3: whites 11RRRRRR; three to six single pixels 10RRVVVV and    *)
(* then two in a byte.  Eight singles are five and three.                  *)
Single(byte) == byte < 16
SinglesAt(s, i) == IF \A j \in i..Len(s) : Single(s[j]) THEN Len(s) - i + 1
                   ELSE CHOOSE n \in 0..(Len(s) - i) : ~Single(s[i + n]) /\ \A j \in i..(i + n - 1) : Single(s[j])
SevenTaken(count) == IF count = 8 THEN 5 ELSE IF count > 7 THEN 7 ELSE count
SinglesTaken(count) == IF count = 8 THEN 5 ELSE IF count > 6 THEN 6 ELSE count
RECURSIVE Grouped(_, _)
Grouped(s, i) ==
  IF i > Len(s) THEN <<>>
  ELSE IF ~Single(s[i]) THEN <<IF s[i] >= 128 /\ Bits(s[i], 6, 1) = 0 THEN s[i] + 64 ELSE s[i]>> \o Grouped(s, i + 1)
  ELSE LET n == SinglesTaken(SinglesAt(s, i))
       IN  IF n < 3 THEN <<s[i]>> \o Grouped(s, i + 1)
           ELSE <<128 + 16 * (n - 3) + s[i]>> \o values_to_bpp4(SubSeq(s, i + 1, i + n - 1)) \o Grouped(s, i + n)
encode3(pairs) == Grouped(encode2(pairs, 64), 1)

\* Input that ends early ends the singles.
RECURSIVE Ungrouped(_, _)
Ungrouped(data, i) ==
  IF i > Len(data) THEN <<>>
  ELSE IF data[i] < 128 THEN <<RunOf(data[i])>> \o Ungrouped(data, i + 1)
  ELSE IF data[i] >= 192 THEN <<<<1 + Bits(data[i], 0, 6), White>>>> \o Ungrouped(data, i + 1)
  ELSE LET count == Bits(data[i], 4, 2) + 3
           last == i + count \div 2
           more == bpp4_to_values(SubSeq(data, i + 1, last))
           values == SubSeq(<<Bits(data[i], 0, 4)>> \o more, 1, count)
       IN  [k \in DOMAIN values |-> <<1, values[k]>>] \o Ungrouped(data, last + 1)
decode3(data) == remove_duplicates(Ungrouped(data, 1))

-----------------------------------------------------------------------------
(* RLECustomN: commands to fill and to copy.  Runs below a threshold are   *)
(* copied, together with the ones after them, up to max pixels at a time.  *)
Fill64(n, value) == [cmd |-> "FILL", count |-> n, pixels |-> <<value>>]
Copy(pixels) == [cmd |-> "COPY", count |-> Len(pixels), pixels |-> pixels]
Threshold(bpp) == IF bpp = 1 THEN 2 ELSE 3
\* The first pixels are not counted against max before one is added to them.
RECURSIVE Chopped(_, _)
Chopped(pixels, max) ==
  IF Len(pixels) > max THEN <<Copy(SubSeq(pixels, 1, max))>> \o Chopped(SubSeq(pixels, max + 1, Len(pixels)), max)
  ELSE <<Copy(pixels)>>
RECURSIVE Commands(_, _, _, _)
Commands(pairs, i, bpp, max) ==
  LET repeat == pairs[i][1]
      rest == repeat % max
      small == {j \in i..Len(pairs) : \A l \in (i + 1)..j : pairs[l][1] < Threshold(bpp)}
      last == Max(small)
  IN  IF i > Len(pairs) THEN <<>>
      ELSE Copies(repeat \div max, Fill64(max, pairs[i][2]))
           \o IF rest = 0 THEN Commands(pairs, i + 1, bpp, max)
              ELSE IF rest >= Threshold(bpp) THEN <<Fill64(rest, pairs[i][2])>> \o Commands(pairs, i + 1, bpp, max)
              ELSE Chopped(decode_pass1(<<<<rest, pairs[i][2]>>>> \o SubSeq(pairs, i + 1, last)), max)
                   \o Commands(pairs, last + 1, bpp, max)
encodeN(pairs, bpp) == Commands(pairs, 1, bpp, 64)
decodeN(infos) ==
  remove_duplicates(FlattenSeq([k \in DOMAIN infos |->
    LET c == infos[k]
    IN  IF c.cmd = "FILL" THEN <<<<c.count, c.pixels[1]>>>> ELSE [j \in DOMAIN c.pixels |-> <<1, c.pixels[j]>>]]))

-----------------------------------------------------------------------------
(* RLECustomA and RLECustomB: counts of zeros and ones in turn, a count of *)
(* zero where the other pixel does not come; in quartets, or in bytes.     *)
Alternances(pairs, max) ==
  FlattenSeq([k \in DOMAIN pairs |->
    LET next == IF k = 1 THEN 0 ELSE 1 - pairs[k - 1][2]
        full == (pairs[k][1] - 1) \div max
    IN  (IF pairs[k][2] = next THEN <<>> ELSE <<0>>)
        \o [j \in 1..(2 * full) |-> IF j % 2 = 1 THEN max ELSE 0] \o <<pairs[k][1] - full * max>>])
encodeA(pairs) == values_to_bpp4(Alternances(pairs, 15))
NonEmpty(pairs) == SelectSeq(pairs, LAMBDA p : p[1] # 0)
InTurn(counts) == [i \in DOMAIN counts |-> <<counts[i], (i + 1) % 2>>]
decodeA(data) == remove_duplicates(NonEmpty(InTurn(bpp4_to_values(data))))
encodeB(pairs) == LET a == Alternances(pairs, 255) IN IF Len(a) % 2 = 0 THEN a ELSE Append(a, 0)
decodeB(data) == remove_duplicates(InTurn(data))

-----------------------------------------------------------------------------
(* RLECustomBase.encode and decode, with the second pass of each class.    *)
encode_pass2(method, bpp, pairs) ==
  CASE method = "1" -> encode1(pairs)
    [] method = "2" -> encode2(pairs, 128)
    [] method = "3" -> encode3(pairs)
    [] method = "4" -> encode4(pairs)
    [] method = "N" -> encodeN(pairs, bpp)
    [] method = "A" -> encodeA(pairs)
    [] method = "B" -> encodeB(pairs)
decode_pass2(method, data) ==
  CASE method = "1" -> decode1(data)
    [] method = "2" -> decode2(data)
    [] method = "3" -> decode3(data)
    [] method = "4" -> decode4(data)
    [] method = "N" -> decodeN(data)
    [] method = "A" -> decodeA(data)
    [] method = "B" -> decodeB(data)
encode(method, bpp, data) == encode_pass2(method, bpp, encode_pass1(bpp_to_values(bpp, data)))
decode(method, bpp, data) == values_to_bpp(bpp, decode_pass1(decode_pass2(method, data)))

\* RLECustom.encode and decode: one method for each depth.
MethodOf(bpp) == IF bpp = 4 THEN "3" ELSE "A"

-----------------------------------------------------------------------------
(* nbgl_rle.c.  The output is indexed from 0; cnt pixels are written, and  *)
(* remaining holds the first of a pair.                                    *)

\* A run that does not fit is dropped.
fill_4bpp_pixels_color(q, color, nb) ==
  LET first == q.cnt % 2
      from == (q.cnt + first) \div 2
      doubles == (nb - first) \div 2
  IN  IF q.cnt + nb > q.max THEN q
      ELSE [q EXCEPT !.cnt = @ + nb,
                     !.remaining = IF (q.cnt + nb) % 2 = 1 THEN 16 * color ELSE IF first = 1 THEN 0 ELSE @,
                     !.out = [i \in DOMAIN @ |-> IF first = 1 /\ i = q.cnt \div 2 THEN q.remaining + color
                                                 ELSE IF i >= from /\ i < from + doubles THEN 17 * color ELSE @[i]]]
handle_4bpp_repeat_white(q, byte) == fill_4bpp_pixels_color(q, White, Bits(byte, 0, 6) + 1)
handle_4bpp_repeat_color(q, byte) == fill_4bpp_pixels_color(q, Bits(byte, 0, 4), Bits(byte, 4, 3) + 1)
handle_4bpp_copy(q, bytes) ==
  LET n == Bits(bytes[1], 4, 2) + 3
      color(i) == Bits(bytes[(i + 1) \div 2 + 1], IF i % 2 = 0 THEN 0 ELSE 4, 4)
      written[i \in 0..n] == IF i = 0 THEN q ELSE fill_4bpp_pixels_color(written[i - 1], color(i - 1), 1)
  IN  IF n \div 2 + 1 > Len(bytes) THEN q ELSE written[n]

RECURSIVE Uncompress4(_, _, _)
Uncompress4(q, buffer, i) ==
  IF i > Len(buffer) THEN q
  ELSE IF buffer[i] < 128 THEN Uncompress4(handle_4bpp_repeat_color(q, buffer[i]), buffer, i + 1)
  ELSE IF buffer[i] >= 192 THEN Uncompress4(handle_4bpp_repeat_white(q, buffer[i]), buffer, i + 1)
  ELSE Uncompress4(handle_4bpp_copy(q, SubSeq(buffer, i, Len(buffer))), buffer, i + (Bits(buffer[i], 4, 2) + 3) \div 2 + 1)
nbgl_uncompress_rle_4bpp(pixels, buffer, room) ==
  LET start == [cnt |-> 0, max |-> pixels, remaining |-> 0, out |-> [i \in 0..(room - 1) |-> 255]]
      q == Uncompress4(start, buffer, 1)
  IN  IF 2 * pixels > room THEN <<>>
      ELSE <<IF q.cnt % 2 = 0 THEN q.out ELSE [q.out EXCEPT ![q.cnt \div 2] = q.remaining]>>

\* Whole bytes are counted: the pixels stop at the area when it ends with a
\* byte, else when the input does.  Empty bytes at the end of the input are one
\* pixel.  What goes past the room is not modelled.
nbgl_uncompress_rle_1bpp(pixels, buffer, room) ==
  LET empty == IF buffer # <<>> /\ Last(buffer) = 0 THEN <<0>> ELSE <<>>
      all == decode_pass1(InTurn(bpp4_to_values(buffer))) \o empty
      stop == IF pixels % 8 = 0 /\ pixels < Len(all) THEN pixels ELSE Len(all)
      bytes == values_to_bpp1(SubSeq(all, 1, stop))
  IN  <<[i \in 0..(room - 1) |-> IF i < Len(bytes) THEN bytes[i + 1] ELSE 0]>>
nbgl_uncompress_rle(bpp, pixels, buffer, room) ==
  IF bpp = 4 THEN nbgl_uncompress_rle_4bpp(pixels, buffer, room) ELSE nbgl_uncompress_rle_1bpp(pixels, buffer, room)
=============================================================================
