-------------------------------- MODULE Der ---------------------------------
(***************************************************************************)
(* Signatures in DER: the writer and the reader of cx_ec.c, on real bytes. *)
(*                                                                         *)
(* A number is a sequence of bytes, big-endian.  A signature has fewer     *)
(* than 256 bytes: in a longer one a number would have more than the 66    *)
(* that the largest curve allows.  b is the input of the reader, i the     *)
(* position of the next byte; a reader returns <<>> when it refuses, else  *)
(* what it read and the next position.                                     *)
(***************************************************************************)
EXTENDS Integers, Sequences

\* A length of two bytes or more is above what is left of the input.
asn1_read_len(b, i) ==
  IF i > Len(b) THEN <<>>
  ELSE IF b[i] < 128 THEN <<b[i], i + 1>>
  ELSE IF b[i] # 129 \/ i + 1 > Len(b) THEN <<>>
  ELSE IF b[i + 1] < 128 \/ b[i + 1] > Len(b) - i - 1 THEN <<>>
  ELSE <<b[i + 1], i + 2>>

asn1_read_tag(b, i, tag) ==
  IF i > Len(b) THEN <<>> ELSE IF b[i] # tag THEN <<>> ELSE asn1_read_len(b, i + 1)

\* The integer of len bytes at p.  The length is not compared with the end: a
\* number may be said to go on after it.  Bytes beyond the input are past.
ByteAt(b, j, past) == IF j <= Len(b) THEN b[j] ELSE past
LeadingZeros(b, p, len, past) ==
  CHOOSE z \in 0..len :
    /\ \A j \in 0..(z - 1) : p + j <= Len(b) /\ ByteAt(b, p + j, past) = 0
    /\ z = len \/ p + z > Len(b) \/ ByteAt(b, p + z, past) # 0
Bytes(b, p, k, past) == [j \in 1..k |-> ByteAt(b, p + j - 1, past)]
IntegerAt(b, p, len, past) ==
  LET first == ByteAt(b, p, past)
      zeros == LeadingZeros(b, p, len, past)
  IN  IF first >= 128 \/ (first = 0 /\ len >= 2 /\ ByteAt(b, p + 1, past) < 128) THEN <<>>
      ELSE <<Bytes(b, p + zeros, len - zeros, past), len - zeros, p + len>>
asn1_parse_integer(b, i, past) ==
  LET tag == asn1_read_tag(b, i, 2)
  IN  IF tag = <<>> THEN <<>> ELSE IntegerAt(b, tag[2], tag[1], past)

spec_cx_ecfp_decode_sig_der(b, max, past) ==
  LET head == asn1_read_tag(b, 1, 48)
      r == asn1_parse_integer(b, head[2], past)
      s == asn1_parse_integer(b, r[3], past)
  IN  IF head = <<>> THEN <<>>
      ELSE IF head[1] + head[2] # Len(b) + 1 THEN <<>>
      ELSE IF r = <<>> THEN <<>>
      ELSE IF s = <<>> THEN <<>>
      ELSE IF s[3] # Len(b) + 1 \/ r[2] > max \/ s[2] > max THEN <<>>
      ELSE <<r[1], s[1]>>

\* A byte of zero in front of a number whose top bit is set; the lengths are
\* written as single bytes.  <<>> when the buffer is too short or a number zero.
Stripped(n) ==
  IF \A j \in 1..Len(n) : n[j] = 0 THEN <<>>
  ELSE SubSeq(n, CHOOSE z \in 1..Len(n) : n[z] # 0 /\ \A j \in 1..(z - 1) : n[j] = 0, Len(n))
NeverPadded(n) == n                                                       \* mutant
Padded(n) == IF n[1] >= 128 THEN <<0>> \o n ELSE n
spec_cx_ecfp_encode_sig_der(room, r0, s0) ==
  LET r == Padded(Stripped(r0))
      s == Padded(Stripped(s0))
  IN  IF Stripped(r0) = <<>> \/ Stripped(s0) = <<>> THEN <<>>
      ELSE IF room < 6 + Len(r) + Len(s) THEN <<>>
      ELSE <<48, (4 + Len(r) + Len(s)) % 256, 2, Len(r)>> \o r \o <<2, Len(s)>> \o s
=============================================================================
