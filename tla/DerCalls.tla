------------------------------ MODULE DerCalls ------------------------------
(***************************************************************************)
(* Calls of the reader and of the writer of signatures, and what they must *)
(* return by X.690.                                                        *)
(***************************************************************************)
EXTENDS Der

CONSTANTS
  DerNumbers,   \* what is written, and what a reading is compared with
  DerRooms,     \* lengths of the buffer of the writer
  DerInputs     \* what is read: b, max (the size of a number), and past

Octet == 0..255

ASSUME DerAssumption ==
  /\ DerNumbers \subseteq Seq(Octet) /\ DerRooms \subseteq Nat
  /\ \A q \in DerInputs : q.b \in Seq(Octet) /\ Len(q.b) < 256 /\ q.max \in Nat /\ q.past \in Octet

VARIABLE derCall
NoDer == [f |-> "none"]

Encode(r, s, room) ==
  derCall' = [f |-> "encode", r |-> r, s |-> s, room |-> room, out |-> spec_cx_ecfp_encode_sig_der(room, r, s)]
Decode(q) ==
  derCall' = [f |-> "decode", b |-> q.b, max |-> q.max, out |-> spec_cx_ecfp_decode_sig_der(q.b, q.max, q.past)]

DerInit == derCall = NoDer
DerNext ==
  \/ derCall = NoDer /\ \E r, s \in DerNumbers, room \in DerRooms : Encode(r, s, room)
  \/ derCall = NoDer /\ \E q \in DerInputs : Decode(q)
  \/ derCall # NoDer /\ derCall' = NoDer
DerSpec == DerInit /\ [][DerNext]_derCall

-----------------------------------------------------------------------------
\* X.690: lengths below 256 in the shortest form, and positive integers.
Positive(n) == n # <<>> /\ n[1] # 0
DerLength(n) == IF n < 128 THEN <<n>> ELSE <<129, n>>
Content(n) == IF n[1] < 128 THEN n ELSE <<0>> \o n
DerInteger(n) == <<2>> \o DerLength(Len(Content(n))) \o Content(n)
DerSignature(r, s) ==
  LET body == DerInteger(r) \o DerInteger(s) IN <<48>> \o DerLength(Len(body)) \o body

\* spec_cx_ecfp_decode_sig_der returns two positive numbers exactly when its
\* input is their DER encoding, of which there is one: a byte more or less, a
\* number with a zero too many or without the one it needs, a length in the
\* longer form, and an integer that is said to go on after the input are all
\* refused.  spec_cx_ecfp_encode_sig_der writes that encoding of its numbers
\* without their zeros, as long as a length is one byte.
DerRoundTrip ==
  /\ derCall.f = "decode" =>
       \A r, s \in DerNumbers :
         Positive(r) /\ Positive(s) =>
           (derCall.out = <<r, s>> <=> derCall.b = DerSignature(r, s) /\ Len(r) <= derCall.max /\ Len(s) <= derCall.max)
  /\ derCall.f = "encode" =>
       LET r == Stripped(derCall.r)
           s == Stripped(derCall.s)
       IN  IF r = <<>> \/ s = <<>> THEN derCall.out = <<>>
           ELSE Len(DerInteger(r)) + Len(DerInteger(s)) < 128 =>
                  /\ Positive(r) /\ Positive(s)
                  /\ derCall.out = IF derCall.room < Len(DerSignature(r, s)) THEN <<>> ELSE DerSignature(r, s)
=============================================================================
