------------------------------ MODULE MCDevice ------------------------------
(***************************************************************************)
(* The emulated device: the parts that keep state of their own between     *)
(* system calls, and the calls that compute something (MCCodecs).  They    *)
(* share nothing, so that a behaviour is one of part's component; the      *)
(* others stay as they are initially.                                      *)
(***************************************************************************)
EXTENDS MCCodecs, CxBn, SephIo, CxHash, CxKeccak, UsbControl, LibCalls, OsPki, PathCheck, DerCalls

\* Values of the fields of a certificate that are on both sides of what is checked.
CertificateValues ==
  [t \in Tags \cup {"OTHER"} |->
     CASE t = "STRUCTURE_TYPE" -> {<<1, 1>>, <<2, 1>>, <<1, 2>>}
       [] t = "VERSION" -> {<<2, 1>>, <<3, 1>>}
       [] t = "VALIDITY" -> {<<256, 4>>, <<255, 4>>, <<256 + 208, 4>>, <<512, 4>>}
       [] t = "VALIDITY_INDEX" -> {<<1, 4>>, <<2, 4>>}
       [] t = "SIGNER_KEY_ID" -> {<<2, 2>>, <<3, 2>>, <<2, 1>>}
       [] t \in {"SIGN_ALGO_ID", "PK_SIGN_ALGO_ID"} -> {<<1, 1>>, <<16, 1>>, <<17, 1>>}
       [] t = "TRUSTED_NAME" -> {<<1, 32>>, <<1, 33>>}
       [] t = "PUBLIC_KEY_USAGE" -> {<<1, 1>>, <<1, 2>>}
       [] t = "CURVE_ID" -> {<<33, 1>>, <<113, 1>>, <<0, 1>>, <<127, 1>>}
       [] t \in {"TARGET_DEVICE", "DEPTH"} -> {<<7, 1>>, <<8, 1>>}
       [] OTHER -> {<<0, 4>>, <<0, 2>>}]

\* Declarations of up to two entries of both kinds, whole and cut off by one
\* byte, and requests for and against them.
EntryBytes(e) ==
  <<LengthByte(e)>> \o IF e.slip21 THEN e.path
                       ELSE FlattenSeq([i \in DOMAIN e.path |-> <<e.path[i] \div IndexBase, e.path[i] % IndexBase>>])
LaidOut(auth, entries, cut) ==
  LET starts == FoldLeft(LAMBDA s, e : Append(s, Last(s) + EntrySize(e.slip21, Len(e.path))), <<1>>, entries)
      length == Last(starts) - cut
  IN  [auth |-> auth, entries |-> entries, starts |-> starts, length |-> length,
       bytes |-> SubSeq(FlattenSeq([k \in DOMAIN entries |-> EntryBytes(entries[k])]), 1, length - 1)]
Prefix(slip21, path) == [slip21 |-> slip21, path |-> path]
MCPrefixes == {Prefix(FALSE, <<9>>), Prefix(FALSE, <<BIP32_WILDCARD_VALUE, 10>>), Prefix(FALSE, <<9, 9, 2>>),
               Prefix(TRUE, <<0, 3>>), Prefix(TRUE, <<0, 9, 1>>)}
MCDeclarations(cuts) ==
  {LaidOut(auth, entries, cut) : auth \in {{"256K1"}, {"Ed25519", "SLIP21"}, {"ZIP32", "SLIP21"}},
                                 entries \in Paths(MCPrefixes, 2), cut \in cuts}
MCPaths == {<<9, 1>>, <<9, 9, 2>>, <<3, 10>>, <<9>>, <<0, 3>>, <<0, 9>>, <<0, 9, 1, 9>>}
\* hdkey_validate_params has refused the other SLIP-21 paths.
MCPathRequests ==
  [f : {"check_path"}, mode : {"NORMAL", "SLIP21"}, curve : {"256K1", "Ed25519", "JUBJUB"}, path : MCPaths,
   declared : {d \in MCDeclarations({0, 1}) : \A k \in DOMAIN d.entries : Fits(d, k)}, fromApp : BOOLEAN]
  \cup
  {r \in [f : {"hdkey"}, mode : {"NORMAL", "SLIP21", "ORCHARD"}, curve : {"256K1", "Ed25519", "JUBJUB"}, path : MCPaths,
          declared : MCDeclarations({0, 1}), fromApp : {TRUE}] : r.mode = "SLIP21" => r.path[1] = 0}

\* Numbers with and without zeros and top bits, and inputs whose lengths are
\* right or wrong by one, some of them in the long form.
SmallNumbers == UNION {[1..n -> {0, 1, 128}] : n \in 0..2}
LongNumber(n) == [k \in 1..n |-> k]
MCDerNumbers == SmallNumbers \cup {LongNumber(32), LongNumber(66)}
MCDerInputs ==
  LET input(R, S, d) == <<48, 4 + Len(R) + Len(S) + d[1], 2, Len(R) + d[2]>> \o R \o <<2, Len(S) + d[3]>> \o S
      fitting == {x \in SmallNumbers \X SmallNumbers \X [1..3 -> -1..1] : Len(x[1]) + x[3][2] >= 0 /\ Len(x[2]) + x[3][3] >= 0}
      long(d) == <<48, 129, 2 * 68 + d, 2, 66>> \o LongNumber(66) \o <<2, 66>> \o LongNumber(66)
  IN  {[b |-> input(x[1], x[2], x[3]), max |-> 1, past |-> past] : x \in fitting, past \in {0, 255}}
      \cup {[b |-> input(x[1], x[2], x[3]), max |-> 2, past |-> 0] : x \in fitting}
      \cup {[b |-> long(d), max |-> 66, past |-> 0] : d \in -1..1}
      \cup {[b |-> <<48, 129, 6, 2, 1, 1, 2, 1, 1>>, max |-> 2, past |-> 0], [b |-> <<48, 7, 2, 129, 1, 1, 2, 1, 1>>, max |-> 2, past |-> 0]}

VARIABLE part
Parts == {"bn", "seph", "hash", "hmac", "keccak", "usb", "lib", "pki", "path", "der", "calls"}

\* A component that is not the part under study has one initial state.
everything == <<part, bnVars, sephVars, hashVars, hmacVars, perm, usbVars, libVars, pkiVars, pathVars, derCall, call>>
Init ==
  /\ part \in Parts
  /\ BnInit /\ SephInit /\ KeccakInit /\ UsbInit /\ PkiInit /\ PathInit /\ DerInit /\ call = Idle
  /\ HashInit /\ (part # "hash" => hctx = cx_sha256_init)
  /\ HmacInit /\ (part # "hmac" => hmacKey = 0)
  /\ LibInit /\ (part # "lib" => ~nvram.load /\ ~nvram.save /\ files = [a \in Apps |-> NoFile])

StepBn == part = "bn" /\ UNCHANGED <<part, sephVars, hashVars, hmacVars, perm, usbVars, libVars, pkiVars, pathVars, derCall, call>> /\ BnNext
StepSeph == part = "seph" /\ UNCHANGED <<part, bnVars, hashVars, hmacVars, perm, usbVars, libVars, pkiVars, pathVars, derCall, call>> /\ SephNext
StepHash == part = "hash" /\ UNCHANGED <<part, bnVars, sephVars, hmacVars, perm, usbVars, libVars, pkiVars, pathVars, derCall, call>> /\ HashNext
StepHmac == part = "hmac" /\ UNCHANGED <<part, bnVars, sephVars, hashVars, perm, usbVars, libVars, pkiVars, pathVars, derCall, call>> /\ HmacNext
StepKeccak == part = "keccak" /\ UNCHANGED <<part, bnVars, sephVars, hashVars, hmacVars, usbVars, libVars, pkiVars, pathVars, derCall, call>> /\ KeccakNext
StepUsb == part = "usb" /\ UNCHANGED <<part, bnVars, sephVars, hashVars, hmacVars, perm, libVars, pkiVars, pathVars, derCall, call>> /\ UsbNext
StepLib == part = "lib" /\ UNCHANGED <<part, bnVars, sephVars, hashVars, hmacVars, perm, usbVars, pkiVars, pathVars, derCall, call>> /\ LibNext
StepPki == part = "pki" /\ UNCHANGED <<part, bnVars, sephVars, hashVars, hmacVars, perm, usbVars, libVars, pathVars, derCall, call>> /\ PkiNext
StepPath == part = "path" /\ UNCHANGED <<part, bnVars, sephVars, hashVars, hmacVars, perm, usbVars, libVars, pkiVars, derCall, call>> /\ PathNext
StepDer == part = "der" /\ UNCHANGED <<part, bnVars, sephVars, hashVars, hmacVars, perm, usbVars, libVars, pkiVars, pathVars, call>> /\ DerNext

\* The calls, each an action of its own.
Calls == part = "calls" /\ UNCHANGED <<part, bnVars, sephVars, hashVars, perm, usbVars, libVars, pkiVars, pathVars, derCall>>
StepDomain == Calls /\ CallDomain
StepNonce == Calls /\ CallNonce
StepSign == Calls /\ CallSign
StepHkdf == Calls /\ CallHkdf
StepDerive == Calls /\ CallDerive
StepZip32 == Calls /\ CallZip32
StepNumbers == Calls /\ CallNumbers
StepWords == Calls /\ CallWords
StepBits == Calls /\ CallBits
StepModular == Calls /\ CallModular
StepField == Calls /\ CallField
StepMath == Calls /\ CallMath
StepBytes == Calls /\ CallBytes
StepEndorse == Calls /\ CallEndorse
StepAdd == Calls /\ CallAdd
StepScalar == Calls /\ CallScalar
StepPoints == Calls /\ CallPoints
StepKeys == Calls /\ CallKeys
StepPublic == Calls /\ CallPublic
StepCompress == Calls /\ CallCompress
StepRle == Calls /\ CallRle
StepReturn == Calls /\ Return

\* The permutation has an end, and so do the events of the MCU and a process;
\* an application with a torn packet may wait for an event that is not due.
Ended ==
  /\ \/ part = "keccak" /\ perm.round = 24
     \/ part = "seph" /\ (sentEvents = MaxEvents \/ torn)
     \/ part = "lib" /\ ~running
     \/ part = "pki" /\ pki_at = "crash"
  /\ UNCHANGED everything

Next == StepBn \/ StepSeph \/ StepHash \/ StepHmac \/ StepKeccak \/ StepUsb \/ StepLib \/ StepPki \/ StepPath \/ StepDer \/ Ended
        \/ StepDomain \/ StepNonce \/ StepSign \/ StepHkdf \/ StepDerive \/ StepZip32 \/ StepNumbers
        \/ StepWords \/ StepBits \/ StepModular \/ StepField \/ StepMath \/ StepBytes \/ StepEndorse \/ StepAdd \/ StepScalar \/ StepPoints \/ StepKeys \/ StepPublic \/ StepCompress \/ StepRle \/ StepReturn
=============================================================================
