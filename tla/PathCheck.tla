----------------------------- MODULE PathCheck ------------------------------
(***************************************************************************)
(* Which paths an application may derive: the check of os_bip32.c and the  *)
(* one of hdkey/src/hdkey_validate.c, each a walk over the declaration of  *)
(* the application.                                                        *)
(*                                                                         *)
(* A declaration has length bytes, numbered from 0: the curves (auth is    *)
(* that byte), then entries of a length byte, in which 128 marks SLIP-21,  *)
(* and the bytes of a prefix.  An index is two bytes of base IndexBase     *)
(* (four of 256), a part of a SLIP-21 path is one.  entries and starts say *)
(* what the bytes stand for: the prefixes, and where each begins.          *)
(*                                                                         *)
(* A step is a turn of a loop; nothing else runs during a check.           *)
(***************************************************************************)
EXTENDS Integers, Sequences

CONSTANTS
  BIP32_WILDCARD_VALUE,   \* 0x7fffffff
  IndexBase,
  PathRequests            \* the checks that are asked for, each with a declaration

Slip21Marker == 128
EntrySize(marked, n) == 1 + (IF marked THEN 1 ELSE 2) * n
IndexAt(bytes, at) == bytes[at] * IndexBase + bytes[at + 1]

-----------------------------------------------------------------------------
(* What an application declares                                            *)

AppPrefixes == [slip21 : BOOLEAN, path : Seq(Nat)]
LengthByte(e) == (IF e.slip21 THEN Slip21Marker ELSE 0) + Len(e.path)
PrefixBytes(bytes, e, at) ==
  \A i \in 1..Len(e.path) :
    IF e.slip21 THEN bytes[at + i] = e.path[i]
    ELSE /\ bytes[at + 1 + 2 * (i - 1)] = e.path[i] \div IndexBase
         /\ bytes[at + 1 + 2 * (i - 1) + 1] = e.path[i] % IndexBase

\* The last entry may be cut off after its length byte.
Fits(d, k) == d.starts[k + 1] <= d.length
Declaration(d) ==
  LET n == Len(d.entries)
  IN  /\ d.entries \in Seq(AppPrefixes) /\ d.starts \in [1..(n + 1) -> Nat] /\ d.length \in Nat
      /\ DOMAIN d.bytes = 1..(d.length - 1)
      /\ d.starts[1] = 1 /\ d.length <= d.starts[n + 1]
      /\ \A k \in 1..n :
           /\ Len(d.entries[k].path) < Slip21Marker
           /\ d.starts[k + 1] = d.starts[k] + EntrySize(d.entries[k].slip21, Len(d.entries[k].path))
           /\ d.starts[k] < d.length
           /\ d.bytes[d.starts[k]] = LengthByte(d.entries[k])
           /\ Fits(d, k) => PrefixBytes(d.bytes, d.entries[k], d.starts[k])

\* The check of os_bip32.c reads past the end of a declaration that is cut
\* off: it is asked for with whole ones, or for the system itself.
Bip32Modes == {"NORMAL", "SLIP10", "SLIP21"}
HdkeyModes == Bip32Modes \cup {"ALEO", "SAPLING", "ORCHARD", "REGISTERED"}
PathRequest(r) ==
  /\ Declaration(r.declared) /\ r.path \in Seq(Nat) /\ r.fromApp \in BOOLEAN
  /\ \/ r.f = "check_path" /\ r.mode \in Bip32Modes /\ \A k \in 1..Len(r.declared.entries) : Fits(r.declared, k)
     \/ r.f = "hdkey" /\ r.mode \in HdkeyModes /\ r.fromApp

ASSUME PathAssumption ==
  /\ BIP32_WILDCARD_VALUE \in Nat /\ IndexBase \in Nat \ {0}
  /\ \A r \in PathRequests : PathRequest(r)

-----------------------------------------------------------------------------
VARIABLES
  pathAt,        \* "idle", "walk" over the entries, "done"
  asked,         \* the request
  checkOffset,   \* where the walk is
  pathValid,     \* whether the entry before it allows the path
  pathAnswer

pathVars == <<pathAt, asked, checkOffset, pathValid, pathAnswer>>
NoCheck == [f |-> "none"]

PathInit ==
  /\ pathAt = "idle"
  /\ asked = NoCheck
  /\ checkOffset = 1
  /\ pathValid = FALSE
  /\ pathAnswer = "NONE"

\* The two kinds of comparison, which both checks make.
hdkey_match_slip21_subpath(path, bytes, at, n) == \A i \in 1..n : path[i] = bytes[at + i]
LastIndexUnread(path, bytes, at, n) ==                                      \* mutant
  \A i \in 1..(n - 1) : IndexAt(bytes, at + 1 + 2 * (i - 1)) \in {path[i], BIP32_WILDCARD_VALUE}
hdkey_match_bip32_subpath(path, bytes, at, n) ==
  \A i \in 1..n : LET allowed == IndexAt(bytes, at + 1 + 2 * (i - 1))
                  IN  path[i] = allowed \/ allowed = BIP32_WILDCARD_VALUE

Bip32Curves == {"256K1", "256R1", "Ed25519"}
hdkey_validate_curve(mode, curve, auth) ==
  LET mask == CASE mode = "SLIP21" -> "SLIP21"
                [] mode \in {"SAPLING", "ORCHARD"} -> "ZIP32"
                [] OTHER -> curve
  IN  IF (mode = "ALEO" /\ curve # "BLS12_377_G1") \/ (mode = "SAPLING" /\ curve # "JUBJUB") THEN "BAD_PARAM"
      ELSE IF mode \in {"NORMAL", "SLIP10", "REGISTERED"} /\ curve \notin Bip32Curves THEN "NOT_IMPLEMENTED"
      ELSE IF mask \in auth THEN "OK" ELSE "NOT_FOUND"

\* The entries are looked at when nothing before them decides.
Begin(r, decided) ==
  /\ asked' = r
  /\ pathAt' = IF decided = "WALK" THEN "walk" ELSE "done"
  /\ pathAnswer' = decided
  /\ UNCHANGED <<checkOffset, pathValid>>

os_perso_derive_node_bip32_check_path(r) ==
  LET d == r.declared
      mask == IF r.mode = "SLIP21" THEN "SLIP21" ELSE r.curve
  IN  /\ r.f = "check_path"
      /\ Begin(r, IF ~r.fromApp \/ d.length = 0 THEN "OK"
                  ELSE IF r.mode # "SLIP21" /\ r.curve \notin Bip32Curves THEN "VAL_13"
                  ELSE IF mask \notin d.auth THEN "VAL_14"
                  ELSE IF d.length = 1 THEN "OK" ELSE "WALK")

\* A curve that is not authorised is reported as a path that is not.
hdkey_validate_path(r) ==
  LET d == r.declared
  IN  /\ r.f = "hdkey"
      /\ Begin(r, IF d.length \in {0, 1} THEN "OK"
                  ELSE IF hdkey_validate_curve(r.mode, r.curve, d.auth) # "OK" THEN "FORBIDDEN" ELSE "WALK")

Refusal == IF asked.f = "hdkey" THEN "FORBIDDEN" ELSE "VAL_15"

\* A turn of the loops.  hdkey_validate_path ends at an entry that is cut off.
CheckEntry ==
  LET d == asked.declared
      slip21 == asked.mode = "SLIP21"
      marked == d.bytes[checkOffset] >= Slip21Marker
      n == d.bytes[checkOffset] % Slip21Marker
      next == checkOffset + EntrySize(marked, n)
      match == IF slip21 THEN hdkey_match_slip21_subpath(asked.path, d.bytes, checkOffset, n)
               ELSE hdkey_match_bip32_subpath(asked.path, d.bytes, checkOffset, n)
  IN  /\ pathAt = "walk"
      /\ checkOffset < d.length /\ ~pathValid
      /\ \/ /\ asked.f = "hdkey" /\ next > d.length
            /\ pathAt' = "done"
            /\ pathAnswer' = Refusal
            /\ UNCHANGED <<checkOffset, pathValid>>
         \/ /\ asked.f = "hdkey" => next <= d.length
            /\ pathValid' = (Len(asked.path) >= n /\ marked = slip21 /\ match)
            /\ checkOffset' = next
            /\ UNCHANGED <<pathAt, pathAnswer>>
      /\ UNCHANGED asked

CheckEnd ==
  /\ pathAt = "walk"
  /\ checkOffset >= asked.declared.length \/ pathValid
  /\ pathAnswer' = IF pathValid THEN "OK" ELSE Refusal
  /\ pathAt' = "done"
  /\ UNCHANGED <<asked, checkOffset, pathValid>>

PathReturn ==
  /\ pathAt = "done"
  /\ pathAt' = "idle" /\ asked' = NoCheck /\ checkOffset' = 1 /\ pathValid' = FALSE /\ pathAnswer' = "NONE"

PathNext ==
  \/ pathAt = "idle" /\ \E r \in PathRequests : os_perso_derive_node_bip32_check_path(r) \/ hdkey_validate_path(r)
  \/ CheckEntry
  \/ CheckEnd
  \/ PathReturn

PathSpec == PathInit /\ [][PathNext]_pathVars

-----------------------------------------------------------------------------
\* Who may derive on a curve, by the names of the first byte.
CurveAuthorised(r) ==
  LET auth == r.declared.auth
  IN  \/ r.mode = "SLIP21" /\ "SLIP21" \in auth
      \/ r.mode \in {"NORMAL", "SLIP10", "REGISTERED"} /\ r.curve \in Bip32Curves \cap auth
      \/ r.mode = "ALEO" /\ r.curve = "BLS12_377_G1" /\ r.curve \in auth
      \/ (r.mode = "ORCHARD" \/ (r.mode = "SAPLING" /\ r.curve = "JUBJUB")) /\ "ZIP32" \in auth

\* A prefix of the path is listed; a wildcard stands for any index.
Allows(e, path, slip21) ==
  /\ e.slip21 = slip21 /\ Len(path) >= Len(e.path)
  /\ \A i \in 1..Len(e.path) : path[i] = e.path[i] \/ (~slip21 /\ e.path[i] = BIP32_WILDCARD_VALUE)
Listed(r) ==
  LET d == r.declared
  IN  \E k \in 1..Len(d.entries) : Fits(d, k) /\ Allows(d.entries[k], r.path, r.mode = "SLIP21")

\* os_perso_derive_node_bip32_check_path and hdkey_validate_path allow a path
\* exactly when the application's declaration, a list of prefixes with
\* wildcards and SLIP21 entries of another size among them, lists one of its
\* prefixes and the curve (hdkey_validate_path looks at the curve only when
\* it has a list of paths).
PathAuthorised ==
  pathAt = "done" =>
    (pathAnswer = "OK" <=>
       \/ ~asked.fromApp \/ asked.declared.length = 0
       \/ asked.f = "hdkey" /\ asked.declared.length = 1
       \/ CurveAuthorised(asked) /\ (asked.declared.entries = <<>> \/ Listed(asked)))
=============================================================================
