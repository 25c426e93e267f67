----------------------------- MODULE CxBn_proof -----------------------------
(***************************************************************************)
(* For every number of slots, memory and set of handles: what the          *)
(* application owns is there and is its own, and the totals beside the     *)
(* slots count what the slots hold.  The first half describes the          *)
(* allocator by what it does to the set of used slots: the totals do not   *)
(* matter there, but that a width is never 0 does.  The second half is     *)
(* about the totals (Balanced), whoever owns the slots.                    *)
(***************************************************************************)
EXTENDS CxBn, FiniteSetTheorems, WellFoundedInduction, TLAPS

Mems == [locked : BOOLEAN, size : [Slots -> Nat], word : Nat, words : Int, total : Int]

BnTypes ==
  /\ mem \in Mems
  /\ handle \in [Names -> Int]
  /\ owned \subseteq Names
  /\ mem.locked => mem.word # 0

OwnedHeld == \A h \in owned : handle[h] \in Used(mem) \ orphans
OwnedApart == \A g, h \in owned : handle[g] = handle[h] => g = h
UsedKnown == Used(mem) = {handle[h] : h \in owned} \cup orphans
NoneUnlocked == ~mem.locked => Used(mem) = {}

Sound == BnTypes /\ OwnedHeld /\ OwnedApart /\ UsedKnown /\ NoneUnlocked
BnInv ==
  /\ undef \in BOOLEAN /\ handle \in [Names -> Int]
  /\ undef = FALSE => Sound

---------------------------------------------------------------------------
\* The search for a free slot ends at the first one.
LEMMA Least ==
  ASSUME NEW S, S \subseteq Nat, S # {}
  PROVE  \E i \in S : \A j \in S : i <= j
<1> DEFINE R == OpToRel(<, Nat)
<1>1. IsWellFoundedOn(R, Nat)
  BY NatLessThanWellFounded
<1>2. \A x, y \in Nat : x < y => <<x, y>> \in R
  BY DEF OpToRel
<1> HIDE DEF R
<1>3. PICK i \in S : \A j \in S : ~(<<j, i>> \in R)
  BY <1>1, WFMin
<1>4. \A j \in S : ~(j < i)
  BY <1>3, <1>2
<1> QED
  BY <1>4

\* A number has a width, whatever size was asked for.
LEMMA ToWordsPositive ==
  ASSUME NEW n \in Nat, NEW u \in Nat \ {0}
  PROVE  ToWords(n, u) \in Nat /\ ToWords(n, u) > 0
<1>1. CASE n = 0
  BY <1>1 DEF ToWords
<1>2. CASE n # 0
  <2> DEFINE a == n + u - 1
             q == a \div u
  <2>1. a \in Nat /\ a >= u /\ u > 0 /\ u \in Nat
    BY <1>2
  <2> HIDE DEF a
  <2>2. q \in Int /\ a = u * q + (a % u) /\ a % u \in 0..(u - 1)
    BY <2>1
  <2> HIDE DEF q
  <2>3. q >= 1
    <3> SUFFICES ASSUME q <= 0 PROVE FALSE
      BY <2>2
    <3>1. u * q <= 0
      BY <2>1, <2>2
    <3> QED
      BY <2>1, <2>2, <3>1
  <2>4. q * u \in Nat /\ q * u > 0
    BY <2>2, <2>3
  <2> QED
    BY <1>2, <2>4 DEF ToWords, q, a
<1> QED
  BY <1>1, <1>2

\* cx_mpi_alloc takes a slot that was free, or nothing.
LEMMA AllocTakes ==
  ASSUME NEW m \in Mems, NEW n \in Nat, m.word # 0
  PROVE  /\ cx_mpi_alloc(m, n).m \in Mems
         /\ cx_mpi_alloc(m, n).m.locked = m.locked /\ cx_mpi_alloc(m, n).m.word = m.word
         /\ cx_mpi_alloc(m, n).i = NoSlot => cx_mpi_alloc(m, n).m = m
         /\ cx_mpi_alloc(m, n).i # NoSlot =>
              /\ cx_mpi_alloc(m, n).i \in Slots \ Used(m)
              /\ Used(cx_mpi_alloc(m, n).m) = Used(m) \cup {cx_mpi_alloc(m, n).i}
<1> DEFINE i == FirstFree(m)
           width == ToWords(n, m.word)
           new == Allocated(m, i, width)
<1>1. m.word \in Nat \ {0} /\ m.size \in [Slots -> Nat] /\ m.total \in Int /\ m.words \in Int
  BY DEF Mems
<1>2. width \in Nat /\ width > 0 /\ width \div m.word \in Int
  BY <1>1, ToWordsPositive
<1>3. CASE HasRoom(m, n)
  <2>1. Free(m) \subseteq Nat /\ Free(m) # {} /\ Free(m) = Slots \ Used(m)
    BY <1>3, BnAssumption DEF HasRoom, Free, Slots
  <2>2. i \in Free(m)
    <3>1. \E k \in Free(m) : \A j \in Free(m) : k <= j
      BY <2>1, Least
    <3> QED
      BY <3>1 DEF FirstFree
  <2>3. i \in Slots /\ i # NoSlot
    BY <2>1, <2>2 DEF NoSlot, Slots
  <2>4. cx_mpi_alloc(m, n) = [i |-> i, m |-> new]
    BY <1>3 DEF cx_mpi_alloc, HasRoom
  <2> HIDE DEF i, width
  <2>5. /\ new \in Mems /\ new.locked = m.locked /\ new.word = m.word
        /\ new.size = [m.size EXCEPT ![i] = width]
    <3>1. /\ [m.size EXCEPT ![i] = width] \in [Slots -> Nat]
          /\ m.total + width \in Int /\ m.words + width \div m.word \in Int
      BY <1>1, <1>2, <2>3
    <3> DEFINE sz == [m.size EXCEPT ![i] = width]
               t == m.total + width
               w == m.words + width \div m.word
               e == [m EXCEPT !.size = sz, !.total = t, !.words = w]
    <3>2. new = e
      BY DEF Mems, Allocated
    <3> HIDE DEF new, sz, t, w
    <3>3. e \in Mems
      BY <3>1, Zenon DEF Mems, sz, t, w
    <3>4. e.locked = m.locked /\ e.word = m.word /\ e.size = sz
      BY DEF Mems
    <3> QED
      BY <3>2, <3>3, <3>4 DEF sz
  <2> HIDE DEF new
  <2>6. Used(new) = Used(m) \cup {i}
    BY <1>1, <1>2, <2>3, <2>5 DEF Used
  <2> QED
    BY <2>1, <2>2, <2>3, <2>4, <2>5, <2>6
<1>4. CASE ~HasRoom(m, n)
  <2>1. cx_mpi_alloc(m, n) = [i |-> NoSlot, m |-> m]
    BY <1>4 DEF cx_mpi_alloc, HasRoom
  <2> QED
    BY <2>1
<1> QED
  BY <1>3, <1>4

\* cx_mpi_destroy frees its slot, if that was used.
LEMMA DestroyFrees ==
  ASSUME NEW m \in Mems, NEW i, Used(m) # {} => m.word # 0
  PROVE  /\ cx_mpi_destroy(m, i) \in Mems
         /\ cx_mpi_destroy(m, i).locked = m.locked /\ cx_mpi_destroy(m, i).word = m.word
         /\ Used(cx_mpi_destroy(m, i)) = Used(m) \ {i}
<1> DEFINE new == [m EXCEPT !.total = @ - m.size[i], !.words = @ - m.size[i] \div m.word, !.size[i] = 0]
<1>1. CASE i \notin Used(m)
  BY <1>1 DEF cx_mpi_destroy
<1>2. CASE i \in Used(m)
  <2>1. i \in Slots /\ m.size \in [Slots -> Nat] /\ m.size[i] \in Int /\ m.total \in Int /\ m.words \in Int
    BY <1>2 DEF Used, Mems
  <2>2. cx_mpi_destroy(m, i) = new
    BY <1>2 DEF cx_mpi_destroy
  <2>3. /\ new \in Mems /\ new.locked = m.locked /\ new.word = m.word
        /\ new.size = [m.size EXCEPT ![i] = 0]
    <3>1. /\ [m.size EXCEPT ![i] = 0] \in [Slots -> Nat]
          /\ m.total - m.size[i] \in Int /\ m.words - m.size[i] \div m.word \in Int
      BY <1>2, <2>1 DEF Mems
    <3> DEFINE sz == [m.size EXCEPT ![i] = 0]
               t == m.total - m.size[i]
               w == m.words - m.size[i] \div m.word
               e == [m EXCEPT !.size = sz, !.total = t, !.words = w]
    <3>2. new = e
      BY DEF Mems
    <3> HIDE DEF new, sz, t, w
    <3>3. e \in Mems
      BY <3>1, Zenon DEF Mems, sz, t, w
    <3>4. e.locked = m.locked /\ e.word = m.word /\ e.size = sz
      BY DEF Mems
    <3> QED
      BY <3>2, <3>3, <3>4 DEF sz
  <2>4. Used(new) = Used(m) \ {i}
    BY <2>1, <2>3 DEF Used
  <2> QED
    BY <2>2, <2>3, <2>4
<1> QED
  BY <1>1, <1>2

---------------------------------------------------------------------------
\* Handles that get slots of their own, or none at all; other handles may change.
LEMMA Gained ==
  ASSUME Sound, mem.locked = TRUE, mem' \in Mems, mem'.locked = mem.locked, mem'.word = mem.word,
         NEW H \in SUBSET (Names \ owned),
         handle' \in [Names -> Int],
         \A g \in owned : handle'[g] = handle[g],
         \A g \in H : handle'[g] \in Slots \ Used(mem),
         \A g, h \in H : handle'[g] = handle'[h] => g = h,
         Used(mem') = Used(mem) \cup {handle'[g] : g \in H},
         owned' = owned \cup H, orphans' = orphans
  PROVE  Sound'
<1> USE DEF Sound
<1>1. BnTypes'
  BY DEF BnTypes
<1>2. OwnedHeld'
  BY DEF OwnedHeld, UsedKnown
<1>3. OwnedApart'
  BY DEF OwnedApart, OwnedHeld
<1>4. UsedKnown'
  <2>1. {handle'[h] : h \in owned'} = {handle[h] : h \in owned} \cup {handle'[g] : g \in H}
    OBVIOUS
  <2> QED
    BY <2>1 DEF UsedKnown
<1>5. NoneUnlocked'
  BY DEF NoneUnlocked
<1> QED
  BY <1>1, <1>2, <1>3, <1>4, <1>5

\* Handles that give their slots back.
LEMMA Lost ==
  ASSUME Sound, mem' \in Mems, mem'.locked = mem.locked, mem'.word = mem.word,
         NEW H \in SUBSET Names,
         handle' \in [Names -> Int],
         \A g \in owned \ H : handle'[g] = handle[g],
         Used(mem') = Used(mem) \ {handle[g] : g \in owned \cap H},
         owned' = owned \ H, orphans' = orphans
  PROVE  Sound'
<1> USE DEF Sound
<1>1. BnTypes'
  BY DEF BnTypes
<1>2. OwnedHeld'
  BY DEF OwnedHeld, OwnedApart
<1>3. OwnedApart'
  BY DEF OwnedApart
<1>4. UsedKnown'
  BY DEF UsedKnown, OwnedHeld, OwnedApart
<1>5. NoneUnlocked'
  BY DEF NoneUnlocked
<1> QED
  BY <1>1, <1>2, <1>3, <1>4, <1>5

---------------------------------------------------------------------------
\* sys_cx_bn_alloc: the handle gets a free slot, or -1.
LEMMA AllocKeeps ==
  ASSUME Sound, NEW h \in Numbers, NEW n \in BnSizes, sys_cx_bn_alloc(h, n)
  PROVE  Sound'
<1>1. h \in Names /\ h \notin owned /\ n \in Nat /\ mem \in Mems /\ handle \in [Names -> Int] /\ mem.locked \in BOOLEAN
  BY BnAssumption DEF Names, sys_cx_bn_alloc, Sound, BnTypes, Mems
<1>2. orphans' = orphans
  BY DEF sys_cx_bn_alloc
<1>3. CASE mem.locked = FALSE
  BY <1>3 DEF sys_cx_bn_alloc, Sound, BnTypes, OwnedHeld, OwnedApart, UsedKnown, NoneUnlocked
<1>4. CASE mem.locked = TRUE
  <2> DEFINE a == cx_mpi_alloc(mem, n)
  <2>1. /\ mem' = a.m /\ handle' = [handle EXCEPT ![h] = a.i]
        /\ owned' = IF a.i = NoSlot THEN owned ELSE owned \cup {h}
    BY <1>4 DEF sys_cx_bn_alloc
  <2>2. /\ a.m \in Mems /\ a.m.locked = mem.locked /\ a.m.word = mem.word
        /\ a.i = NoSlot => a.m = mem
        /\ a.i # NoSlot => a.i \in Slots \ Used(mem) /\ Used(a.m) = Used(mem) \cup {a.i}
    BY <1>1, <1>4, AllocTakes DEF Sound, BnTypes
  <2> HIDE DEF a
  <2>3. a.i \in Int
    BY <2>2, BnAssumption DEF Slots, NoSlot
  <2>4. handle' \in [Names -> Int] /\ handle'[h] = a.i /\ \A g \in owned : handle'[g] = handle[g]
    BY <1>1, <2>1, <2>3 DEF Sound, BnTypes
  <2>5. CASE a.i = NoSlot
    <3> DEFINE H == {}
    <3>1. owned' = owned \cup H /\ Used(mem') = Used(mem) \cup {handle'[g] : g \in H} /\ mem' = mem
      BY <2>1, <2>2, <2>5
    <3>2. /\ H \in SUBSET (Names \ owned) /\ \A g \in H : handle'[g] \in Slots \ Used(mem)
          /\ \A g, k \in H : handle'[g] = handle'[k] => g = k
      OBVIOUS
    <3> HIDE DEF H
    <3> QED
      BY <1>1, <1>2, <1>4, <2>4, <3>1, <3>2, Gained
  <2>6. CASE a.i # NoSlot
    <3> DEFINE H == {h}
    <3>1. owned' = owned \cup H /\ Used(mem') = Used(mem) \cup {handle'[g] : g \in H}
      BY <2>1, <2>2, <2>4, <2>6
    <3>2. H \in SUBSET (Names \ owned) /\ \A g \in H : handle'[g] \in Slots \ Used(mem)
      BY <1>1, <2>2, <2>4, <2>6
    <3> QED
      BY <1>2, <1>4, <2>1, <2>2, <2>4, <3>1, <3>2, Gained
  <2> QED
    BY <2>5, <2>6
<1> QED
  BY <1>1, <1>3, <1>4

\* sys_cx_bn_destroy: the slot of an owned number is free; a stale handle frees nothing.
LEMMA DestroyKeeps ==
  ASSUME Sound, NEW h \in Numbers, sys_cx_bn_destroy(h)
  PROVE  Sound'
<1>1. /\ h \in Names /\ mem \in Mems /\ handle \in [Names -> Int]
      /\ owned' = owned \ {h} /\ handle' = handle /\ orphans' = orphans
      /\ h \in owned \/ handle[h] \notin Used(mem)
  BY DEF Names, Sound, BnTypes, sys_cx_bn_destroy
<1>2. Used(mem) # {} => mem.locked /\ mem.word # 0
  BY DEF Sound, NoneUnlocked, BnTypes
<1>3. mem' = cx_mpi_destroy(mem, handle[h])
  BY <1>2 DEF sys_cx_bn_destroy
<1>4. /\ mem' \in Mems /\ mem'.locked = mem.locked /\ mem'.word = mem.word
      /\ Used(mem') = Used(mem) \ {handle[h]}
  BY <1>1, <1>2, <1>3, DestroyFrees
<1> DEFINE H == {h}
<1>5. /\ Used(mem') = Used(mem) \ {handle[g] : g \in owned \cap H}
      /\ H \in SUBSET Names /\ owned' = owned \ H /\ handle' \in [Names -> Int]
      /\ \A g \in owned \ H : handle'[g] = handle[g]
  BY <1>1, <1>4
<1> HIDE DEF H
<1> QED
  BY <1>1, <1>4, <1>5, Lost

\* sys_cx_bn_mod_pow: the slot of the exponent is nobody's.
LEMMA ModPowKeeps ==
  ASSUME Sound, NEW r \in Numbers, NEW b \in Numbers, NEW n \in Numbers, sys_cx_bn_mod_pow(r, b, n)
  PROVE  Sound'
<1>1. mem \in Mems /\ mem.locked \in BOOLEAN /\ mem.word \in Nat /\ UNCHANGED <<handle, owned>>
  BY DEF Sound, BnTypes, Mems, sys_cx_bn_mod_pow
<1>2. CASE mem.locked = FALSE
  BY <1>2 DEF sys_cx_bn_mod_pow, Sound, BnTypes, OwnedHeld, OwnedApart, UsedKnown, NoneUnlocked
<1>3. CASE mem.locked = TRUE
  <2> DEFINE e == cx_mpi_alloc(mem, mem.word)
  <2>1. mem' = e.m /\ orphans' = IF e.i = NoSlot THEN orphans ELSE orphans \cup {e.i}
    BY <1>3 DEF sys_cx_bn_mod_pow
  <2>2. /\ e.m \in Mems /\ e.m.locked = mem.locked /\ e.m.word = mem.word
        /\ e.i = NoSlot => e.m = mem
        /\ e.i # NoSlot => e.i \in Slots \ Used(mem) /\ Used(e.m) = Used(mem) \cup {e.i}
    BY <1>1, <1>3, AllocTakes DEF Sound, BnTypes
  <2> HIDE DEF e
  <2>3. BnTypes' /\ NoneUnlocked' /\ OwnedApart'
    BY <1>1, <1>3, <2>1, <2>2 DEF Sound, BnTypes, NoneUnlocked, OwnedApart
  <2>4. OwnedHeld' /\ UsedKnown'
    BY <1>1, <2>1, <2>2 DEF Sound, OwnedHeld, UsedKnown
  <2> QED
    BY <2>3, <2>4 DEF Sound
<1> QED
  BY <1>1, <1>2, <1>3

\* The coordinates of a point, and their handles after an allocation.
LEMMA CoordsNamed ==
  ASSUME NEW P \in Points
  PROVE  Coords(P) \subseteq Names /\ Coords(P) = {<<P, "x">>, <<P, "y">>, <<P, "z">>}
  BY DEF Coords, Names

LEMMA PlacedHandles ==
  ASSUME handle \in [Names -> Int], NEW P \in Points, NEW i \in Int, NEW j \in Int, NEW k \in Int, NEW f,
         f = Placed(P, <<i, j, k>>)
  PROVE  /\ f \in [Names -> Int]
         /\ f[<<P, "x">>] = i /\ f[<<P, "y">>] = j /\ f[<<P, "z">>] = k
         /\ \A g \in Names \ Coords(P) : f[g] = handle[g]
<1> DEFINE X == <<P, "x">>
           Y == <<P, "y">>
           Z == <<P, "z">>
<1>1. X \in Names /\ Y \in Names /\ Z \in Names /\ X # Y /\ X # Z /\ Y # Z /\ Coords(P) = {X, Y, Z}
  BY CoordsNamed
<1>2. f = [[[handle EXCEPT ![X] = i] EXCEPT ![Y] = j] EXCEPT ![Z] = k]
  BY DEF Placed
<1> HIDE DEF X, Y, Z
<1>3. /\ f \in [Names -> Int]
      /\ f[X] = i /\ f[Y] = j /\ f[Z] = k
      /\ \A g \in Names \ {X, Y, Z} : f[g] = handle[g]
  BY <1>1, <1>2
<1> QED
  BY <1>1, <1>3 DEF X, Y, Z

\* What three allocations leave: three slots that were free, or nothing new.
Three(m, r, i, j, k) ==
  /\ r.at = <<i, j, k>>
  /\ \/ k = NoSlot /\ Used(r.m) = Used(m)
     \/ /\ k # NoSlot /\ {i, j, k} \subseteq Slots \ Used(m)
        /\ i # j /\ i # k /\ j # k
        /\ Used(r.m) = Used(m) \cup {i, j, k}

\* Three allocations give three free slots, or change nothing that is used.
LEMMA ThreeTaken ==
  ASSUME NEW m \in Mems, NEW n \in Nat, m.word # 0, NEW r, r = AllocThree(m, n)
  PROVE  /\ r.m \in Mems /\ r.m.locked = m.locked /\ r.m.word = m.word
         /\ \E i, j, k \in Int : Three(m, r, i, j, k)
<1> DEFINE a == cx_mpi_alloc(m, n)
           b == IF a.i = NoSlot THEN a ELSE cx_mpi_alloc(a.m, n)
           c == IF b.i = NoSlot THEN b ELSE cx_mpi_alloc(b.m, n)
<1>1. NoSlot \in Int /\ Slots \subseteq Int
  BY BnAssumption DEF NoSlot, Slots
<1>2. /\ a.m \in Mems /\ a.m.locked = m.locked /\ a.m.word = m.word
      /\ a.i = NoSlot => a.m = m
      /\ a.i # NoSlot => a.i \in Slots \ Used(m) /\ Used(a.m) = Used(m) \cup {a.i}
  BY AllocTakes
<1>3. CASE a.i = NoSlot
  <2>1. r = [m |-> a.m, at |-> <<NoSlot, NoSlot, NoSlot>>]
    BY <1>3 DEF AllocThree
  <2>2. r.m = m /\ Three(m, r, NoSlot, NoSlot, NoSlot)
    BY <1>2, <1>3, <2>1 DEF Three
  <2> QED
    BY <1>1, <2>2
<1>4. CASE a.i # NoSlot /\ b.i = NoSlot
  <2>1. b = cx_mpi_alloc(a.m, n)
    BY <1>4
  <2>2. b.m = a.m
    BY <1>2, <1>4, <2>1, AllocTakes
  <2>3. r = [m |-> cx_mpi_destroy(b.m, a.i), at |-> <<a.i, NoSlot, NoSlot>>]
    BY <1>4 DEF AllocThree
  <2> HIDE DEF a, b, c
  <2>4. /\ cx_mpi_destroy(b.m, a.i) \in Mems /\ cx_mpi_destroy(b.m, a.i).locked = m.locked
        /\ cx_mpi_destroy(b.m, a.i).word = m.word /\ Used(cx_mpi_destroy(b.m, a.i)) = Used(m)
    <3>1. a.m \in Mems /\ (Used(a.m) # {} => a.m.word # 0)
      BY <1>2
    <3>2. /\ cx_mpi_destroy(a.m, a.i) \in Mems /\ cx_mpi_destroy(a.m, a.i).locked = a.m.locked
          /\ cx_mpi_destroy(a.m, a.i).word = a.m.word /\ Used(cx_mpi_destroy(a.m, a.i)) = Used(a.m) \ {a.i}
      BY <3>1, DestroyFrees
    <3> QED
      BY <1>2, <1>4, <2>2, <3>2
  <2>5. a.i \in Int /\ r.at = <<a.i, NoSlot, NoSlot>> /\ r.m = cx_mpi_destroy(b.m, a.i)
    <3>1. a.i \in Int
      BY <1>1, <1>2, <1>4
    <3>2. r.at = <<a.i, NoSlot, NoSlot>> /\ r.m = cx_mpi_destroy(b.m, a.i)
      BY <2>3
    <3> QED
      BY <3>1, <3>2
  <2>6. Three(m, r, a.i, NoSlot, NoSlot)
    BY <2>4, <2>5 DEF Three
  <2> QED
    BY <1>1, <2>4, <2>5, <2>6
<1>5. CASE a.i # NoSlot /\ b.i # NoSlot
  <2>1. b = cx_mpi_alloc(a.m, n) /\ c = cx_mpi_alloc(b.m, n)
    BY <1>5
  <2>2. /\ b.m \in Mems /\ b.m.locked = m.locked /\ b.m.word = m.word
        /\ b.i \in Slots \ Used(a.m) /\ Used(b.m) = Used(a.m) \cup {b.i}
    BY <1>2, <1>5, <2>1, AllocTakes
  <2>3. /\ c.m \in Mems /\ c.m.locked = m.locked /\ c.m.word = m.word
        /\ c.i = NoSlot => c.m = b.m
        /\ c.i # NoSlot => c.i \in Slots \ Used(b.m) /\ Used(c.m) = Used(b.m) \cup {c.i}
    BY <2>1, <2>2, AllocTakes
  <2>4. CASE c.i = NoSlot
    <3> DEFINE d == cx_mpi_destroy(c.m, b.i)
    <3>1. r = [m |-> cx_mpi_destroy(d, a.i), at |-> <<a.i, b.i, NoSlot>>]
      BY <1>5, <2>4 DEF AllocThree
    <3> HIDE DEF a, b, c
    <3>2. d \in Mems /\ d.locked = m.locked /\ d.word = m.word /\ Used(d) = Used(a.m)
      <4>1. c.m = b.m /\ (Used(b.m) # {} => b.m.word # 0)
        BY <2>2, <2>3, <2>4
      <4>2. d \in Mems /\ d.locked = b.m.locked /\ d.word = b.m.word /\ Used(d) = Used(b.m) \ {b.i}
        BY <2>2, <4>1, DestroyFrees
      <4> QED
        BY <2>2, <4>2
    <3> HIDE DEF d
    <3>3. /\ cx_mpi_destroy(d, a.i) \in Mems /\ cx_mpi_destroy(d, a.i).locked = m.locked
          /\ cx_mpi_destroy(d, a.i).word = m.word /\ Used(cx_mpi_destroy(d, a.i)) = Used(m)
      <4>1. Used(d) # {} => d.word # 0
        BY <3>2
      <4>2. /\ cx_mpi_destroy(d, a.i) \in Mems /\ cx_mpi_destroy(d, a.i).locked = d.locked
            /\ cx_mpi_destroy(d, a.i).word = d.word /\ Used(cx_mpi_destroy(d, a.i)) = Used(d) \ {a.i}
        BY <3>2, <4>1, DestroyFrees
      <4> QED
        BY <1>2, <1>5, <3>2, <4>2
    <3>4. a.i \in Int /\ b.i \in Int /\ r.at = <<a.i, b.i, NoSlot>> /\ r.m = cx_mpi_destroy(d, a.i)
      <4>1. a.i \in Int /\ b.i \in Int
        BY <1>1, <1>2, <1>5, <2>2
      <4>2. r.at = <<a.i, b.i, NoSlot>> /\ r.m = cx_mpi_destroy(d, a.i)
        BY <3>1
      <4> QED
        BY <4>1, <4>2
    <3>5. Three(m, r, a.i, b.i, NoSlot)
      BY <3>3, <3>4 DEF Three
    <3> QED
      BY <1>1, <3>3, <3>4, <3>5
  <2>5. CASE c.i # NoSlot
    <3>1. r = [m |-> c.m, at |-> <<a.i, b.i, c.i>>]
      BY <1>5, <2>5 DEF AllocThree
    <3> HIDE DEF a, b, c
    <3>2. /\ a.i \in Int /\ b.i \in Int /\ c.i \in Int
          /\ r.at = <<a.i, b.i, c.i>> /\ r.m = c.m
      <4>1. a.i \in Int /\ b.i \in Int /\ c.i \in Int
        BY <1>1, <1>2, <1>5, <2>2, <2>3, <2>5
      <4>2. r.at = <<a.i, b.i, c.i>> /\ r.m = c.m
        BY <3>1
      <4> QED
        BY <4>1, <4>2
    <3>3. /\ {a.i, b.i, c.i} \subseteq Slots \ Used(m) /\ a.i # b.i /\ a.i # c.i /\ b.i # c.i
          /\ Used(c.m) = Used(m) \cup {a.i, b.i, c.i}
      BY <1>2, <1>5, <2>2, <2>3, <2>5
    <3>4. Three(m, r, a.i, b.i, c.i)
      BY <2>5, <3>2, <3>3 DEF Three
    <3> QED
      BY <2>3, <3>2, <3>4
  <2> QED
    BY <2>4, <2>5
<1> QED
  BY <1>3, <1>4, <1>5

\* sys_cx_ecpoint_alloc: the coordinates get a slot each, or the handles are junk.
LEMMA PointAllocKeeps ==
  ASSUME Sound, NEW P \in Points, NEW n \in BnSizes, sys_cx_ecpoint_alloc(P, n)
  PROVE  Sound'
<1>1. /\ n \in Nat /\ mem \in Mems /\ handle \in [Names -> Int] /\ mem.locked \in BOOLEAN
      /\ owned \subseteq Names /\ Coords(P) \cap owned = {} /\ orphans' = orphans
  BY BnAssumption DEF sys_cx_ecpoint_alloc, Sound, BnTypes, Mems
<1>2. Coords(P) \subseteq Names /\ Coords(P) = {<<P, "x">>, <<P, "y">>, <<P, "z">>}
  BY CoordsNamed
<1>3. NoSlot \in Int /\ Slots \subseteq Int
  BY BnAssumption DEF NoSlot, Slots
<1>4. CASE mem.locked = FALSE
  <2>1. handle' = Placed(P, <<NoSlot, NoSlot, NoSlot>>) /\ mem' = mem /\ owned' = owned
    BY <1>4 DEF sys_cx_ecpoint_alloc
  <2>2. handle' \in [Names -> Int] /\ \A g \in Names \ Coords(P) : handle'[g] = handle[g]
    <3>1. NoSlot \in Int /\ handle \in [Names -> Int] /\ handle' = Placed(P, <<NoSlot, NoSlot, NoSlot>>)
      BY <1>1, <1>3, <2>1
    <3>2. \E i, j, k \in Int : handle' = Placed(P, <<i, j, k>>)
      <4> USE <1>3
      <4> WITNESS NoSlot \in Int, NoSlot \in Int, NoSlot \in Int
      <4> QED
        BY <3>1
    <3>3. PICK i, j, k \in Int : handle' = Placed(P, <<i, j, k>>)
      BY <3>2
    <3>4. /\ handle' \in [Names -> Int]
          /\ handle'[<<P, "x">>] = i /\ handle'[<<P, "y">>] = j /\ handle'[<<P, "z">>] = k
          /\ \A g \in Names \ Coords(P) : handle'[g] = handle[g]
      BY <1>1, <3>3, PlacedHandles
    <3> QED
      BY <3>4
  <2>3. \A g \in owned : handle'[g] = handle[g]
    BY <1>1, <2>2
  <2> QED
    BY <1>1, <2>1, <2>2, <2>3 DEF Sound, BnTypes, OwnedHeld, OwnedApart, UsedKnown, NoneUnlocked
<1>5. CASE mem.locked = TRUE
  <2> DEFINE a == AllocThree(mem, n)
  <2>1. /\ mem' = a.m /\ handle' = Placed(P, a.at)
        /\ owned' = IF a.at[3] # NoSlot THEN owned \cup Coords(P) ELSE owned
    BY <1>5 DEF sys_cx_ecpoint_alloc
  <2>2. /\ a.m \in Mems /\ a.m.locked = mem.locked /\ a.m.word = mem.word
        /\ \E i, j, k \in Int : Three(mem, a, i, j, k)
    BY <1>1, <1>5, ThreeTaken DEF Sound, BnTypes
  <2> HIDE DEF a
  <2>3. PICK i, j, k \in Int : Three(mem, a, i, j, k)
    BY <2>2
  <2>4. a.at = <<i, j, k>> /\ a.at[3] = k
    BY <2>3 DEF Three
  <2>5. /\ handle' \in [Names -> Int]
        /\ handle'[<<P, "x">>] = i /\ handle'[<<P, "y">>] = j /\ handle'[<<P, "z">>] = k
        /\ \A g \in Names \ Coords(P) : handle'[g] = handle[g]
    BY <1>1, <2>1, <2>4, PlacedHandles
  <2>6. \A g \in owned : handle'[g] = handle[g]
    BY <1>1, <2>5
  <2>7. CASE k = NoSlot
    <3> DEFINE H == {}
    <3>1. owned' = owned \cup H /\ Used(mem') = Used(mem) \cup {handle'[g] : g \in H}
      BY <2>1, <2>3, <2>4, <2>7 DEF Three
    <3>2. /\ H \in SUBSET (Names \ owned) /\ \A g \in H : handle'[g] \in Slots \ Used(mem)
          /\ \A g, h \in H : handle'[g] = handle'[h] => g = h
      OBVIOUS
    <3> HIDE DEF H
    <3> QED
      BY <1>1, <1>5, <2>1, <2>2, <2>5, <2>6, <3>1, <3>2, Gained
  <2>8. CASE k # NoSlot
    <3> DEFINE H == Coords(P)
    <3>1. /\ {i, j, k} \subseteq Slots \ Used(mem) /\ i # j /\ i # k /\ j # k
          /\ Used(mem') = Used(mem) \cup {i, j, k}
      BY <2>1, <2>3, <2>8 DEF Three
    <3>2. {handle'[g] : g \in H} = {i, j, k}
      BY <1>2, <2>5
    <3>3. owned' = owned \cup H /\ Used(mem') = Used(mem) \cup {handle'[g] : g \in H}
      BY <2>1, <2>4, <2>8, <3>1, <3>2
    <3>4. H \in SUBSET (Names \ owned) /\ \A g \in H : handle'[g] \in Slots \ Used(mem)
      BY <1>1, <1>2, <3>1, <3>2
    <3>5. \A g, h \in H : handle'[g] = handle'[h] => g = h
      BY <1>2, <2>5, <3>1
    <3> HIDE DEF H
    <3> QED
      BY <1>1, <1>5, <2>1, <2>2, <2>5, <2>6, <3>3, <3>4, <3>5, Gained
  <2> QED
    BY <2>7, <2>8
<1> QED
  BY <1>1, <1>4, <1>5

\* sys_cx_ecpoint_destroy: the slots of its coordinates are free, and nothing else.
LEMMA PointDestroyKeeps ==
  ASSUME Sound, NEW P \in Points, sys_cx_ecpoint_destroy(P)
  PROVE  Sound'
<1> DEFINE x == handle[<<P, "x">>]
           y == handle[<<P, "y">>]
           z == handle[<<P, "z">>]
           H == Coords(P)
<1>1. /\ mem \in Mems /\ handle \in [Names -> Int] /\ mem.locked \in BOOLEAN /\ owned \subseteq Names
      /\ orphans' = orphans /\ owned' = owned \ H /\ handle' = Placed(P, <<0, 0, 0>>)
      /\ H \subseteq owned \/ mem.locked = FALSE
  BY DEF sys_cx_ecpoint_destroy, Sound, BnTypes, Mems
<1>2. H \in SUBSET Names /\ H = {<<P, "x">>, <<P, "y">>, <<P, "z">>}
  BY CoordsNamed
<1>3. handle' \in [Names -> Int] /\ \A g \in owned \ H : handle'[g] = handle[g]
  <2>1. 0 \in Int /\ handle \in [Names -> Int] /\ handle' = Placed(P, <<0, 0, 0>>)
    BY <1>1
  <2>2. handle' \in [Names -> Int] /\ \A g \in Names \ Coords(P) : handle'[g] = handle[g]
    <3>1. \E i, j, k \in Int : handle' = Placed(P, <<i, j, k>>)
      <4> WITNESS 0 \in Int, 0 \in Int, 0 \in Int
      <4> QED
        BY <2>1
    <3>2. PICK i, j, k \in Int : handle' = Placed(P, <<i, j, k>>)
      BY <3>1
    <3>3. handle \in [Names -> Int]
      BY <1>1
    <3>4. /\ handle' \in [Names -> Int]
          /\ handle'[<<P, "x">>] = i /\ handle'[<<P, "y">>] = j /\ handle'[<<P, "z">>] = k
          /\ \A g \in Names \ Coords(P) : handle'[g] = handle[g]
      BY <3>2, <3>3, PlacedHandles
    <3> QED
      BY <3>4
  <2> QED
    BY <1>1, <2>2
<1>4. CASE mem.locked = FALSE
  <2>1. mem' = mem
    BY <1>4 DEF sys_cx_ecpoint_destroy
  <2>2. owned = {}
    BY <1>4 DEF Sound, NoneUnlocked, OwnedHeld
  <2>3. Used(mem') = Used(mem) \ {handle[g] : g \in owned \cap H}
    BY <2>1, <2>2
  <2> HIDE DEF H
  <2> QED
    BY <1>1, <1>2, <1>3, <2>1, <2>3, Lost
<1>5. CASE mem.locked = TRUE
  <2> DEFINE c == cx_mpi_destroy(mem, x)
             d == cx_mpi_destroy(c, y)
             e == cx_mpi_destroy(d, z)
  <2>1. mem.word # 0
    BY <1>5 DEF Sound, BnTypes
  <2>2. mem' = e
    BY <1>5 DEF sys_cx_ecpoint_destroy, DestroyThree
  <2> HIDE DEF x, y, z
  <2>3. c \in Mems /\ c.locked = mem.locked /\ c.word = mem.word /\ Used(c) = Used(mem) \ {x}
    BY <1>1, <2>1, DestroyFrees
  <2> HIDE DEF c
  <2>4. d \in Mems /\ d.locked = mem.locked /\ d.word = mem.word /\ Used(d) = Used(mem) \ {x, y}
    <3>1. d \in Mems /\ d.locked = c.locked /\ d.word = c.word /\ Used(d) = Used(c) \ {y}
      BY <2>1, <2>3, DestroyFrees
    <3> QED
      BY <2>3, <3>1
  <2> HIDE DEF d
  <2>5. e \in Mems /\ e.locked = mem.locked /\ e.word = mem.word /\ Used(e) = Used(mem) \ {x, y, z}
    <3>1. e \in Mems /\ e.locked = d.locked /\ e.word = d.word /\ Used(e) = Used(d) \ {z}
      BY <2>1, <2>4, DestroyFrees
    <3> QED
      BY <2>4, <3>1
  <2> HIDE DEF e
  <2>6. {handle[g] : g \in owned \cap H} = {x, y, z}
    <3>1. owned \cap H = {<<P, "x">>, <<P, "y">>, <<P, "z">>}
      BY <1>1, <1>2, <1>5
    <3> QED
      BY <3>1 DEF x, y, z
  <2>7. /\ mem' \in Mems /\ mem'.locked = mem.locked /\ mem'.word = mem.word
        /\ Used(mem') = Used(mem) \ {handle[g] : g \in owned \cap H}
    BY <2>2, <2>5, <2>6
  <2> HIDE DEF H
  <2> QED
    BY <1>1, <1>2, <1>3, <2>7, Lost
<1> QED
  BY <1>1, <1>4, <1>5

\* sys_cx_bn_lock: the slots stay as they were, all free.
LEMMA LockKeeps ==
  ASSUME Sound, sys_cx_bn_lock
  PROVE  Sound'
<1>1. mem \in Mems /\ mem.locked \in BOOLEAN /\ UNCHANGED <<handle, owned, orphans>>
  BY DEF Sound, BnTypes, Mems, sys_cx_bn_lock
<1>2. CASE mem.locked = TRUE
  <2>1. mem' = mem
    BY <1>2 DEF sys_cx_bn_lock
  <2> QED
    BY <1>1, <2>1 DEF Sound, BnTypes, OwnedHeld, OwnedApart, UsedKnown, NoneUnlocked
<1>3. CASE mem.locked = FALSE
  <2>1. PICK n \in BnSizes :
          mem' = [mem EXCEPT !.locked = TRUE, !.word = ToWords(n, BnAlign), !.words = 0, !.total = 0]
    BY <1>3 DEF sys_cx_bn_lock
  <2> DEFINE w == ToWords(n, BnAlign)
  <2>2. w \in Nat /\ w # 0
    BY BnAssumption, ToWordsPositive
  <2> HIDE DEF w
  <2>3. mem' \in Mems
    <3>1. 0 \in Int /\ TRUE \in BOOLEAN /\ w \in Nat
      BY <2>2
    <3> DEFINE o == 0
               e == [mem EXCEPT !.locked = TRUE, !.word = w, !.words = o, !.total = o]
    <3>2. mem' = e
      BY <2>1 DEF w
    <3> HIDE DEF o
    <3>3. e \in Mems
      BY <1>1, <3>1, Zenon DEF Mems, o
    <3> QED
      BY <3>2, <3>3
  <2>4. mem'.word = w /\ mem'.size = mem.size
    BY <1>1, <2>1 DEF Mems, w
  <2>5. Used(mem') = Used(mem)
    BY <2>4 DEF Used
  <2> QED
    BY <1>1, <2>2, <2>3, <2>4, <2>5, <1>3 DEF Sound, BnTypes, OwnedHeld, OwnedApart, UsedKnown, NoneUnlocked
<1> QED
  BY <1>1, <1>2, <1>3

\* The state of an engine that is not locked.
LEMMA ClosedFree ==
  Closed \in Mems /\ Closed.locked = FALSE /\ Used(Closed) = {}
<1>1. Closed \in Mems /\ Closed.locked = FALSE /\ Closed.size = [i \in Slots |-> 0]
  BY DEF Closed, Mems
<1> QED
  BY <1>1 DEF Used

\* sys_cx_bn_unlock repairs everything: no slot is used and nothing is owned.
LEMMA UnlockKeeps ==
  ASSUME undef = FALSE => Sound, handle \in [Names -> Int], undef \in BOOLEAN, sys_cx_bn_unlock
  PROVE  undef' \in BOOLEAN /\ handle' = handle /\ (undef' = FALSE => Sound')
<1>1. handle' = handle
  BY DEF sys_cx_bn_unlock
<1>2. CASE ~mem.locked
  <2>1. UNCHANGED <<mem, owned, orphans, undef, handle>>
    BY <1>1, <1>2 DEF sys_cx_bn_unlock
  <2> QED
    BY <2>1 DEF Sound, BnTypes, OwnedHeld, OwnedApart, UsedKnown, NoneUnlocked
<1>3. CASE mem.locked
  <2>1. mem' = Closed /\ owned' = {} /\ orphans' = {} /\ undef' = FALSE
    BY <1>3 DEF sys_cx_bn_unlock
  <2>2. mem' \in Mems /\ mem'.locked = FALSE /\ Used(mem') = {}
    BY <2>1, ClosedFree
  <2> QED
    BY <1>1, <2>1, <2>2 DEF Sound, BnTypes, OwnedHeld, OwnedApart, UsedKnown, NoneUnlocked
<1> QED
  BY <1>1, <1>2, <1>3

\* cx_mpi_ecpoint_normalize changes nothing, or destroys what it should not.
LEMMA NormalizeKeeps ==
  ASSUME Sound, undef = FALSE, NEW P \in Points, NEW n \in BnSizes, NormalizePoint(P, n)
  PROVE  (undef' = TRUE /\ handle' = handle) \/ UNCHANGED <<mem, handle, owned, orphans, undef>>
  BY DEF NormalizePoint

\* A call that only converts its handles leaves the engine alone.
LEMMA UnchangedKeeps ==
  ASSUME Sound, UNCHANGED <<mem, handle, owned, orphans>>
  PROVE  Sound'
  BY DEF Sound, BnTypes, OwnedHeld, OwnedApart, UsedKnown, NoneUnlocked

\* Every call of an application that has not lost a number to a failed
\* normalization keeps what it owns.
LEMMA CallKeeps ==
  ASSUME Sound, undef = FALSE, BnNext
  PROVE  (undef' = TRUE /\ handle' = handle) \/ (undef' = FALSE /\ Sound')
<1>1. CASE sys_cx_bn_unlock
  <2>1. handle \in [Names -> Int] /\ undef \in BOOLEAN
    BY DEF Sound, BnTypes
  <2>2. undef' \in BOOLEAN /\ handle' = handle /\ (undef' = FALSE => Sound')
    BY <1>1, <2>1, UnlockKeeps
  <2> QED
    BY <2>2
<1>2. CASE sys_cx_bn_lock
  BY <1>2, LockKeeps DEF sys_cx_bn_lock
<1>3. ASSUME NEW h \in Numbers, sys_cx_bn_destroy(h)
      PROVE  undef' = FALSE /\ Sound'
  BY <1>3, DestroyKeeps DEF sys_cx_bn_destroy
<1>4. ASSUME NEW h \in Numbers, NEW n \in BnSizes, sys_cx_bn_alloc(h, n)
      PROVE  undef' = FALSE /\ Sound'
  BY <1>4, AllocKeeps DEF sys_cx_bn_alloc
<1>5. ASSUME \/ \E h \in Names : sys_cx_bn_one(h)
             \/ \E a, b \in Numbers : sys_cx_bn_two(a, b) \/ sys_cx_bn_copy(a, b)
             \/ \E r, a, b \in Numbers : sys_cx_bn_three(r, a, b)
             \/ \E r, a, n \in Numbers : sys_cx_bn_mod_invert_nprime(r, a, n)
             \/ \E P \in Points : sys_cx_ecpoint_use(P)
      PROVE  undef' = FALSE /\ Sound'
  <2>1. UNCHANGED <<mem, handle, owned, orphans, undef>>
    BY <1>5 DEF sys_cx_bn_one, sys_cx_bn_two, sys_cx_bn_copy, sys_cx_bn_three,
                sys_cx_bn_mod_invert_nprime, sys_cx_ecpoint_use
  <2> QED
    BY <2>1, UnchangedKeeps
<1>6. ASSUME NEW r \in Numbers, NEW a \in Numbers, NEW n \in Numbers, sys_cx_bn_mod_pow(r, a, n)
      PROVE  undef' = FALSE /\ Sound'
  BY <1>6, ModPowKeeps DEF sys_cx_bn_mod_pow
<1>7. ASSUME NEW P \in Points, sys_cx_ecpoint_destroy(P)
      PROVE  undef' = FALSE /\ Sound'
  BY <1>7, PointDestroyKeeps DEF sys_cx_ecpoint_destroy
<1>8. ASSUME NEW P \in Points, NEW n \in BnSizes, sys_cx_ecpoint_alloc(P, n)
      PROVE  undef' = FALSE /\ Sound'
  BY <1>8, PointAllocKeeps DEF sys_cx_ecpoint_alloc
<1>9. ASSUME NEW P \in Points, NEW n \in BnSizes, NormalizePoint(P, n)
      PROVE  (undef' = TRUE /\ handle' = handle) \/ (undef' = FALSE /\ Sound')
  <2>1. (undef' = TRUE /\ handle' = handle) \/ UNCHANGED <<mem, handle, owned, orphans, undef>>
    BY <1>9, NormalizeKeeps
  <2> QED
    BY <2>1, UnchangedKeeps
<1> QED
  BY <1>1, <1>2, <1>3, <1>4, <1>5, <1>6, <1>7, <1>8, <1>9 DEF BnNext

(* Unless a failed normalization destroyed handles that cx_ecpoint.c never *)
(* wrote, the handles an application owns name used slots, each its own,   *)
(* and no other slot is used but those sys_cx_bn_mod_pow leaves behind.    *)
THEOREM SlotsOwned == BnSpec => []BnOwned
<1>1. BnInit => BnInv
  <2> SUFFICES ASSUME BnInit PROVE BnInv
    OBVIOUS
  <2>1. mem = Closed /\ handle = [h \in Names |-> NoSlot] /\ owned = {} /\ orphans = {} /\ undef = FALSE
    BY DEF BnInit
  <2>2. mem \in Mems /\ mem.locked = FALSE /\ Used(mem) = {}
    BY <2>1, ClosedFree
  <2>3. handle \in [Names -> Int]
    BY <2>1 DEF NoSlot
  <2> QED
    BY <2>1, <2>2, <2>3 DEF BnInv, Sound, BnTypes, OwnedHeld, OwnedApart, UsedKnown, NoneUnlocked
<1>2. BnInv /\ [BnNext]_bnVars => BnInv'
  <2> SUFFICES ASSUME BnInv, [BnNext]_bnVars PROVE BnInv'
    OBVIOUS
  <2>1. CASE UNCHANGED bnVars
    BY <2>1, UnchangedKeeps DEF BnInv, bnVars
  <2>2. CASE BnNext /\ undef = FALSE
    BY <2>2, CallKeeps DEF BnInv, Sound, BnTypes
  <2>3. CASE BnNext /\ undef = TRUE
    <3>1. sys_cx_bn_unlock
      BY <2>3 DEF BnNext
    <3> QED
      BY <3>1, <2>3, UnlockKeeps DEF BnInv
  <2> QED
    BY <2>1, <2>2, <2>3 DEF BnInv
<1>3. BnInv => BnOwned
  BY DEF BnInv, Sound, OwnedHeld, OwnedApart, UsedKnown, BnOwned
<1> QED
  BY <1>1, <1>2, <1>3, PTL DEF BnSpec

---------------------------------------------------------------------------
(* The totals.  They are exact because every width is a multiple of the    *)
(* word, so that no division of cx_mpi_alloc or cx_mpi_destroy rounds.     *)
Multiples(m) == \A i \in Slots : \E k \in Nat : m.size[i] = k * m.word
Balanced(m) ==
  /\ m \in Mems /\ (m.locked = TRUE => m.word # 0)
  /\ IsFiniteSet(SlotBytes(m)) /\ m.total = Cardinality(SlotBytes(m))
  /\ m.words * m.word = m.total /\ m.total <= BnMaxBytes
  /\ Multiples(m)
  /\ m.locked = FALSE => m = Closed

LEMMA DivExact == ASSUME NEW k \in Nat, NEW w \in Nat \ {0} PROVE (k * w) \div w = k
<1> DEFINE a == k * w
           q == a \div w
<1>1. a \in Nat /\ w \in Nat /\ w > 0
  OBVIOUS
<1> HIDE DEF a
<1>2. q \in Int /\ a = w * q + (a % w) /\ a % w \in 0..(w - 1)
  BY <1>1
<1> HIDE DEF q
<1>3. PICK r \in 0..(w - 1) : a = w * q + r
  BY <1>2
<1>4. (k - q) * w = r /\ k - q \in Int
  <2>1. k * w = w * q + r
    BY <1>3 DEF a
  <2> QED
    BY <1>1, <1>2, <1>3, <2>1
<1>5. ASSUME NEW x \in Int, x * w = r PROVE x = 0
  <2>1. x >= 1 => x * w >= w
    BY <1>1
  <2>2. x <= -1 => x * w <= 0 - w
    BY <1>1
  <2> QED
    BY <1>1, <1>5, <2>1, <2>2
<1>6. k - q = 0
  BY <1>4, <1>5
<1> QED
  BY <1>2, <1>6 DEF q, a

LEMMA ToWordsMultiple ==
  ASSUME NEW n \in Nat, NEW u \in Nat \ {0}
  PROVE  \E k \in Nat : ToWords(n, u) = k * u
<1>1. CASE n = 0
  <2>1. ToWords(n, u) = 1 * u
    BY <1>1 DEF ToWords
  <2> QED
    BY <2>1
<1>2. CASE n # 0
  <2> DEFINE q == (n + u - 1) \div u
  <2>1. ToWords(n, u) = q * u
    BY <1>2 DEF ToWords
  <2>2. n + u - 1 \in Nat
    BY <1>2
  <2>3. q \in Nat
    BY <2>2
  <2> QED
    BY <2>1, <2>3
<1> QED
  BY <1>1, <1>2

\* The bytes of one slot.
LEMMA OneSlot ==
  ASSUME NEW i, NEW w \in Nat
  PROVE  IsFiniteSet({i} \X (1..w)) /\ Cardinality({i} \X (1..w)) = w
<1> DEFINE f == [k \in 1..w |-> <<i, k>>]
<1>1. f \in Bijection(1..w, {i} \X (1..w))
  <2>1. f \in [1..w -> {i} \X (1..w)]
    OBVIOUS
  <2>2. \A a, b \in 1..w : f[a] = f[b] => a = b
    OBVIOUS
  <2>3. \A t \in {i} \X (1..w) : \E a \in 1..w : f[a] = t
    OBVIOUS
  <2> QED
    BY <2>1, <2>2, <2>3 DEF Bijection, Injection, Surjection, IsInjective
<1>2. ExistsBijection(1..w, {i} \X (1..w))
  BY <1>1 DEF ExistsBijection
<1>3. IsFiniteSet(1..w) /\ Cardinality(1..w) = w
  BY FS_Interval
<1> QED
  BY <1>2, <1>3, FS_Bijection

LEMMA BytesMember ==
  ASSUME NEW m
  PROVE  \A t : t \in SlotBytes(m) <=> \E i \in Slots : t \in {i} \X (1..m.size[i])
  BY DEF SlotBytes

\* Two engines that differ in one slot, which is free in the first.
LEMMA BytesOfOneMore ==
  ASSUME NEW m \in Mems, NEW e \in Mems, NEW i \in Slots, m.size[i] = 0,
         \A j \in Slots : j # i => e.size[j] = m.size[j]
  PROVE  /\ SlotBytes(e) = SlotBytes(m) \cup ({i} \X (1..e.size[i]))
         /\ SlotBytes(m) \cap ({i} \X (1..e.size[i])) = {}
         /\ IsFiniteSet(SlotBytes(m)) <=> IsFiniteSet(SlotBytes(e))
         /\ IsFiniteSet(SlotBytes(m)) => Cardinality(SlotBytes(e)) = Cardinality(SlotBytes(m)) + e.size[i]
<1> DEFINE B == SlotBytes(m)
           C == {i} \X (1..e.size[i])
<1>1. e.size[i] \in Nat /\ 1..m.size[i] = {}
  BY DEF Mems
<1>2. IsFiniteSet(C) /\ Cardinality(C) = e.size[i]
  BY <1>1, OneSlot
<1>3. SlotBytes(e) = B \cup C
  <2>1. ASSUME NEW t \in SlotBytes(e) PROVE t \in B \cup C
    <3>1. PICK j \in Slots : t \in {j} \X (1..e.size[j])
      BY BytesMember
    <3>2. j # i => t \in {j} \X (1..m.size[j])
      BY <3>1
    <3>3. j # i => t \in B
      BY <3>2, BytesMember
    <3> QED
      BY <3>1, <3>3
  <2>2. ASSUME NEW t \in B PROVE t \in SlotBytes(e)
    <3>1. PICK j \in Slots : t \in {j} \X (1..m.size[j])
      BY BytesMember
    <3>2. j # i
      BY <1>1, <3>1
    <3>3. t \in {j} \X (1..e.size[j])
      BY <3>1, <3>2
    <3> QED
      BY <3>3, BytesMember
  <2>3. ASSUME NEW t \in C PROVE t \in SlotBytes(e)
    BY BytesMember
  <2> QED
    BY <2>1, <2>2, <2>3
<1>4. B \cap C = {}
  <2> SUFFICES ASSUME NEW t \in B, t \in C PROVE FALSE
    OBVIOUS
  <2>1. PICK j \in Slots : t \in {j} \X (1..m.size[j])
    BY BytesMember
  <2>2. j = i
    BY <2>1
  <2> QED
    BY <1>1, <2>1, <2>2
<1> HIDE DEF B, C
<1>5. IsFiniteSet(B) => /\ IsFiniteSet(SlotBytes(e))
                        /\ Cardinality(SlotBytes(e)) = Cardinality(B) + Cardinality(C) - Cardinality(B \cap C)
  BY <1>2, <1>3, FS_Union
<1>6. IsFiniteSet(SlotBytes(e)) => IsFiniteSet(B)
  BY <1>3, FS_Subset
<1>7. IsFiniteSet(B) => Cardinality(SlotBytes(e)) = Cardinality(B) + e.size[i]
  <2>1. IsFiniteSet(B) => Cardinality(B) \in Nat
    BY FS_CardinalityType
  <2>2. Cardinality(B \cap C) = 0
    BY <1>4, FS_EmptySet
  <2>3. IsFiniteSet(B) => Cardinality(SlotBytes(e)) = Cardinality(B) + e.size[i] - 0
    BY <1>2, <1>5, <2>2
  <2> QED
    BY <1>1, <2>1, <2>3
<1> QED
  BY <1>3, <1>4, <1>5, <1>6, <1>7 DEF B, C

\* A number of a whole number of words, in a slot that was free.
LEMMA AllocatedBalanced ==
  ASSUME NEW m, Balanced(m), m.locked = TRUE, NEW i \in Slots, m.size[i] = 0, NEW k \in Nat,
         m.total + k * m.word <= BnMaxBytes
  PROVE  Balanced(Allocated(m, i, k * m.word))
<1> DEFINE w == k * m.word
           e == Allocated(m, i, w)
<1>1. m \in Mems /\ m.word \in Nat \ {0} /\ m.size \in [Slots -> Nat] /\ m.total \in Int /\ m.words \in Int
  BY DEF Balanced, Mems
<1>2. w \in Nat /\ w \div m.word = k
  BY <1>1, DivExact
<1> HIDE DEF w
<1>3. /\ e \in Mems /\ e.locked = TRUE /\ e.word = m.word /\ e.size = [m.size EXCEPT ![i] = w]
      /\ e.total = m.total + w /\ e.words = m.words + k
  <2> DEFINE sz == [m.size EXCEPT ![i] = w]
             t == m.total + w
             c == m.words + k
             f == [m EXCEPT !.size = sz, !.total = t, !.words = c]
  <2>1. sz \in [Slots -> Nat] /\ t \in Int /\ c \in Int
    BY <1>1, <1>2
  <2>2. e = f
    BY <1>1, <1>2 DEF Mems, Allocated
  <2> HIDE DEF e, sz, t, c
  <2>3. f \in Mems
    BY <1>1, <2>1, Zenon DEF Mems
  <2>4. f.locked = m.locked /\ f.word = m.word /\ f.size = sz /\ f.total = t /\ f.words = c
    BY <1>1 DEF Mems
  <2> QED
    BY <2>2, <2>3, <2>4 DEF sz, t, c
<1> HIDE DEF e
<1>4. e.size[i] = w /\ \A j \in Slots : j # i => e.size[j] = m.size[j]
  BY <1>1, <1>3
<1>5. IsFiniteSet(SlotBytes(e)) /\ Cardinality(SlotBytes(e)) = Cardinality(SlotBytes(m)) + w
  <2>1. IsFiniteSet(SlotBytes(m))
    BY DEF Balanced
  <2> QED
    BY <1>1, <1>3, <1>4, <2>1, BytesOfOneMore
<1>6. e.total = Cardinality(SlotBytes(e))
  BY <1>3, <1>5 DEF Balanced
<1>7. e.words * e.word = e.total
  <2>1. m.words * m.word = m.total /\ k \in Int /\ m.word \in Int
    BY <1>1 DEF Balanced
  <2>2. (m.words + k) * m.word = m.words * m.word + k * m.word
    BY <1>1, <2>1
  <2> QED
    BY <1>3, <2>1, <2>2 DEF w
<1>8. Multiples(e)
  <2> SUFFICES ASSUME NEW j \in Slots PROVE \E q \in Nat : e.size[j] = q * e.word
    BY DEF Multiples
  <2>1. CASE j = i
    BY <1>3, <1>4, <2>1 DEF w
  <2>2. CASE j # i
    BY <1>3, <1>4, <2>2 DEF Balanced, Multiples
  <2> QED
    BY <2>1, <2>2
<1>9. e.total <= BnMaxBytes
  BY <1>3 DEF w
<1> QED
  BY <1>1, <1>3, <1>5, <1>6, <1>7, <1>8, <1>9 DEF Balanced, e, w

LEMMA AllocBalanced ==
  ASSUME NEW m, Balanced(m), m.locked = TRUE, NEW n \in Nat
  PROVE  Balanced(cx_mpi_alloc(m, n).m) /\ cx_mpi_alloc(m, n).m.locked = TRUE
<1>1. m \in Mems /\ m.word \in Nat \ {0} /\ m.total \in Int
  BY DEF Balanced, Mems
<1>2. cx_mpi_alloc(m, n).m.locked = TRUE
  BY <1>1, AllocTakes
<1>3. CASE HasRoom(m, n)
  <2> DEFINE i == FirstFree(m)
  <2>1. Free(m) \subseteq Nat /\ Free(m) # {}
    BY <1>3, BnAssumption DEF HasRoom, Free, Slots
  <2>2. i \in Free(m)
    <3>1. \E k \in Free(m) : \A j \in Free(m) : k <= j
      BY <2>1, Least
    <3> QED
      BY <3>1 DEF FirstFree
  <2>3. i \in Slots /\ m.size[i] = 0
    BY <2>2 DEF Free, Used
  <2> HIDE DEF i
  <2>4. PICK k \in Nat : ToWords(n, m.word) = k * m.word
    BY <1>1, ToWordsMultiple
  <2>5. m.total + k * m.word <= BnMaxBytes
    BY <1>1, <1>3, <2>4 DEF HasRoom
  <2>6. Balanced(Allocated(m, i, k * m.word))
    BY <2>3, <2>5, AllocatedBalanced
  <2>7. cx_mpi_alloc(m, n).m = Allocated(m, i, k * m.word)
    BY <1>3, <2>4 DEF cx_mpi_alloc, HasRoom, i
  <2> QED
    BY <1>2, <2>6, <2>7
<1>4. CASE ~HasRoom(m, n)
  <2>1. cx_mpi_alloc(m, n).m = m
    BY <1>4 DEF cx_mpi_alloc, HasRoom
  <2> QED
    BY <1>2, <2>1
<1> QED
  BY <1>3, <1>4

LEMMA ClosedUnused == Used(Closed) = {}
  BY DEF Used, Closed

LEMMA DestroyBalanced ==
  ASSUME NEW m, Balanced(m), NEW i
  PROVE  Balanced(cx_mpi_destroy(m, i)) /\ cx_mpi_destroy(m, i).locked = m.locked
<1>1. CASE i \notin Used(m)
  BY <1>1 DEF cx_mpi_destroy
<1>2. CASE i \in Used(m)
  <2> DEFINE e == [m EXCEPT !.total = @ - m.size[i], !.words = @ - m.size[i] \div m.word, !.size[i] = 0]
  <2>1. m \in Mems /\ m.locked \in BOOLEAN /\ m.word \in Nat /\ m.size \in [Slots -> Nat] /\ m.total \in Int /\ m.words \in Int
    BY DEF Balanced, Mems
  <2>2. m.locked = TRUE
    <3>1. m.locked = FALSE => m = Closed
      BY DEF Balanced
    <3> QED
      BY <1>2, <2>1, <3>1, ClosedUnused
  <2>3. m.word \in Nat \ {0} /\ i \in Slots /\ m.size[i] \in Nat
    BY <1>2, <2>1, <2>2 DEF Balanced, Used
  <2>4. PICK k \in Nat : m.size[i] = k * m.word
    BY <2>3 DEF Balanced, Multiples
  <2>5. m.size[i] \div m.word = k
    BY <2>3, <2>4, DivExact
  <2>6. cx_mpi_destroy(m, i) = e
    BY <1>2 DEF cx_mpi_destroy
  <2>7. /\ e \in Mems /\ e.locked = m.locked /\ e.word = m.word /\ e.size = [m.size EXCEPT ![i] = 0]
        /\ e.total = m.total - m.size[i] /\ e.words = m.words - k
    <3> DEFINE sz == [m.size EXCEPT ![i] = 0]
               t == m.total - m.size[i]
               c == m.words - k
               f == [m EXCEPT !.size = sz, !.total = t, !.words = c]
    <3>1. sz \in [Slots -> Nat] /\ t \in Int /\ c \in Int
      BY <2>1, <2>3
    <3>2. e = f
      BY <2>1, <2>5 DEF Mems
    <3> HIDE DEF e, sz, t, c
    <3>3. f \in Mems
      BY <2>1, <3>1, Zenon DEF Mems
    <3>4. f.locked = m.locked /\ f.word = m.word /\ f.size = sz /\ f.total = t /\ f.words = c
      BY <2>1 DEF Mems
    <3> QED
      BY <3>2, <3>3, <3>4 DEF sz, t, c
  <2> HIDE DEF e
  <2>8. e.size[i] = 0 /\ \A j \in Slots : j # i => m.size[j] = e.size[j]
    BY <2>1, <2>3, <2>7
  <2>9. IsFiniteSet(SlotBytes(e)) /\ Cardinality(SlotBytes(m)) = Cardinality(SlotBytes(e)) + m.size[i] /\ Cardinality(SlotBytes(e)) \in Nat
    <3>1. IsFiniteSet(SlotBytes(m))
      BY DEF Balanced
    <3>2. /\ IsFiniteSet(SlotBytes(e)) <=> IsFiniteSet(SlotBytes(m))
          /\ IsFiniteSet(SlotBytes(e)) => Cardinality(SlotBytes(m)) = Cardinality(SlotBytes(e)) + m.size[i]
      BY <2>1, <2>3, <2>7, <2>8, BytesOfOneMore
    <3> QED
      BY <3>1, <3>2, FS_CardinalityType
  <2>10. e.total = Cardinality(SlotBytes(e)) /\ e.total <= BnMaxBytes
    BY <2>1, <2>3, <2>7, <2>9, BnAssumption DEF Balanced
  <2>11. e.words * e.word = e.total
    <3>1. m.words * m.word = m.total
      BY DEF Balanced
    <3>2. (m.words - k) * m.word = m.words * m.word - k * m.word
      BY <2>1
    <3> QED
      BY <2>4, <2>7, <3>1, <3>2
  <2>12. Multiples(e)
    <3> SUFFICES ASSUME NEW j \in Slots PROVE \E q \in Nat : e.size[j] = q * e.word
      BY DEF Multiples
    <3>1. CASE j = i
      <4>1. e.size[j] = 0 * e.word
        BY <2>1, <2>7, <2>8, <3>1
      <4> QED
        BY <4>1
    <3>2. CASE j # i
      BY <2>7, <2>8, <3>2 DEF Balanced, Multiples
    <3> QED
      BY <3>1, <3>2
  <2> QED
    BY <2>2, <2>3, <2>6, <2>7, <2>9, <2>10, <2>11, <2>12 DEF Balanced
<1> QED
  BY <1>1, <1>2

LEMMA ThreeBalanced ==
  ASSUME NEW m, Balanced(m), NEW at
  PROVE  Balanced(DestroyThree(m, at))
<1>1. Balanced(cx_mpi_destroy(m, at[1]))
  BY DestroyBalanced
<1>2. Balanced(cx_mpi_destroy(cx_mpi_destroy(m, at[1]), at[2]))
  BY <1>1, DestroyBalanced
<1> QED
  BY <1>2, DestroyBalanced DEF DestroyThree

LEMMA AllocThreeBalanced ==
  ASSUME NEW m, Balanced(m), m.locked = TRUE, NEW n \in Nat
  PROVE  Balanced(AllocThree(m, n).m)
<1> DEFINE a == cx_mpi_alloc(m, n)
           b == IF a.i = NoSlot THEN a ELSE cx_mpi_alloc(a.m, n)
           c == IF b.i = NoSlot THEN b ELSE cx_mpi_alloc(b.m, n)
<1>1. Balanced(a.m) /\ a.m.locked = TRUE
  BY AllocBalanced
<1> HIDE DEF a
<1>2. Balanced(b.m) /\ b.m.locked = TRUE
  BY <1>1, AllocBalanced
<1> HIDE DEF b
<1>3. Balanced(c.m)
  BY <1>2, AllocBalanced
<1> HIDE DEF c
<1>4. Balanced(cx_mpi_destroy(b.m, a.i)) /\ Balanced(cx_mpi_destroy(cx_mpi_destroy(c.m, b.i), a.i))
  BY <1>2, <1>3, DestroyBalanced
<1>5. AllocThree(m, n).m \in {a.m, cx_mpi_destroy(b.m, a.i), cx_mpi_destroy(cx_mpi_destroy(c.m, b.i), a.i), c.m}
  BY DEF AllocThree, a, b, c
<1> QED
  BY <1>1, <1>3, <1>4, <1>5

LEMMA ClosedBalanced == Balanced(Closed)
<1>1. Closed \in Mems /\ Closed.locked = FALSE /\ Closed.total = 0 /\ Closed.words = 0 /\ Closed.word = 0
      /\ \A i \in Slots : Closed.size[i] = 0
  BY DEF Closed, Mems
<1>2. SlotBytes(Closed) = {}
  <2> SUFFICES ASSUME NEW t \in SlotBytes(Closed) PROVE FALSE
    OBVIOUS
  <2>1. PICK i \in Slots : t \in {i} \X (1..Closed.size[i])
    BY BytesMember
  <2> QED
    BY <1>1, <2>1
<1>3. Multiples(Closed)
  <2>1. 0 = 0 * Closed.word
    BY <1>1
  <2> QED
    BY <1>1, <2>1 DEF Multiples
<1> QED
  <2>1. IsFiniteSet(SlotBytes(Closed)) /\ Closed.total = Cardinality(SlotBytes(Closed))
    BY <1>1, <1>2, FS_EmptySet
  <2>2. Closed.words * Closed.word = Closed.total /\ Closed.total <= BnMaxBytes
    BY <1>1, BnAssumption
  <2> QED
    BY <1>1, <1>3, <2>1, <2>2 DEF Balanced

LEMMA LockBalanced ==
  ASSUME NEW w \in Nat \ {0}, NEW e, e = [Closed EXCEPT !.locked = TRUE, !.word = w, !.words = 0, !.total = 0]
  PROVE  Balanced(e)
<1>1. e \in Mems /\ e.locked = TRUE /\ e.word = w /\ e.total = 0 /\ e.words = 0 /\ e.size = Closed.size
  <2>1. Closed \in Mems
    BY ClosedFree
  <2>2. 0 \in Int /\ TRUE \in BOOLEAN /\ w \in Nat
    OBVIOUS
  <2>3. e \in Mems
    BY <2>1, <2>2, Zenon DEF Mems
  <2> QED
    BY <2>1, <2>3 DEF Mems
<1>2. SlotBytes(e) = SlotBytes(Closed)
  BY <1>1 DEF SlotBytes
<1>3. \A i \in Slots : Closed.size[i] = 0
  BY DEF Closed
<1>4. Multiples(e)
  <2>1. 0 = 0 * w
    OBVIOUS
  <2> QED
    BY <1>1, <1>3, <2>1 DEF Multiples
<1>5. IsFiniteSet(SlotBytes(Closed)) /\ Cardinality(SlotBytes(Closed)) = 0
  BY ClosedBalanced DEF Balanced, Closed
<1> QED
  BY <1>1, <1>2, <1>4, <1>5, BnAssumption DEF Balanced

---------------------------------------------------------------------------
LEMMA CallBalanced ==
  ASSUME Balanced(mem), BnNext
  PROVE  Balanced(mem')
<1>1. mem.locked \in BOOLEAN
  BY DEF Balanced, Mems
<1>2. CASE sys_cx_bn_unlock
  BY <1>2, ClosedBalanced DEF sys_cx_bn_unlock
<1>3. CASE sys_cx_bn_lock
  <2>1. CASE mem.locked
    BY <1>3, <2>1 DEF sys_cx_bn_lock
  <2>2. CASE ~mem.locked
    <3>1. mem = Closed
      BY <1>1, <2>2 DEF Balanced
    <3>2. PICK n \in BnSizes :
            mem' = [Closed EXCEPT !.locked = TRUE, !.word = ToWords(n, BnAlign), !.words = 0, !.total = 0]
      BY <1>3, <2>2, <3>1 DEF sys_cx_bn_lock
    <3>3. ToWords(n, BnAlign) \in Nat \ {0}
      BY BnAssumption, ToWordsPositive
    <3> QED
      BY <3>2, <3>3, LockBalanced
  <2> QED
    BY <2>1, <2>2
<1>4. ASSUME NEW h \in Numbers, sys_cx_bn_destroy(h) PROVE Balanced(mem')
  BY <1>4, DestroyBalanced DEF sys_cx_bn_destroy
<1>5. ASSUME NEW h \in Numbers, NEW n \in BnSizes, sys_cx_bn_alloc(h, n) PROVE Balanced(mem')
  <2>1. n \in Nat
    BY BnAssumption
  <2>2. mem' = mem \/ (mem.locked /\ mem' = cx_mpi_alloc(mem, n).m)
    BY <1>5 DEF sys_cx_bn_alloc
  <2> QED
    BY <1>1, <2>1, <2>2, AllocBalanced
<1>6. ASSUME \/ \E h \in Names : sys_cx_bn_one(h)
             \/ \E a, b \in Numbers : sys_cx_bn_two(a, b) \/ sys_cx_bn_copy(a, b)
             \/ \E r, a, b \in Numbers : sys_cx_bn_three(r, a, b)
             \/ \E r, a, n \in Numbers : sys_cx_bn_mod_invert_nprime(r, a, n)
             \/ \E P \in Points : sys_cx_ecpoint_use(P)
      PROVE  Balanced(mem')
  BY <1>6 DEF sys_cx_bn_one, sys_cx_bn_two, sys_cx_bn_copy, sys_cx_bn_three,
              sys_cx_bn_mod_invert_nprime, sys_cx_ecpoint_use
<1>7. ASSUME NEW r \in Numbers, NEW a \in Numbers, NEW n \in Numbers, sys_cx_bn_mod_pow(r, a, n)
      PROVE  Balanced(mem')
  <2>1. mem.word \in Nat
    BY DEF Balanced, Mems
  <2>2. mem' = mem \/ (mem.locked /\ mem' = cx_mpi_alloc(mem, mem.word).m)
    BY <1>7 DEF sys_cx_bn_mod_pow
  <2> QED
    BY <1>1, <2>1, <2>2, AllocBalanced
<1>8. ASSUME NEW P \in Points, sys_cx_ecpoint_destroy(P) PROVE Balanced(mem')
  BY <1>8, ThreeBalanced DEF sys_cx_ecpoint_destroy
<1>9. ASSUME NEW P \in Points, NEW n \in BnSizes, sys_cx_ecpoint_alloc(P, n) PROVE Balanced(mem')
  <2>1. n \in Nat
    BY BnAssumption
  <2>2. mem' = mem \/ (mem.locked /\ mem' = AllocThree(mem, n).m)
    BY <1>9 DEF sys_cx_ecpoint_alloc
  <2> QED
    BY <1>1, <2>1, <2>2, AllocThreeBalanced
<1>10. ASSUME NEW P \in Points, NEW n \in BnSizes, NormalizePoint(P, n) PROVE Balanced(mem')
  <2>1. mem' = mem \/ \E a, b, c \in Used(mem) : mem' = DestroyThree(mem, <<a, b, c>>)
    BY <1>10 DEF NormalizePoint
  <2> QED
    BY <2>1, ThreeBalanced
<1> QED
  BY <1>2, <1>3, <1>4, <1>5, <1>6, <1>7, <1>8, <1>9, <1>10 DEF BnNext

(* The totals of cx_mpi.c count the bytes of the slots after any sequence  *)
(* of calls, numbers destroyed by mistake included: the memory neither     *)
(* leaks nor is given out twice.                                           *)
THEOREM MemoryAccounted == BnSpec => []BnAccounting
<1>1. BnInit => Balanced(mem)
  BY ClosedBalanced DEF BnInit
<1>2. Balanced(mem) /\ [BnNext]_bnVars => Balanced(mem)'
  BY CallBalanced DEF bnVars
<1>3. Balanced(mem) => BnAccounting
  <2> SUFFICES ASSUME Balanced(mem) PROVE BnAccounting
    OBVIOUS
  <2>1. mem.locked \in BOOLEAN
    BY DEF Balanced, Mems
  <2> QED
    BY <2>1 DEF Balanced, BnAccounting
<1> QED
  BY <1>1, <1>2, <1>3, PTL DEF BnSpec
=============================================================================
