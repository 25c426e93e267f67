-------------------------------- MODULE CxBn --------------------------------
(***************************************************************************)
(* The memory of big numbers: the system calls of src/bolos/cx_bn.c, those *)
(* of cx_ecpoint.c that allocate, and the allocator of cx_mpi.c.           *)
(*                                                                         *)
(* An application locks the engine with a word size, allocates numbers and *)
(* points (three numbers), and names them by handles, the indexes of an    *)
(* array of slots.  A handle is a variable of the application: destroying  *)
(* a number does not reset it, destroying a point sets its handles to 0,   *)
(* and unlocking frees every slot behind the application's back, so a      *)
(* handle may be stale.  The contents of the numbers are in CxMpi.         *)
(*                                                                         *)
(* The application modelled here destroys the numbers it allocated and no  *)
(* others; it calls everything else with any handle.                       *)
(***************************************************************************)
EXTENDS Integers, FiniteSets

CONSTANTS
  NSlots,       \* MAX_MPI_ARRAY_ENTRIES
  BnMaxBytes,   \* MAX_MPI_BYTE_SIZE
  BnAlign,      \* CX_MPI_WORD_BYTE_SIZE
  Numbers,      \* variables of type cx_bn_t of the application
  Points,       \* variables of type cx_ecpoint_t
  BnSizes       \* the sizes it asks for, in bytes

ASSUME BnAssumption ==
  /\ NSlots \in Nat
  /\ BnMaxBytes \in Nat /\ BnAlign \in Nat \ {0} /\ BnSizes \subseteq Nat
  /\ Numbers \cap (Points \X {"x", "y", "z"}) = {}

VARIABLES
  mem,          \* the engine: locked, size of each slot (0: free), word, words, total
  handle,       \* value of each handle of the application
  owned,        \* handles of numbers it allocated and has to destroy
  orphans,      \* slots that a call allocated and that no handle names any more
  undef,        \* a call destroyed handles it had never written
  bnErr         \* what the last call returned

bnVars == <<mem, handle, owned, orphans, undef, bnErr>>

NoSlot == -1
Slots == 0..(NSlots - 1)
Coords(P) == {P} \X {"x", "y", "z"}
Names == Numbers \cup (Points \X {"x", "y", "z"})
Closed == [locked |-> FALSE, size |-> [i \in Slots |-> 0], word |-> 0, words |-> 0, total |-> 0]

BnInit ==
  /\ mem = Closed /\ handle = [h \in Names |-> NoSlot]
  /\ owned = {} /\ orphans = {} /\ undef = FALSE /\ bnErr = "OK"

-----------------------------------------------------------------------------
(* The allocator.  A slot is used when its mpi is not NULL; its size is    *)
(* set and cleared together with it.                                       *)
ToWords(n, unit) == IF n = 0 THEN unit ELSE ((n + unit - 1) \div unit) * unit
Used(m) == {i \in Slots : m.size[i] # 0}
Free(m) == Slots \ Used(m)

HasRoom(m, n) == ToWords(n, m.word) + m.total <= BnMaxBytes /\ Free(m) # {}
FirstFree(m) == CHOOSE i \in Free(m) : \A j \in Free(m) : i <= j

Allocated(m, i, width) ==
  [m EXCEPT !.size[i] = width, !.total = @ + width, !.words = @ + width \div m.word]
cx_mpi_alloc(m, n) ==
  IF HasRoom(m, n) THEN [i |-> FirstFree(m), m |-> Allocated(m, FirstFree(m), ToWords(n, m.word))]
  ELSE [i |-> NoSlot, m |-> m]

WordsKept(m, i) ==                                                          \* mutant
  IF i \notin Used(m) THEN m ELSE [m EXCEPT !.total = @ - m.size[i], !.size[i] = 0]
\* An index without a number is ignored.
cx_mpi_destroy(m, i) ==
  IF i \notin Used(m) THEN m
  ELSE [m EXCEPT !.total = @ - m.size[i], !.words = @ - m.size[i] \div m.word, !.size[i] = 0]

SecondKept(m, n) ==                                                         \* mutant
  LET a == cx_mpi_alloc(m, n)
      b == IF a.i = NoSlot THEN a ELSE cx_mpi_alloc(a.m, n)
      c == IF b.i = NoSlot THEN b ELSE cx_mpi_alloc(b.m, n)
  IN  IF c.i # NoSlot THEN [m |-> c.m, at |-> <<a.i, b.i, c.i>>]
      ELSE [m |-> cx_mpi_destroy(c.m, a.i), at |-> <<a.i, b.i, NoSlot>>]
DestroyThree(m, at) == cx_mpi_destroy(cx_mpi_destroy(cx_mpi_destroy(m, at[1]), at[2]), at[3])
\* Three allocations in a row, undone when one of them fails.
AllocThree(m, n) ==
  LET a == cx_mpi_alloc(m, n)
      b == IF a.i = NoSlot THEN a ELSE cx_mpi_alloc(a.m, n)
      c == IF b.i = NoSlot THEN b ELSE cx_mpi_alloc(b.m, n)
      undo(i, j) == cx_mpi_destroy(cx_mpi_destroy(c.m, j), i)
  IN  CASE a.i = NoSlot -> [m |-> a.m, at |-> <<NoSlot, NoSlot, NoSlot>>]
        [] a.i # NoSlot /\ b.i = NoSlot -> [m |-> cx_mpi_destroy(b.m, a.i), at |-> <<a.i, NoSlot, NoSlot>>]
        [] a.i # NoSlot /\ b.i # NoSlot /\ c.i = NoSlot -> [m |-> undo(a.i, b.i), at |-> <<a.i, b.i, NoSlot>>]
        [] OTHER -> [m |-> c.m, at |-> <<a.i, b.i, c.i>>]

\* cx_bn_to_mpi and its variants for two, three and four handles.
Convert(m, hs) ==
  IF ~m.locked THEN "NOT_LOCKED"
  ELSE IF {handle[h] : h \in hs} \subseteq Used(m) THEN "OK"
  ELSE "MEMORY_FULL"

-----------------------------------------------------------------------------
sys_cx_bn_lock ==
  /\ IF mem.locked THEN bnErr' = "NOT_UNLOCKED" /\ UNCHANGED mem
     ELSE /\ \E n \in BnSizes :
               mem' = [mem EXCEPT !.locked = TRUE, !.word = ToWords(n, BnAlign), !.words = 0, !.total = 0]
          /\ bnErr' = "OK"
  /\ UNCHANGED <<handle, owned, orphans, undef>>

sys_cx_bn_unlock ==
  /\ IF ~mem.locked THEN bnErr' = "NOT_LOCKED" /\ UNCHANGED <<mem, owned, orphans, undef>>
     ELSE mem' = Closed /\ owned' = {} /\ orphans' = {} /\ undef' = FALSE /\ bnErr' = "OK"
  /\ UNCHANGED handle

\* sys_cx_bn_alloc, and sys_cx_bn_alloc_init, which then writes the number.
sys_cx_bn_alloc(h, n) ==
  /\ h \notin owned
  /\ IF ~mem.locked THEN bnErr' = "NOT_LOCKED" /\ UNCHANGED <<mem, handle, owned>>
     ELSE LET a == cx_mpi_alloc(mem, n) IN
          /\ mem' = a.m /\ handle' = [handle EXCEPT ![h] = a.i]
          /\ owned' = IF a.i = NoSlot THEN owned ELSE owned \cup {h}
          /\ bnErr' = IF a.i = NoSlot THEN "MEMORY_FULL" ELSE "OK"
  /\ UNCHANGED <<orphans, undef>>

\* Destroying no number is fine, locked or not.
sys_cx_bn_destroy(h) ==
  /\ h \in owned \/ handle[h] \notin Used(mem)
  /\ IF handle[h] \in Used(mem) /\ ~mem.locked THEN bnErr' = "NOT_LOCKED" /\ UNCHANGED mem
     ELSE mem' = cx_mpi_destroy(mem, handle[h]) /\ bnErr' = "OK"
  /\ owned' = owned \ {h}
  /\ UNCHANGED <<handle, orphans, undef>>

\* The calls that convert their handles and work on the numbers.
sys_cx_bn_one(h) == bnErr' = Convert(mem, {h}) /\ UNCHANGED <<mem, handle, owned, orphans, undef>>
sys_cx_bn_two(a, b) == bnErr' = Convert(mem, {a, b}) /\ UNCHANGED <<mem, handle, owned, orphans, undef>>
sys_cx_bn_three(r, a, b) == bnErr' = Convert(mem, {r, a, b}) /\ UNCHANGED <<mem, handle, owned, orphans, undef>>

\* Copying a number to itself succeeds whatever the handle is.
sys_cx_bn_copy(a, b) ==
  /\ bnErr' = IF handle[a] = handle[b] THEN "OK" ELSE Convert(mem, {a, b})
  /\ UNCHANGED <<mem, handle, owned, orphans, undef>>

\* n - 2 is allocated, in the width of n's value, used and destroyed again.
sys_cx_bn_mod_invert_nprime(r, a, n) ==
  /\ \E width \in BnSizes :
       bnErr' = IF Convert(mem, {r, a, n}) # "OK" THEN Convert(mem, {r, a, n})
                ELSE IF HasRoom(mem, width) THEN "OK" ELSE "MEMORY_FULL"
  /\ UNCHANGED <<mem, handle, owned, orphans, undef>>

\* The exponent is allocated and never destroyed: its handle is a variable
\* of the call.
sys_cx_bn_mod_pow(r, a, n) ==
  /\ LET e == cx_mpi_alloc(mem, mem.word) IN
     IF ~mem.locked THEN bnErr' = "NOT_LOCKED" /\ UNCHANGED <<mem, orphans>>
     ELSE /\ mem' = e.m
          /\ orphans' = IF e.i = NoSlot THEN orphans ELSE orphans \cup {e.i}
          /\ bnErr' = IF e.i = NoSlot THEN "MEMORY_FULL" ELSE Convert(e.m, {r, a, n})
  /\ UNCHANGED <<handle, owned, undef>>

-----------------------------------------------------------------------------
(* Points                                                                  *)

\* The handles of P after an allocation at the slots t.
Placed(P, t) == [handle EXCEPT ![<<P, "x">>] = t[1], ![<<P, "y">>] = t[2], ![<<P, "z">>] = t[3]]

sys_cx_ecpoint_alloc(P, n) ==
  /\ Coords(P) \cap owned = {}
  /\ IF ~mem.locked
     THEN /\ bnErr' = "NOT_LOCKED" /\ handle' = Placed(P, <<NoSlot, NoSlot, NoSlot>>)
          /\ UNCHANGED <<mem, owned>>
     ELSE LET a == AllocThree(mem, n)
              ok == a.at[3] # NoSlot
          IN  /\ mem' = a.m /\ handle' = Placed(P, a.at)
              /\ owned' = IF ok THEN owned \cup Coords(P) ELSE owned
              /\ bnErr' = IF ok THEN "OK" ELSE "MEMORY_FULL"
  /\ UNCHANGED <<orphans, undef>>

sys_cx_ecpoint_destroy(P) ==
  /\ Coords(P) \subseteq owned \/ ~mem.locked
  /\ IF ~mem.locked THEN bnErr' = "NOT_LOCKED" /\ UNCHANGED mem
     ELSE mem' = DestroyThree(mem, <<handle[<<P, "x">>], handle[<<P, "y">>], handle[<<P, "z">>]>>) /\ bnErr' = "OK"
  /\ handle' = Placed(P, <<0, 0, 0>>) /\ owned' = owned \ Coords(P)
  /\ UNCHANGED <<orphans, undef>>

\* The calls that convert the coordinates of a point and write them.
sys_cx_ecpoint_use(P) ==
  bnErr' = Convert(mem, Coords(P)) /\ UNCHANGED <<mem, handle, owned, orphans, undef>>

\* cx_mpi_ecpoint_normalize needs four numbers.  When one cannot be had, the
\* handles after it, at most three, were never written, and what they name is
\* destroyed.
Take(r, a) == [m |-> a.m, i |-> a.i, got |-> IF a.i = NoSlot THEN r.got ELSE r.got \cup {a.i}]
TakeNext(r, n) == IF r.i = NoSlot THEN r ELSE Take(r, cx_mpi_alloc(r.m, n))
TakeFour(m, n) ==
  TakeNext(TakeNext(TakeNext(TakeNext([m |-> m, i |-> 0, got |-> {}], n), n), n), n)

NormalizePoint(P, n) ==
  /\ IF Convert(mem, Coords(P)) # "OK" THEN bnErr' = Convert(mem, Coords(P)) /\ UNCHANGED <<mem, undef>>
     ELSE LET four == TakeFour(mem, n)
              unset == 3 - Cardinality(four.got)
          IN  \/ /\ bnErr' \in {"INFINITE_POINT", "OK"}      \* z is 0; z is 1, or all four are there
                 /\ UNCHANGED <<mem, undef>>
              \/ /\ Cardinality(four.got) < 4
                 /\ \/ UNCHANGED <<mem, undef>>
                    \/ \E hit \in SUBSET Used(mem) :
                         /\ hit # {} /\ Cardinality(hit) <= unset
                         /\ \E a, b, c \in hit : hit = {a, b, c} /\ mem' = DestroyThree(mem, <<a, b, c>>)
                         /\ undef' = TRUE
                 /\ bnErr' = "MEMORY_FULL"
  /\ UNCHANGED <<handle, owned, orphans>>

-----------------------------------------------------------------------------
\* Once a number was destroyed by mistake anything may happen; the model
\* follows the application to its next unlock only.
BnNext ==
  \/ sys_cx_bn_unlock
  \/ /\ ~undef
     /\ \/ sys_cx_bn_lock
        \/ \E h \in Numbers : sys_cx_bn_destroy(h) \/ \E n \in BnSizes : sys_cx_bn_alloc(h, n)
        \/ \E h \in Names : sys_cx_bn_one(h)
        \/ \E a, b \in Numbers : sys_cx_bn_two(a, b) \/ sys_cx_bn_copy(a, b)
        \/ \E r, a, b \in Numbers : sys_cx_bn_three(r, a, b)
        \/ \E r, a, n \in Numbers : sys_cx_bn_mod_invert_nprime(r, a, n) \/ sys_cx_bn_mod_pow(r, a, n)
        \/ \E P \in Points : sys_cx_ecpoint_destroy(P) \/ sys_cx_ecpoint_use(P)
        \/ \E P \in Points, n \in BnSizes : sys_cx_ecpoint_alloc(P, n) \/ NormalizePoint(P, n)

BnSpec == BnInit /\ [][BnNext]_bnVars

-----------------------------------------------------------------------------
(* Properties                                                              *)

\* The bytes of the slots, numbered slot by slot.
SlotBytes(m) == UNION {{i} \X (1..m.size[i]) : i \in Slots}

(* cx_mpi.c keeps two totals beside the slots, updated on every path of    *)
(* cx_mpi_alloc, cx_mpi_destroy and cx_mpi_unlock: they always count the   *)
(* bytes of the slots, also after numbers were destroyed by mistake, stay  *)
(* within the memory of the device, and nothing is left when the engine is *)
(* not locked.                                                             *)
BnAccounting ==
  /\ mem.total = Cardinality(SlotBytes(mem))
  /\ mem.words * mem.word = mem.total /\ mem.total <= BnMaxBytes
  /\ ~mem.locked => mem = Closed

(* Unless a call destroyed handles it never wrote, the handles that the    *)
(* application owns name used slots, each its own, whatever it destroyed,  *)
(* failed to allocate or unlocked in between; and no slot is used that is  *)
(* neither owned nor left behind by sys_cx_bn_mod_pow.                     *)
BnOwned ==
  ~undef =>
    /\ \A h \in owned : handle[h] \in Used(mem) \ orphans
    /\ \A g, h \in owned : handle[g] = handle[h] => g = h
    /\ Used(mem) = {handle[h] : h \in owned} \cup orphans
=============================================================================
