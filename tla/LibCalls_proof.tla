--------------------------- MODULE LibCalls_proof ---------------------------
(***************************************************************************)
(* For every set of applications, depth of calls and size of the NVRAM:    *)
(* an application that called libraries continues as itself, and what it   *)
(* wrote is in its file.  The invariant adds what the saved calls hold,    *)
(* each of them the context of its own depth, and that a file has zeros    *)
(* after its end.                                                          *)
(***************************************************************************)
EXTENDS LibCalls, SequenceTheorems, TLAPS

Contexts == [app : Apps, depth : Nat]
Tries == [depth : Nat, set : BOOLEAN]
SavedCalls == [app : Apps, sigcontext : Contexts, trycontext : Tries]
Files == [n : 0..NvmSize, there : BOOLEAN, cell : [Cells -> NvmValues]]

\* What is saved for the call at a depth belongs to the caller, one less deep.
CallsNested ==
  \A i \in 1..Len(libcalls) :
    /\ libcalls[i].sigcontext = At(libcalls[i].app, i - 1)
    /\ libcalls[i].trycontext.depth <= i - 1

CodeMapped ==
  /\ memory.code = current_app
  /\ context = At(current_app, Len(libcalls))
  /\ try_context.depth <= Len(libcalls)

TailsZero == \A a \in Apps : \A c \in Cells : c > files[a].n => files[a].cell[c] = 0

CellsSaved ==
  nvram.save /\ current_app \in NvmApps =>
    \A c \in Cells :
      memory.nvm[c] = IF mapping.again /\ c \notin mapping.since THEN Image ELSE files[current_app].cell[c]

LibInv == LibTypeOK /\ CallsNested /\ CodeMapped /\ TailsZero /\ CellsSaved /\ WritesInFile

USE AppsAssumption, DepthAssumption, CellAssumption

---------------------------------------------------------------------------
\* run_app: the main application is mapped and no call is pending.
LEMMA InitHolds == LibInit => LibInv
<1> SUFFICES ASSUME LibInit PROVE LibInv
  OBVIOUS
<1> USE DEF LibInit, NoFile, ZeroFile, NoTry, At, Cells
<1>1. files \in [Apps -> Files] /\ TailsZero
  <2>1. NoFile \in Files /\ ZeroFile \in Files
    BY DEF Files
  <2>2. \A c \in Cells : NoFile.cell[c] = 0 /\ ZeroFile.cell[c] = 0
    OBVIOUS
  <2>3. \A a \in Apps : files[a] \in {NoFile, ZeroFile}
    OBVIOUS
  <2>4. files \in [Apps -> Files]
    BY <2>1
  <2> QED
    BY <2>2, <2>3, <2>4 DEF TailsZero
<1>2. memory \in [code : Apps, nvm : [Cells -> NvmValues \cup {Image}]]
  OBVIOUS
<1>3. libcalls \in Seq(SavedCalls) /\ Len(libcalls) = 0
  OBVIOUS
<1>4. ~mapping.again /\ mapping \in [again : BOOLEAN, since : SUBSET Cells]
  BY DEF Mapped
<1>5. \A a \in Apps : \A c \in Cells : files[a].cell[c] = 0
  BY DEF NoFile, ZeroFile
<1>6. wrote \in [Apps -> [Cells -> NvmValues \cup {Image}]]
  BY DEF Unwritten
<1>7. WritesInFile
  BY DEF WritesInFile, Unwritten
<1>8. /\ nvram \in [load : BOOLEAN, save : BOOLEAN] /\ current_app \in Apps /\ running \in BOOLEAN
       /\ context \in Contexts /\ try_context \in Tries /\ Len(libcalls) <= MAX_LIBCALL
  BY <1>3 DEF Contexts, Tries
<1> HIDE DEF LibInit
<1>9. LibTypeOK
  BY <1>1, <1>2, <1>3, <1>4, <1>6, <1>8 DEF LibTypeOK, Files, SavedCalls, Contexts, Tries
<1>10. CallsNested /\ CodeMapped
  BY <1>3 DEF LibInit, CallsNested, CodeMapped
<1>11. CellsSaved
  BY <1>4, <1>5 DEF CellsSaved, LibInit
<1> QED
  BY <1>1, <1>9, <1>10, <1>11, <1>7 DEF LibInv

\* What is left of a sequence that is cut after k elements.
LEMMA FrontProperties ==
  ASSUME NEW S, NEW s \in Seq(S), NEW k \in 0..Len(s)
  PROVE  /\ SubSeq(s, 1, k) \in Seq(S) /\ Len(SubSeq(s, 1, k)) = k
         /\ \A i \in 1..k : SubSeq(s, 1, k)[i] = s[i]
<1>1. Len(s) \in Nat /\ k \in Int /\ 1 \in Int
  OBVIOUS
<1>2. \A i \in 1..k : s[i] \in S
  BY <1>1, ElementOfSeq
<1>3. /\ SubSeq(s, 1, k) \in Seq(S)
      /\ Len(SubSeq(s, 1, k)) = IF 1 <= k THEN k - 1 + 1 ELSE 0
      /\ \A i \in 1..(k - 1 + 1) : SubSeq(s, 1, k)[i] = s[1 + i - 1]
  BY <1>1, <1>2, SubSeqProperties
<1> QED
  BY <1>1, <1>3

\* _exit and signals: nothing but running changes.
LEMMA ExitKeeps == ASSUME LibInv, Exit PROVE LibInv'
  BY DEF LibInv, Exit, LibTypeOK, CallsNested, CodeMapped, TailsZero, CellsSaved, WritesInFile, At, Cells

\* os_lib_call: the caller is on the stack and the library's cells are those of its file.
LEMMA CallKeeps ==
  ASSUME LibInv, NEW lib \in Apps \cup {"missing"}, sys_os_lib_call(lib)
  PROVE  LibInv'
<1> USE DEF LibInv, sys_os_lib_call, load_app, LibTypeOK, At
<1> DEFINE saved == [app |-> current_app, sigcontext |-> context, trycontext |-> try_context]
<1>1. lib \in Apps
  BY DEF Loadable
<1>2. saved \in SavedCalls
  BY DEF SavedCalls, Contexts, Tries
<1>3. libcalls \in Seq(SavedCalls) /\ libcalls' = Append(libcalls, saved)
  BY DEF SavedCalls, Contexts, Tries
<1>4. /\ libcalls' \in Seq(SavedCalls) /\ Len(libcalls') = Len(libcalls) + 1
      /\ \A i \in 1..Len(libcalls) : libcalls'[i] = libcalls[i]
      /\ libcalls'[Len(libcalls) + 1] = saved
      /\ Len(libcalls) \in Nat
  BY <1>2, <1>3
<1>5. CallsNested'
  BY <1>4 DEF CallsNested, CodeMapped
<1>6. CodeMapped'
  BY <1>4 DEF CodeMapped
<1>7. files' \in [Apps -> Files] /\ TailsZero'
  <2>1. files \in [Apps -> Files] /\ NoFile \in Files
    BY DEF Files, NoFile
  <2>2. \A a \in Apps : files'[a] \in {files[a], NoFile}
    BY <1>1, <2>1
  <2>3. files' \in [Apps -> Files]
    BY <1>1, <2>1
  <2>4. ASSUME NEW a \in Apps, NEW c \in Cells, c > files'[a].n
        PROVE  files'[a].cell[c] = 0
    <3>1. CASE files'[a] = files[a]
      BY <2>4, <3>1 DEF TailsZero
    <3>2. CASE files'[a] = NoFile
      BY <3>2 DEF NoFile
    <3> QED
      BY <2>2, <3>1, <3>2
  <2> QED
    BY <2>3, <2>4 DEF TailsZero
<1>8. Loaded(lib) \in [Cells -> NvmValues \cup {Image}]
  BY <1>1 DEF Loaded
<1>9. memory' \in [code : Apps, nvm : [Cells -> NvmValues \cup {Image}]]
  BY <1>1, <1>8
<1>10. CellsSaved'
  <2> SUFFICES ASSUME nvram.save, lib \in NvmApps, NEW c \in Cells
               PROVE  Loaded(lib)[c] = files'[lib].cell[c]
    BY <1>1 DEF CellsSaved, Mapped
  <2>1. Loaded(lib)[c] = IF nvram.load /\ c <= files[lib].n THEN files[lib].cell[c] ELSE 0
    BY DEF Loaded
  <2>2. CASE nvram.load /\ files[lib].n > 0
    <3>1. files'[lib] = files[lib]
      BY <1>1, <2>2 DEF Renamed
    <3>2. files[lib].n \in Nat /\ c \in Nat
      BY <1>1 DEF Cells
    <3> QED
      BY <1>1, <2>1, <2>2, <3>1, <3>2 DEF TailsZero
  <2>3. CASE ~(nvram.load /\ files[lib].n > 0)
    <3>1. files'[lib] = NoFile
      BY <1>1, <2>3 DEF Renamed
    <3>2. files[lib].n \in Nat /\ c \in Nat /\ c > 0
      BY <1>1 DEF Cells
    <3> QED
      BY <2>1, <2>3, <3>1, <3>2 DEF NoFile
  <2> QED
    BY <2>2, <2>3
<1>11. wrote' \in [Apps -> [Cells -> NvmValues \cup {Image}]] /\ mapping' \in [again : BOOLEAN, since : SUBSET Cells]
  BY <1>1 DEF Unwritten, Mapped
<1>12. /\ nvram' \in [load : BOOLEAN, save : BOOLEAN] /\ current_app' \in Apps /\ running' \in BOOLEAN
       /\ context' \in Contexts /\ try_context' \in Tries /\ Len(libcalls') <= MAX_LIBCALL
  BY <1>1, <1>4 DEF Contexts, Tries
<1> HIDE DEF sys_os_lib_call, load_app, LibInv
<1>13. LibTypeOK'
  BY <1>4, <1>7, <1>9, <1>11, <1>12 DEF Cells, SavedCalls, Contexts, Tries, Files
<1>14. WritesInFile'
  <2> SUFFICES ASSUME nvram.save, NEW a \in NvmApps, NEW c \in Cells, wrote'[a][c] # Image
               PROVE  c <= files'[a].n /\ files'[a].cell[c] = wrote'[a][c]
    BY DEF WritesInFile, sys_os_lib_call
  <2> USE DEF LibInv, sys_os_lib_call, load_app
  <2>1. ~(Renamed(lib) /\ a = lib)
    BY <1>1 DEF Unwritten
  <2>2. wrote'[a] = wrote[a] /\ files'[a] = files[a]
    BY <1>1, <2>1
  <2> QED
    BY <2>2 DEF WritesInFile
<1> QED
  BY <1>5, <1>6, <1>7, <1>10, <1>13, <1>14 DEF LibInv

\* os_lib_end: what the last call saved is of this depth, and the caller's cells are the ELF file's.
LEMMA EndKeeps == ASSUME LibInv, sys_os_lib_end PROVE LibInv'
<1> DEFINE n == Len(libcalls)
           last == libcalls[n]
<1>1. libcalls \in Seq(SavedCalls) /\ n \in Nat /\ n >= 1 /\ n <= MAX_LIBCALL
  BY DEF LibInv, LibTypeOK, sys_os_lib_end, SavedCalls, Contexts, Tries
<1>2. last \in SavedCalls
  BY <1>1, ElementOfSeq
<1>3. libcalls' = SubSeq(libcalls, 1, n - 1)
  BY DEF sys_os_lib_end
<1>4. /\ libcalls' \in Seq(SavedCalls) /\ Len(libcalls') = n - 1
      /\ \A i \in 1..(n - 1) : libcalls'[i] = libcalls[i]
  <2>1. n - 1 \in 0..n
    BY <1>1
  <2> QED
    BY <1>1, <1>3, <2>1, FrontProperties
<1>5. CallsNested'
  BY <1>1, <1>4 DEF CallsNested, LibInv, At
<1>6. /\ current_app' = last.app /\ context' = last.sigcontext /\ try_context' = last.trycontext
      /\ memory' = [code |-> last.app, nvm |-> [c \in Cells |-> Image]]
      /\ mapping' = Mapped(TRUE)
      /\ UNCHANGED <<nvram, files, running, wrote>>
  BY DEF sys_os_lib_end, replace_current_code
<1>7. CodeMapped'
  <2>1. last.sigcontext = At(last.app, n - 1) /\ last.trycontext.depth <= n - 1
    BY <1>1 DEF CallsNested, LibInv
  <2> QED
    BY <1>4, <1>6, <2>1 DEF CodeMapped, At
<1>8. TailsZero' /\ CellsSaved' /\ WritesInFile'
  BY <1>6 DEF LibInv, TailsZero, CellsSaved, WritesInFile, Cells, Mapped
<1>9. last.app \in Apps /\ last.sigcontext \in Contexts /\ last.trycontext \in Tries
  BY <1>2 DEF SavedCalls
<1>10. memory' \in [code : Apps, nvm : [Cells -> NvmValues \cup {Image}]]
  BY <1>6, <1>9
<1>11. Len(libcalls') <= MAX_LIBCALL
  BY <1>1, <1>4
<1>12. LibTypeOK'
  BY <1>4, <1>6, <1>9, <1>10, <1>11 DEF LibInv, LibTypeOK, SavedCalls, Contexts, Tries, Cells, Mapped
<1> QED
  BY <1>5, <1>7, <1>8, <1>12 DEF LibInv

\* try_context_set: the record is the running call's, none, or that of the caller.
LEMMA TryKeeps == ASSUME LibInv, sys_try_context_set PROVE LibInv'
<1> USE DEF LibInv, sys_try_context_set, LibTypeOK, At
<1>1. libcalls \in Seq(SavedCalls) /\ Len(libcalls) \in Nat
  BY DEF SavedCalls, Contexts, Tries
<1>2. try_context' \in Tries /\ try_context'.depth <= Len(libcalls)
  <2>1. CASE try_context' = [depth |-> context.depth, set |-> TRUE]
    BY <1>1, <2>1 DEF Tries, CodeMapped
  <2>2. CASE try_context' = NoTry
    BY <1>1, <2>2 DEF Tries, NoTry
  <2>3. CASE \E j \in DOMAIN libcalls : j = Len(libcalls) /\ try_context' = libcalls[j].trycontext
    <3>1. PICK j \in DOMAIN libcalls : j = Len(libcalls) /\ try_context' = libcalls[j].trycontext
      BY <2>3
    <3>2. j \in 1..Len(libcalls)
      BY <1>1, <3>1
    <3>3. libcalls[j] \in SavedCalls
      BY <1>1, <3>2, ElementOfSeq
    <3>4. libcalls[j].trycontext \in Tries
      BY <3>3 DEF SavedCalls
    <3>5. libcalls[j].trycontext.depth <= j - 1
      BY <3>2 DEF CallsNested
    <3>6. libcalls[j].trycontext.depth \in Nat /\ try_context' = libcalls[j].trycontext /\ j = Len(libcalls)
      BY <3>1, <3>4 DEF Tries
    <3> HIDE DEF LibInv, sys_try_context_set, LibTypeOK
    <3> QED
      BY <1>1, <3>4, <3>5, <3>6
  <2> QED
    BY <2>1, <2>2, <2>3
<1>3. LibTypeOK'
  BY <1>2 DEF Tries
<1> QED
  BY <1>2, <1>3 DEF CallsNested, CodeMapped, TailsZero, CellsSaved, WritesInFile

\* nvm_write: memory and file get the same cells.
LEMMA WriteKeeps ==
  ASSUME LibInv, NEW first \in Cells, NEW last \in first..NvmSize, NEW v \in NvmValues, sys_nvm_write(first, last, v)
  PROVE  LibInv'
<1> USE DEF LibInv, sys_nvm_write, LibTypeOK, At
<1>1. first \in Nat /\ last \in Nat /\ last \in 0..NvmSize
  BY DEF Cells
<1>2. memory' \in [code : Apps, nvm : [Cells -> NvmValues \cup {Image}]] /\ memory'.code = memory.code
  OBVIOUS
<1>3. \A c \in Cells : memory'.nvm[c] = IF c \in first..last THEN v ELSE memory.nvm[c]
  OBVIOUS
<1>4. CASE current_app \in NvmApps /\ nvram.save
  <2> DEFINE file == files[current_app]
             new == Overwritten(file, first, last, v)
  <2>1. file \in Files
    BY DEF Files
  <2>2. new \in Files
    BY <1>1, <2>1 DEF Files, Overwritten
  <2>3. files' = [files EXCEPT ![current_app] = new]
    BY <1>4
  <2>4. files' \in [Apps -> Files]
    BY <2>2, <2>3 DEF Files
  <2>5. \A c \in Cells : c > new.n => new.cell[c] = 0
    <3> SUFFICES ASSUME NEW c \in Cells, c > new.n PROVE new.cell[c] = 0
      OBVIOUS
    <3>1. file.n \in Nat /\ c \in Nat /\ new.n = IF last > file.n THEN last ELSE file.n
      BY <2>1 DEF Files, Cells, Overwritten
    <3>2. c > file.n /\ c \notin first..last
      BY <1>1, <3>1
    <3>3. new.cell[c] = file.cell[c]
      BY <3>2 DEF Overwritten
    <3> QED
      BY <3>2, <3>3 DEF TailsZero
  <2>6. TailsZero'
    BY <2>3, <2>5 DEF TailsZero
  <2>7. \A c \in Cells : new.cell[c] = IF c \in first..last THEN v ELSE file.cell[c]
    BY DEF Overwritten
  <2>8. /\ mapping'.again = mapping.again /\ mapping'.since = mapping.since \cup first..last
        /\ mapping' \in [again : BOOLEAN, since : SUBSET Cells]
    BY <1>1, <1>4 DEF Cells
  <2>9. CellsSaved'
    BY <1>3, <1>4, <2>3, <2>7, <2>8 DEF CellsSaved
  <2> DEFINE mine == [c \in Cells |-> IF c \in first..last THEN v ELSE wrote[current_app][c]]
  <2>10. wrote' = [wrote EXCEPT ![current_app] = mine] /\ mine \in [Cells -> NvmValues \cup {Image}]
    BY <1>4
  <2>11. wrote' \in [Apps -> [Cells -> NvmValues \cup {Image}]]
    BY <2>10
  <2>12. \A c \in Cells : mine[c] # Image => c <= new.n /\ new.cell[c] = mine[c]
    <3> SUFFICES ASSUME NEW c \in Cells, mine[c] # Image PROVE c <= new.n /\ new.cell[c] = mine[c]
      OBVIOUS
    <3>1. file.n \in Nat /\ c \in Nat /\ new.n = IF last > file.n THEN last ELSE file.n
      BY <2>1 DEF Files, Cells, Overwritten
    <3>2. CASE c \in first..last
      BY <1>1, <2>7, <3>1, <3>2
    <3>3. CASE c \notin first..last
      <4>1. wrote[current_app][c] # Image /\ mine[c] = wrote[current_app][c]
        BY <3>3
      <4>2. c <= file.n /\ file.cell[c] = mine[c]
        BY <1>4, <4>1 DEF WritesInFile
      <4> QED
        BY <1>1, <2>7, <3>1, <3>3, <4>2
    <3> QED
      BY <3>2, <3>3
  <2>13. WritesInFile'
    <3> SUFFICES ASSUME NEW a \in NvmApps, NEW c \in Cells, wrote'[a][c] # Image
                 PROVE  c <= files'[a].n /\ files'[a].cell[c] = wrote'[a][c]
      BY DEF WritesInFile
    <3>1. CASE a = current_app
      <4>1. wrote'[a] = mine /\ files'[a] = new
        BY <2>3, <2>10, <3>1
      <4> HIDE DEF mine, new
      <4> QED
        BY <2>12, <4>1
    <3>2. CASE a # current_app
      <4>1. wrote'[a] = wrote[a] /\ files'[a] = files[a]
        BY <2>3, <2>10, <3>2
      <4> QED
        BY <1>4, <4>1 DEF WritesInFile
    <3> QED
      BY <3>1, <3>2
  <2> QED
    BY <1>2, <2>4, <2>6, <2>8, <2>9, <2>11, <2>13 DEF CallsNested, CodeMapped, Files
<1>5. CASE ~(current_app \in NvmApps /\ nvram.save)
  BY <1>2, <1>5 DEF CallsNested, CodeMapped, TailsZero, CellsSaved, WritesInFile
<1> QED
  BY <1>4, <1>5

\* nvm_erase: only where there is no file to save to.
LEMMA EraseKeeps ==
  ASSUME LibInv, NEW first \in Cells, NEW last \in first..NvmSize, sys_nvm_erase(first, last)
  PROVE  LibInv'
<1> USE DEF LibInv, sys_nvm_erase, LibTypeOK, At
<1>1. memory' \in [code : Apps, nvm : [Cells -> NvmValues \cup {Image}]] /\ memory'.code = memory.code
  OBVIOUS
<1>2. LibTypeOK'
  BY <1>1
<1>3. CallsNested' /\ CodeMapped' /\ TailsZero'
  BY <1>1 DEF CallsNested, CodeMapped, TailsZero
<1>4. CellsSaved' /\ WritesInFile'
  BY DEF CellsSaved, WritesInFile
<1> QED
  BY <1>2, <1>3, <1>4

\* Every step of the applications and the launcher keeps the invariant.
LEMMA NextKeeps == ASSUME LibInv, [LibNext]_libVars PROVE LibInv'
<1>1. CASE \E lib \in Apps \cup {"missing"} : sys_os_lib_call(lib) \/ LibCallFails(lib)
  BY <1>1, CallKeeps, ExitKeeps DEF LibCallFails
<1>2. CASE sys_os_lib_end
  BY <1>2, EndKeeps
<1>3. CASE LibEndFails \/ sys_os_sched_exit
  BY <1>3, ExitKeeps DEF LibEndFails, sys_os_sched_exit
<1>4. CASE sys_try_context_set
  BY <1>4, TryKeeps
<1>5. CASE \E first \in Cells : \E last \in first..NvmSize :
             \/ \E v \in NvmValues : sys_nvm_write(first, last, v)
             \/ sys_nvm_erase(first, last)
             \/ \E erase \in BOOLEAN : NvmFails(first, last, erase)
  <2>1. PICK first \in Cells : \E last \in first..NvmSize :
             \/ \E v \in NvmValues : sys_nvm_write(first, last, v)
             \/ sys_nvm_erase(first, last)
             \/ \E erase \in BOOLEAN : NvmFails(first, last, erase)
    BY <1>5
  <2>2. PICK last \in first..NvmSize :
             \/ \E v \in NvmValues : sys_nvm_write(first, last, v)
             \/ sys_nvm_erase(first, last)
             \/ \E erase \in BOOLEAN : NvmFails(first, last, erase)
    BY <2>1
  <2> QED
    BY <2>2, WriteKeeps, EraseKeeps, ExitKeeps DEF NvmFails
<1>6. CASE UNCHANGED libVars
  BY <1>6 DEF libVars, LibInv, LibTypeOK, CallsNested, CodeMapped, TailsZero, CellsSaved, WritesInFile, At, Cells
<1> QED
  BY <1>1, <1>2, <1>3, <1>4, <1>5, <1>6 DEF LibNext

\* However deep libraries call each other, the application that continues after os_lib_end is
\* the one that called, in its own context and with no exception record of the library; with
\* --save-nvram what every application wrote since its file was begun is in the file, and the
\* running one reads it, but for the cells that its return to the ELF file undid.
THEOREM LibrariesReturn == LibSpec => []AppRestored
<1>1. LibInit => LibInv
  BY InitHolds
<1>2. LibInv /\ [LibNext]_libVars => LibInv'
  BY NextKeeps
<1>3. LibInv => AppRestored
  BY DEF LibInv, AppRestored, CallerResumed, CellsRead, CodeMapped, CellsSaved
<1> QED
  BY <1>1, <1>2, <1>3, PTL DEF LibSpec
=============================================================================
