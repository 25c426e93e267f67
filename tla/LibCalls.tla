------------------------------ MODULE LibCalls ------------------------------
(***************************************************************************)
(* Applications and libraries: launcher.c maps the code of one of them at  *)
(* a time, os.c (os_lib_call, os_lib_end) replaces it by a library and     *)
(* back, svc.c keeps the registers of the interrupted application, and     *)
(* default.c writes the application's non-volatile memory, which lives in  *)
(* the mapped code, and its host file.                                     *)
(*                                                                         *)
(* Code is the name of the application that is mapped, a context is the    *)
(* application it runs in and how deep the call is, and the non-volatile   *)
(* memory is NvmSize cells.  Mapping, protection and patching of pages are *)
(* left out, and so is the backup that the file is renamed to.  What the   *)
(* application does between two system calls is external.                  *)
(***************************************************************************)
EXTENDS Naturals, Sequences

CONSTANTS
  Apps,       \* the names on the command line
  MainApp,    \* MAIN_APP_NAME
  NvmApps,    \* those whose ELF file has an NVRAM section
  MAX_LIBCALL,
  NvmSize,
  NvmValues,  \* what a cell can be given
  Image       \* what is in a cell of the ELF file

ASSUME AppsAssumption == MainApp \in Apps /\ NvmApps \subseteq Apps
ASSUME DepthAssumption == MAX_LIBCALL \in Nat /\ NvmSize \in Nat
ASSUME CellAssumption == 0 \in NvmValues /\ Image \notin NvmValues

VARIABLES
  nvram,        \* [load, save]: the options --load-nvram and --save-nvram
  current_app,  \* launcher.c
  memory,       \* [code, nvm]: the application that is mapped, and its cells
  files,        \* the host file of each application
  context,      \* the registers of the interrupted application
  try_context,  \* os.c
  libcalls,     \* os.c: what to come back to, libcall_index being its length
  running,
  wrote,        \* what each application wrote and saved since its file was begun (Image: nothing)
  mapping       \* [again, since]: whether the code was mapped again, and the cells saved since

libVars == <<nvram, current_app, memory, files, context, try_context, libcalls, running, wrote, mapping>>

Cells == 1..NvmSize
NoFile == [n |-> 0, there |-> FALSE, cell |-> [c \in Cells |-> 0]]
ZeroFile == [n |-> NvmSize, there |-> TRUE, cell |-> [c \in Cells |-> 0]]
Unwritten == [c \in Cells |-> Image]
Mapped(again) == [again |-> again, since |-> {}]
NoTry == [depth |-> 0, set |-> FALSE]

\* A context is a place in the code of app, in the call at that depth.
At(app, depth) == [app |-> app, depth |-> depth]

---------------------------------------------------------------------------
\* load_app: what is in the cells of an application that is mapped by it.
Loaded(app) ==
  [c \in Cells |-> IF app \notin NvmApps THEN Image
                   ELSE IF nvram.load /\ c <= files[app].n THEN files[app].cell[c] ELSE 0]

\* load_app fails without the file it is told to preload.
Loadable(app) == app \in Apps /\ (app \in NvmApps /\ nvram.load => files[app].there)

\* load_app renames the file it will save to, and writes the content it preloaded, if any, to a new one.
Renamed(app) == app \in NvmApps /\ nvram.save /\ ~(nvram.load /\ files[app].n > 0)

load_app(app) ==
  /\ memory' = [code |-> app, nvm |-> Loaded(app)]
  /\ current_app' = app
  /\ files' = IF Renamed(app) THEN [files EXCEPT ![app] = NoFile] ELSE files
  /\ wrote' = IF Renamed(app) THEN [wrote EXCEPT ![app] = Unwritten] ELSE wrote
  /\ mapping' = Mapped(FALSE)

\* replace_current_code: the code of an application that was loaded before, mapped again from its file.
replace_current_code(app) ==
  /\ memory' = [code |-> app, nvm |-> [c \in Cells |-> Image]]
  /\ current_app' = app
  /\ mapping' = Mapped(TRUE)

\* _exit, or a signal in code that is not there.
Exit ==
  /\ running' = FALSE
  /\ UNCHANGED <<nvram, current_app, memory, files, context, try_context, libcalls, wrote, mapping>>

---------------------------------------------------------------------------
\* main: the files that earlier runs left, and run_app of the main application.
LibInit ==
  /\ nvram \in [load : BOOLEAN, save : BOOLEAN]
  /\ current_app = MainApp
  /\ memory = [code |-> MainApp, nvm |-> [c \in Cells |-> IF MainApp \in NvmApps THEN 0 ELSE Image]]
  /\ files \in [Apps -> {NoFile, ZeroFile}]
  /\ MainApp \in NvmApps => (nvram.load => files[MainApp] = ZeroFile) /\ (nvram.save /\ ~nvram.load => files[MainApp] = NoFile)
  /\ context = At(MainApp, 0)
  /\ try_context = NoTry
  /\ libcalls = <<>>
  /\ running = TRUE
  /\ wrote = [a \in Apps |-> Unwritten]
  /\ mapping = Mapped(FALSE)

\* sys_os_lib_call of a library that can be loaded.
sys_os_lib_call(lib) ==
  /\ running /\ Len(libcalls) < MAX_LIBCALL
  /\ Loadable(lib)
  /\ libcalls' = Append(libcalls, [app |-> current_app, sigcontext |-> context, trycontext |-> try_context])
  /\ load_app(lib)
  /\ context' = At(lib, Len(libcalls) + 1)
  /\ UNCHANGED <<nvram, try_context, running>>

\* Too many calls end the process; and nobody looks at the result of run_lib: the system call
\* of a library that is not there returns to code that is not mapped any more.
LibCallFails(lib) ==
  /\ running
  /\ Len(libcalls) >= MAX_LIBCALL \/ ~Loadable(lib)
  /\ Exit

TryNotRestored ==                                                         \* mutant
  /\ running /\ Len(libcalls) >= 1
  /\ \E c \in {libcalls[Len(libcalls)]} : replace_current_code(c.app) /\ context' = c.sigcontext
  /\ libcalls' = SubSeq(libcalls, 1, Len(libcalls) - 1)
  /\ UNCHANGED <<nvram, files, try_context, running, wrote>>
sys_os_lib_end ==
  /\ running /\ Len(libcalls) >= 1
  /\ \E c \in {libcalls[Len(libcalls)]} :
       /\ replace_current_code(c.app)
       /\ context' = c.sigcontext
       /\ try_context' = c.trycontext
  /\ libcalls' = SubSeq(libcalls, 1, Len(libcalls) - 1)
  /\ UNCHANGED <<nvram, files, running, wrote>>

\* Too many os_lib_end calls.
LibEndFails == running /\ libcalls = <<>> /\ Exit

\* sys_os_sched_exit, and sys_os_lib_throw, which is not handled.
sys_os_sched_exit == running /\ Exit

\* sys_try_context_set: a record of the code that runs, none, or the one that an earlier call
\* returned, which a library may have found.
sys_try_context_set ==
  /\ running
  /\ try_context' \in {[depth |-> context.depth, set |-> TRUE], NoTry}
                     \cup {libcalls[i].trycontext : i \in {j \in DOMAIN libcalls : j = Len(libcalls)}}
  /\ UNCHANGED <<nvram, current_app, memory, files, context, libcalls, running, wrote, mapping>>

---------------------------------------------------------------------------
\* fseek and fwrite: the file grows with zeros up to the place of the data.
Overwritten(file, first, last, v) ==
  [there |-> TRUE, n |-> IF last > file.n THEN last ELSE file.n,
   cell |-> [c \in Cells |-> IF c \in first..last THEN v ELSE file.cell[c]]]

\* The bounds of sys_nvm_write: the last byte of the section cannot be written.
Inside(first, last) == current_app \in NvmApps => last < NvmSize

\* sys_nvm_write of one value to the cells first..last.
sys_nvm_write(first, last, v) ==
  /\ running /\ Inside(first, last)
  /\ memory' = [memory EXCEPT !.nvm = [c \in Cells |-> IF c \in first..last THEN v ELSE @[c]]]
  /\ IF current_app \in NvmApps /\ nvram.save
     THEN /\ files' = [files EXCEPT ![current_app] = Overwritten(@, first, last, v)]
          /\ wrote' = [wrote EXCEPT ![current_app] = [c \in Cells |-> IF c \in first..last THEN v ELSE @[c]]]
          /\ mapping' = [mapping EXCEPT !.since = @ \cup first..last]
     ELSE UNCHANGED <<files, wrote, mapping>>
  /\ UNCHANGED <<nvram, current_app, context, try_context, libcalls, running>>

\* sys_nvm_erase: zeros in memory; fwrite of a NULL source ends the process where the file is saved.
sys_nvm_erase(first, last) ==
  /\ running /\ Inside(first, last)
  /\ ~(current_app \in NvmApps /\ nvram.save)
  /\ memory' = [memory EXCEPT !.nvm = [c \in Cells |-> IF c \in first..last THEN 0 ELSE @[c]]]
  /\ UNCHANGED <<nvram, current_app, files, context, try_context, libcalls, running, wrote, mapping>>

\* The write out of the section, and the erasure that is saved.
NvmFails(first, last, erase) ==
  /\ running
  /\ ~Inside(first, last) \/ (erase /\ current_app \in NvmApps /\ nvram.save)
  /\ Exit

LibNext ==
  \/ \E lib \in Apps \cup {"missing"} : sys_os_lib_call(lib) \/ LibCallFails(lib)
  \/ sys_os_lib_end
  \/ LibEndFails
  \/ sys_os_sched_exit
  \/ sys_try_context_set
  \/ \E first \in Cells : \E last \in first..NvmSize :
       \/ \E v \in NvmValues : sys_nvm_write(first, last, v)
       \/ sys_nvm_erase(first, last)
       \/ \E erase \in BOOLEAN : NvmFails(first, last, erase)

LibSpec == LibInit /\ [][LibNext]_libVars

---------------------------------------------------------------------------
\* The application that runs is the one whose code is mapped, at the depth of the pending calls,
\* and its exception record is not one of a library that has ended: an exception thrown after
\* os_lib_end does not jump into a frame that is gone.
CallerResumed ==
  running =>
    /\ memory.code = current_app
    /\ context = At(current_app, Len(libcalls))
    /\ try_context.depth <= Len(libcalls)

\* --save-nvram: what any application, running or interrupted, wrote since its file was begun
\* is in that file, the last write of a cell last.  A file is begun anew, and what it held is in
\* the backup only, when load_app maps the application again without preloading it.
WritesInFile ==
  nvram.save =>
    \A a \in NvmApps : \A c \in Cells :
      wrote[a][c] # Image => c <= files[a].n /\ files[a].cell[c] = wrote[a][c]

\* --save-nvram: the running application reads what is in its file until it has called a library;
\* os_lib_end maps the ELF file again, and from then on it reads what it has written since and
\* the cells of the ELF file everywhere else, whatever its file holds.
CellsRead ==
  running /\ nvram.save /\ current_app \in NvmApps =>
    \A c \in Cells :
      memory.nvm[c] = IF mapping.again /\ c \notin mapping.since THEN Image ELSE files[current_app].cell[c]

\* An application that called a library continues as itself, its file has what it wrote, and its
\* memory has it too but for what the return undid (os_lib_call, os_lib_end, nvm_write).
AppRestored == CallerResumed /\ WritesInFile /\ CellsRead

LibTypeOK ==
  /\ nvram \in [load : BOOLEAN, save : BOOLEAN]
  /\ current_app \in Apps
  /\ memory \in [code : Apps, nvm : [Cells -> NvmValues \cup {Image}]]
  /\ files \in [Apps -> [n : 0..NvmSize, there : BOOLEAN, cell : [Cells -> NvmValues]]]
  /\ context \in [app : Apps, depth : Nat]
  /\ try_context \in [depth : Nat, set : BOOLEAN]
  /\ libcalls \in Seq([app : Apps, sigcontext : [app : Apps, depth : Nat], trycontext : [depth : Nat, set : BOOLEAN]])
  /\ Len(libcalls) <= MAX_LIBCALL
  /\ running \in BOOLEAN
  /\ wrote \in [Apps -> [Cells -> NvmValues \cup {Image}]]
  /\ mapping \in [again : BOOLEAN, since : SUBSET Cells]
=============================================================================
