------------------------------- MODULE Loader -------------------------------
(***************************************************************************)
(* exec::load_strategy (exec/loader.cpp) for strategy modules: a file is   *)
(* mapped, its ELF headers are checked, it is copied into a memfd and      *)
(* opened from /proc/self/fd, and the table it exports is checked.  A      *)
(* build may rewrite the file in place at any moment.  The kernel gives    *)
(* out the lowest free descriptor; the dynamic linker knows a module by    *)
(* its path and gives a known one again without a look at the file.        *)
(* Nothing unloads a module that was loaded.                               *)
(***************************************************************************)
EXTENDS Integers, FiniteSets, FiniteSetsExt

CONSTANTS
    Image,        \* what the module file may hold
    NotElf, HasTls, NoTable, OtherAbi,  \* the images each check refuses
    MaxFd,        \* descriptors of the process
    MaxLoads,     \* bound: calls of load_strategy
    MaxRewrites   \* bound: builds in one behaviour

ASSUME LoaderAssumption ==
    /\ NotElf \union HasTls \union NoTable \union OtherAbi \subseteq Image
    /\ MaxFd \in Nat /\ MaxLoads \in Nat /\ MaxRewrites \in Nat

VARIABLES
    file,         \* what the module file holds
    rewrites,     \* times it was rewritten
    touched,      \* history: the file was rewritten during this call
    step,         \* "idle", "opened", "mapped", "checked", "copied", "linked"
    fd, memfd,    \* the call's descriptors, fd or mfd in the code
    img,          \* whether the file is mapped
    fds,          \* open descriptors, and of a memfd what was written to it
    links,        \* the linker's modules: path (by descriptor), image and users
    loaded,       \* the LoadedModules: descriptor, and history
    loads

loaderVars == <<file, rewrites, touched, step, fd, memfd, img, fds, links, loaded, loads>>

LoaderInit ==
    /\ file \in Image /\ rewrites = 0 /\ touched = FALSE
    /\ step = "idle" /\ fd = 0 /\ memfd = 0 /\ img = FALSE
    /\ fds = [d \in {} |-> {}]
    /\ links = {} /\ loaded = {} /\ loads = 0

-----------------------------------------------------------------------------
(* The kernel and the linker.                                              *)

\* The lowest descriptor that is not open, of the ones a process may have.
FreeFds == 0..MaxFd \ DOMAIN fds
LowestFd == Min(FreeFds)

\* Descriptor d is opened with some contents; d is closed.
WithFd(d, contents) == [x \in DOMAIN fds \union {d} |-> IF x = d THEN contents ELSE fds[x]]
WithoutFd(d) == [x \in DOMAIN fds \ {d} |-> fds[x]]

\* What a read of the mapped file finds: while the file is being rewritten, any
\* mixture of old and new, which may pass for any image.
Seen(i) == i = file \/ (touched /\ i \in Image)

\* The module the linker has under the path of descriptor d, if any.
LinkAt(d) == {l \in links : l.path = d}

\* dlclose: the module goes when its last user does.
Unlinked(d) ==
    {l \in links : l.path # d} \union
    {[l EXCEPT !.users = @ - 1] : l \in {k \in LinkAt(d) : k.users > 1}}

-----------------------------------------------------------------------------
(* load_strategy.                                                          *)

\* open; if it fails, and if the file is missing, nothing has happened.
Open ==
    /\ step = "idle" /\ loads < MaxLoads /\ FreeFds # {}
    /\ loads' = loads + 1
    /\ fd' = LowestFd /\ fds' = WithFd(LowestFd, "file")
    /\ step' = "opened" /\ touched' = FALSE
    /\ UNCHANGED <<file, rewrites, memfd, img, links, loaded>>

\* fstat, mmap and close; fstat or mmap may fail.
MapFile(ok) ==
    /\ step = "opened"
    /\ fds' = WithoutFd(fd)
    /\ img' = ok
    /\ step' = IF ok THEN "mapped" ELSE "idle"
    /\ UNCHANGED <<file, rewrites, touched, fd, memfd, links, loaded, loads>>

\* check_elf on the mapping; a refused file is unmapped.
CheckElf ==
    /\ step = "mapped"
    /\ \E i \in Image :
          /\ Seen(i)
          /\ IF i \in NotElf \union HasTls THEN img' = FALSE /\ step' = "idle"
             ELSE img' = TRUE /\ step' = "checked"
    /\ UNCHANGED <<file, rewrites, touched, fd, memfd, fds, links, loaded, loads>>

\* Mutant: a memfd that could not be filled stays open.
CopyKeepsShort(ok) ==
    /\ step = "checked"
    /\ ok => FreeFds # {}
    /\ img' = FALSE
    /\ memfd' = IF FreeFds = {} THEN 0 ELSE LowestFd
    /\ step' = IF ok THEN "copied" ELSE "idle"
    /\ \E i \in Image : Seen(i) /\ fds' = IF FreeFds = {} THEN fds ELSE WithFd(LowestFd, i)
    /\ UNCHANGED <<file, rewrites, touched, fd, links, loaded, loads>>

\* memfd_create and the writes into it, then munmap; if there is no memfd or it
\* cannot take all of the file, it is closed again.
Copy(ok) ==
    /\ step = "checked"
    /\ ok => FreeFds # {}
    /\ img' = FALSE
    /\ IF ok
       THEN /\ memfd' = LowestFd
            /\ \E i \in Image : Seen(i) /\ fds' = WithFd(LowestFd, i)
            /\ step' = "copied"
       ELSE step' = "idle" /\ UNCHANGED <<memfd, fds>>
    /\ UNCHANGED <<file, rewrites, touched, fd, links, loaded, loads>>

\* dlopen of /proc/self/fd/<memfd>, which fails on what is no shared object and
\* may fail on any other; a failure closes the memfd.
Dlopen(ok) ==
    /\ step = "copied"
    /\ IF ok
       THEN /\ LinkAt(memfd) # {} \/ fds[memfd] \notin NotElf
            /\ links' = {l \in links : l.path # memfd} \union
                        (IF LinkAt(memfd) = {}
                         THEN {[path |-> memfd, image |-> fds[memfd], users |-> 1]}
                         ELSE {[l EXCEPT !.users = @ + 1] : l \in LinkAt(memfd)})
            /\ step' = "linked"
            /\ UNCHANGED fds
       ELSE /\ LinkAt(memfd) = {}
            /\ fds' = WithoutFd(memfd) /\ step' = "idle"
            /\ UNCHANGED links
    /\ UNCHANGED <<file, rewrites, touched, fd, memfd, img, loaded, loads>>

\* Mutant: the memfd is closed once the module is mapped.
AcceptAndClose ==
    /\ loaded' = loaded \union {[call |-> loads, memfd |-> memfd, copied |-> fds[memfd],
                                 runs |-> (CHOOSE l \in LinkAt(memfd) : TRUE).image,
                                 touched |-> touched]}
    /\ fds' = WithoutFd(memfd)
    /\ UNCHANGED links

\* The module is prefaulted and returned, its memfd kept open.
Accept ==
    /\ loaded' = loaded \union {[call |-> loads, memfd |-> memfd, copied |-> fds[memfd],
                                 runs |-> (CHOOSE l \in LinkAt(memfd) : TRUE).image,
                                 touched |-> touched]}
    /\ UNCHANGED <<fds, links>>

\* The table that ll_strategy_module returns is missing or of another ABI,
\* layout or ISA: dlclose, close.
Refuse ==
    /\ links' = Unlinked(memfd)
    /\ fds' = WithoutFd(memfd)
    /\ UNCHANGED loaded

\* dlsym, the entry point and check_module, on the module the linker gave.
CheckModule ==
    /\ step = "linked"
    /\ step' = "idle"
    /\ IF \E l \in LinkAt(memfd) : l.image \in NoTable \union OtherAbi
       THEN Refuse ELSE Accept
    /\ UNCHANGED <<file, rewrites, touched, fd, memfd, img, loads>>

\* The module is built anew, in place.
Rewrite(i) ==
    /\ rewrites < MaxRewrites /\ rewrites' = rewrites + 1
    /\ file' = i
    /\ touched' = TRUE
    /\ UNCHANGED <<step, fd, memfd, img, fds, links, loaded, loads>>

LoaderNext ==
    \/ Open \/ CheckElf \/ CheckModule
    \/ \E ok \in BOOLEAN : MapFile(ok) \/ Copy(ok) \/ Dlopen(ok)
    \/ \E i \in Image : Rewrite(i)

LoaderSpec == LoaderInit /\ [][LoaderNext]_loaderVars

-----------------------------------------------------------------------------
(* Properties.                                                             *)

\* What a LoadedModule runs is what its own load copied, not what an earlier
\* load of the same descriptor number left with the linker, however the file is
\* rewritten; it has passed the checks of its table, and has no thread-local
\* storage unless the file was rewritten during the load.
RunsWhatItChecked ==
    \A m \in loaded :
        /\ m.runs = m.copied
        /\ m.runs \notin NotElf \union NoTable \union OtherAbi
        /\ m.runs \in HasTls => m.touched

\* No failure leaks: between loads the open descriptors and the linker's
\* modules are those of the modules loaded, one each, and nothing is mapped.
NothingLeaks ==
    step = "idle" =>
        /\ ~img
        /\ DOMAIN fds = {m.memfd : m \in loaded}
        /\ {l.path : l \in links} = DOMAIN fds /\ \A l \in links : l.users = 1
        /\ Cardinality(loaded) = Cardinality(DOMAIN fds)

\* The loader is sound: RunsWhatItChecked and NothingLeaks.
LoaderSound == RunsWhatItChecked /\ NothingLeaks
=============================================================================
