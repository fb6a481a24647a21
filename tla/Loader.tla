------------------------------- MODULE Loader -------------------------------
(***************************************************************************)
(* Loading the application: load_bincode_from_host_elf (kernel/elf.c) and  *)
(* the table of host files it reads through (spike_interface/spike_file.c).*)
(*                                                                         *)
(* The loader runs once, before the first process.  Its inputs are what    *)
(* the host answers to its requests and the ELF file, whose program        *)
(* headers are chosen as they are read.  Addresses are bytes of a memory   *)
(* of WORD bytes, so that vaddr + memsz wraps as a uint64 does; a page has *)
(* PGSIZE of them and page_walk accepts addresses below MAXVA.             *)
(***************************************************************************)
EXTENDS Integers, Sequences

CONSTANTS PGSIZE,     \* bytes in a page
          MAXVA,      \* first address page_walk refuses
          WORD,       \* number of values of a uint64
          LOWVA,      \* lowest address a linker gives to a segment
          PHNUM,      \* bound: program headers of an ELF file
          MAX_FILES   \* size of spike_files[]

ASSUME LoaderAssumption ==
  /\ PGSIZE \in Nat \ {0}
  /\ MAXVA \in Nat /\ WORD \in Nat
  /\ PGSIZE < MAXVA /\ MAXVA <= WORD
  /\ MAXVA % PGSIZE = 0
  /\ LOWVA \in Nat \ {0}
  /\ PHNUM \in 0 .. 253        \* mapped_info is a page of 256 regions
  /\ MAX_FILES \in Nat /\ MAX_FILES > 3

VARIABLES stage,    \* where load_bincode_from_host_elf is
          file,     \* info.f, a slot of spike_files, or NoFile
          refcnt,   \* refcnt of each slot
          kfd,      \* kfd of each slot, -1 before it has one
          fds,      \* spike_fds: the slot of a descriptor, or NoFile
          opened,   \* descriptors open on the host
          left,     \* program headers not yet read
          loads,    \* the LOAD headers read so far (history)
          mapped,   \* pages with a valid PTE
          info,     \* p->mapped_info
          total     \* p->total_mapped_region

loadVars == <<stage, file, refcnt, kfd, fds, opened, left, loads, mapped, info, total>>
files == <<refcnt, kfd, fds, opened>>
image == <<left, loads, mapped, info, total>>

NoFile == -1
Slots == 0 .. MAX_FILES - 1
Descriptors == 0 .. MAX_FILES - 1     \* MAX_FDS = MAX_FILES
INIT_FILE_REF == 3
Regions == 0 .. 2 + PHNUM             \* mapped_info slots in reach
NoRegion == [va |-> 0, type |-> "none"]

(* The page alloc_process has mapped for the stack, the highest one here;  *)
(* its three regions (stack, trapframe, trap section) are registered.      *)
StackPage == (MAXVA - 1) \div PGSIZE
KernelPage == [va |-> StackPage * PGSIZE, type |-> "kernel"]

(* A program header: flags is RX, RW or something else; ends says that the *)
(* host file ends with the filesz bytes of the segment.                    *)
Headers ==
  [type : {"LOAD"}, flags : {"RX", "RW", "other"}, vaddr : LOWVA .. WORD - 1,
   filesz : 0 .. PGSIZE, memsz : 0 .. PGSIZE, ends : BOOLEAN]
  \cup [type : {"NOTE"}, flags : {"RW"}, vaddr : {LOWVA},
        filesz : {0}, memsz : {0}, ends : {FALSE}]

-----------------------------------------------------------------------------
(* spike_files and spike_fds.  Single hart: an atomic operation is a step. *)
(* Mutant: the slot is taken without a look at its count.                   *)
spike_file_get_free_any(r) == {0}

(* The first slot with no reference, as a set: empty when there is none.   *)
spike_file_get_free(r) ==
  {f \in Slots : r[f] = 0 /\ \A g \in Slots : g < f => r[g] # 0}

(* The host file is closed when the count was 2, and the slot is free then.*)
spike_file_decref(r, h, f) ==
  IF r[f] = 2
  THEN [refcnt |-> [r EXCEPT ![f] = 0], opened |-> h \ {kfd[f]}]
  ELSE [refcnt |-> [r EXCEPT ![f] = @ - 1], opened |-> h]

(* spike_file_init has run: FDs 0-2 hold a reference each (spike_file_dup).*)
LoadInit ==
  /\ stage = "parse_args"
  /\ file = NoFile
  /\ refcnt = [f \in Slots |-> IF f < 3 THEN INIT_FILE_REF + 1 ELSE 0]
  /\ kfd = [f \in Slots |-> IF f < 3 THEN f ELSE -1]
  /\ fds = [d \in Descriptors |-> IF d < 3 THEN d ELSE NoFile]
  /\ opened = 0 .. 2
  /\ left = 0
  /\ loads = <<>>
  /\ mapped = {StackPage}
  /\ info = [j \in Regions |-> IF j < 3 THEN KernelPage ELSE NoRegion]
  /\ total = 3

(* Panic and a failed kassert stop the machine.                            *)
Panics == stage' = "panic" /\ UNCHANGED <<file, refcnt, kfd, fds, opened, left, loads, mapped, info, total>>

(* HTIFSYS_getmainvars may fail, or the command line name no application.  *)
parse_args ==
  /\ stage = "parse_args"
  /\ \/ Panics
     \/ /\ stage' = "open"
        /\ UNCHANGED <<file, files, image>>

(* A slot is free: the standard streams hold three of MAX_FILES.           *)
(* The host answers with an unused descriptor, or an error; then decref    *)
(* leaves the slot with two references and no descriptor.                  *)
spike_file_openat ==
  /\ stage = "open"
  /\ \E f \in spike_file_get_free(refcnt) :
       \/ \E d \in Descriptors \ opened :
            /\ file' = f
            /\ refcnt' = [refcnt EXCEPT ![f] = INIT_FILE_REF]
            /\ kfd' = [kfd EXCEPT ![f] = d]
            /\ opened' = opened \cup {d}
            /\ stage' = "init"
            /\ UNCHANGED fds
       \/ LET after == spike_file_decref([refcnt EXCEPT ![f] = INIT_FILE_REF], opened, f)
          IN  /\ refcnt' = after.refcnt
              /\ opened' = after.opened
              /\ stage' = "panic"
              /\ UNCHANGED <<file, kfd, fds>>
  /\ UNCHANGED image

(* The ELF header: a short read or a wrong magic number ends the loading.  *)
elf_init ==
  /\ stage = "init"
  /\ \/ Panics
     \/ /\ left' \in 0 .. PHNUM
        /\ stage' = "load"
        /\ UNCHANGED <<file, files, loads, mapped, info, total>>

-----------------------------------------------------------------------------
(* What elf_load refuses (EL_ERR).                                         *)
Refused(h) ==
  \/ h.memsz < h.filesz
  \/ (h.vaddr + h.memsz) % WORD < h.vaddr

(* map_pages of PGSIZE bytes at vaddr: the pages it touches.               *)
Pages(h) == (h.vaddr \div PGSIZE) .. ((h.vaddr + PGSIZE - 1) \div PGSIZE)

(* Mutant: a page already mapped is mapped again.                           *)
Mappable_again(h) == \A n \in Pages(h) : n * PGSIZE < MAXVA

(* page_walk panics from MAXVA on, map_pages on a valid PTE.               *)
Mappable(h) == \A n \in Pages(h) : n * PGSIZE < MAXVA /\ n \notin mapped

(* elf_fpread of memsz bytes at off: filesz of them are the segment's, and *)
(* the others are there only if the file goes on.                          *)
ReadsWhole(h) == h.memsz <= h.filesz \/ ~h.ends

(* Mutant: the slot after the regions of alloc_process.                     *)
FreeRegion_fixed(va) == 3

(* The slot elf_load looks for: the first whose va is 0.                   *)
FreeRegion(va) ==
  CHOOSE j \in Regions : info[j].va = 0 /\ \A i \in Regions : i < j => info[i].va # 0

SegType(h) == IF h.flags = "RX" THEN "CODE" ELSE "DATA"

(* One LOAD segment taken in: elf_alloc_mb, the reading, the region.       *)
elf_load_segment(h) ==
  /\ h.type = "LOAD" /\ ~Refused(h) /\ h.memsz < PGSIZE
  /\ Mappable(h) /\ ReadsWhole(h) /\ h.flags \in {"RX", "RW"}
  /\ mapped' = mapped \cup Pages(h)
  /\ info' = [info EXCEPT ![FreeRegion(h.vaddr)] = [va |-> h.vaddr, type |-> SegType(h)]]
  /\ total' = total + 1

elf_skip(h) ==
  /\ h.type # "LOAD"
  /\ UNCHANGED <<mapped, info, total>>

(* One round of elf_load's loop.                                           *)
elf_load ==
  /\ stage = "load"
  /\ left > 0
  /\ \E h \in Headers :
       /\ elf_load_segment(h) \/ elf_skip(h)
       /\ loads' = IF h.type = "LOAD" THEN Append(loads, h) ELSE loads
  /\ left' = left - 1
  /\ UNCHANGED <<stage, file, files>>

(* A header that cannot be read, or a segment that ends the loading: with  *)
(* EL_ERR or EL_EIO, or a panic in elf_alloc_mb, map_pages or elf_load.    *)
(* No free page (elf.c:26) is among the outcomes.                          *)
elf_load_fails ==
  /\ stage = "load"
  /\ left > 0
  /\ Panics

(* The entry point is set and the file closed.  spike_file_close drops the *)
(* reference of spike_fds[kfd] only if that descriptor holds this file.    *)
spike_file_close ==
  /\ stage = "load"
  /\ left = 0
  /\ LET once  == spike_file_decref(refcnt, opened, file)
         twice == spike_file_decref(once.refcnt, once.opened, file)
         after == IF fds[kfd[file]] = file THEN twice ELSE once
     IN  /\ refcnt' = after.refcnt
         /\ opened' = after.opened
         /\ fds' = IF fds[kfd[file]] = file THEN [fds EXCEPT ![kfd[file]] = NoFile] ELSE fds
  /\ stage' = "done"
  /\ UNCHANGED <<file, kfd, image>>

LoadNext ==
  \/ parse_args
  \/ spike_file_openat
  \/ elf_init
  \/ elf_load
  \/ elf_load_fails
  \/ spike_file_close

LoadSpec == LoadInit /\ [][LoadNext]_loadVars

-----------------------------------------------------------------------------
(* An application that is started has one region in mapped_info for each   *)
(* LOAD segment of its file, in the file's order and of the type its flags *)
(* give, where fork looks for them; "record the vm region in               *)
(* proc->mapped_info" (elf.c:81).                                          *)
RegionsRecorded ==
  stage = "done" =>
    /\ total = 3 + Len(loads)
    /\ \A i \in DOMAIN loads :
         info[2 + i] = [va |-> loads[i].vaddr, type |-> SegType(loads[i])]

(* No two segments of a started application share a page, none reaches the *)
(* stack, and all are mapped: elf_alloc_mb (elf.c:29-30) relies on         *)
(* map_pages to stop for a page that is taken.                             *)
SegmentsApart ==
  stage = "done" =>
    /\ \A i, j \in DOMAIN loads : i # j => Pages(loads[i]) \cap Pages(loads[j]) = {}
    /\ \A i \in DOMAIN loads : Pages(loads[i]) \subseteq mapped \ {StackPage}

(* Opening and closing the application's file leaves stdin, stdout and     *)
(* stderr in their slots (spike_file.h:21-23), open on the host: sprint    *)
(* needs them until shutdown, whatever the loader meets.                   *)
StdStreamsKept ==
  \A f \in 0 .. 2 :
    refcnt[f] = INIT_FILE_REF + 1 /\ kfd[f] = f /\ fds[f] = f /\ f \in opened

=============================================================================
