--------------------------- MODULE ProcessProofs ---------------------------
(***************************************************************************)
(* Proofs about how an application is loaded (module Loader) and about the *)
(* processes it becomes (modules Process and AppWait).                     *)
(*                                                                         *)
(* For every size of the memory, of the file table and of mapped_info,     *)
(* whatever the file holds and the host answers, loading the application   *)
(* records its segments, keeps them apart, and leaves the standard streams *)
(* alone.  For every size of the process pool and every length of the time *)
(* slice, the safety properties of Process hold, and app_wait.c takes the  *)
(* branches it should.                                                     *)
(***************************************************************************)
EXTENDS Loader, AppWait, TLAPS

-----------------------------------------------------------------------------
(* Loading the application. *)

\* StdStreamsKept does not say which slot and descriptor the application's file has.
\* Both are above those of the standard streams, while the file is open.
StreamsInv ==
    /\ refcnt \in [Slots -> Int]
    /\ kfd \in [Slots -> Int]
    /\ fds \in [Descriptors -> Int]
    /\ stage \in {"init", "load"} =>
         /\ file \in Slots /\ file \notin 0 .. 2
         /\ kfd[file] \in Descriptors /\ kfd[file] \notin 0 .. 2
    /\ \A f \in Slots : f \notin 0 .. 2 /\ refcnt[f] = 0 => kfd[f] \notin 0 .. 2
    /\ StdStreamsKept

\* The slot spike_file_get_free() finds is not one of the standard streams'.
LEMMA FreeSlot ==
    ASSUME StreamsInv, NEW f \in spike_file_get_free(refcnt)
    PROVE  f \in Slots /\ f \notin 0 .. 2 /\ kfd[f] \notin 0 .. 2
  BY LoaderAssumption DEF StreamsInv, StdStreamsKept, spike_file_get_free, INIT_FILE_REF

\* Giving up a reference to a file that is not a standard stream leaves theirs alone.
LEMMA DecrefKeeps ==
    ASSUME NEW r \in [Slots -> Int], NEW h, NEW f \in Slots, f \notin 0 .. 2, kfd[f] \notin 0 .. 2
    PROVE  LET after == spike_file_decref(r, h, f)
           IN  /\ after.refcnt \in [Slots -> Int]
               /\ \A g \in Slots : g # f => after.refcnt[g] = r[g]
               /\ \A d \in 0 .. 2 : d \in h => d \in after.opened
  BY DEF spike_file_decref

\* spike_file_init() establishes the invariant.
LEMMA StreamsInit == LoadInit => StreamsInv
  BY LoaderAssumption DEF LoadInit, StreamsInv, StdStreamsKept, Slots, Descriptors, NoFile, INIT_FILE_REF

\* Every step of the loader preserves it.
LEMMA StreamsStep == StreamsInv /\ [LoadNext]_loadVars => StreamsInv'
<1> SUFFICES ASSUME StreamsInv, [LoadNext]_loadVars PROVE StreamsInv'
  BY Zenon
<1>0. 0 .. 2 \subseteq Slots /\ Descriptors = Slots
  BY LoaderAssumption DEF Slots, Descriptors
<1>1. CASE parse_args
  BY <1>1, Zenon DEF StreamsInv, StdStreamsKept, parse_args, Panics, files
<1>2. CASE spike_file_openat
  <2>1. PICK f \in spike_file_get_free(refcnt) :
          \/ \E d \in Descriptors \ opened :
               /\ file' = f
               /\ refcnt' = [refcnt EXCEPT ![f] = INIT_FILE_REF]
               /\ kfd' = [kfd EXCEPT ![f] = d]
               /\ opened' = opened \cup {d}
               /\ stage' = "init"
               /\ UNCHANGED fds
          \/ LET after == spike_file_decref([refcnt EXCEPT ![f] = INIT_FILE_REF], opened, f)
             IN  /\ refcnt' = after.refcnt
                 /\ opened' = after.opened
                 /\ stage' = "panic"
                 /\ UNCHANGED <<file, kfd, fds>>
    BY <1>2, Zenon DEF spike_file_openat
  <2>2. f \in Slots /\ f \notin 0 .. 2 /\ kfd[f] \notin 0 .. 2
    BY FreeSlot, Zenon
  <2>3. ASSUME NEW d \in Descriptors \ opened,
               file' = f, refcnt' = [refcnt EXCEPT ![f] = INIT_FILE_REF],
               kfd' = [kfd EXCEPT ![f] = d], opened' = opened \cup {d}, stage' = "init", fds' = fds
        PROVE  StreamsInv'
    <3>1. d \notin 0 .. 2 /\ d \in Int
      BY LoaderAssumption DEF StreamsInv, StdStreamsKept, Descriptors
    <3> QED BY <1>0, <2>2, <2>3, <3>1 DEF StreamsInv, StdStreamsKept, INIT_FILE_REF
  <2>4. ASSUME refcnt' = spike_file_decref([refcnt EXCEPT ![f] = INIT_FILE_REF], opened, f).refcnt,
               opened' = spike_file_decref([refcnt EXCEPT ![f] = INIT_FILE_REF], opened, f).opened,
               stage' = "panic", UNCHANGED <<file, kfd, fds>>
        PROVE  StreamsInv'
    <3> DEFINE r == [refcnt EXCEPT ![f] = INIT_FILE_REF]
    <3>1. r \in [Slots -> Int] /\ \A g \in Slots : g # f => r[g] = refcnt[g]
      BY <2>2 DEF StreamsInv, INIT_FILE_REF
    <3>r. /\ refcnt' = spike_file_decref(r, opened, f).refcnt
          /\ opened' = spike_file_decref(r, opened, f).opened
      BY <2>4, Zenon
    <3> HIDE DEF r
    <3>2. /\ refcnt' \in [Slots -> Int]
          /\ \A g \in Slots : g # f => refcnt'[g] = r[g]
          /\ \A d \in 0 .. 2 : d \in opened => d \in opened'
      BY <2>2, <3>1, <3>r, DecrefKeeps
    <3> QED BY <1>0, <2>2, <2>4, <3>1, <3>2, Zenon DEF StreamsInv, StdStreamsKept
  <2> QED BY <2>1, <2>3, <2>4, Zenon
<1>3. CASE elf_init
  BY <1>3, Zenon DEF StreamsInv, StdStreamsKept, elf_init, Panics, files
<1>4. CASE elf_load
  BY <1>4, Zenon DEF StreamsInv, StdStreamsKept, elf_load, files
<1>5. CASE elf_load_fails
  BY <1>5, Zenon DEF StreamsInv, StdStreamsKept, elf_load_fails, Panics
<1>6. CASE spike_file_close
  <2> DEFINE once == spike_file_decref(refcnt, opened, file)
             twice == spike_file_decref(once.refcnt, once.opened, file)
             after == IF fds[kfd[file]] = file THEN twice ELSE once
  <2>1. /\ refcnt' = after.refcnt /\ opened' = after.opened /\ stage' = "done" /\ kfd' = kfd
        /\ fds' = IF fds[kfd[file]] = file THEN [fds EXCEPT ![kfd[file]] = NoFile] ELSE fds
        /\ file \in Slots /\ file \notin 0 .. 2
        /\ kfd[file] \in Descriptors /\ kfd[file] \notin 0 .. 2
    BY <1>6, Zenon DEF spike_file_close, StreamsInv
  <2>2. /\ once.refcnt \in [Slots -> Int]
        /\ \A g \in Slots : g # file => once.refcnt[g] = refcnt[g]
        /\ \A d \in 0 .. 2 : d \in opened => d \in once.opened
    BY <2>1, DecrefKeeps, Zenon DEF StreamsInv
  <2> HIDE DEF once
  <2>3. /\ twice.refcnt \in [Slots -> Int]
        /\ \A g \in Slots : g # file => twice.refcnt[g] = once.refcnt[g]
        /\ \A d \in 0 .. 2 : d \in once.opened => d \in twice.opened
    BY <2>1, <2>2, DecrefKeeps, Zenon
  <2> HIDE DEF twice
  <2>4. /\ refcnt' \in [Slots -> Int]
        /\ \A g \in Slots : g # file => refcnt'[g] = refcnt[g]
        /\ \A d \in 0 .. 2 : d \in opened => d \in opened'
    BY <2>1, <2>2, <2>3, Zenon
  <2>5. fds' \in [Descriptors -> Int] /\ \A d \in 0 .. 2 : fds'[d] = fds[d]
    BY <1>0, <2>1 DEF StreamsInv, NoFile
  <2> QED BY <1>0, <2>1, <2>4, <2>5, Zenon DEF StreamsInv, StdStreamsKept
<1>7. CASE UNCHANGED loadVars
  BY <1>7, Zenon DEF StreamsInv, StdStreamsKept, loadVars
<1> QED BY <1>1, <1>2, <1>3, <1>4, <1>5, <1>6, <1>7, Zenon DEF LoadNext

\* Whatever the host answers and whatever the file holds, stdin, stdout and stderr stay
\* in their slots and open.
THEOREM StreamsAlwaysKept == LoadSpec => []StdStreamsKept
<1>1. LoadInit => StreamsInv
  BY StreamsInit, Zenon
<1>2. StreamsInv /\ [LoadNext]_loadVars => StreamsInv'
  BY StreamsStep, Zenon
<1>3. StreamsInv => StdStreamsKept
  BY Zenon DEF StreamsInv
<1> QED BY <1>1, <1>2, <1>3, PTL DEF LoadSpec

-----------------------------------------------------------------------------
\* An entry of mapped_info.
Region == [va : Nat, type : {"none", "kernel", "CODE", "DATA"}]

\* Once the ELF header has been read each LOAD segment has its region, the regions fill
\* mapped_info from the front, and there is one left for each header not yet read.
ImageInv ==
    /\ loads \in Seq(Headers)
    /\ left \in Nat
    /\ Len(loads) + left <= PHNUM
    /\ stage \in {"parse_args", "open", "init"} => loads = <<>> /\ left = 0
    /\ total = 3 + Len(loads)
    /\ info \in [Regions -> Region]
    /\ \A j \in Regions : info[j].va # 0 <=> j < total
    /\ \A i \in DOMAIN loads :
         info[2 + i] = [va |-> loads[i].vaddr, type |-> SegType(loads[i])]
    /\ StackPage \in mapped
    /\ \A i \in DOMAIN loads : Pages(loads[i]) \subseteq mapped \ {StackPage}
    /\ \A i, j \in DOMAIN loads : i # j => Pages(loads[i]) \cap Pages(loads[j]) = {}

\* The stack is not at address 0, so its region counts as taken.
LEMMA KernelRegion == KernelPage \in Region /\ KernelPage.va # 0
<1>1. StackPage \in Nat /\ StackPage > 0
  BY LoaderAssumption DEF StackPage
<1>2. StackPage * PGSIZE \in Nat /\ StackPage * PGSIZE # 0
  BY <1>1, LoaderAssumption
<1> DEFINE kva == StackPage * PGSIZE
<1>3. KernelPage = [va |-> kva, type |-> "kernel"]
  BY Zenon DEF KernelPage
<1>4. kva \in Nat /\ kva # 0
  BY <1>2, Zenon
<1> HIDE DEF kva
<1> QED
  BY <1>3, <1>4, Zenon DEF Region

\* alloc_process() and an empty list of segments establish the invariant.
LEMMA ImageInit == LoadInit => ImageInv
<1> SUFFICES ASSUME LoadInit PROVE ImageInv
  BY Zenon
<1>1. info \in [Regions -> Region] /\ \A j \in Regions : info[j].va # 0 <=> j < 3
  <2>1. info = [j \in Regions |-> IF j < 3 THEN KernelPage ELSE NoRegion]
    BY Zenon DEF LoadInit
  <2>2. NoRegion \in Region /\ NoRegion.va = 0
    BY Zenon DEF NoRegion, Region
  <2> QED
    BY <2>1, <2>2, KernelRegion, Zenon
<1> QED
  BY <1>1, LoaderAssumption DEF LoadInit, ImageInv

\* The search for a region finds the first one not taken.
LEMMA FreeRegionFacts ==
    ASSUME ImageInv, left > 0, NEW va
    PROVE  FreeRegion(va) = total /\ total \in Regions
<1>1. total \in Regions
  BY LoaderAssumption DEF ImageInv, Regions
<1>2. info[total].va = 0 /\ \A i \in Regions : i < total => info[i].va # 0
  BY <1>1 DEF ImageInv, Regions
<1>3. ASSUME NEW j \in Regions, info[j].va = 0, \A i \in Regions : i < j => info[i].va # 0
      PROVE  j = total
  BY <1>1, <1>2, <1>3, SMTT(30) DEF Regions
<1> QED
  BY <1>1, <1>2, <1>3, Zenon DEF FreeRegion

\* A LOAD segment taken in.
LEMMA SegmentStep ==
    ASSUME ImageInv, stage = "load", left > 0, NEW h \in Headers, elf_load_segment(h),
           loads' = Append(loads, h), left' = left - 1, stage' = stage
    PROVE  ImageInv'
<1> DEFINE R == [va |-> h.vaddr, type |-> SegType(h)]
           n == Len(loads) + 1
<1>1. R \in Region /\ R.va # 0
  <2>1. h.vaddr \in LOWVA .. WORD - 1
    BY Zenon DEF Headers, elf_load_segment
  <2>2. h.vaddr \in Nat /\ h.vaddr # 0
    BY <2>1, LoaderAssumption
  <2>3. SegType(h) \in {"none", "kernel", "CODE", "DATA"}
    BY Zenon DEF SegType
  <2> QED
    BY <2>2, <2>3, Zenon DEF Region
<1>2. /\ info' = [info EXCEPT ![total] = R]
      /\ total' = total + 1
      /\ mapped' = mapped \cup Pages(h)
      /\ Pages(h) \cap mapped = {}
      /\ total \in Regions
  BY FreeRegionFacts, Zenon DEF elf_load_segment, Mappable
<1>3. /\ n \in Nat /\ total = 2 + n
      /\ loads' \in Seq(Headers) /\ Len(loads') = n /\ loads'[n] = h
      /\ DOMAIN loads' = 1 .. n
      /\ DOMAIN loads = 1 .. n - 1
      /\ \A i \in 1 .. n - 1 : loads'[i] = loads[i]
  BY DEF ImageInv
<1> HIDE DEF R, n
<1>4. info' \in [Regions -> Region]
  BY <1>1, <1>2, Zenon DEF ImageInv
<1>5. \A j \in Regions : info'[j].va # 0 <=> j < total'
  BY <1>1, <1>2, <1>3 DEF ImageInv, Regions
<1>6. \A i \in DOMAIN loads' : info'[2 + i] = [va |-> loads'[i].vaddr, type |-> SegType(loads'[i])]
  <2>1. info'[2 + n] = [va |-> loads'[n].vaddr, type |-> SegType(loads'[n])]
    BY <1>2, <1>3, SMTT(30) DEF ImageInv, R
  <2>2. ASSUME NEW i \in 1 .. n - 1
        PROVE  info'[2 + i] = [va |-> loads'[i].vaddr, type |-> SegType(loads'[i])]
    <3>1. 2 + i # total
      BY <1>3
    <3>2. info'[2 + i] = info[2 + i]
      BY <1>2, <1>3, <3>1 DEF ImageInv, Regions
    <3> QED
      BY <1>3, <3>2, SMTT(30) DEF ImageInv
  <2> QED
    BY <1>3, <2>1, <2>2, SMTT(30)
<1>7. /\ StackPage \in mapped'
      /\ \A i \in DOMAIN loads' : Pages(loads'[i]) \subseteq mapped' \ {StackPage}
      /\ \A i, j \in DOMAIN loads' : i # j => Pages(loads'[i]) \cap Pages(loads'[j]) = {}
  <2>1. StackPage \in mapped /\ \A i \in 1 .. n - 1 : Pages(loads'[i]) \subseteq mapped \ {StackPage}
    BY <1>3, Zenon DEF ImageInv
  <2>2. \A i, j \in 1 .. n - 1 : i # j => Pages(loads'[i]) \cap Pages(loads'[j]) = {}
    BY <1>3, SMTT(30) DEF ImageInv
  <2>3. \A i \in DOMAIN loads' : i = n \/ i \in 1 .. n - 1
    BY <1>3, SMTT(30)
  <2>4. StackPage \in mapped' /\ \A i \in DOMAIN loads' : Pages(loads'[i]) \subseteq mapped' \ {StackPage}
    BY <1>2, <1>3, <2>1, <2>3, Zenon
  <2>5. \A i \in 1 .. n - 1 : Pages(loads'[i]) \cap Pages(loads'[n]) = {}
    BY <1>2, <1>3, <2>1, SMTT(30)
  <2> QED
    BY <2>2, <2>3, <2>4, <2>5, Zenon
<1>8. left' \in Nat /\ Len(loads') + left' <= PHNUM /\ total' = 3 + Len(loads')
  BY <1>2, <1>3, LoaderAssumption, SMTT(30) DEF ImageInv, n
<1> QED
  BY <1>3, <1>4, <1>5, <1>6, <1>7, <1>8, Zenon DEF ImageInv

\* Every step of the loader preserves it.
LEMMA ImageStep == ImageInv /\ [LoadNext]_loadVars => ImageInv'
<1> SUFFICES ASSUME ImageInv, [LoadNext]_loadVars PROVE ImageInv'
  BY Zenon
<1>0. ASSUME UNCHANGED <<loads, mapped, info, total>>, left' \in Nat, Len(loads) + left' <= PHNUM, stage' = "load"
      PROVE  ImageInv'
  BY <1>0, Zenon DEF ImageInv
<1>1. ASSUME UNCHANGED image, stage' \in {"parse_args", "open", "init"} => stage \in {"parse_args", "open", "init"}
      PROVE  ImageInv'
  BY <1>1, Zenon DEF ImageInv, image
<1>2. CASE parse_args
  BY <1>1, <1>2, Zenon DEF parse_args, Panics, image
<1>3. CASE spike_file_openat
  BY <1>1, <1>3, Zenon DEF spike_file_openat
<1>4. CASE elf_init
  <2>1. CASE Panics
    BY <1>1, <2>1, Zenon DEF Panics, image
  <2>2. CASE ~Panics
    <3>1. loads = <<>> /\ stage' = "load" /\ UNCHANGED <<loads, mapped, info, total>>
      BY <1>4, <2>2, Zenon DEF elf_init, ImageInv
    <3>2. left' \in 0 .. PHNUM
      BY <1>4, <2>2, Zenon DEF elf_init
    <3>3. left' \in Nat /\ Len(loads) + left' <= PHNUM
      <4>1. Len(loads) \in Nat /\ Len(loads) <= 0
        BY <3>1
      <4> QED
        BY <3>2, <4>1, LoaderAssumption
    <3> QED
      BY <1>0, <3>1, <3>3, Zenon
  <2> QED
    BY <2>1, <2>2, Zenon
<1>5. CASE elf_load
  <2>1. PICK h \in Headers : /\ elf_load_segment(h) \/ elf_skip(h)
                             /\ loads' = IF h.type = "LOAD" THEN Append(loads, h) ELSE loads
    BY <1>5, Zenon DEF elf_load
  <2>2. CASE elf_load_segment(h)
    <3>1. loads' = Append(loads, h)
      BY <2>1, <2>2, Zenon DEF elf_load_segment
    <3> QED
      BY <1>5, <2>2, <3>1, SegmentStep, Zenon DEF elf_load
  <2>3. CASE elf_skip(h)
    <3>1. loads' = loads
      BY <2>1, <2>3, SMTT(30) DEF elf_skip
    <3>2. /\ left' \in Nat /\ Len(loads) + left' <= PHNUM /\ stage' = "load"
          /\ UNCHANGED <<mapped, info, total>>
      BY <1>5, <2>3, LoaderAssumption DEF elf_load, elf_skip, ImageInv
    <3> QED
      BY <1>0, <3>1, <3>2, Zenon
  <2> QED
    BY <2>1, <2>2, <2>3, Zenon
<1>6. CASE elf_load_fails
  BY <1>1, <1>6, Zenon DEF elf_load_fails, Panics, image
<1>7. CASE spike_file_close
  BY <1>1, <1>7, Zenon DEF spike_file_close
<1>8. CASE UNCHANGED loadVars
  BY <1>1, <1>8, Zenon DEF loadVars, image
<1> QED
  BY <1>2, <1>3, <1>4, <1>5, <1>6, <1>7, <1>8, Zenon DEF LoadNext

\* Whatever LOAD segments the file has, an application that is started has a region for each,
\* in the file's order and of the type its flags give (elf.c:81-98).
THEOREM RegionsAlwaysRecorded == LoadSpec => []RegionsRecorded
<1>1. ImageInv => RegionsRecorded
  BY Zenon DEF ImageInv, RegionsRecorded
<1> QED
  BY <1>1, ImageInit, ImageStep, PTL DEF LoadSpec

\* No two segments of a started application share a page with each other or with the stack
\* (elf.c:29-30, vmm.c:27).
THEOREM SegmentsAlwaysApart == LoadSpec => []SegmentsApart
<1>1. ImageInv => SegmentsApart
  BY Zenon DEF ImageInv, SegmentsApart
<1> QED
  BY <1>1, ImageInit, ImageStep, PTL DEF LoadSpec

-----------------------------------------------------------------------------
(* The processes. *)

\* The elements of a queue, and that none occurs twice.
Elems(q) == {q[i] : i \in DOMAIN q}
NoDup(q) == \A i, j \in DOMAIN q : q[i] = q[j] => i = j

ReadySet(st) == {p \in Procs : st[p] = READY}

\* The states a process really has: no line of the code stores RUNNING or
\* BLOCKED.
Used == {FREE, READY, ZOMBIE}

\* What the queue looks like between two handlers.
QueueInv ==
    /\ status \in [Procs -> Used]
    /\ machine = "boot" => queue = <<>> /\ status = [p \in Procs |-> FREE]
    /\ machine = "user" => /\ current \in Procs \ Elems(queue)
                           /\ ReadySet(status) = Elems(queue) \cup {current}
                           /\ NoDup(queue)
                           /\ ran <= tick_count[current]
    /\ machine = "shutdown" => AllDone(status)
    /\ machine \notin {"unfinished", "not_ready"}

SchedInv == TypeOK /\ QueueInv

-----------------------------------------------------------------------------
(* Sequences without repetition. *)

\* Appending a process that is not in the queue adds just that process.
LEMMA AppendFresh ==
    ASSUME NEW q \in Seq(Procs), NoDup(q), NEW p \in Procs, p \notin Elems(q)
    PROVE  /\ Append(q, p) \in Seq(Procs)
           /\ Append(q, p) # <<>>
           /\ Elems(Append(q, p)) = Elems(q) \cup {p}
           /\ NoDup(Append(q, p))
<1> DEFINE r == Append(q, p)
<1>1. /\ r \in Seq(Procs) /\ Len(r) = Len(q) + 1
      /\ \A i \in 1 .. Len(q) : r[i] = q[i]
      /\ r[Len(q) + 1] = p
  OBVIOUS
<1>2. /\ DOMAIN r = 1 .. Len(q) + 1 /\ DOMAIN q = 1 .. Len(q) /\ Len(q) \in Nat
  BY <1>1
<1> HIDE DEF r
<1>3. Elems(r) = Elems(q) \cup {p}
  <2>1. ASSUME NEW x \in Elems(r) PROVE x \in Elems(q) \cup {p}
    BY <1>1, <1>2 DEF Elems
  <2>2. ASSUME NEW x \in Elems(q) \cup {p} PROVE x \in Elems(r)
    <3>1. CASE x = p
      BY <1>1, <1>2, <3>1 DEF Elems
    <3>2. CASE x \in Elems(q)
      <4>1. PICK i \in DOMAIN q : q[i] = x
        BY <3>2, Zenon DEF Elems
      <4>2. i \in DOMAIN r /\ r[i] = x
        BY <1>1, <1>2, <4>1
      <4> QED BY <4>2, Zenon DEF Elems
    <3> QED BY <2>2, <3>1, <3>2, Zenon
  <2> QED BY <2>1, <2>2, Zenon
<1>4. NoDup(r)
  <2> SUFFICES ASSUME NEW i \in DOMAIN r, NEW j \in DOMAIN r, r[i] = r[j]
               PROVE  i = j
    BY Zenon DEF NoDup
  <2>1. CASE i \in DOMAIN q /\ j \in DOMAIN q
    BY <1>1, <1>2, <2>1, Zenon DEF NoDup
  <2>2. CASE i = Len(q) + 1 /\ j \in DOMAIN q
    BY <1>1, <1>2, <2>2, Zenon DEF Elems
  <2>3. CASE i \in DOMAIN q /\ j = Len(q) + 1
    BY <1>1, <1>2, <2>3, Zenon DEF Elems
  <2> QED BY <1>2, <2>1, <2>2, <2>3
<1>5. r # <<>>
  BY <1>1, <1>2
<1> QED BY <1>1, <1>3, <1>4, <1>5, Zenon DEF r

\* Taking the head off a queue removes just that process.
LEMMA TailRest ==
    ASSUME NEW q \in Seq(Procs), NoDup(q), q # <<>>
    PROVE  /\ Tail(q) \in Seq(Procs)
           /\ Head(q) \in Procs
           /\ Head(q) \notin Elems(Tail(q))
           /\ Elems(q) = Elems(Tail(q)) \cup {Head(q)}
           /\ NoDup(Tail(q))
<1> DEFINE r == Tail(q)
<1>1. /\ r \in Seq(Procs) /\ Len(r) = Len(q) - 1 /\ Len(q) \in Nat \ {0}
      /\ \A i \in 1 .. Len(r) : r[i] = q[i + 1]
      /\ Head(q) = q[1] /\ Head(q) \in Procs
  OBVIOUS
<1>2. /\ DOMAIN r = 1 .. Len(q) - 1 /\ DOMAIN q = 1 .. Len(q)
  BY <1>1
<1> HIDE DEF r
<1>3. Head(q) \notin Elems(r)
  BY <1>1, <1>2 DEF Elems, NoDup
<1>4. Elems(q) = Elems(r) \cup {Head(q)}
  <2>1. ASSUME NEW i \in DOMAIN q PROVE q[i] \in Elems(r) \cup {Head(q)}
    <3>1. CASE i = 1
      BY <1>1, <3>1, Zenon
    <3>2. CASE i # 1
      <4>1. i - 1 \in DOMAIN r /\ r[i - 1] = q[i]
        BY <1>1, <1>2, <3>2
      <4> QED BY <4>1, Zenon DEF Elems
    <3> QED BY <3>1, <3>2, Zenon
  <2>2. ASSUME NEW i \in DOMAIN r PROVE r[i] \in Elems(q)
    <3>1. i + 1 \in DOMAIN q /\ q[i + 1] = r[i]
      BY <1>1, <1>2
    <3> QED BY <3>1, Zenon DEF Elems
  <2>3. Head(q) \in Elems(q)
    BY <1>1, <1>2 DEF Elems
  <2> QED BY <2>1, <2>2, <2>3, Zenon DEF Elems
<1>5. ASSUME NEW i \in DOMAIN r, NEW j \in DOMAIN r, r[i] = r[j]
      PROVE  i = j
  <2>1. /\ i \in Nat /\ j \in Nat
        /\ i + 1 \in DOMAIN q /\ j + 1 \in DOMAIN q
        /\ q[i + 1] = r[i] /\ q[j + 1] = r[j]
    BY <1>1, <1>2
  <2>2. i + 1 = j + 1
    BY <2>1, <1>5, Zenon DEF NoDup
  <2> QED BY <2>1, <2>2
<1>6. NoDup(r)
  BY <1>5, Zenon DEF NoDup
<1> QED BY <1>1, <1>3, <1>4, <1>6, Zenon DEF r
-----------------------------------------------------------------------------
(* The scheduler. *)

\* What schedule() promises to a caller that has every READY process in the
\* queue, once: it dispatches one of them, or shuts the machine down.
LEMMA ScheduleDispatches ==
    ASSUME NEW q \in Seq(Procs), NoDup(q),
           NEW st \in [Procs -> Used], ReadySet(st) = Elems(q),
           schedule(q, st)
    PROVE  /\ status' = st
           /\ \/ /\ machine' = "shutdown" /\ AllDone(st)
                 /\ queue' = q /\ UNCHANGED <<current, ran>>
              \/ /\ machine' = "user"
                 /\ queue' \in Seq(Procs) /\ NoDup(queue')
                 /\ current' \in Procs \ Elems(queue')
                 /\ Elems(q) = Elems(queue') \cup {current'}
                 /\ ran' = 0
<1>1. CASE q = <<>>
  <2>1. Elems(q) = {}
    BY <1>1 DEF Elems
  <2>2. AllDone(st)
    BY <2>1, Zenon DEF AllDone, ReadySet, Used
  <2> QED BY <1>1, <2>2, Zenon DEF schedule
<1>2. CASE q # <<>>
  <2>1. /\ Tail(q) \in Seq(Procs) /\ NoDup(Tail(q))
        /\ Head(q) \in Procs \ Elems(Tail(q))
        /\ Elems(q) = Elems(Tail(q)) \cup {Head(q)}
    BY <1>2, TailRest, Zenon
  <2>2. st[Head(q)] = READY
    BY <2>1, Zenon DEF ReadySet
  <2> QED BY <1>2, <2>1, <2>2, Zenon DEF schedule
<1> QED BY <1>1, <1>2, Zenon

\* A process that gives up the hart but stays runnable keeps its place among
\* the runnable ones.
LEMMA RequeueKeepsAll ==
    ASSUME SchedInv, machine = "user", Requeue
    PROVE  /\ machine' = "user" /\ status' = status /\ ran' = 0
           /\ queue' \in Seq(Procs) /\ NoDup(queue')
           /\ current' \in Procs \ Elems(queue')
           /\ ReadySet(status) = Elems(queue') \cup {current'}
<1> DEFINE q == Append(queue, current)
           st == [status EXCEPT ![current] = READY]
<1>1. /\ queue \in Seq(Procs) /\ NoDup(queue) /\ current \in Procs \ Elems(queue)
      /\ ReadySet(status) = Elems(queue) \cup {current}
      /\ status \in [Procs -> Used]
  BY Zenon DEF SchedInv, TypeOK, QueueInv
<1>2. ~InList(current, queue)
  BY <1>1, Zenon DEF InList, Elems
<1>3. status[current] = READY
  BY <1>1, Zenon DEF ReadySet
<1>4. st = status
  BY <1>1, <1>3, Zenon
<1>5. /\ q \in Seq(Procs) /\ q # <<>> /\ NoDup(q)
      /\ Elems(q) = Elems(queue) \cup {current}
  BY <1>1, AppendFresh, Zenon
<1>6. schedule(q, status)
  BY <1>2, <1>4, Zenon DEF Requeue, insert_to_ready_queue
<1> HIDE DEF q, st
<1>7. ReadySet(status) = Elems(q)
  BY <1>1, <1>5, Zenon
<1>8. machine' # "shutdown"
  <2>1. machine' \in {"user", "not_ready"}
    BY <1>5, <1>6, Zenon DEF schedule
  <2> QED BY <2>1, Zenon
<1> QED BY <1>1, <1>5, <1>6, <1>7, <1>8, ScheduleDispatches, Zenon

-----------------------------------------------------------------------------
(* Type correctness and the accounting of READY processes. *)

\* Changing one value of a function keeps its type.
LEMMA ExceptType ==
    ASSUME NEW S, NEW T, NEW f \in [S -> T], NEW x, NEW v \in T
    PROVE  [f EXCEPT ![x] = v] \in [S -> T]
BY Zenon

\* An ecall stores a result and a syscall number, nothing else.
LEMMA EcallTypes ==
    ASSUME TypeOK, NEW n \in Sysno, NEW r \in Int, Ecall(n, r)
    PROVE  a0' \in [Procs -> Int] /\ sysno' \in [Procs -> Sysno]
<1>1. a0' = [a0 EXCEPT ![current] = r] /\ sysno' = [sysno EXCEPT ![current] = n]
  BY Zenon DEF Ecall
<1>2. a0 \in [Procs -> Int] /\ sysno \in [Procs -> Sysno]
  BY Zenon DEF TypeOK
<1> QED BY <1>1, <1>2, Zenon

\* The syscall numbers are numbers.
LEMMA SysnoTypes ==
    /\ {SYS_user_print, SYS_user_exit, SYS_user_fork, SYS_user_yield,
        SYS_user_wait} \subseteq Sysno
    /\ Sysno \subseteq Int
BY DEF Sysno, NULL, SYS_user_print, SYS_user_exit, SYS_user_fork,
       SYS_user_yield, SYS_user_wait

\* The queue invariant holds when s_start() begins.
LEMMA SchedInvInit == Init => SchedInv
<1> SUFFICES ASSUME Init PROVE SchedInv
  BY Zenon
<1>1. TypeOK
  BY NprocAssumption, SliceAssumption, SMTT(30)
  DEF Init, TypeOK, Status, Sysno, Machine, Procs, NULL, FREE
<1>2. QueueInv
  BY Zenon DEF Init, QueueInv, Used
<1> QED BY <1>1, <1>2, Zenon DEF SchedInv

\* Every handler keeps it: one case per action.
LEMMA SchedInvNext == SchedInv /\ [Next]_vars => SchedInv'
<1> SUFFICES ASSUME SchedInv, [Next]_vars PROVE SchedInv'
  BY Zenon
<1> USE SliceAssumption
<1>a. TypeOK /\ QueueInv
  BY Zenon DEF SchedInv
<1>b. \A p \in Procs : p \in Int
  BY NprocAssumption DEF Procs
<1>c. ASSUME machine = "user", Requeue, UNCHANGED <<parent, ssip>>,
             tick_count' \in [Procs -> 0 .. TIME_SLICE_LEN],
             a0' \in [Procs -> Int], sysno' \in [Procs -> Sysno]
      PROVE  SchedInv'
  <2>1. /\ machine' = "user" /\ status' = status /\ ran' = 0
        /\ queue' \in Seq(Procs) /\ NoDup(queue')
        /\ current' \in Procs \ Elems(queue')
        /\ ReadySet(status) = Elems(queue') \cup {current'}
    BY <1>c, RequeueKeepsAll, Zenon
  <2>2. TypeOK'
    BY <1>a, <1>c, <2>1 DEF TypeOK, Machine
  <2>3. QueueInv'
    <3>1. ran' <= tick_count'[current']
      BY <1>c, <2>1
    <3> QED BY <1>a, <2>1, <3>1, Zenon DEF QueueInv
  <2> QED BY <2>2, <2>3, Zenon DEF SchedInv
<1>d. ASSUME machine = "user",
             UNCHANGED <<status, parent, current, queue, ssip, machine, tick_count, ran>>,
             a0' \in [Procs -> Int], sysno' \in [Procs -> Sysno]
      PROVE  SchedInv'
  BY <1>a, <1>d, Zenon DEF SchedInv, TypeOK, QueueInv, AllDone
<1>1. CASE s_start
  <2>1. PICK p \in Procs :
          schedule(insert_to_ready_queue(p, queue), [status EXCEPT ![p] = READY])
    BY <1>1, Zenon DEF s_start
  <2>2. /\ machine = "boot" /\ queue = <<>> /\ status = [r \in Procs |-> FREE]
        /\ UNCHANGED <<parent, tick_count, a0, ssip, sysno>>
    BY <1>1, <1>a, Zenon DEF s_start, QueueInv
  <2> DEFINE q == Append(queue, p)
             st == [status EXCEPT ![p] = READY]
  <2>3. insert_to_ready_queue(p, queue) = q
    BY <2>2 DEF insert_to_ready_queue, InList
  <2>4. NoDup(queue) /\ Elems(queue) = {} /\ queue \in Seq(Procs)
    BY <2>2 DEF NoDup, Elems
  <2>5. /\ q \in Seq(Procs) /\ q # <<>> /\ NoDup(q) /\ Elems(q) = {p}
    BY <2>4, AppendFresh, Zenon
  <2>6. st \in [Procs -> Used] /\ ReadySet(st) = {p}
    BY <2>2, Zenon DEF ReadySet, Used, FREE, READY
  <2>7. schedule(q, st)
    BY <2>1, <2>3, Zenon
  <2> HIDE DEF q, st
  <2>8. machine' \in {"user", "not_ready"}
    BY <2>5, <2>7, Zenon DEF schedule
  <2>9. /\ status' = st /\ machine' = "user"
        /\ queue' \in Seq(Procs) /\ NoDup(queue')
        /\ current' \in Procs \ Elems(queue')
        /\ Elems(q) = Elems(queue') \cup {current'} /\ ran' = 0
    BY <2>5, <2>6, <2>7, <2>8, ScheduleDispatches, Zenon
  <2>10. TypeOK'
    BY <1>a, <2>2, <2>6, <2>9 DEF TypeOK, Machine, Used, Status
  <2>11. QueueInv'
    <3>1. ran' <= tick_count'[current']
      BY <1>a, <2>2, <2>9 DEF TypeOK
    <3> QED BY <2>5, <2>6, <2>9, <3>1, Zenon DEF QueueInv
  <2> QED BY <2>10, <2>11, Zenon DEF SchedInv
<1>2. CASE handle_timer
  <2>1. TypeOK'
    BY <1>2, <1>a, Zenon DEF handle_timer, TypeOK
  <2>2. QueueInv'
    BY <1>2, <1>a, Zenon DEF handle_timer, QueueInv, AllDone
  <2> QED BY <2>1, <2>2, Zenon DEF SchedInv
<1>3. CASE rrsched
  <2>1. /\ machine = "user" /\ ssip' = FALSE /\ UNCHANGED <<parent, a0, sysno>>
        /\ SliceEnds \/ SliceGoesOn
    BY <1>3, Zenon DEF rrsched
  <2>2. current \in Procs /\ tick_count[current] \in 0 .. TIME_SLICE_LEN
    BY <1>a, <2>1, Zenon DEF TypeOK, QueueInv
  <2>3. CASE SliceEnds
    <3>1. Requeue /\ tick_count' = [tick_count EXCEPT ![current] = 0]
      BY <2>3, Zenon DEF SliceEnds
    <3>2. /\ machine' = "user" /\ status' = status /\ ran' = 0
          /\ queue' \in Seq(Procs) /\ NoDup(queue')
          /\ current' \in Procs \ Elems(queue')
          /\ ReadySet(status) = Elems(queue') \cup {current'}
      BY <2>1, <3>1, RequeueKeepsAll, Zenon
    <3>3. TypeOK'
      <4>1. tick_count \in [Procs -> 0 .. TIME_SLICE_LEN] /\ 0 \in 0 .. TIME_SLICE_LEN
        BY <1>a DEF TypeOK
      <4>2. tick_count' \in [Procs -> 0 .. TIME_SLICE_LEN]
        BY <3>1, <4>1, ExceptType, Zenon
      <4>3. machine' \in Machine /\ ran' \in 0 .. TIME_SLICE_LEN
        BY <3>2 DEF Machine
      <4> QED BY <1>a, <2>1, <3>2, <4>2, <4>3, Zenon DEF TypeOK
    <3>4. ran' <= tick_count'[current']
      BY <3>2, <3>3 DEF TypeOK
    <3>5. QueueInv'
      BY <1>a, <3>2, <3>4, Zenon DEF QueueInv
    <3> QED BY <3>3, <3>5, Zenon DEF SchedInv
  <2>4. CASE SliceGoesOn
    <3>1. /\ UNCHANGED <<status, current, queue, machine>>
          /\ tick_count' = [tick_count EXCEPT ![current] = @ + 1]
          /\ tick_count[current] + 1 <= TIME_SLICE_LEN /\ ran' = ran + 1
      BY <2>4, Zenon DEF SliceGoesOn
    <3>2. ran \in Nat /\ ran <= tick_count[current]
      BY <1>a, <2>1 DEF TypeOK, QueueInv
    <3>3. TypeOK'
      <4>1. tick_count' \in [Procs -> 0 .. TIME_SLICE_LEN]
        BY <1>a, <2>2, <3>1 DEF TypeOK
      <4>2. ran' \in 0 .. TIME_SLICE_LEN
        BY <2>2, <3>1, <3>2
      <4> QED BY <1>a, <2>1, <3>1, <4>1, <4>2, Zenon DEF TypeOK
    <3>4. ran' <= tick_count'[current']
      BY <1>a, <2>2, <3>1, <3>2 DEF TypeOK
    <3>5. QueueInv'
      BY <1>a, <2>1, <3>1, <3>4, Zenon DEF QueueInv
    <3> QED BY <3>3, <3>5, Zenon DEF SchedInv
  <2> QED BY <2>1, <2>3, <2>4, Zenon
<1>4. CASE sys_user_print
  <2>1. a0' \in [Procs -> Int] /\ sysno' \in [Procs -> Sysno]
    <3>1. /\ a0' = [a0 EXCEPT ![current] = 0]
          /\ sysno' = [sysno EXCEPT ![current] = SYS_user_print]
      BY <1>4, Zenon DEF sys_user_print, Ecall
    <3>2. a0' \in [Procs -> Int]
      <4>1. a0 \in [Procs -> Int] /\ 0 \in Int /\ -1 \in Int
        BY <1>a DEF TypeOK
      <4> QED BY <3>1, <4>1, ExceptType, Zenon
    <3>3. sysno' \in [Procs -> Sysno]
      BY <1>a, <3>1, SysnoTypes, Zenon DEF TypeOK
    <3> QED BY <3>2, <3>3, Zenon
  <2> QED BY <1>4, <1>d, <2>1, Zenon DEF sys_user_print, Ecall
<1>5. CASE sys_user_exit
  <2> DEFINE st == [status EXCEPT ![current] = ZOMBIE]
  <2>1. /\ machine = "user" /\ schedule(queue, st)
        /\ UNCHANGED <<parent, tick_count, ssip>>
        /\ a0' \in [Procs -> Int] /\ sysno' \in [Procs -> Sysno]
    BY <1>5, <1>a, SysnoTypes, EcallTypes, Zenon DEF sys_user_exit, Ecall
  <2>2. /\ queue \in Seq(Procs) /\ NoDup(queue) /\ current \in Procs \ Elems(queue)
        /\ ReadySet(status) = Elems(queue) \cup {current}
        /\ status \in [Procs -> Used]
    BY <1>a, <2>1, Zenon DEF TypeOK, QueueInv
  <2>3. st \in [Procs -> Used] /\ ReadySet(st) = Elems(queue)
    BY <2>2, Zenon DEF ReadySet, Used, ZOMBIE, READY
  <2> HIDE DEF st
  <2>4. /\ status' = st
        /\ \/ /\ machine' = "shutdown" /\ AllDone(st)
              /\ queue' = queue /\ UNCHANGED <<current, ran>>
           \/ /\ machine' = "user"
              /\ queue' \in Seq(Procs) /\ NoDup(queue')
              /\ current' \in Procs \ Elems(queue')
              /\ Elems(queue) = Elems(queue') \cup {current'}
              /\ ran' = 0
    BY <2>1, <2>2, <2>3, ScheduleDispatches, Zenon
  <2>5. TypeOK'
    BY <1>a, <2>1, <2>3, <2>4 DEF TypeOK, Machine, Stopped, Used, Status
  <2>6. machine' = "user" => ran' <= tick_count'[current']
    BY <2>4, <2>5 DEF TypeOK
  <2>7. QueueInv'
    BY <2>3, <2>4, <2>6, Zenon DEF QueueInv, AllDone
  <2> QED BY <2>5, <2>7, Zenon DEF SchedInv
<1>6. CASE sys_user_yield
  <2>1. a0' \in [Procs -> Int] /\ sysno' \in [Procs -> Sysno]
    BY <1>6, <1>a, SysnoTypes, EcallTypes, Zenon DEF sys_user_yield
  <2>2. tick_count' \in [Procs -> 0 .. TIME_SLICE_LEN]
    BY <1>6, <1>a, Zenon DEF sys_user_yield, TypeOK
  <2> QED BY <1>6, <1>c, <2>1, <2>2, Zenon DEF sys_user_yield, Ecall
<1>7. CASE sys_user_fork
  <2>1. PICK c \in Procs :
          /\ status[c] = FREE
          /\ a0' = [a0 EXCEPT ![current] = c, ![c] = 0]
          /\ status' = [status EXCEPT ![c] = READY]
          /\ parent' = [parent EXCEPT ![c] = current]
          /\ sysno' = [sysno EXCEPT ![current] = SYS_user_fork, ![c] = SYS_user_fork]
          /\ queue' = insert_to_ready_queue(c, queue)
    BY <1>7, Zenon DEF sys_user_fork, IsFirstFree, ForkResults
  <2>2. machine = "user" /\ UNCHANGED <<tick_count, current, ssip, machine, ran>>
    BY <1>7, Zenon DEF sys_user_fork
  <2>3. /\ queue \in Seq(Procs) /\ NoDup(queue) /\ current \in Procs \ Elems(queue)
        /\ ReadySet(status) = Elems(queue) \cup {current}
        /\ status \in [Procs -> Used]
    BY <1>a, <2>2, Zenon DEF TypeOK, QueueInv
  <2>4. c \notin Elems(queue) /\ c # current
    BY <2>1, <2>3, Zenon DEF ReadySet, FREE, READY
  <2>5. ~InList(c, queue)
    BY <2>4, Zenon DEF InList, Elems
  <2>6. queue' = Append(queue, c)
    BY <2>1, <2>5, Zenon DEF insert_to_ready_queue
  <2>7. /\ queue' \in Seq(Procs) /\ NoDup(queue')
        /\ Elems(queue') = Elems(queue) \cup {c}
    BY <2>3, <2>4, <2>6, AppendFresh, Zenon
  <2>8. status' \in [Procs -> Used] /\ ReadySet(status') = ReadySet(status) \cup {c}
    BY <2>1, <2>3, Zenon DEF ReadySet, Used
  <2>9. TypeOK'
    <3>1. a0' \in [Procs -> Int] /\ sysno' \in [Procs -> Sysno]
      <4>1. c \in Int /\ a0 \in [Procs -> Int]
        BY <1>a, <1>b DEF TypeOK
      <4>2. SYS_user_fork \in Sysno /\ sysno \in [Procs -> Sysno]
        BY <1>a DEF TypeOK, Sysno
      <4> QED BY <2>1, <4>1, <4>2
    <3>2. parent' \in [Procs -> Procs \cup {NULL}]
      BY <1>a, <2>1, <2>3, Zenon DEF TypeOK
    <3> QED BY <1>a, <2>2, <2>7, <2>8, <3>1, <3>2, Zenon DEF TypeOK, Used, Status
  <2>10. QueueInv'
    BY <1>a, <2>2, <2>3, <2>4, <2>7, <2>8, Zenon DEF QueueInv
  <2> QED BY <2>9, <2>10, Zenon DEF SchedInv
<1>8. CASE fork_panics
  <2>1. /\ machine' = "no_free_process"
        /\ UNCHANGED <<status, parent, tick_count, current, queue, ssip, ran>>
        /\ a0' \in [Procs -> Int] /\ sysno' \in [Procs -> Sysno]
    BY <1>8, <1>a, SysnoTypes, EcallTypes, Zenon DEF fork_panics
  <2> QED BY <1>a, <2>1, Zenon DEF SchedInv, TypeOK, QueueInv, Machine, Stopped
<1>9. CASE wait_no_child
  <2>1. a0' \in [Procs -> Int] /\ sysno' \in [Procs -> Sysno]
    <3>1. /\ a0' = [a0 EXCEPT ![current] = -1]
          /\ sysno' = [sysno EXCEPT ![current] = SYS_user_wait]
      BY <1>9, Zenon DEF wait_no_child, Ecall
    <3>2. a0' \in [Procs -> Int]
      <4>1. a0 \in [Procs -> Int] /\ 0 \in Int /\ -1 \in Int
        BY <1>a DEF TypeOK
      <4> QED BY <3>1, <4>1, ExceptType, Zenon
    <3>3. sysno' \in [Procs -> Sysno]
      BY <1>a, <3>1, SysnoTypes, Zenon DEF TypeOK
    <3> QED BY <3>2, <3>3, Zenon
  <2> QED BY <1>9, <1>d, <2>1, Zenon DEF wait_no_child, Ecall
<1>10. CASE wait_for_child
  <2>1. a0' \in [Procs -> Int] /\ sysno' \in [Procs -> Sysno]
    BY <1>10, <1>a, SysnoTypes, EcallTypes, Zenon DEF wait_for_child
  <2>2. tick_count' \in [Procs -> 0 .. TIME_SLICE_LEN]
    BY <1>10, <1>a, Zenon DEF wait_for_child, TypeOK
  <2> QED BY <1>10, <1>c, <2>1, <2>2, Zenon DEF wait_for_child, Ecall
<1>11. CASE shutdown \/ UNCHANGED vars
  <2>1. UNCHANGED vars
    BY <1>11, Zenon DEF shutdown
  <2> QED BY <1>a, <2>1, Zenon DEF SchedInv, TypeOK, QueueInv, AllDone, vars
<1> QED BY <1>1, <1>2, <1>3, <1>4, <1>5, <1>6, <1>7, <1>8, <1>9, <1>10, <1>11, Zenon
        DEF Next

\* The inductive invariant of the ready queue and of all types.
THEOREM SchedInvariant == Spec => []SchedInv
BY SchedInvInit, SchedInvNext, PTL DEF Spec

-----------------------------------------------------------------------------
(* The process pool and the family tree. *)

\* Slots are used from the bottom up and never given back, so a process is
\* always younger, and has a larger pid, than its parent.
FamilyInv ==
    /\ \A p \in Procs : status[p] = FREE => parent[p] = NULL /\ sysno[p] = NULL
    /\ \A p, r \in Procs : r < p /\ status[p] # FREE => status[r] # FREE
    /\ \A c \in Procs :
          parent[c] # NULL => parent[c] < c /\ status[parent[c]] # FREE
    /\ \A p \in Procs : status[p] = ZOMBIE => sysno[p] = SYS_user_exit
    /\ ForkTellsParentFromChild

\* An empty pool is a family.
LEMMA FamilyInvInit == Init => FamilyInv
BY Zenon DEF Init, FamilyInv, FREE, ZOMBIE, ForkTellsParentFromChild

\* The process that runs is a READY one.
LEMMA CurrentIsReady ==
    ASSUME SchedInv, machine = "user"
    PROVE  current \in Procs /\ status[current] = READY
BY Zenon DEF SchedInv, QueueInv, ReadySet

\* Requeue changes neither the state of a process nor stops the machine.
LEMMA RequeueStatus ==
    ASSUME SchedInv, machine = "user", Requeue
    PROVE  status' = status /\ machine' = "user"
BY RequeueKeepsAll, Zenon

\* Every handler keeps the family invariant: one case per action.
LEMMA FamilyInvNext == SchedInv /\ FamilyInv /\ [Next]_vars => FamilyInv'
<1> SUFFICES ASSUME SchedInv, FamilyInv, [Next]_vars PROVE FamilyInv'
  BY Zenon
<1>t. TypeOK
  BY Zenon DEF SchedInv
<1>u. \A p \in Procs : p \in Int /\ p >= 0 /\ p # NULL
  BY NprocAssumption DEF Procs, NULL
<1>a. ASSUME status' = status, UNCHANGED <<parent, a0, sysno>>,
             machine' = "user" => machine = "user"
      PROVE  FamilyInv'
  BY <1>a, Zenon DEF FamilyInv, ForkTellsParentFromChild
<1>b. ASSUME NEW n \in Sysno \ {SYS_user_fork}, NEW r, Ecall(n, r),
             status' = status, UNCHANGED parent
      PROVE  FamilyInv'
  <2>1. current \in Procs /\ status[current] = READY /\ machine = "user"
    BY <1>b, CurrentIsReady, Zenon DEF Ecall
  <2>2. \A p \in Procs \ {current} : a0'[p] = a0[p] /\ sysno'[p] = sysno[p]
    BY <1>b, <1>t, Zenon DEF Ecall, TypeOK
  <2>3. sysno'[current] = n
    BY <1>b, <1>t, <2>1, Zenon DEF Ecall, TypeOK
  <2>4. ForkTellsParentFromChild'
    BY <1>b, <2>1, <2>2, <2>3 DEF FamilyInv, ForkTellsParentFromChild
  <2> QED BY <1>b, <2>1, <2>2, <2>3, <2>4, Zenon DEF FamilyInv, READY, ZOMBIE, FREE
<1>1. CASE s_start
  <2>1. PICK p \in Procs :
          /\ IsFirstFree(p)
          /\ status' = [status EXCEPT ![p] = READY]
    BY <1>1, Zenon DEF s_start, schedule
  <2>2. /\ status = [r \in Procs |-> FREE]
        /\ UNCHANGED <<parent, a0, sysno>>
    BY <1>1, Zenon DEF s_start, SchedInv, QueueInv
  <2>3. \A r \in Procs : ~(r < p)
    BY <2>1, <2>2, Zenon DEF IsFirstFree
  <2>4. /\ status'[p] = READY
        /\ \A r \in Procs \ {p} : status'[r] = FREE
        /\ \A r \in Procs : parent'[r] = NULL /\ sysno'[r] = NULL
    BY <2>1, <2>2, Zenon DEF FamilyInv
  <2>5. ForkTellsParentFromChild'
    BY <2>4 DEF ForkTellsParentFromChild, NULL, SYS_user_fork
  <2> QED BY <1>u, <2>3, <2>4, <2>5, Zenon DEF FamilyInv, READY, ZOMBIE, FREE
<1>2. CASE handle_timer
  BY <1>2, <1>a, Zenon DEF handle_timer
<1>3. CASE rrsched
  <2>1. status' = status /\ machine = "user"
    BY <1>3, RequeueStatus, Zenon DEF rrsched, SliceEnds, SliceGoesOn
  <2> QED BY <1>3, <1>a, <2>1, Zenon DEF rrsched
<1>4. CASE sys_user_print
  <2>1. SYS_user_print \in Sysno \ {SYS_user_fork}
    BY SysnoTypes DEF SYS_user_print, SYS_user_fork
  <2>2. PICK r : Ecall(SYS_user_print, r)
    BY <1>4, Zenon DEF sys_user_print
  <2> QED BY <1>4, <1>b, <2>1, <2>2, Zenon DEF sys_user_print
<1>5. CASE sys_user_exit
  <2>1. /\ machine = "user" /\ current \in Procs /\ status[current] = READY
        /\ status' = [status EXCEPT ![current] = ZOMBIE]
        /\ sysno' = [sysno EXCEPT ![current] = SYS_user_exit]
        /\ a0' = [a0 EXCEPT ![current] = SYS_user_exit]
        /\ parent' = parent
    BY <1>5, CurrentIsReady, Zenon DEF sys_user_exit, Ecall, schedule
  <2>2. /\ status'[current] = ZOMBIE /\ sysno'[current] = SYS_user_exit
        /\ \A p \in Procs \ {current} :
              status'[p] = status[p] /\ sysno'[p] = sysno[p] /\ a0'[p] = a0[p]
    BY <1>t, <2>1, Zenon DEF TypeOK
  <2>3. ForkTellsParentFromChild'
    <3>1. SYS_user_exit # SYS_user_fork
      BY DEF SYS_user_exit, SYS_user_fork
    <3> QED BY <2>1, <2>2, <3>1 DEF FamilyInv, ForkTellsParentFromChild
  <2>4. \A p \in Procs : status'[p] = FREE <=> status[p] = FREE
    BY <2>1, <2>2, Zenon DEF READY, ZOMBIE, FREE
  <2>5. \A c \in Procs : parent[c] # NULL => parent[c] \in Procs
    BY <1>t, Zenon DEF TypeOK
  <2> QED BY <2>1, <2>2, <2>3, <2>4, <2>5 DEF FamilyInv
<1>6. CASE sys_user_yield
  <2>1. SYS_user_yield \in Sysno \ {SYS_user_fork}
    BY SysnoTypes DEF SYS_user_yield, SYS_user_fork
  <2>2. status' = status
    BY <1>6, RequeueStatus, Zenon DEF sys_user_yield, Ecall
  <2> QED BY <1>6, <1>b, <2>1, <2>2, Zenon DEF sys_user_yield
<1>7. CASE sys_user_fork
  <2>1. PICK c \in Procs :
          /\ IsFirstFree(c)
          /\ a0' = [a0 EXCEPT ![current] = c, ![c] = 0]
          /\ status' = [status EXCEPT ![c] = READY]
          /\ parent' = [parent EXCEPT ![c] = current]
          /\ sysno' = [sysno EXCEPT ![current] = SYS_user_fork, ![c] = SYS_user_fork]
    BY <1>7, Zenon DEF sys_user_fork, ForkResults
  <2>2. /\ machine = "user" /\ current \in Procs /\ status[current] = READY
        /\ status[c] = FREE /\ \A r \in Procs : r < c => status[r] # FREE
    BY <1>7, <2>1, CurrentIsReady, Zenon DEF sys_user_fork, IsFirstFree
  <2>3. current # c
    BY <2>2, Zenon DEF READY, FREE
  <2>4. current < c
    BY <1>u, <2>2, <2>3 DEF FamilyInv, READY, FREE
  <2>5. /\ status'[c] = READY /\ parent'[c] = current /\ a0'[c] = 0
        /\ a0'[current] = c /\ sysno'[c] = SYS_user_fork
        /\ sysno'[current] = SYS_user_fork
        /\ \A p \in Procs \ {c} : status'[p] = status[p] /\ parent'[p] = parent[p]
        /\ \A p \in Procs \ {c, current} : a0'[p] = a0[p] /\ sysno'[p] = sysno[p]
    BY <1>t, <2>1, <2>2, <2>3, Zenon DEF TypeOK
  <2>6. c # 0
    BY <1>u, <2>2, <2>4
  <2>7. \A p \in Procs : parent[p] # c
    BY <1>u, <2>2, Zenon DEF FamilyInv
  <2>8. ForkTellsParentFromChild'
    <3> SUFFICES ASSUME NEW p \in Procs, sysno'[p] = SYS_user_fork
                 PROVE  IF a0'[p] = 0 THEN parent'[p] # NULL
                        ELSE a0'[p] \in Procs /\ parent'[a0'[p]] = p
      BY Zenon DEF ForkTellsParentFromChild
    <3>1. CASE p = c
      BY <1>u, <2>2, <2>5, <3>1, Zenon
    <3>2. CASE p = current
      BY <2>1, <2>5, <2>6, <3>2, Zenon
    <3>3. CASE p # c /\ p # current
      <4>1. a0'[p] = a0[p] /\ sysno[p] = SYS_user_fork /\ parent'[p] = parent[p]
        BY <2>5, <3>3, Zenon
      <4>2. IF a0[p] = 0 THEN parent[p] # NULL
            ELSE a0[p] \in Procs /\ parent[a0[p]] = p
        BY <2>2, <4>1, Zenon DEF FamilyInv, ForkTellsParentFromChild
      <4>3. CASE a0[p] = 0
        BY <4>1, <4>2, <4>3, Zenon
      <4>4. CASE a0[p] # 0
        <5>1. a0[p] \in Procs /\ parent[a0[p]] = p
          BY <4>2, <4>4, Zenon
        <5>2. a0[p] # c
          BY <1>u, <2>2, <5>1, Zenon DEF FamilyInv
        <5> QED BY <2>5, <4>1, <4>4, <5>1, <5>2, Zenon
      <4> QED BY <4>3, <4>4, Zenon
    <3> QED BY <3>1, <3>2, <3>3, Zenon
  <2>9. \A p \in Procs : status'[p] = FREE => parent'[p] = NULL /\ sysno'[p] = NULL
    BY <2>2, <2>5 DEF FamilyInv, READY, FREE
  <2>10. \A p, r \in Procs : r < p /\ status'[p] # FREE => status'[r] # FREE
    BY <2>2, <2>5 DEF FamilyInv, READY, FREE
  <2>11. \A p \in Procs :
           parent'[p] # NULL => parent'[p] < p /\ status'[parent'[p]] # FREE
    <3>1. ASSUME NEW p \in Procs, p # c, parent'[p] # NULL
          PROVE  parent'[p] < p /\ status'[parent'[p]] # FREE
      <4>1. parent'[p] = parent[p] /\ parent[p] \in Procs \ {c}
        BY <1>t, <2>5, <2>7, <3>1 DEF TypeOK
      <4> QED BY <2>5, <3>1, <4>1 DEF FamilyInv
    <3> QED BY <2>2, <2>3, <2>4, <2>5, <3>1 DEF READY, FREE
  <2>12. \A p \in Procs : status'[p] = ZOMBIE => sysno'[p] = SYS_user_exit
    BY <2>2, <2>5 DEF FamilyInv, READY, ZOMBIE
  <2> QED BY <2>8, <2>9, <2>10, <2>11, <2>12, Zenon DEF FamilyInv
<1>8. CASE fork_panics
  <2>1. /\ machine = "user" /\ machine' # "user" /\ UNCHANGED <<status, parent>>
        /\ sysno' = [sysno EXCEPT ![current] = SYS_user_fork]
    BY <1>8, Zenon DEF fork_panics, Ecall
  <2>2. current \in Procs /\ status[current] = READY
    BY <2>1, CurrentIsReady, Zenon
  <2>3. \A p \in Procs \ {current} : sysno'[p] = sysno[p]
    BY <1>t, <2>1, Zenon DEF TypeOK
  <2>4. ForkTellsParentFromChild'
    BY <2>1, Zenon DEF ForkTellsParentFromChild
  <2> QED BY <2>1, <2>2, <2>3, <2>4, Zenon DEF FamilyInv, READY, ZOMBIE, FREE
<1>9. CASE wait_no_child
  <2>1. SYS_user_wait \in Sysno \ {SYS_user_fork}
    BY SysnoTypes DEF SYS_user_wait, SYS_user_fork
  <2>2. PICK r : Ecall(SYS_user_wait, r)
    BY <1>9, Zenon DEF wait_no_child
  <2> QED BY <1>9, <1>b, <2>1, <2>2, Zenon DEF wait_no_child
<1>10. CASE wait_for_child
  <2>1. SYS_user_wait \in Sysno \ {SYS_user_fork}
    BY SysnoTypes DEF SYS_user_wait, SYS_user_fork
  <2>2. status' = status
    BY <1>10, RequeueStatus, Zenon DEF wait_for_child, Ecall
  <2> QED BY <1>10, <1>b, <2>1, <2>2, Zenon DEF wait_for_child
<1>11. CASE shutdown \/ UNCHANGED vars
  BY <1>11, <1>a, Zenon DEF shutdown, vars
<1> QED BY <1>1, <1>2, <1>3, <1>4, <1>5, <1>6, <1>7, <1>8, <1>9, <1>10, <1>11, Zenon
        DEF Next

\* The inductive invariant of the process pool and of the parent links.
THEOREM FamilyInvariant == Spec => []FamilyInv
BY SchedInvariant, FamilyInvInit, FamilyInvNext, PTL DEF Spec

-----------------------------------------------------------------------------
(* What a step may do to a process that it does not belong to. *)

\* Every step: a process that exited is left alone, and a saved context
\* changes only for the current process or for a child being created.
LEMMA StepIsLocal ==
    ASSUME SchedInv, [Next]_vars, NEW p \in Procs
    PROVE  /\ status[p] = ZOMBIE => /\ status'[p] = ZOMBIE
                                   /\ a0'[p] = a0[p]
                                   /\ parent'[p] = parent[p]
           /\ a0'[p] # a0[p] => p = current \/ status[p] = FREE
<1>t. TypeOK
  BY Zenon DEF SchedInv
<1>a. ASSUME machine = "user"
      PROVE  current \in Procs /\ status[current] # ZOMBIE
  BY <1>a, CurrentIsReady, Zenon DEF READY, ZOMBIE
<1>b. ASSUME NEW n, NEW r, Ecall(n, r), status' = status, UNCHANGED parent
      PROVE  /\ status[p] = ZOMBIE => /\ status'[p] = ZOMBIE
                                     /\ a0'[p] = a0[p]
                                     /\ parent'[p] = parent[p]
             /\ a0'[p] # a0[p] => p = current \/ status[p] = FREE
  BY <1>a, <1>b, <1>t, Zenon DEF Ecall, TypeOK
<1>1. CASE s_start
  BY <1>1, <1>t, Zenon DEF s_start, schedule, IsFirstFree, TypeOK, FREE, ZOMBIE
<1>2. CASE handle_timer
  BY <1>2, Zenon DEF handle_timer
<1>3. CASE rrsched
  <2>1. status' = status
    BY <1>3, RequeueStatus, Zenon DEF rrsched, SliceEnds, SliceGoesOn
  <2> QED BY <1>3, <2>1, Zenon DEF rrsched
<1>4. CASE sys_user_print
  <2>1. PICK r : Ecall(SYS_user_print, r)
    BY <1>4, Zenon DEF sys_user_print
  <2> QED BY <1>4, <1>b, <2>1, Zenon DEF sys_user_print
<1>5. CASE sys_user_exit
  BY <1>5, <1>a, <1>t, Zenon DEF sys_user_exit, Ecall, schedule, TypeOK
<1>6. CASE sys_user_yield
  <2>1. status' = status
    BY <1>6, RequeueStatus, Zenon DEF sys_user_yield, Ecall
  <2> QED BY <1>6, <1>b, <2>1, Zenon DEF sys_user_yield
<1>7. CASE sys_user_fork
  <2>1. PICK c \in Procs :
          /\ status[c] = FREE
          /\ a0' = [a0 EXCEPT ![current] = c, ![c] = 0]
          /\ status' = [status EXCEPT ![c] = READY]
          /\ parent' = [parent EXCEPT ![c] = current]
    BY <1>7, Zenon DEF sys_user_fork, ForkResults, IsFirstFree
  <2>2. status[current] # ZOMBIE
    BY <1>7, <1>a, Zenon DEF sys_user_fork
  <2> QED BY <1>t, <2>1, <2>2, Zenon DEF TypeOK, FREE, ZOMBIE
<1>8. CASE fork_panics
  BY <1>8, <1>b, Zenon DEF fork_panics
<1>9. CASE wait_no_child
  <2>1. PICK r : Ecall(SYS_user_wait, r)
    BY <1>9, Zenon DEF wait_no_child
  <2> QED BY <1>9, <1>b, <2>1, Zenon DEF wait_no_child
<1>10. CASE wait_for_child
  <2>1. status' = status
    BY <1>10, RequeueStatus, Zenon DEF wait_for_child, Ecall
  <2> QED BY <1>10, <1>b, <2>1, Zenon DEF wait_for_child
<1>11. CASE shutdown \/ UNCHANGED vars
  BY <1>11, Zenon DEF shutdown, vars
<1> QED BY <1>1, <1>2, <1>3, <1>4, <1>5, <1>6, <1>7, <1>8, <1>9, <1>10, <1>11, Zenon
        DEF Next

-----------------------------------------------------------------------------
(* The theorems. *)

\* Every variable keeps its type; in particular rrsched() never leaves a tick
\* count above TIME_SLICE_LEN.
THEOREM TypeCorrect == Spec => []TypeOK
<1>1. SchedInv => TypeOK
  BY Zenon DEF SchedInv
<1> QED BY <1>1, SchedInvariant, PTL

\* insert_to_ready_queue() and schedule() never lose, duplicate or revive a
\* process, however many processes there are.
THEOREM ReadyAccountedAlways == Spec => []ReadyAccounted
<1>1. SchedInv => ReadyAccounted
  BY Zenon DEF SchedInv, QueueInv, ReadyAccounted, ReadySet, Elems, NoDup, Queued
<1> QED BY <1>1, SchedInvariant, PTL

\* The panic and the assertion in schedule() are dead code.
THEOREM SchedulerIsSafe == Spec => []SchedulerNeverPanics
<1>1. SchedInv => SchedulerNeverPanics
  BY Zenon DEF SchedInv, QueueInv, SchedulerNeverPanics
<1> QED BY <1>1, SchedInvariant, PTL

\* No process keeps the hart for more than TIME_SLICE_LEN ticks without a
\* pass through schedule().
THEOREM SliceIsBounded == Spec => []SliceBounded
<1>1. SchedInv => SliceBounded
  BY Zenon DEF SchedInv, QueueInv, SliceBounded
<1> QED BY <1>1, SchedInvariant, PTL

\* The machine shuts down only when every process has exited by itself.
THEOREM ShutdownIsClean == Spec => []ShutdownAfterExits
<1>1. SchedInv /\ FamilyInv => ShutdownAfterExits
  BY Zenon DEF SchedInv, QueueInv, FamilyInv, AllDone, ShutdownAfterExits
<1> QED BY <1>1, SchedInvariant, FamilyInvariant, PTL

\* The result of fork() tells the parent from the child at any later time.
THEOREM ForkResultIsSound == Spec => []ForkTellsParentFromChild
<1>1. FamilyInv => ForkTellsParentFromChild
  BY Zenon DEF FamilyInv
<1> QED BY <1>1, FamilyInvariant, PTL

\* The parent links form a tree of existing processes.
THEOREM FamilyIsTree == Spec => []FamilyTree
<1>1. FamilyInv => FamilyTree
  BY Zenon DEF FamilyInv, FamilyTree
<1> QED BY <1>1, FamilyInvariant, PTL

\* A slot whose process exited is never touched again.
THEOREM ZombieStaysFinal == Spec => ZombieIsFinal
<1>1. SchedInv /\ [Next]_vars =>
        [\A p \in Procs :
            status[p] = ZOMBIE => /\ status'[p] = ZOMBIE
                                  /\ a0'[p] = a0[p]
                                  /\ parent'[p] = parent[p]]_vars
  BY StepIsLocal, Zenon
<1> QED BY <1>1, SchedInvariant, PTL DEF Spec, ZombieIsFinal

\* The saved context of a process is written by its own traps and at its
\* creation only.
THEOREM ContextStaysPrivate == Spec => ContextIsPrivate
<1>1. SchedInv /\ [Next]_vars =>
        [\A p \in Procs :
            a0'[p] # a0[p] => p = current \/ status[p] = FREE]_vars
  BY StepIsLocal, Zenon
<1> QED BY <1>1, SchedInvariant, PTL DEF Spec, ContextIsPrivate


-----------------------------------------------------------------------------
(* The application app_wait.c. *)

\* A step of the application, or of the kernel below it, is a step of the kernel.
LEMMA AppStep == [AppNext]_<<vars, appvars>> => [Next]_vars
BY Zenon DEF AppNext, main, Kernel, Fork, IfChild, Wait, Printu, Exit, Next, vars, appvars

\* What a READY process at a line of main() knows of its place in the family.  Between fork()
\* and the test of its result (lines 15 and 18) the place is in a0.
Placed(p) ==
    /\ parent[p] = NULL => p = 0
    /\ pc[p] = 14 => parent[p] = NULL
    /\ pc[p] = 15 => parent[p] = IF a0[p] = 0 THEN 0 ELSE NULL
    /\ pc[p] = 18 => IF a0[p] = 0 THEN parent[p] # NULL /\ parent[parent[p]] = 0 ELSE parent[p] = 0
    /\ pc[p] \in {26, 27} => parent[p] = NULL
    /\ pc[p] \in {17, 22, 23} => parent[p] = 0
    /\ pc[p] = 20 => parent[p] # NULL /\ parent[parent[p]] = 0

\* The inductive invariant of app_wait.c on the kernel.
BranchInv ==
    /\ pc \in [Procs -> Nat]
    /\ \A p \in Procs : status[p] = FREE => pc[p] = 14
    /\ \A p \in Procs : status[p] = READY => Placed(p)

\* A line of main() that forks: the parent goes on with the pid, the child with 0.
LEMMA ForkPlaces ==
    ASSUME SchedInv, FamilyInv, BranchInv, sys_user_fork,
           NEW line, NEW next, At(line), <<line, next>> \in {<<14, 15>>, <<17, 18>>},
           pc' = [pc EXCEPT ![current] = next, ![a0'[current]] = next]
    PROVE  BranchInv'
<1>u. Procs \subseteq Nat /\ NULL \notin Nat /\ 0 \in Procs
  BY NprocAssumption DEF Procs, NULL
<1>t. TypeOK /\ current \in Procs /\ status[current] = READY
  BY CurrentIsReady, Zenon DEF SchedInv, At
<1>m. PICK m \in Procs : m = current
  BY <1>t, Zenon
<1>1. PICK c \in Procs :
        /\ IsFirstFree(c)
        /\ a0' = [a0 EXCEPT ![m] = c, ![c] = 0]
        /\ status' = [status EXCEPT ![c] = READY]
        /\ parent' = [parent EXCEPT ![c] = m]
  BY <1>m, Zenon DEF sys_user_fork, ForkResults
<1>2. status[c] = FREE /\ c # m /\ c # 0
  <2>1. status[c] = FREE /\ c # m
    BY <1>m, <1>t, <1>1, Zenon DEF IsFirstFree, FREE, READY
  <2>2. status[0] # FREE
    BY <1>m, <1>t, <1>u DEF FamilyInv, FREE, READY
  <2> QED
    BY <2>1, <2>2, Zenon
<1>3. /\ a0'[m] = c /\ a0'[c] = 0
      /\ \A p \in Procs \ {c, m} : a0'[p] = a0[p]
      /\ status'[c] = READY /\ \A p \in Procs \ {c} : status'[p] = status[p]
      /\ parent'[c] = m /\ \A p \in Procs \ {c} : parent'[p] = parent[p]
  BY <1>m, <1>t, <1>1, <1>2, Zenon DEF TypeOK
<1>4. /\ pc' \in [Procs -> Nat]
      /\ pc'[m] = next /\ pc'[c] = next
      /\ \A p \in Procs \ {c, m} : pc'[p] = pc[p]
  BY <1>m, <1>t, <1>2, <1>3 DEF BranchInv
<1>5. pc[m] = line /\ Placed(m)
  BY <1>m, <1>t, Zenon DEF At, BranchInv
<1>6. ASSUME NEW p \in Procs, parent[p] # NULL
      PROVE  parent[p] \in Procs /\ parent[p] # c
  BY <1>m, <1>t, <1>2, <1>6 DEF FamilyInv, TypeOK
<1>7. Placed(m)'
  BY <1>2, <1>3, <1>4, <1>5, <1>t, <1>u DEF Placed
<1>8. Placed(c)'
  BY <1>2, <1>3, <1>4, <1>5, <1>t, <1>u DEF Placed
<1>9. ASSUME NEW p \in Procs \ {c, m}, status'[p] = READY
      PROVE  Placed(p)'
  <2>1. Placed(p)
    BY <1>3, <1>9 DEF BranchInv
  <2>2. parent'[p] = parent[p] /\ (parent[p] # NULL => parent'[parent[p]] = parent[parent[p]])
    BY <1>3, <1>6, Zenon
  <2> QED
    BY <1>3, <1>4, <2>1, <2>2 DEF Placed
<1>10. \A p \in Procs : status'[p] = FREE => pc'[p] = 14
  BY <1>m, <1>t, <1>2, <1>3, <1>4 DEF BranchInv, FREE, READY
<1>11. \A p \in Procs : status'[p] = READY => Placed(p)'
  BY <1>7, <1>8, <1>9, Zenon
<1> QED
  BY <1>4, <1>10, <1>11, Zenon DEF BranchInv

\* A step that only moves the running process on.
LEMMA LineMoves ==
    ASSUME SchedInv, BranchInv, machine = "user", status' = status, parent' = parent,
           NEW m, m = current, \A p \in Procs \ {m} : a0'[p] = a0[p],
           NEW next \in Nat, pc' = [pc EXCEPT ![m] = next], Placed(m)'
    PROVE  BranchInv'
<1>1. m \in Procs /\ status[m] = READY
  BY CurrentIsReady, Zenon
<1>2. pc' \in [Procs -> Nat] /\ \A p \in Procs \ {m} : pc'[p] = pc[p]
  BY <1>1, Zenon DEF BranchInv
<1>3. ASSUME NEW p \in Procs \ {m}, status[p] = READY
      PROVE  Placed(p)'
  BY <1>2, <1>3 DEF BranchInv, Placed
<1> QED
  BY <1>1, <1>2, <1>3, Zenon DEF BranchInv, FREE, READY

\* Every step keeps the places: one case per line of main().
LEMMA BranchStep == SchedInv /\ FamilyInv /\ BranchInv /\ [AppNext]_<<vars, appvars>> => BranchInv'
<1> SUFFICES ASSUME SchedInv, FamilyInv, BranchInv, [AppNext]_<<vars, appvars>> PROVE BranchInv'
  BY Zenon
<1>t. TypeOK
  BY Zenon DEF SchedInv
<1>a. ASSUME status' = status, parent' = parent, a0' = a0, pc' = pc
      PROVE  BranchInv'
  BY <1>a, Zenon DEF BranchInv, Placed
<1>b. ASSUME machine = "user"
      PROVE  current \in Procs /\ status[current] = READY /\ Placed(current)
  BY <1>b, CurrentIsReady, Zenon DEF BranchInv
<1>1. ASSUME NEW line, NEW next, <<line, next>> \in {<<14, 15>>, <<17, 18>>}, Fork(line, next)
      PROVE  BranchInv'
  <2>1. CASE sys_user_fork /\ pc' = [pc EXCEPT ![current] = next, ![a0'[current]] = next]
    BY <1>1, <2>1, ForkPlaces, Zenon DEF Fork
  <2>2. CASE fork_panics /\ UNCHANGED pc
    <3>1. machine = "user" /\ status' = status /\ parent' = parent
          /\ \A p \in Procs \ {current} : a0'[p] = a0[p]
      BY <1>t, <2>2, Zenon DEF fork_panics, Ecall, TypeOK
    <3>2. PICK m \in Procs : m = current
      BY <1>b, <3>1, Zenon
    <3>3. pc[m] = line /\ Placed(m)
      BY <1>1, <1>b, <3>1, <3>2, Zenon DEF Fork, At
    <3>4. Placed(m)'
      BY <1>1, <2>2, <3>1, <3>3 DEF Placed
    <3>5. ASSUME NEW p \in Procs \ {m}, status[p] = READY
          PROVE  Placed(p)'
      BY <2>2, <3>1, <3>2, <3>5 DEF BranchInv, Placed
    <3> QED
      BY <2>2, <3>1, <3>4, <3>5, Zenon DEF BranchInv
  <2> QED
    BY <1>1, <2>1, <2>2, Zenon DEF Fork
<1>2. ASSUME NEW line, NEW child, NEW other, IfChild(line, child, other),
             <<line, child, other>> \in {<<15, 17, 26>>, <<18, 20, 22>>}
      PROVE  BranchInv'
  <2>1. machine = "user" /\ status' = status /\ parent' = parent /\ a0' = a0 /\ current' = current
    BY <1>2, Zenon DEF IfChild, At, vars
  <2>2. PICK m \in Procs : m = current
    BY <1>b, <2>1, Zenon
  <2> DEFINE next == IF a0[m] = 0 THEN child ELSE other
  <2>3. pc' = [pc EXCEPT ![m] = next] /\ pc[m] = line
    BY <1>2, <2>2, Zenon DEF IfChild, Goto, At
  <2>4. next \in Nat
    BY <1>2
  <2>5. Placed(m)'
    BY <1>2, <1>b, <2>1, <2>2, <2>3 DEF Placed, BranchInv
  <2> HIDE DEF next
  <2> QED
    BY <2>1, <2>2, <2>3, <2>4, <2>5, LineMoves, ZenonT(60)
<1>3. ASSUME NEW line, NEW next, Wait(line, next), <<line, next>> \in {<<22, 23>>, <<26, 27>>}
      PROVE  BranchInv'
  <2>1. /\ machine = "user" /\ status' = status /\ parent' = parent
        /\ \A p \in Procs \ {current} : a0'[p] = a0[p]
    <3>1. CASE wait_no_child
      BY <1>t, <3>1, Zenon DEF wait_no_child, Ecall, TypeOK
    <3>2. CASE wait_for_child
      BY <1>t, <3>2, RequeueStatus, Zenon DEF wait_for_child, Ecall, TypeOK
    <3> QED
      BY <1>3, <3>1, <3>2, Zenon DEF Wait
  <2>2. PICK m \in Procs : m = current
    BY <1>b, <2>1, Zenon
  <2>3. pc' = [pc EXCEPT ![m] = next] /\ pc[m] = line
    BY <1>3, <2>2, Zenon DEF Wait, Goto, At
  <2>4. Placed(m)'
    BY <1>3, <1>b, <2>1, <2>2, <2>3 DEF Placed, BranchInv
  <2> QED
    BY <1>3, <2>1, <2>2, <2>3, <2>4, LineMoves, Zenon
<1>4. ASSUME NEW line, Printu(line, 29)
      PROVE  BranchInv'
  <2>1. /\ machine = "user" /\ status' = status /\ parent' = parent
        /\ \A p \in Procs \ {current} : a0'[p] = a0[p]
    BY <1>4, <1>t, Zenon DEF Printu, sys_user_print, Ecall, TypeOK
  <2>2. PICK m \in Procs : m = current
    BY <1>b, <2>1, Zenon
  <2>3. pc' = [pc EXCEPT ![m] = 29]
    BY <1>4, <2>2, Zenon DEF Printu, Goto
  <2>4. Placed(m)'
    BY <1>b, <2>1, <2>2, <2>3 DEF Placed, BranchInv
  <2> QED
    BY <2>1, <2>2, <2>3, <2>4, LineMoves, Zenon
<1>5. CASE Exit(29)
  <2>1. /\ machine = "user" /\ status' = [status EXCEPT ![current] = ZOMBIE] /\ parent' = parent
        /\ \A p \in Procs \ {current} : a0'[p] = a0[p]
        /\ pc' = pc
    BY <1>5, <1>t, Zenon DEF Exit, sys_user_exit, schedule, Ecall, TypeOK, appvars
  <2>2. \A p \in Procs : (status'[p] = FREE => status[p] = FREE)
                       /\ (status'[p] = READY => p # current /\ status[p] = READY)
    BY <1>b, <1>t, <2>1, Zenon DEF TypeOK, FREE, READY, ZOMBIE
  <2> QED
    BY <2>1, <2>2 DEF BranchInv, Placed
<1>6. CASE Kernel
  <2>1. pc' = pc
    BY <1>6, Zenon DEF Kernel, appvars
  <2>2. CASE s_start
    <3>1. PICK f \in Procs : IsFirstFree(f) /\ status' = [status EXCEPT ![f] = READY]
      BY <2>2, Zenon DEF s_start, schedule
    <3>2. /\ status = [r \in Procs |-> FREE]
          /\ UNCHANGED <<parent, a0>>
      BY <2>2, Zenon DEF s_start, SchedInv, QueueInv
    <3>3. f = 0
      BY <3>1, <3>2, NprocAssumption DEF IsFirstFree, Procs
    <3>4. parent[0] = NULL /\ pc[0] = 14
      BY <3>1, <3>2, <3>3, Zenon DEF FamilyInv, BranchInv
    <3>5. Placed(0)'
      BY <2>1, <3>2, <3>4 DEF Placed
    <3> QED
      BY <2>1, <3>1, <3>2, <3>3, <3>5, Zenon DEF BranchInv, FREE, READY
  <2>3. CASE handle_timer
    BY <1>a, <2>1, <2>3, Zenon DEF handle_timer
  <2>4. CASE rrsched
    <3>1. status' = status
      BY <2>4, RequeueStatus, Zenon DEF rrsched, SliceEnds, SliceGoesOn
    <3> QED
      BY <1>a, <2>1, <2>4, <3>1, Zenon DEF rrsched
  <2>5. CASE shutdown
    BY <1>a, <2>1, <2>5, Zenon DEF shutdown, vars
  <2> QED
    BY <1>6, <2>2, <2>3, <2>4, <2>5, Zenon DEF Kernel
<1>7. CASE UNCHANGED <<vars, appvars>>
  BY <1>7, <1>a, Zenon DEF vars, appvars
<1> QED
  BY <1>1, <1>2, <1>3, <1>4, <1>5, <1>6, <1>7 DEF AppNext, main

\* For every size of procs[] and of the time slice, a process of app_wait.c takes the branch of
\* its place in the family, whatever the timer does between fork() and the test of its result.
THEOREM BranchesMatch == AppSpec => []BranchMatchesFamily
<1>1. AppInit => SchedInv /\ FamilyInv /\ BranchInv
  <2>1. AppInit => BranchInv
    BY DEF AppInit, Init, BranchInv, FREE, READY
  <2> QED
    BY <2>1, SchedInvInit, FamilyInvInit, Zenon DEF AppInit
<1>2. SchedInv /\ FamilyInv /\ BranchInv /\ [AppNext]_<<vars, appvars>>
        => (SchedInv /\ FamilyInv /\ BranchInv)'
  BY AppStep, SchedInvNext, FamilyInvNext, BranchStep, Zenon
<1>3. BranchInv => BranchMatchesFamily
  BY Zenon DEF BranchInv, Placed, BranchMatchesFamily
<1> QED
  BY <1>1, <1>2, <1>3, PTL DEF AppSpec
=============================================================================
