------------------------------- MODULE Memory -------------------------------
(***************************************************************************)
(* The memory of PKE: the free page list (kernel/pmm.c), the user page     *)
(* tables (kernel/vmm.c) and every handler that changes them: loading the  *)
(* application (elf.c), fork, exit, naive_malloc and naive_free            *)
(* (syscall.c), and the store page fault (strap.c).                        *)
(*                                                                         *)
(* Scheduling is left to module Process: here any live process may trap    *)
(* next, which includes every order the scheduler produces.  A handler is  *)
(* one step, as interrupts are off in S mode.                              *)
(*                                                                         *)
(* Physical pages are numbered by address, page n + 1 being the one above  *)
(* page n; 0 is a null pointer.  Virtual addresses are the pages a process *)
(* can have mapped.  The page table of a process has its root, one middle  *)
(* directory per gigabyte and one leaf table per 2 MB that it touches;     *)
(* those pages come from the same free list as the memory they map.        *)
(***************************************************************************)
EXTENDS Integers, Sequences, FiniteSets

CONSTANTS NPROC,           \* size of procs[]
          Machines,        \* [pages, mallocs]: how many pages are left once the
                           \* kernel is mapped, and, a bound, how often
                           \* naive_malloc is called in one behaviour
          PAGES, HEAP,     \* the largest such numbers
          CAREFUL          \* the application frees only what it holds

ASSUME MemoryAssumption ==
  /\ NPROC \in Nat \ {0}
  /\ PAGES \in Nat /\ HEAP \in Nat
  /\ \A m \in Machines : m.pages \in 0 .. PAGES /\ m.mallocs \in 0 .. HEAP
  /\ CAREFUL \in BOOLEAN

VARIABLES free,     \* g_free_mem_list, first page first
          tab,      \* tab[p][t]: the page of directory or leaf table t, or 0
          pt,       \* pt[p][va]: the PTE of va
          own,      \* own[p]: trapframe, root table, kernel stack, mapped_info
          regions,  \* seg_type of mapped_info[0 .. total_mapped_region - 1]
          status,   \* FREE, READY (any live process) or ZOMBIE
          issued,   \* pages g_ufree_page has moved up by
          held,     \* what the application got from naive_malloc and still has
          mallocs,  \* the bound on issued, fixed at the start
          machine

vars == <<free, tab, pt, own, regions, status, issued, held, mallocs, machine>>

Procs == 0 .. NPROC - 1
Pages == 1 .. PAGES
FREE == "FREE"
READY == "READY"
ZOMBIE == "ZOMBIE"

-----------------------------------------------------------------------------
(* Virtual pages.  BELOW is the page under the user stack, CTX the         *)
(* trapframe and TRAP the trap vector section, both mapped at their        *)
(* physical addresses.  Heap page n is USER_FREE_ADDRESS_START +           *)
(* (n - 1) * PGSIZE.  CODE and DATA start at a page boundary, so that      *)
(* map_pages maps one page in each call (Loader has the other case).       *)
CODE  == 1
DATA  == 2
BELOW == 3
STACK == 4
CTX   == 5
TRAP  == 6
HeapVa(n) == 6 + n
VAs == 1 .. 6 + HEAP
HeapVAs == {HeapVa(n) : n \in 1 .. HEAP}

(* trap_sec_start is in the kernel image, above or below no managed page.  *)
TrapSection == PAGES + 2

(* The two tables page_walk passes on its way to the PTE of va.            *)
Directory(va) ==
  CASE va \in {BELOW, STACK} -> "dir_stack"
    [] va \in {CTX, TRAP}    -> "dir_dram"
    [] OTHER                 -> "dir_low"
LeafTable(va) ==
  CASE va \in {BELOW, STACK}      -> "leaf_stack"
    [] va = CTX                   -> "leaf_ctx"
    [] va = TRAP                  -> "leaf_trap"
    [] va \in {CODE, DATA}        -> "leaf_elf"
    [] OTHER                      -> "leaf_heap"
Tables == {Directory(va) : va \in VAs} \cup {LeafTable(va) : va \in VAs}

(* A zeroed PTE.  w: the application may write through it (PTE_W, PTE_U).  *)
NoPte == [v |-> FALSE, pa |-> 0, w |-> FALSE]
PTEs == [v : BOOLEAN, pa : 0 .. PAGES + 2, w : BOOLEAN]

(* What the application finds at va when it stores there.                  *)
UserWritable(p, va) == pt[p][va].v /\ pt[p][va].w

-----------------------------------------------------------------------------
(* A handler works on a record m: the free list, the tables and PTEs of    *)
(* one process, and what became of the handler so far: "ok", "failed"      *)
(* (map_pages returned -1), or one of the ways it stops the machine.       *)
Space(p) == [free |-> free, tab |-> tab[p], pt |-> pt[p], fate |-> "ok"]

alloc_page(f) == IF f = <<>> THEN 0 ELSE Head(f)
free_page(f, pa) == <<pa>> \o f
AfterAlloc(f) == IF f = <<>> THEN f ELSE Tail(f)

page_walk_level(m, t) ==
  IF m.fate # "ok" \/ m.tab[t] # 0 THEN m
  ELSE IF m.free = <<>> THEN [m EXCEPT !.fate = "failed"]
  ELSE [m EXCEPT !.tab[t] = alloc_page(m.free), !.free = AfterAlloc(m.free)]

(* page_walk with alloc = 1.  A directory installed before the leaf table  *)
(* could not be allocated stays installed.                                 *)
page_walk(m, va) == page_walk_level(page_walk_level(m, Directory(va)), LeafTable(va))

map_pages(m, va, pa, w) ==
  LET walked == page_walk(m, va) IN
  IF walked.fate # "ok" THEN walked
  ELSE IF walked.pt[va].v THEN [walked EXCEPT !.fate = "map_panic"]
  ELSE [walked EXCEPT !.pt[va] = [v |-> TRUE, pa |-> pa, w |-> w]]

user_vm_map(m, va, pa, w) ==
  LET mapped == map_pages(m, va, pa, w) IN
  IF mapped.fate = "failed" THEN [mapped EXCEPT !.fate = "oom_panic"] ELSE mapped

lookup_pa(p, va) == IF pt[p][va].v THEN pt[p][va].pa ELSE 0

(* alloc_process takes five pages: trapframe, root table, kernel stack,    *)
(* user stack and mapped_info.  None of the five is checked for 0; the     *)
(* last is cleared with memset, so a shortage always ends in a store to    *)
(* address 0.  Then it maps the stack, the trapframe and the trap section. *)
alloc_process(f) ==
  LET empty == [free |-> SubSeq(f, 6, Len(f)), tab |-> [t \in Tables |-> 0],
                pt |-> [va \in VAs |-> NoPte], fate |-> "ok"]
      stack == user_vm_map(empty, STACK, f[4], TRUE)
      ctx   == user_vm_map(stack, CTX, f[1], FALSE)
  IN  IF Len(f) < 5
      THEN [empty EXCEPT !.free = <<>>, !.fate = "crash"]
      ELSE user_vm_map(ctx, TRAP, TrapSection, FALSE)

KernelPages(f) == IF Len(f) < 5 THEN <<>> ELSE <<f[1], f[2], f[3], f[5]>>

(* mapped_info as alloc_process leaves it.                                 *)
NewRegions == <<STACK, CTX, TRAP>>

Commit(p, m) ==
  /\ free' = m.free
  /\ tab' = [tab EXCEPT ![p] = m.tab]
  /\ pt' = [pt EXCEPT ![p] = m.pt]
  /\ machine' = IF m.fate \in {"ok", "failed"} THEN "run" ELSE m.fate

-----------------------------------------------------------------------------
(* create_freepage_list frees the pages upwards, so the list starts with   *)
(* the highest.  The kernel has mapped itself and holds no page of Pages.  *)
Init ==
  /\ \E m \in Machines : /\ free = [i \in 1 .. m.pages |-> m.pages + 1 - i]
                         /\ mallocs = m.mallocs
  /\ tab = [p \in Procs |-> [t \in Tables |-> 0]]
  /\ pt = [p \in Procs |-> [va \in VAs |-> NoPte]]
  /\ own = [p \in Procs |-> <<>>]
  /\ regions = [p \in Procs |-> <<>>]
  /\ status = [p \in Procs |-> FREE]
  /\ issued = 0
  /\ held = [p \in Procs |-> {}]
  /\ machine = "boot"

(* elf_alloc_mb: one page for a segment, writable whatever its type.       *)
elf_alloc_mb(m, seg) ==
  IF m.fate # "ok" THEN m
  ELSE IF m.free = <<>> THEN [m EXCEPT !.fate = "oom_panic"]
  ELSE user_vm_map([m EXCEPT !.free = AfterAlloc(m.free)], seg, alloc_page(m.free), TRUE)

(* load_user_program: alloc_process, then one page for each segment of an  *)
(* application with a code and a data segment, in the linker's order.      *)
load_user_program ==
  /\ machine = "boot"
  /\ Commit(0, elf_alloc_mb(elf_alloc_mb(alloc_process(free), CODE), DATA))
  /\ own' = [own EXCEPT ![0] = KernelPages(free)]
  /\ regions' = [regions EXCEPT ![0] = NewRegions \o <<CODE, DATA>>]
  /\ status' = [status EXCEPT ![0] = READY]
  /\ UNCHANGED <<issued, held, mallocs>>

Running(p) == machine = "run" /\ status[p] = READY

(* Mutants: the child gets the parent's data page; the code is copied.      *)
fork_shares_data(parent, m, seg) ==
  IF m.fate # "ok" \/ seg \notin {CODE, DATA} THEN m
  ELSE user_vm_map(m, seg, lookup_pa(parent, seg), seg = DATA)
fork_copies_code(parent, m, seg) ==
  IF m.fate # "ok" \/ seg \notin {CODE, DATA} \/ m.free = <<>> THEN m
  ELSE user_vm_map([m EXCEPT !.free = AfterAlloc(m.free)], seg, alloc_page(m.free), seg = DATA)

(* One round of do_fork's loop.  The stack and the trapframe are copied    *)
(* into pages alloc_process has mapped already.  A data page is allocated  *)
(* without a check, and memcpy then writes to it.                          *)
fork_region(parent, m, seg) ==
  IF m.fate # "ok" THEN m
  ELSE CASE seg = DATA ->
              IF m.free = <<>> THEN [m EXCEPT !.fate = "crash"]
              ELSE user_vm_map([m EXCEPT !.free = AfterAlloc(m.free)],
                               DATA, alloc_page(m.free), TRUE)
         [] seg = CODE -> user_vm_map(m, CODE, lookup_pa(parent, CODE), FALSE)
         [] OTHER -> m

(* Mutant: the child's code segment is not registered.                      *)
ForkRegisters_none(parent) == NewRegions

(* Only the code segment, the one there is, is registered in the child's   *)
(* mapped_info.  (The data segment's va is written to a slot that          *)
(* total_mapped_region does not count, and nothing reads it.)              *)
ForkRegisters(parent) ==
  NewRegions \o (IF \E i \in DOMAIN regions[parent] : regions[parent][i] = CODE
                 THEN <<CODE>> ELSE <<>>)

(* The loop over the parent's regions: what round i leaves.                *)
Copied(parent) ==
  LET round[i \in 0 .. Len(regions[parent])] ==
        IF i = 0 THEN alloc_process(free)
        ELSE fork_region(parent, round[i - 1], regions[parent][i])
  IN  round[Len(regions[parent])]

do_fork(parent, child) ==
  /\ Running(parent)
  /\ status[child] = FREE
  /\ \A i \in Procs : i < child => status[i] # FREE
  /\ Commit(child, Copied(parent))
  /\ own' = [own EXCEPT ![child] = KernelPages(free)]
  /\ regions' = [regions EXCEPT ![child] = ForkRegisters(parent)]
  /\ status' = [status EXCEPT ![child] = READY]
  /\ UNCHANGED <<issued, held, mallocs>>

(* free_process keeps every page of the process.                           *)
sys_user_exit(p) ==
  /\ Running(p)
  /\ status' = [status EXCEPT ![p] = ZOMBIE]
  /\ UNCHANGED <<free, tab, pt, own, regions, issued, held, machine, mallocs>>

(* Mutant: g_ufree_page is not moved up.                                    *)
allocate_same_page(p) ==
  /\ Running(p)
  /\ issued < mallocs
  /\ Commit(p, user_vm_map([Space(p) EXCEPT !.free = AfterAlloc(free)],
                           HeapVa(1), alloc_page(free), TRUE))
  /\ UNCHANGED <<own, regions, status, issued, held, mallocs>>

(* The page may be 0: nothing looks before it is mapped.                   *)
sys_user_allocate_page(p) ==
  /\ Running(p)
  /\ issued < mallocs
  /\ LET va == HeapVa(issued + 1)
     IN  /\ Commit(p, user_vm_map([Space(p) EXCEPT !.free = AfterAlloc(free)],
                                  va, alloc_page(free), TRUE))
         /\ held' = [held EXCEPT ![p] = @ \cup {va}]
  /\ issued' = issued + 1
  /\ UNCHANGED <<own, regions, status, mallocs>>

(* What naive_free is called with: an address naive_malloc has returned,   *)
(* and for a careful application one this process still holds.             *)
MayFree(p) == IF CAREFUL THEN held[p] ELSE {HeapVa(n) : n \in 1 .. issued}

(* user_vm_unmap frees the page, then flips PTE_V with an exclusive or.    *)
Invalidated(pte) == [pte EXCEPT !.v = ~@]

(* Mutant: the PTE is invalidated and the page forgotten.                   *)
free_page_leaks(p, va) ==
  /\ Running(p)
  /\ va \in MayFree(p)
  /\ held' = [held EXCEPT ![p] = @ \ {va}]
  /\ pt' = [pt EXCEPT ![p][va] = Invalidated(@)]
  /\ UNCHANGED <<free, tab, own, regions, status, issued, machine, mallocs>>

sys_user_free_page(p, va) ==
  /\ Running(p)
  /\ va \in MayFree(p)
  /\ held' = [held EXCEPT ![p] = @ \ {va}]
  /\ \/ /\ tab[p][LeafTable(va)] = 0
        /\ machine' = "crash"
        /\ UNCHANGED <<free, pt>>
     \/ /\ tab[p][LeafTable(va)] # 0
        /\ pt[p][va].pa \notin Pages
        /\ machine' = "free_panic"
        /\ UNCHANGED <<free, pt>>
     \/ /\ tab[p][LeafTable(va)] # 0
        /\ pt[p][va].pa \in Pages
        /\ free' = free_page(free, pt[p][va].pa)
        /\ pt' = [pt EXCEPT ![p][va] = Invalidated(@)]
        /\ UNCHANGED machine
  /\ UNCHANGED <<tab, own, regions, status, issued, mallocs>>

(* Where the application stores without owning a writable page: its data   *)
(* segment, the stack as it grows, an address naive_malloc has returned.   *)
StoreTargets == {DATA, BELOW} \cup {HeapVa(n) : n \in 1 .. issued}

(* handle_user_page_fault for a store: the result of map_pages is ignored, *)
(* so on failure the store faults again.                                   *)
handle_user_page_fault(p, va) ==
  /\ Running(p)
  /\ va \in StoreTargets
  /\ ~UserWritable(p, va)
  /\ Commit(p, map_pages([Space(p) EXCEPT !.free = AfterAlloc(free)],
                        va, alloc_page(free), TRUE))
  /\ UNCHANGED <<own, regions, status, issued, held, mallocs>>

Next ==
  \/ load_user_program
  \/ \E p \in Procs :
       \/ \E child \in Procs : do_fork(p, child)
       \/ sys_user_exit(p)
       \/ sys_user_allocate_page(p)
       \/ \E va \in HeapVAs : sys_user_free_page(p, va)
       \/ \E va \in VAs : handle_user_page_fault(p, va)

Spec == Init /\ [][Next]_vars

-----------------------------------------------------------------------------
(* Type invariant.  The bounds say which memory regions a process can have *)
(* registered (process.c 124-146 and 213-217, elf.c 86-97) and that the    *)
(* application holds only addresses g_ufree_page has passed.               *)
TypeOK ==
  /\ free \in Seq(Pages)
  /\ tab \in [Procs -> [Tables -> 0 .. PAGES]]
  /\ pt \in [Procs -> [VAs -> PTEs]]
  /\ status \in [Procs -> {FREE, READY, ZOMBIE}]
  /\ mallocs \in 0 .. HEAP
  /\ issued \in 0 .. mallocs
  /\ held \in [Procs -> SUBSET {HeapVa(n) : n \in 1 .. issued}]
  /\ machine \in {"boot", "run", "map_panic", "oom_panic", "free_panic", "crash"}
  /\ own \in [Procs -> {<<>>} \cup [1 .. 4 -> Pages]]
  /\ regions \in [Procs -> {<<>>, NewRegions \o <<CODE>>, NewRegions \o <<CODE, DATA>>}]
  /\ \A p \in Procs : regions[p] = <<>> <=> status[p] = FREE

(* The uses of physical pages, as <<page, use>>.  CTX maps the trapframe,  *)
(* which own lists, and the code page is counted once, for process 0.      *)
FreeUses == {<<free[i], "free", i>> : i \in DOMAIN free}
OwnUses == UNION {{<<own[p][i], "own", p, i>> : i \in DOMAIN own[p]} : p \in Procs}
TableUses == UNION {{<<tab[p][t], "table", p, t>> : t \in Tables} : p \in Procs}
Counted(p, va) == va # CTX /\ (va = CODE => p = 0)
MappedUses ==
  UNION {{<<pt[p][va].pa, "mapped", p, va>> : va \in {u \in VAs : Counted(p, u) /\ pt[p][u].v}} :
           p \in Procs}
Uses == FreeUses \cup OwnUses \cup TableUses \cup MappedUses
PageUses == {u \in Uses : u[1] \in Pages}
InUse == {u[1] : u \in PageUses}

(* A page of RAM has one use at most: it is once on the free list, or it   *)
(* is one page table, or one kernel structure of a process, or mapped at   *)
(* one address of one process (code apart).  So no allocation hands out a  *)
(* page in use, and a process never writes another's memory or a page      *)
(* table.  It holds through fork, malloc, free, faults and exhaustion.     *)
PagesExclusive == Cardinality(PageUses) = Cardinality(InUse)

(* Every process executes the one code page the loader filled: do_fork     *)
(* maps it ("DO NOT COPY THE PHYSICAL PAGES, JUST MAP THEM",               *)
(* process.c:206), also when the parent is itself a child.                 *)
CodeIsShared ==
  machine = "run" =>
    \A p \in Procs : status[p] # FREE =>
      pt[p][CODE].v /\ pt[p][CODE].pa = pt[0][CODE].pa

(* naive_malloc and the page fault handler never meet a valid PTE, which   *)
(* would stop the kernel in map_pages (vmm.c:27): the one g_ufree_page     *)
(* that all processes share never returns an address twice.                *)
NoRemapPanic == machine # "map_panic"

Lost == Pages \ InUse

(* No page is lost, neither free nor in use, by a step that leaves a free  *)
(* page: only with the list empty do handlers drop pages, when the fault   *)
(* handler ignores that map_pages failed (strap.c:57) or the kernel stops. *)
LostOnlyWhenExhausted == [][Lost' \subseteq Lost \/ free' = <<>>]_vars

-----------------------------------------------------------------------------
(* do_fork is said to "duplicate the context and data segments of parent   *)
(* process to the child" (process.c:167-168).  Stated of every process:    *)
(* its data segment is mapped.                                             *)
DataDuplicated ==
  machine = "run" => \A p \in Procs : status[p] # FREE => pt[p][DATA].v

(* user_vm_unmap is to "disable the mapping of the virtual pages" and      *)
(* "lastly, invalidate the PTEs" (vmm.c:181-185).                          *)
FreeInvalidates ==
  [][\A p \in Procs, va \in HeapVAs :
       sys_user_free_page(p, va) /\ machine' = "run" => ~pt'[p][va].v]_vars
=============================================================================
