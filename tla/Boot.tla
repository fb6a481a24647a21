-------------------------------- MODULE Boot --------------------------------
(***************************************************************************)
(* The boot of the kernel, from m_start() (kernel/machine/minit.c) over    *)
(* the scan of the device tree (module DeviceTree) to s_start()            *)
(* (kernel/kernel.c), pmm_init(), kern_vm_init() and enable_paging(), with *)
(* the machine timer that may strike as soon as it is enabled, and where a *)
(* trap of the application goes once it runs: medeleg, smode_trap_handler()*)
(* and handle_mtrap().                                                     *)
(*                                                                         *)
(* The steps of m_start() up to mret are separate actions because an       *)
(* interrupt between two of them would overwrite mepc and mstatus.MPP.     *)
(* Addresses are small numbers; a table of the page tree has FAN entries.  *)
(***************************************************************************)
EXTENDS DeviceTree

CONSTANTS DRAM_BASE, PKE_MAX_ALLOWABLE_RAM, PGSIZE, FAN,
          TIMER_INTERVAL,
          LATE,        \* a timer interrupt is served at most this late
          Layouts      \* [etext, end]: what the linker may have produced

PHYS_TOP == DRAM_BASE + PKE_MAX_ALLOWABLE_RAM

ASSUME BootAssumption ==
    /\ {PGSIZE, FAN, TIMER_INTERVAL} \subseteq Nat \ {0}
    /\ {LATE, DRAM_BASE, PKE_MAX_ALLOWABLE_RAM} \subseteq Nat
    /\ Layouts \subseteq [etext : Nat, end : Nat]
    /\ DRAM_BASE % PGSIZE = 0 /\ PKE_MAX_ALLOWABLE_RAM % PGSIZE = 0
    \* kernel.lds aligns both symbols
    /\ \A l \in Layouts : /\ l.etext % PGSIZE = 0 /\ l.end % PGSIZE = 0
                          /\ SELF \in DRAM_BASE .. l.etext - 1
                          /\ l.etext <= l.end /\ l.end <= PHYS_TOP

VARIABLES
    pc,        \* the next step of m_start() or s_start(); "user"; "panic"; "lost"
    mode,      \* "M", "S" or "U"
    csr,       \* the control registers the boot sets
    has_s,     \* misa, chosen when it is read: the hart has a supervisor mode
    due,       \* mtimecmp - mtime
    layout,    \* the kernel's symbols, chosen when pmm_init() reads them
    ram,       \* the size of the memory as the tree says it
    free,      \* g_free_mem_list
    kernel     \* the kernel's page tree: where its tables are and what it maps

bootVars == <<pc, mode, csr, has_s, due, layout, ram, free, kernel>>
vars == <<scanVars, bootVars>>

\* The function f with the value v at x.
Bind(f, x, v) == [y \in DOMAIN f \cup {x} |-> IF y = x THEN v ELSE f[y]]

NoTree == [known |-> FALSE, tokens |-> <<>>]
NoTables == [tabs |-> <<>>, map |-> <<>>]

\* At reset mtimecmp is not ahead of mtime, so the timer is pending.
BootInit ==
    /\ pc = "init_dtb" /\ mode = "M"
    /\ csr = [mepc |-> "none", mpp |-> "U", mtvec |-> FALSE, MIE |-> FALSE, MTIE |-> FALSE,
              mideleg |-> {}, medeleg |-> {}, sie |-> FALSE, SSIP |-> FALSE, satp |-> "bare"]
    /\ has_s = TRUE
    /\ due = 0
    /\ layout = [etext |-> 0, end |-> 0] /\ ram = 0
    /\ free = <<>> /\ kernel = NoTables

Init == query_htif /\ BootInit

-----------------------------------------------------------------------------
(* m_start().  Each step may let one unit of time pass. *)

At(step, next) == /\ pc = step /\ pc' = next /\ UNCHANGED <<layout, free, kernel>>
Passes == due' \in {due, due - 1} /\ due' >= -LATE
Kept == UNCHANGED <<scanVars, ram, has_s>>

\* init_dtb() returns: the tree is not read again.
init_dtb ==
    /\ query = "over" /\ At("init_dtb", "mepc") /\ Passes
    /\ ram' = g_mem_size
    /\ dtb' = NoTree /\ lex' = 1 /\ scan' = Cleared
    /\ UNCHANGED <<query, stack, htif, g_mem_size, fate, mode, csr, has_s>>

\* mscratch, MPP and mepc, which mret will use.
set_mepc ==
    /\ At("mepc", "mtvec") /\ Passes /\ Kept
    /\ csr' = [csr EXCEPT !.mpp = "S", !.mepc = "s_start"]
    /\ UNCHANGED mode

set_mtvec ==
    /\ At("mtvec", "delegate_traps") /\ Passes /\ Kept
    /\ csr' = [csr EXCEPT !.mtvec = TRUE, !.MIE = TRUE]
    /\ UNCHANGED mode

Delegated == {"misaligned fetch", "fetch page fault", "breakpoint", "load page fault",
              "store page fault", "user ecall"}

\* Mutant: the mask lacks the store page fault.
delegate_traps_no_store ==
    /\ At("delegate_traps", "sie") /\ Passes
    /\ has_s' \in BOOLEAN
    /\ csr' = IF has_s' THEN [csr EXCEPT !.mideleg = {"SSIP", "STIP", "SEIP"},
                                         !.medeleg = Delegated \ {"store page fault"}]
                        ELSE csr
    /\ UNCHANGED <<scanVars, ram, mode>>

\* Without a supervisor mode nothing is delegated, and m_start() goes on.
delegate_traps ==
    /\ At("delegate_traps", "sie") /\ Passes
    /\ has_s' \in BOOLEAN
    /\ csr' = IF has_s' THEN [csr EXCEPT !.mideleg = {"SSIP", "STIP", "SEIP"},
                                         !.medeleg = Delegated]
                        ELSE csr
    /\ UNCHANGED <<scanVars, ram, mode>>

\* Mutant: sie is left as it was.
set_sie_lost ==
    /\ At("sie", IF has_s THEN "mtimecmp" ELSE "panic") /\ Passes /\ Kept
    /\ UNCHANGED <<mode, csr>>

\* The register sie does not exist without a supervisor mode: writing it is an illegal
\* instruction, and handle_mtrap() panics.
set_sie ==
    /\ At("sie", IF has_s THEN "mtimecmp" ELSE "panic") /\ Passes /\ Kept
    /\ csr' = IF has_s THEN [csr EXCEPT !.sie = TRUE] ELSE csr
    /\ UNCHANGED mode

\* Mutant: the comparator keeps its value.
timerinit_cmp_lost ==
    /\ At("mtimecmp", "mtie") /\ Kept
    /\ UNCHANGED <<mode, csr, due>>

\* timerinit(): the comparator, which takes the pending interrupt away, then the enable.
timerinit_cmp ==
    /\ At("mtimecmp", "mtie") /\ Kept
    /\ due' = TIMER_INTERVAL
    /\ UNCHANGED <<mode, csr>>

timerinit_enable ==
    /\ At("mtie", "mret") /\ Passes /\ Kept
    /\ csr' = [csr EXCEPT !.MTIE = TRUE]
    /\ UNCHANGED mode

mret ==
    /\ At("mret", IF csr.mepc = "s_start" THEN "pmm_init" ELSE "lost") /\ Passes /\ Kept
    /\ mode' = csr.mpp /\ csr' = [csr EXCEPT !.mpp = "U"]

-----------------------------------------------------------------------------
(* s_start(). *)

\* Mutant: p < end in the loop's condition, which hands out a page that may end beyond end.
create_freepage_list_all(start, end) ==
    LET first == ((start - 1) \div PGSIZE + 1) * PGSIZE
        n == IF first < end THEN (end - first - 1) \div PGSIZE + 1 ELSE 0
    IN  [i \in 1 .. n |-> first + PGSIZE * (n - i)]

\* create_freepage_list(): n is the number of rounds with p + PGSIZE < end, and free_page()
\* puts the page of each at the head of the list.
create_freepage_list(start, end) ==
    LET first == ((start - 1) \div PGSIZE + 1) * PGSIZE   \* ROUNDUP
        n == IF first < end THEN (end - first - 1) \div PGSIZE ELSE 0
    IN  [i \in 1 .. n |-> first + PGSIZE * (n - i)]

\* s_start() up to pmm_init().  The write of satp is illegal outside supervisor mode.
pmm_init(l) ==
    LET size == Min({PKE_MAX_ALLOWABLE_RAM, g_mem_size})
    IN  /\ pc = "pmm_init"
        /\ layout' = l
        /\ g_mem_size' = size
        /\ IF mode # "S" \/ size < l.end - DRAM_BASE
           THEN pc' = "panic" /\ UNCHANGED free
           ELSE /\ pc' = "kern_vm_init"
                /\ free' = create_freepage_list(l.end, size + DRAM_BASE)
        /\ UNCHANGED <<dtb, query, lex, stack, scan, htif, fate, mode, csr, has_s, due, ram, kernel>>

\* page_walk() for one level: the table at this place of the tree, allocated if need be.
walk(w, place) ==
    CASE ~w.ok \/ place \in DOMAIN w.tabs -> w
      [] w.free = <<>> -> [w EXCEPT !.ok = FALSE]
      [] OTHER -> [w EXCEPT !.free = Tail(@), !.tabs = Bind(@, place, Head(w.free))]

page_walk(w, va) ==
    walk(walk(w, <<1, va \div (PGSIZE * FAN * FAN)>>), <<0, va \div (PGSIZE * FAN)>>)

\* The page directory.  alloc_page() is not checked: without a page, memset() writes to
\* address 0, an access fault that handle_mtrap() ends in a panic.
kern_vm_init ==
    /\ pc = "kern_vm_init"
    /\ IF free = <<>>
       THEN pc' = "panic" /\ UNCHANGED <<free, kernel>>
       ELSE /\ free' = Tail(free)
            /\ kernel' = [tabs |-> Bind(<<>>, <<2, 0>>, Head(free)), map |-> <<>>]
            /\ pc' = "kern_vm_map"
    /\ UNCHANGED <<scanVars, mode, csr, has_s, due, layout, ram>>

\* The page the two calls of kern_vm_map() come to: the text, then all the rest.
next_va == DRAM_BASE + PGSIZE * Cardinality(DOMAIN kernel.map)

\* Mutant: the second call is given the end of the kernel instead of PHYS_TOP.
LastPage_end(va) == va + PGSIZE >= layout.end

LastPage(va) == va + PGSIZE >= PHYS_TOP

\* map_pages() for one page.  A page that is mapped already, or no page for a table,
\* ends in a panic, of map_pages() or of kern_vm_map().
kern_vm_map ==
    LET va == next_va
        w == page_walk([free |-> free, ok |-> TRUE, tabs |-> kernel.tabs], va)
        perm == IF va < layout.etext THEN {"R", "X"} ELSE {"R", "W"}
    IN  /\ pc = "kern_vm_map"
        /\ free' = w.free
        /\ IF w.ok /\ va \notin DOMAIN kernel.map
           THEN /\ kernel' = [tabs |-> w.tabs,
                              map |-> Bind(kernel.map, va, [pa |-> va, perm |-> perm])]
                /\ pc' = IF LastPage(va) THEN "enable_paging" ELSE pc
           ELSE kernel' = [kernel EXCEPT !.tabs = w.tabs] /\ pc' = "panic"
        /\ UNCHANGED <<scanVars, mode, csr, has_s, due, layout, ram>>

\* The process pool, the program and the first schedule() follow, modelled elsewhere.
enable_paging ==
    /\ At("enable_paging", "user") /\ Kept
    /\ csr' = [csr EXCEPT !.satp = "kernel"]
    /\ mode' = "U"
    /\ UNCHANGED due

-----------------------------------------------------------------------------
(* The machine timer, and the traps of the running application. *)

tick == /\ mode # "M" /\ pc # "panic" /\ due > -LATE
        /\ due' = due - 1
        /\ UNCHANGED <<scanVars, pc, mode, csr, has_s, layout, ram, free, kernel>>

\* mtrapvec and handle_timer().  Taking the trap and its mret leave the interrupted
\* address in mepc and the least privileged mode in MPP.
handle_timer ==
    /\ csr.MTIE /\ due <= 0 /\ (mode # "M" \/ csr.MIE) /\ pc \notin {"panic", "lost"}
    /\ IF csr.mtvec THEN UNCHANGED pc ELSE pc' = "lost"
    /\ csr' = [csr EXCEPT !.mepc = "interrupted", !.mpp = "U", !.SSIP = TRUE]
    /\ due' = due + TIMER_INTERVAL
    /\ UNCHANGED <<scanVars, mode, has_s, layout, ram, free, kernel>>

\* handle_mtrap() panics on every exception: access faults, illegal instructions,
\* misaligned accesses and the unexpected ones.
handle_mtrap == "panic"

\* smode_trap_handler().
smode_trap_handler(cause) ==
    IF cause \in {"user ecall", "store page fault", "load page fault", "SSIP"} THEN "user"
    ELSE "panic"

user_trap(cause) ==
    /\ pc = "user"
    /\ pc' = IF cause \in csr.medeleg THEN smode_trap_handler(cause) ELSE handle_mtrap
    /\ UNCHANGED <<scanVars, mode, csr, has_s, due, layout, ram, free, kernel>>

\* The software interrupt handle_timer() raised reaches handle_mtimer_trap(), which
\* clears it.  Not delegated, it would be an unexpected trap of machine mode.
soft_interrupt ==
    /\ pc = "user" /\ csr.SSIP /\ csr.sie
    /\ pc' = IF "SSIP" \in csr.mideleg THEN smode_trap_handler("SSIP") ELSE handle_mtrap
    /\ csr' = [csr EXCEPT !.SSIP = FALSE]
    /\ UNCHANGED <<scanVars, mode, has_s, due, layout, ram, free, kernel>>

Exceptions == Delegated \cup {"fetch access", "load access", "store access",
                              "illegal instruction", "misaligned load", "misaligned store"}

MStart == \/ init_dtb \/ set_mepc \/ set_mtvec \/ delegate_traps \/ set_sie
          \/ timerinit_cmp \/ timerinit_enable \/ mret
SStart == (\E l \in Layouts : pmm_init(l)) \/ kern_vm_init \/ kern_vm_map \/ enable_paging

Next == \/ ScanNext /\ UNCHANGED bootVars
        \/ MStart
        \/ SStart
        \/ tick
        \/ handle_timer
        \/ \E c \in Exceptions : user_trap(c)
        \/ soft_interrupt

\* The hart executes m_start() and s_start(), and takes the interrupt that is pending.
Fairness == /\ WF_vars(ScanNext /\ UNCHANGED bootVars)
            /\ WF_vars(MStart) /\ WF_vars(SStart) /\ WF_vars(soft_interrupt)

Spec == Init /\ [][Next]_vars /\ Fairness

-----------------------------------------------------------------------------
Managed == {"kern_vm_init", "kern_vm_map", "enable_paging", "user"}
Tables == {kernel.tabs[t] : t \in DOMAIN kernel.tabs}
Free == Range(free)
RamEnd == DRAM_BASE + Min({ram, PKE_MAX_ALLOWABLE_RAM})
\* The whole pages of memory above the kernel.
Usable == {p \in layout.end .. RamEnd : p % PGSIZE = 0 /\ p + PGSIZE <= RamEnd}

\* The pages the kernel manages are memory, are its own, and are nearly all there are.
\* From pmm_init() on, each page on g_free_mem_list or taken for a kernel page table
\* is a whole page of the memory the device tree told of, above the kernel image and
\* below PHYS_TOP, and is there once; of the pages that could be managed the strict
\* comparison in create_freepage_list() leaves out at most one.
FreePagesUsable ==
    pc \in Managed =>
      /\ Free \cap Tables = {} /\ Tables \cup Free \subseteq Usable
      /\ Cardinality(Free) = Len(free) /\ Cardinality(Tables) = Cardinality(DOMAIN kernel.tabs)
      /\ Cardinality(Usable \ (Free \cup Tables)) <= 1

\* The address space that enable_paging() switches to is complete: the instruction
\* after the switch and all kernel code are mapped where they are and not writable,
\* kernel data and everything up to PHYS_TOP, so every page that will ever be allocated
\* and the page tables, are mapped where they are and writable, for page_walk() and the
\* kernel read and write them by their physical addresses; nothing is writable and executable, and
\* nothing is open to the application.
KernelMapped ==
    csr.satp = "kernel" =>
      /\ \A a \in DOMAIN kernel.map : /\ kernel.map[a].pa = a
                                      /\ "U" \notin kernel.map[a].perm
                                      /\ ~({"W", "X"} \subseteq kernel.map[a].perm)
      /\ \A a \in DRAM_BASE .. PHYS_TOP - 1 :
           LET p == a - (a % PGSIZE)
           IN  p \in DOMAIN kernel.map /\
               (IF a < layout.etext THEN "X" ELSE "W") \in kernel.map[p].perm

\* What the tables of the kernel's page tree need.
Needed == 1 + Cardinality({a \div (PGSIZE * FAN * FAN) : a \in DRAM_BASE .. PHYS_TOP - 1})
            + Cardinality({a \div (PGSIZE * FAN) : a \in DRAM_BASE .. PHYS_TOP - 1})

\* The boot ends, and ends well if the machine allows it: once the scan of the tree
\* has succeeded, m_start() and s_start() get to the application, in the right mode
\* and at the right address whenever the timer strikes, unless the hart has no
\* supervisor mode or the memory has no room for the kernel and its page tables.
BootEnds ==
    <>(\/ fate # "ok"
       \/ pc = "user"
       \/ pc = "panic" /\ (~has_s \/ Cardinality(Usable) <= Needed))

\* What the kernel can serve does not stop the machine: a syscall or a page fault of
\* the application, raised at any time after boot, goes where delegate_traps() sent
\* it, to a handler that returns to the application.
ServedTrapsContinue ==
    [][\A c \in {"user ecall", "store page fault", "load page fault"} :
         user_trap(c) => pc' = "user"]_vars

\* A tick of the machine timer is not lost between the two modes: the software
\* interrupt that handle_timer() raises, during boot as well, reaches the supervisor's
\* handler once the application runs, unless the application is stopped first.
TicksArrive == (pc = "user" /\ csr.SSIP) ~> (~csr.SSIP \/ pc = "panic")
=============================================================================
