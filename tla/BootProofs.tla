---------------------------- MODULE BootProofs ----------------------------
(***************************************************************************)
(* Proofs about the boot (module Boot), for every device tree, kernel      *)
(* layout and timing: what the kernel serves is delegated to it,           *)
(* enable_paging() switches to a complete address space, and the pages     *)
(* pmm_init() lists are the memory there is.                               *)
(***************************************************************************)
EXTENDS Boot, DeviceTreeProofs

\* What the boot writes to the control registers.
CSRs == [mepc : {"none", "s_start", "interrupted"}, mpp : {"U", "S"}, mtvec : BOOLEAN,
         MIE : BOOLEAN, MTIE : BOOLEAN, mideleg : SUBSET {"SSIP", "STIP", "SEIP"},
         medeleg : SUBSET Delegated, sie : BOOLEAN, SSIP : BOOLEAN, satp : {"bare", "kernel"}]

\* Where m_start() has not come to delegate_traps() yet, and where it has ended.
Before == {"init_dtb", "mepc", "mtvec", "delegate_traps"}
Over == {"panic", "lost"}

\* After delegate_traps() a hart with a supervisor mode has the delegation, and one without
\* goes no further than the write of sie.
DelegationInv ==
    /\ csr \in CSRs
    /\ pc \notin Before \cup Over => (has_s => csr.medeleg = Delegated)
    /\ pc \notin Before \cup Over \cup {"sie"} => has_s

\* At reset nothing is delegated yet, and nothing has to be.
LEMMA DelegationInit == Init => DelegationInv
BY DEF Init, BootInit, DelegationInv, CSRs, Before

\* Every step of the boot, the timer and the traps keeps the delegation.
LEMMA DelegationNext == DelegationInv /\ [Next]_vars => DelegationInv'
<1> SUFFICES ASSUME DelegationInv, [Next]_vars PROVE DelegationInv'
  BY Zenon
<1>a. ASSUME UNCHANGED <<csr, has_s>>,
             \/ pc' = pc \/ pc' \in Over \cup Before
             \/ pc \notin Before \cup Over \cup {"sie"}
      PROVE  DelegationInv'
  BY <1>a, Zenon DEF DelegationInv, Before, Over
<1>1. CASE ScanNext /\ UNCHANGED bootVars
  BY <1>1, <1>a, Zenon DEF bootVars
<1>2. CASE init_dtb
  BY <1>2, <1>a, Zenon DEF init_dtb, At, Before
<1>3. CASE set_mepc
  BY <1>3, Zenon DEF set_mepc, At, Before, Over, DelegationInv, CSRs
<1>4. CASE set_mtvec
  BY <1>4, Zenon DEF set_mtvec, At, Before, Over, DelegationInv, CSRs
<1>5. CASE delegate_traps
  BY <1>5, Zenon DEF delegate_traps, At, Before, Over, DelegationInv, CSRs
<1>6. CASE set_sie
  BY <1>6, Zenon DEF set_sie, At, Kept, Before, Over, DelegationInv, CSRs
<1>7. CASE timerinit_cmp
  BY <1>7, <1>a, Zenon DEF timerinit_cmp, At, Kept, Before, Over
<1>8. CASE timerinit_enable
  BY <1>8, Zenon DEF timerinit_enable, At, Kept, Before, Over, DelegationInv, CSRs
<1>9. CASE mret
  BY <1>9, Zenon DEF mret, At, Kept, Before, Over, DelegationInv, CSRs
<1>10. CASE \E l \in Layouts : pmm_init(l)
  BY <1>10, <1>a, Zenon DEF pmm_init, Before, Over
<1>11. CASE kern_vm_init
  BY <1>11, <1>a, Zenon DEF kern_vm_init, Before, Over
<1>12. CASE kern_vm_map
  BY <1>12, <1>a, Zenon DEF kern_vm_map, Before, Over
<1>13. CASE enable_paging
  BY <1>13, Zenon DEF enable_paging, At, Kept, Before, Over, DelegationInv, CSRs
<1>14. CASE tick
  BY <1>14, <1>a, Zenon DEF tick
<1>15. CASE handle_timer
  BY <1>15, Zenon DEF handle_timer, Before, Over, DelegationInv, CSRs
<1>16. CASE \E c \in Exceptions : user_trap(c)
  BY <1>16, <1>a, Zenon DEF user_trap, Before, Over, handle_mtrap, smode_trap_handler
<1>17. CASE soft_interrupt
  BY <1>17, Zenon DEF soft_interrupt, Before, Over, DelegationInv, CSRs, handle_mtrap,
     smode_trap_handler
<1>18. CASE UNCHANGED vars
  BY <1>18, <1>a, Zenon DEF vars, bootVars
<1> QED
  BY <1>1, <1>2, <1>3, <1>4, <1>5, <1>6, <1>7, <1>8, <1>9, <1>10, <1>11, <1>12, <1>13, <1>14,
     <1>15, <1>16, <1>17, <1>18, Zenon DEF Next, MStart, SStart

\* A syscall or a page fault of the application is delegated and served, for every device
\* tree, kernel layout and timing of the boot.
THEOREM ServedTraps == Spec => ServedTrapsContinue
<1>1. ASSUME DelegationInv,
             NEW c \in {"user ecall", "store page fault", "load page fault"}, user_trap(c)
      PROVE  pc' = "user"
  <2>1. pc = "user" /\ pc' = IF c \in csr.medeleg THEN smode_trap_handler(c) ELSE handle_mtrap
    BY <1>1, Zenon DEF user_trap
  <2>2. csr.medeleg = Delegated
    BY <1>1, <2>1, Zenon DEF DelegationInv, Before, Over
  <2> QED
    BY <2>1, <2>2, Zenon DEF Delegated, smode_trap_handler
<1>2. DelegationInv => [\A c \in {"user ecall", "store page fault", "load page fault"} :
                          user_trap(c) => pc' = "user"]_vars
  BY <1>1, Zenon
<1> QED
  BY <1>2, DelegationInit, DelegationNext, PTL DEF Spec, ServedTrapsContinue

-----------------------------------------------------------------------------
(* The kernel's address space. *)

\* A multiple of n leaves no remainder.
LEMMA Multiples ==
    ASSUME NEW n \in Nat \ {0}, NEW i \in Nat
    PROVE  (n * i) % n = 0 /\ n * i \in Nat
BY Z3

\* The start of the page of an address.
LEMMA PageStart ==
    ASSUME NEW a \in Nat
    PROVE  /\ a % PGSIZE \in 0 .. PGSIZE - 1
           /\ a - (a % PGSIZE) \in Nat /\ (a - (a % PGSIZE)) % PGSIZE = 0
<1> DEFINE n == PGSIZE
<1>0. n \in Nat \ {0} BY BootAssumption, Zenon
<1> HIDE DEF n
<1>1. a = (n * (a \div n)) + (a % n) /\ a % n \in 0 .. n-1 /\ a \div n \in Nat
  BY <1>0, Z3
<1>2. (n * (a \div n)) % n = 0
  BY <1>0, <1>1, Z3
<1>3. (a - (a % n)) % n = 0 /\ a - (a % n) \in Nat
  BY <1>0, <1>1, <1>2, Z3
<1> QED BY <1>0, <1>1, <1>3, Zenon DEF n

\* The page after a page.
LEMMA NextPage ==
    ASSUME NEW a \in Nat, a % PGSIZE = 0
    PROVE  (a + PGSIZE) % PGSIZE = 0
<1> DEFINE n == PGSIZE
<1>0. n \in Nat \ {0} BY BootAssumption, Zenon
<1> HIDE DEF n
<1>1. a % n = 0 BY Zenon DEF n
<1>2. a = n * (a \div n) /\ (a \div n) \in Nat
  BY <1>0, <1>1, Z3
<1> DEFINE q == (a \div n) + 1
<1>3. q \in Nat /\ a + n = n * q
  BY <1>0, <1>2, Z3
<1> HIDE DEF q
<1> QED BY <1>0, <1>3, Multiples, Zenon DEF n

\* Two pages do not overlap.
LEMMA PagesApart ==
    ASSUME NEW a \in Nat, NEW b \in Nat, a % PGSIZE = 0, b % PGSIZE = 0, a < b
    PROVE  a + PGSIZE <= b
<1> DEFINE n == PGSIZE
<1>0. n \in Nat \ {0} /\ a % n = 0 /\ b % n = 0 BY BootAssumption, Zenon
<1> HIDE DEF n
<1>1. a = n * (a \div n) /\ b = n * (b \div n) /\ a \div n \in Nat /\ b \div n \in Nat
  BY <1>0, Z3
<1>2. (a \div n) < (b \div n)
  BY <1>0, <1>1, Z3
<1> DEFINE i == a \div n
           j == b \div n
<1>3. i \in Nat /\ j \in Nat /\ i + 1 <= j /\ a = n * i /\ b = n * j
  BY <1>1, <1>2
<1> HIDE DEF i, j
<1>4. n * (i + 1) <= n * j /\ n * (i + 1) = a + n
  BY <1>0, <1>3, Z3
<1> QED BY <1>0, <1>3, <1>4, Zenon DEF n

\* What Bind changes.
LEMMA BindAt ==
    ASSUME NEW f, NEW x, NEW v
    PROVE  /\ DOMAIN Bind(f, x, v) = DOMAIN f \cup {x}
           /\ Bind(f, x, v)[x] = v
           /\ \A y \in DOMAIN f : y # x => Bind(f, x, v)[y] = f[y]
BY Zenon DEF Bind

\* The permissions kern_vm_init() gives the page at a.
PermOf(a) == IF a < layout.etext THEN {"R", "X"} ELSE {"R", "W"}
\* The pages from DRAM_BASE up to the one kern_vm_map() comes to next are mapped where
\* they are, and nothing else is.
DirectMap ==
    /\ IsFiniteSet(DOMAIN kernel.map)
    /\ next_va \in Nat /\ DRAM_BASE <= next_va /\ next_va % PGSIZE = 0
    /\ \A a : a \in DOMAIN kernel.map <=> /\ a \in Nat /\ DRAM_BASE <= a /\ a < next_va
                                           /\ a % PGSIZE = 0
    /\ \A a \in DOMAIN kernel.map : kernel.map[a] = [pa |-> a, perm |-> PermOf(a)]

\* The inductive invariant: the direct mapping grows page by page and is complete when
\* map_pages() returns for the last time.
MapInv ==
    /\ csr.satp \in {"bare", "kernel"}
    /\ pc \in Managed => layout \in Layouts
    /\ pc \in {"kern_vm_map", "enable_paging", "user"} => DirectMap
    /\ pc \in {"enable_paging", "user"} => PHYS_TOP <= next_va
    /\ csr.satp = "kernel" =>
         /\ pc \in {"user", "panic", "lost"} /\ layout \in Layouts
         /\ DirectMap /\ PHYS_TOP <= next_va

\* map_pages() for one page lengthens the direct mapping by that page.
LEMMA MapsPage ==
    ASSUME DirectMap, layout' = layout, layout \in Layouts,
           kernel'.map = Bind(kernel.map, next_va, [pa |-> next_va, perm |-> PermOf(next_va)])
    PROVE  DirectMap' /\ next_va' = next_va + PGSIZE
<1> DEFINE d == DOMAIN kernel.map
           e == DOMAIN kernel'.map
           va == next_va
           r == [pa |-> va, perm |-> PermOf(va)]
<1>0. va \notin d /\ IsFiniteSet(d) /\ va \in Nat
  BY DEF DirectMap
<1>p. /\ DOMAIN Bind(kernel.map, va, r) = d \cup {va}
      /\ Bind(kernel.map, va, r)[va] = r
      /\ \A y \in d : y # va => Bind(kernel.map, va, r)[y] = kernel.map[y]
  <2> HIDE DEF r, va
  <2> QED BY Zenon DEF Bind
<1>1. e = d \cup {va} /\ va \notin d /\ IsFiniteSet(d) /\ va \in Nat
  BY <1>0, <1>p, Zenon
<1>2. kernel'.map[va] = r /\ \A y \in d : kernel'.map[y] = kernel.map[y]
  BY <1>0, <1>p, Zenon
<1>3. IsFiniteSet(e) /\ Cardinality(e) = Cardinality(d) + 1 /\ Cardinality(d) \in Nat
  BY <1>1, FS_AddElement, FS_CardinalityType
<1>4. PGSIZE \in Nat \ {0} /\ DRAM_BASE \in Nat
  BY BootAssumption, Zenon
<1>5. next_va' = va + PGSIZE
  <2>1. va = DRAM_BASE + PGSIZE * Cardinality(d) /\ next_va' = DRAM_BASE + PGSIZE * Cardinality(e)
    BY Zenon DEF next_va
  <2> HIDE DEF d, e, va
  <2>2. ASSUME NEW n \in Nat, NEW i \in Nat PROVE n * (i + 1) = n * i + n
    OBVIOUS
  <2>3. /\ PGSIZE * (Cardinality(d) + 1) = PGSIZE * Cardinality(d) + PGSIZE
        /\ PGSIZE * Cardinality(d) \in Nat
    BY <1>3, <1>4, <2>2
  <2> QED
    BY <1>3, <1>4, <2>1, <2>3
<1>6. /\ DRAM_BASE <= va /\ va % PGSIZE = 0
      /\ \A a : a \in d <=> a \in Nat /\ DRAM_BASE <= a /\ a < va /\ a % PGSIZE = 0
      /\ \A a \in d : kernel.map[a] = [pa |-> a, perm |-> PermOf(a)]
  BY Zenon DEF DirectMap
<1>7. (va + PGSIZE) % PGSIZE = 0
  BY <1>1, <1>6, NextPage, Zenon
<1>8. \A a \in Nat : a < va + PGSIZE /\ a % PGSIZE = 0 => a <= va
  <2> HIDE DEF va
  <2>1. ASSUME NEW a \in Nat, va < a, a % PGSIZE = 0 PROVE va + PGSIZE <= a
    BY <1>1, <1>6, <2>1, PagesApart, Zenon
  <2> QED BY <1>1, <1>4, <2>1
<1> HIDE DEF va, d, e
<1>9. \A a : a \in e <=> a \in Nat /\ DRAM_BASE <= a /\ a < va + PGSIZE /\ a % PGSIZE = 0
  BY <1>1, <1>4, <1>6, <1>8
<1>10. \A a \in e : kernel'.map[a] = [pa |-> a, perm |-> PermOf(a)]
  BY <1>1, <1>2, <1>6, Zenon
<1>11. \A a \in e : kernel'.map[a] =
           [pa |-> a, perm |-> IF a < layout'.etext THEN {"R", "X"} ELSE {"R", "W"}]
  BY <1>10, Zenon DEF PermOf
<1>12. next_va' \in Nat /\ DRAM_BASE <= next_va' /\ next_va' % PGSIZE = 0
  BY <1>1, <1>4, <1>5, <1>6, <1>7
<1>13. \A a : a \in e <=> a \in Nat /\ DRAM_BASE <= a /\ a < next_va' /\ a % PGSIZE = 0
  BY <1>5, <1>9, Zenon
<1>14. DirectMap'
  BY <1>3, <1>11, <1>12, <1>13, Zenon DEF DirectMap, e, PermOf
<1> QED
  BY <1>5, <1>14, Zenon DEF va

\* Nothing is mapped at reset.
LEMMA MapInit == Init => MapInv
BY SMTT(30) DEF Init, BootInit, MapInv, Managed

\* Every step keeps the direct mapping, and enable_paging() comes when it is complete.
LEMMA MapNext == MapInv /\ [Next]_vars => MapInv'
<1> SUFFICES ASSUME MapInv, [Next]_vars PROVE MapInv'
  BY Zenon
<1>k. ASSUME UNCHANGED <<kernel, layout>> PROVE DirectMap' = DirectMap /\ next_va' = next_va
  BY <1>k, Zenon DEF DirectMap, PermOf, next_va
<1>a. ASSUME UNCHANGED <<kernel, layout>>, csr'.satp = csr.satp,
             pc' = pc \/ pc' \in {"panic", "lost"}
      PROVE  MapInv'
  BY <1>a, <1>k, Zenon DEF MapInv, Managed
<1>b. ASSUME NEW s \in {"init_dtb", "mepc", "mtvec", "delegate_traps", "sie", "mtimecmp",
                         "mtie", "mret"},
             NEW t, At(s, t), t \notin Managed, csr'.satp = csr.satp
      PROVE  MapInv'
  BY <1>b, Zenon DEF MapInv, At, Managed
<1>1. CASE ScanNext /\ UNCHANGED bootVars
  BY <1>1, <1>a, Zenon DEF bootVars
<1>2. CASE init_dtb
  BY <1>2, <1>b, Zenon DEF init_dtb, Managed
<1>3. CASE set_mepc
  BY <1>3, <1>b DEF set_mepc, Managed
<1>4. CASE set_mtvec
  BY <1>4, <1>b DEF set_mtvec, Managed
<1>5. CASE delegate_traps
  BY <1>5, <1>b DEF delegate_traps, Managed
<1>6. CASE set_sie
  BY <1>6, <1>b DEF set_sie, Managed
<1>7. CASE timerinit_cmp
  BY <1>7, <1>b, Zenon DEF timerinit_cmp, Managed
<1>8. CASE timerinit_enable
  BY <1>8, <1>b DEF timerinit_enable, Managed
<1>9. CASE mret
  BY <1>9, <1>b DEF mret, Managed
<1>10. CASE \E l \in Layouts : pmm_init(l)
  BY <1>10, Zenon DEF pmm_init, MapInv, Managed
<1>11. CASE kern_vm_init
  <2>1. kernel'.map = <<>> \/ pc' = "panic"
    BY <1>11 DEF kern_vm_init
  <2>2. ASSUME kernel'.map = <<>> PROVE DirectMap'
    <3>1. DOMAIN kernel'.map = {}
      BY <2>2
    <3>2. IsFiniteSet(DOMAIN kernel'.map) /\ Cardinality(DOMAIN kernel'.map) = 0
      BY <3>1, FS_EmptySet, Zenon
    <3>3. next_va' = DRAM_BASE
      BY <3>2, BootAssumption DEF next_va
    <3> QED
      BY <3>1, <3>2, <3>3, BootAssumption DEF DirectMap
  <2> QED
    BY <1>11, <2>1, <2>2, Zenon DEF kern_vm_init, MapInv, Managed
<1>12. CASE kern_vm_map
  <2>1. /\ pc = "kern_vm_map" /\ layout \in Layouts /\ DirectMap /\ csr.satp = "bare"
        /\ UNCHANGED <<layout, csr>>
    BY <1>12, Zenon DEF kern_vm_map, MapInv, Managed
  <2>2. CASE pc' = "panic"
    BY <2>1, <2>2, Zenon DEF MapInv, Managed
  <2>3. CASE pc' # "panic"
    <3>1. /\ kernel'.map = Bind(kernel.map, next_va, [pa |-> next_va, perm |-> PermOf(next_va)])
          /\ pc' = IF LastPage(next_va) THEN "enable_paging" ELSE pc
      BY <1>12, <2>3 DEF kern_vm_map, PermOf
    <3>2. DirectMap' /\ next_va' = next_va + PGSIZE
      BY <2>1, <3>1, MapsPage, Zenon
    <3>3. pc' = "enable_paging" => PHYS_TOP <= next_va'
      BY <2>1, <3>1, <3>2, BootAssumption, Zenon DEF LastPage, PHYS_TOP, DirectMap
    <3> QED
      BY <2>1, <3>1, <3>2, <3>3, Zenon DEF MapInv, Managed
  <2> QED
    BY <2>2, <2>3, Zenon
<1>13. CASE enable_paging
  BY <1>13, <1>k DEF enable_paging, At, MapInv, Managed
<1>14. CASE tick
  BY <1>14, <1>a, Zenon DEF tick
<1>15. CASE handle_timer
  BY <1>15, <1>a DEF handle_timer
<1>16. CASE \E c \in Exceptions : user_trap(c)
  BY <1>16, <1>a, Zenon DEF user_trap, handle_mtrap, smode_trap_handler
<1>17. CASE soft_interrupt
  BY <1>17, <1>a DEF soft_interrupt, handle_mtrap, smode_trap_handler
<1>18. CASE UNCHANGED vars
  BY <1>18, <1>a, Zenon DEF vars, bootVars
<1> QED
  BY <1>1, <1>2, <1>3, <1>4, <1>5, <1>6, <1>7, <1>8, <1>9, <1>10, <1>11, <1>12, <1>13, <1>14,
     <1>15, <1>16, <1>17, <1>18, Zenon DEF Next, MStart, SStart

\* A complete direct mapping is what the kernel needs.
LEMMA MapComplete == MapInv => KernelMapped
<1> SUFFICES ASSUME layout \in Layouts, DirectMap, PHYS_TOP <= next_va
             PROVE  KernelMapped
  BY Zenon DEF MapInv, KernelMapped
<1>d. \A a \in DOMAIN kernel.map : kernel.map[a].pa = a /\ kernel.map[a].perm = PermOf(a)
  <2> SUFFICES ASSUME NEW a \in DOMAIN kernel.map
               PROVE  kernel.map[a].pa = a /\ kernel.map[a].perm = PermOf(a)
    BY Zenon
  <2>1. kernel.map[a] = [pa |-> a, perm |-> PermOf(a)]
    BY Zenon DEF DirectMap
  <2> QED BY <2>1
<1>1. \A a \in DOMAIN kernel.map : /\ kernel.map[a].pa = a
                                   /\ "U" \notin kernel.map[a].perm
                                   /\ ~({"W", "X"} \subseteq kernel.map[a].perm)
  <2> SUFFICES ASSUME NEW a \in DOMAIN kernel.map
               PROVE  /\ kernel.map[a].pa = a
                      /\ "U" \notin kernel.map[a].perm
                      /\ ~({"W", "X"} \subseteq kernel.map[a].perm)
    BY Zenon
  <2>1. "U" \notin PermOf(a) /\ ~({"W", "X"} \subseteq PermOf(a))
    BY Zenon DEF PermOf
  <2> QED
    BY <1>d, <2>1, Zenon
<1>e. layout.etext \in Nat /\ layout.etext % PGSIZE = 0
  <2>1. layout \in [etext : Nat, end : Nat] /\ layout.etext % PGSIZE = 0
    BY BootAssumption, Zenon
  <2> QED BY <2>1, Zenon
<1>c. PGSIZE \in Nat \ {0} /\ DRAM_BASE \in Nat /\ PHYS_TOP \in Nat /\ DRAM_BASE % PGSIZE = 0
  BY BootAssumption DEF PHYS_TOP
<1>2. /\ PGSIZE \in Nat \ {0} /\ DRAM_BASE \in Nat /\ PHYS_TOP \in Nat /\ DRAM_BASE % PGSIZE = 0
      /\ layout.etext \in Nat /\ layout.etext % PGSIZE = 0
  BY <1>c, <1>e, Zenon
<1>3. ASSUME NEW a \in DRAM_BASE .. PHYS_TOP - 1
      PROVE  LET p == a - (a % PGSIZE)
             IN  p \in DOMAIN kernel.map /\
                 (IF a < layout.etext THEN "X" ELSE "W") \in kernel.map[p].perm
  <2> DEFINE p == a - (a % PGSIZE)
  <2>0. a \in Nat /\ DRAM_BASE <= a /\ a < PHYS_TOP
    BY <1>2
  <2>1. a \in Nat /\ a % PGSIZE \in 0 .. PGSIZE - 1 /\ p \in Nat /\ p % PGSIZE = 0
    BY <2>0, PageStart, Zenon
  <2>2. p <= a /\ a < p + PGSIZE
    BY <1>2, <2>1
  <2> HIDE DEF p
  <2>3. ASSUME NEW b \in Nat, b % PGSIZE = 0, b <= a PROVE b <= p
    <3>1. ASSUME p < b PROVE FALSE
      <4>1. p + PGSIZE <= b
        BY <2>1, <2>3, <3>1, PagesApart, Zenon
      <4> QED BY <1>2, <2>1, <2>2, <2>3, <4>1
    <3> QED BY <2>1, <3>1
  <2>4. DRAM_BASE <= p /\ (a >= layout.etext => layout.etext <= p)
    BY <1>2, <2>0, <2>1, <2>3, Zenon
  <2>5. p \in DOMAIN kernel.map
    <3>1. next_va \in Nat /\ p < next_va
      BY <1>2, <2>0, <2>1, <2>2 DEF DirectMap
    <3> QED BY <2>1, <2>4, <3>1, Zenon DEF DirectMap
  <2>6. kernel.map[p].perm = PermOf(p)
    BY <1>d, <2>5, Zenon
  <2>7. (IF a < layout.etext THEN "X" ELSE "W") \in PermOf(p)
    BY <1>2, <2>1, <2>2, <2>4 DEF PermOf
  <2> QED BY <2>5, <2>6, <2>7, Zenon DEF p
<1> QED BY <1>1, <1>3, Zenon DEF KernelMapped

\* When enable_paging() switches, all of the kernel and of the memory it manages is mapped
\* where it is with the permissions it needs, for every page size, memory size and layout.
THEOREM DirectMapComplete == Spec => []KernelMapped
<1>1. MapInv => KernelMapped
  BY MapComplete, Zenon
<1> QED
  BY <1>1, MapInit, MapNext, PTL DEF Spec

-----------------------------------------------------------------------------
(* The pages pmm_init() hands out. *)

\* The pages create_freepage_list() is to list: whole ones that end before the memory does.
Owned == {q \in layout.end .. RamEnd : q % PGSIZE = 0 /\ q + PGSIZE < RamEnd}

\* The pages of O are each on the list f or a table of t, and there once.
Shared(f, t, O) ==
    /\ f \in Seq(Nat)
    /\ \A i \in 1 .. Len(f), j \in 1 .. Len(f) : f[i] = f[j] => i = j
    /\ IsFiniteSet(DOMAIN t)
    /\ \A x \in DOMAIN t, y \in DOMAIN t : t[x] = t[y] => x = y
    /\ \A i \in 1 .. Len(f), x \in DOMAIN t : f[i] # t[x]
    /\ O = {f[i] : i \in 1 .. Len(f)} \cup {t[x] : x \in DOMAIN t}

\* alloc_page() for a table that is not there yet: the first page of the list becomes it.
LEMMA TakePage ==
    ASSUME NEW f, NEW t, NEW O, Shared(f, t, O), f # <<>>, NEW x, x \notin DOMAIN t
    PROVE  Shared(Tail(f), Bind(t, x, Head(f)), O)
<1> DEFINE g == Tail(f)
           u == Bind(t, x, Head(f))
<1>0. f \in Seq(Nat) /\ Len(f) \in Nat /\ Len(f) > 0 /\ Head(f) = f[1] BY DEF Shared
<1>1. g \in Seq(Nat) /\ Len(g) = Len(f) - 1 /\ \A i \in 1 .. Len(g) : g[i] = f[i + 1]
  BY <1>0
<1>2. DOMAIN u = DOMAIN t \cup {x} /\ u[x] = f[1] /\ \A y \in DOMAIN t : u[y] = t[y]
  <2>1. /\ DOMAIN Bind(t, x, f[1]) = DOMAIN t \cup {x} /\ Bind(t, x, f[1])[x] = f[1]
        /\ \A y \in DOMAIN t : y # x => Bind(t, x, f[1])[y] = t[y]
    BY Zenon DEF Bind
  <2> QED BY <1>0, <2>1, Zenon
<1>3. \A i \in 1 .. Len(g) : i + 1 \in 1 .. Len(f) /\ i + 1 # 1
  BY <1>0, <1>1
<1>3a. 1 \in 1 .. Len(f) BY <1>0
<1> HIDE DEF g, u
<1>4. ASSUME NEW i \in 1 .. Len(g), NEW j \in 1 .. Len(g), g[i] = g[j] PROVE i = j
  <2>1. i + 1 = j + 1 BY <1>1, <1>3, <1>4, Zenon DEF Shared
  <2> QED BY <2>1
<1>5. IsFiniteSet(DOMAIN u)
  BY <1>2, FS_AddElement DEF Shared
<1>6. ASSUME NEW y \in DOMAIN u, NEW z \in DOMAIN u, u[y] = u[z] PROVE y = z
  BY <1>2, <1>3a, <1>6 DEF Shared
<1>7. ASSUME NEW i \in 1 .. Len(g), NEW y \in DOMAIN u PROVE g[i] # u[y]
  BY <1>1, <1>2, <1>3, <1>3a DEF Shared
<1>8. O = {g[i] : i \in 1 .. Len(g)} \cup {u[y] : y \in DOMAIN u}
  <2>1. {f[i] : i \in 1 .. Len(f)} = {f[1]} \cup {g[i] : i \in 1 .. Len(g)}
    <3>1. ASSUME NEW i \in 1 .. Len(f) PROVE i = 1 \/ (i - 1 \in 1 .. Len(g) /\ g[i - 1] = f[i])
      BY <1>0, <1>1
    <3>2. ASSUME NEW i \in 1 .. Len(g) PROVE g[i] \in {f[j] : j \in 1 .. Len(f)}
      BY <1>1, <1>3, Zenon
    <3>3. f[1] \in {f[j] : j \in 1 .. Len(f)} BY <1>3a, Zenon
    <3>4. ASSUME NEW i \in 1 .. Len(f) PROVE f[i] \in {f[1]} \cup {g[j] : j \in 1 .. Len(g)}
      BY <3>1, Zenon
    <3> QED BY <3>2, <3>3, <3>4, Zenon
  <2>2. {u[y] : y \in DOMAIN u} = {f[1]} \cup {t[y] : y \in DOMAIN t}
    BY <1>2
  <2>3. O = {f[i] : i \in 1 .. Len(f)} \cup {t[y] : y \in DOMAIN t}
    BY Zenon DEF Shared
  <2> QED BY <2>1, <2>2, <2>3, Zenon
<1>9. Shared(g, u, O)
  BY <1>1, <1>4, <1>5, <1>6, <1>7, <1>8, Zenon DEF Shared
<1> QED BY <1>9, Zenon DEF g, u

\* page_walk() moves pages from the list to the tables.
LEMMA WalkShares ==
    ASSUME NEW w, w = [free |-> w.free, ok |-> w.ok, tabs |-> w.tabs], NEW O,
           Shared(w.free, w.tabs, O), NEW place
    PROVE  LET v == walk(w, place)
           IN  v = [free |-> v.free, ok |-> v.ok, tabs |-> v.tabs] /\ Shared(v.free, v.tabs, O)
<1>1. CASE ~w.ok \/ place \in DOMAIN w.tabs
  BY <1>1, Zenon DEF walk
<1>2. CASE w.ok /\ place \notin DOMAIN w.tabs /\ w.free = <<>>
  <2>1. walk(w, place) = [free |-> w.free, ok |-> FALSE, tabs |-> w.tabs]
    BY <1>2, Zenon DEF walk
  <2> QED BY <2>1
<1>3. CASE w.ok /\ place \notin DOMAIN w.tabs /\ w.free # <<>>
  <2> DEFINE f == Tail(w.free)
             t == Bind(w.tabs, place, Head(w.free))
  <2>1. walk(w, place) = [free |-> f, ok |-> w.ok, tabs |-> t]
    BY <1>3, Zenon DEF walk
  <2>2. Shared(f, t, O)
    BY <1>3, TakePage, Zenon
  <2> HIDE DEF f, t
  <2> QED BY <2>1, <2>2
<1> QED BY <1>1, <1>2, <1>3, Zenon

\* The pages of a list, counted.
LEMMA SharedCount ==
    ASSUME NEW f, NEW t, NEW O, Shared(f, t, O)
    PROVE  /\ Cardinality({f[i] : i \in 1 .. Len(f)}) = Len(f)
           /\ Cardinality({t[x] : x \in DOMAIN t}) = Cardinality(DOMAIN t)
<1> DEFINE D == DOMAIN t
           T == {t[x] : x \in D}
           h == [x \in D |-> t[x]]
           F == {f[i] : i \in 1 .. Len(f)}
<1>1. h \in Bijection(D, T)
  BY Zenon DEF Shared, Bijection, Injection, Surjection, IsInjective
<1>2. Cardinality(T) = Cardinality(D)
  <2>1. IsFiniteSet(D) BY Zenon DEF Shared
  <2>2. ExistsBijection(D, T) BY <1>1, Zenon DEF ExistsBijection
  <2> HIDE DEF D, T
  <2> QED BY <2>1, <2>2, FS_Bijection, Zenon
<1>3. Len(f) \in Nat BY DEF Shared
<1> DEFINE I == 1 .. Len(f)
           e == [i \in I |-> f[i]]
<1>4. e \in Bijection(I, F)
  BY Zenon DEF Shared, Bijection, Injection, Surjection, IsInjective
<1>5. IsFiniteSet(I) /\ Cardinality(I) = Len(f)
  BY <1>3, FS_Interval, SMTT(30)
<1>6. Cardinality(F) = Cardinality(I)
  <2>2. ExistsBijection(I, F) BY <1>4, Zenon DEF ExistsBijection
  <2> HIDE DEF I, F
  <2> QED BY <1>5, <2>2, FS_Bijection, Zenon
<1> QED BY <1>2, <1>5, <1>6, Zenon

\* The list f has the whole pages from s on that end before e, each once.
PagesFrom(f, s, e) ==
    /\ f \in Seq(Nat)
    /\ \A i \in 1 .. Len(f), j \in 1 .. Len(f) : f[i] = f[j] => i = j
    /\ {f[i] : i \in 1 .. Len(f)} = {q \in s .. e : q % PGSIZE = 0 /\ q + PGSIZE < e}

\* create_freepage_list() puts the pages from start to the last one that ends before end on
\* the list.
LEMMA FreeList ==
    ASSUME NEW s \in Nat, s > 0, s % PGSIZE = 0, NEW e \in Nat
    PROVE  PagesFrom(create_freepage_list(s, e), s, e)
<1> DEFINE g == PGSIZE
<1>0. g \in Nat /\ g > 0 /\ s % g = 0 BY BootAssumption
<1> HIDE DEF g
<1>1. ((s - 1) \div g + 1) * g = s
  <2> DEFINE d == s \div g
             c == (s - 1) \div g
  <2>1. d \in Nat /\ s = g * d /\ d > 0 BY <1>0, Z3
  <2>2. c \in Nat /\ g * c <= s - 1 /\ s - 1 < g * (c + 1) BY <1>0, Z3
  <2> HIDE DEF d, c
  <2>3. g * c < g * d /\ g * d <= g * (c + 1) BY <1>0, <2>1, <2>2, Z3
  <2>4. c < d /\ d <= c + 1 BY <1>0, <2>1, <2>2, <2>3, Z3T(30)
  <2>5. d = c + 1 BY <2>1, <2>2, <2>4, SMTT(30)
  <2>6. (c + 1) * g = s BY <1>0, <2>1, <2>2, <2>5, Z3T(30)
  <2> QED BY <2>6, Zenon DEF c
<1> DEFINE n == IF s < e THEN (e - s - 1) \div g ELSE 0
           f == [i \in 1 .. n |-> s + g * (n - i)]
<1>2. create_freepage_list(s, e) = f
  BY <1>1, Zenon DEF create_freepage_list, g
<1>3. n \in Nat /\ \A j \in Nat : j < n <=> s + g * (j + 1) < e
  <2>1. CASE s < e
    <3> DEFINE m == (e - s - 1) \div g
    <3>1. m \in Nat /\ g * m <= e - s - 1 /\ e - s - 1 < g * (m + 1) BY <1>0, <2>1, Z3T(30)
    <3>2. n = m BY <2>1, Zenon
    <3> HIDE DEF m, n
    <3>3. ASSUME NEW j \in Nat PROVE j < m <=> s + g * (j + 1) < e
      <4>0. g * (j + 1) \in Nat /\ g * m \in Nat /\ g * (m + 1) \in Nat BY <1>0, <3>1, Z3T(30)
      <4>1. ASSUME j < m PROVE g * (j + 1) <= g * m
        <5>1. j + 1 <= m BY <3>1, <4>1
        <5> QED BY <1>0, <3>1, <5>1, Z3T(30)
      <4>2. ASSUME m <= j PROVE g * (m + 1) <= g * (j + 1)
        BY <1>0, <3>1, <4>2, Z3T(30)
      <4>3. CASE j < m
        BY <3>1, <4>0, <4>1, <4>3
      <4>4. CASE m <= j
        BY <3>1, <4>0, <4>2, <4>4
      <4> QED BY <3>1, <4>3, <4>4, SMTT(30)
    <3> QED BY <3>1, <3>2, <3>3, Zenon
  <2>2. CASE ~(s < e)
    <3>1. n = 0 BY <2>2, Zenon
    <3>2. ASSUME NEW j \in Nat PROVE ~(s + g * (j + 1) < e)
      <4>1. g * (j + 1) \in Nat BY <1>0, Z3
      <4> QED BY <2>2, <4>1
    <3> QED BY <3>1, <3>2
  <2> QED BY <2>1, <2>2, Zenon
<1> HIDE DEF n
<1>4. \A i \in 1 .. n : n - i \in Nat /\ n - i < n /\ g * (n - i) \in Nat
  <2> SUFFICES ASSUME NEW i \in 1 .. n PROVE n - i \in Nat /\ n - i < n /\ g * (n - i) \in Nat
    BY Zenon
  <2>1. n - i \in Nat /\ n - i < n BY <1>3
  <2>2. ASSUME NEW k \in Nat PROVE g * k \in Nat BY <1>0, Z3
  <2> QED BY <2>1, <2>2, Zenon
<1>5. f \in Seq(Nat) /\ Len(f) = n
  <2>1. \A i \in 1 .. n : s + g * (n - i) \in Nat BY <1>4
  <2> QED BY <1>3, <2>1
<1>6. ASSUME NEW i \in 1 .. n, NEW j \in 1 .. n, f[i] = f[j] PROVE i = j
  <2>1. g * (n - i) = g * (n - j) BY <1>4, <1>6
  <2>2. ASSUME NEW a \in Nat, NEW b \in Nat, g * a = g * b PROVE a = b BY <1>0, <2>2, Z3
  <2>3. n - i = n - j BY <1>4, <2>1, <2>2, Zenon
  <2> QED BY <1>3, <2>3
<1> DEFINE Q == {q \in s .. e : q % g = 0 /\ q + g < e}
<1>7. ASSUME NEW j \in Nat, j < n PROVE s + g * j \in Q
  <2>1. s + g * (j + 1) < e BY <1>3, <1>7, Zenon
  <2> DEFINE d == s \div g
  <2>2. d \in Nat /\ s = g * d BY <1>0, Z3
  <2> HIDE DEF d
  <2>3. g * (j + 1) = g * j + g /\ g * j \in Nat /\ s + g * j = g * (d + j) /\ d + j \in Nat
    BY <1>0, <2>2, Z3
  <2>4. (g * (d + j)) % g = 0 BY <1>0, <2>3, Multiples
  <2> QED BY <1>0, <2>1, <2>3, <2>4
<1>8. ASSUME NEW q \in Q PROVE \E j \in Nat : j < n /\ q = s + g * j
  <2>0. q \in Nat /\ s <= q /\ q % g = 0 /\ q + g < e BY <1>8
  <2> DEFINE d == s \div g
             c == q \div g
  <2>1. d \in Nat /\ s = g * d /\ c \in Nat /\ q = g * c BY <1>0, <2>0, Z3
  <2> HIDE DEF d, c
  <2>2. d <= c BY <1>0, <2>0, <2>1, Z3
  <2> DEFINE j == c - d
  <2>3. j \in Nat /\ c = d + j BY <2>1, <2>2
  <2> HIDE DEF j
  <2>4. q = s + g * j /\ s + g * (j + 1) = q + g
    <3>1. g * (d + j) = g * d + g * j /\ g * (j + 1) = g * j + g /\ g * j \in Nat
      BY <1>0, <2>1, <2>3, Z3
    <3> QED BY <1>0, <2>1, <2>3, <3>1, SMTT(30)
  <2>5. j < n BY <1>3, <2>0, <2>3, <2>4, Zenon
  <2> QED BY <2>3, <2>4, <2>5, Zenon
<1>9. {f[i] : i \in 1 .. n} = Q
  <2>1. ASSUME NEW i \in 1 .. n PROVE f[i] \in Q
    <3> HIDE DEF Q
    <3> QED BY <1>4, <1>7, Zenon
  <2>2. ASSUME NEW q \in Q PROVE q \in {f[i] : i \in 1 .. n}
    <3>1. PICK j \in Nat : j < n /\ q = s + g * j BY <1>8, Zenon
    <3>2. n - j \in 1 .. n /\ n - (n - j) = j BY <1>3, <3>1
    <3>3. f[n - j] = q BY <3>1, <3>2, Zenon
    <3> HIDE DEF f
    <3> QED BY <3>2, <3>3, Zenon
  <2> HIDE DEF f, Q
  <2> QED BY <2>1, <2>2, Zenon
<1> HIDE DEF f
<1> QED BY <1>2, <1>5, <1>6, <1>9 DEF g, PagesFrom

\* From the return of init_dtb() to pmm_init().
Early == {"mepc", "mtvec", "delegate_traps", "sie", "mtimecmp", "mtie", "mret", "pmm_init"}

\* The scan reads what a tree has and is over when init_dtb() returns; before that no timer
\* interrupt can come.
PhaseInv == /\ ScanTypeInv
            /\ pc = "init_dtb" => ~csr.MTIE
            /\ pc # "init_dtb" => query = "over"

\* The scan starts with a tree, before anything else.
LEMMA PhaseInit == Init => PhaseInv
BY ScanTypeInit DEF Init, BootInit, PhaseInv

\* Every step of the scan keeps its types, and no other step of the boot needs them.
LEMMA PhaseNext == PhaseInv /\ [Next]_vars => PhaseInv'
<1> SUFFICES ASSUME PhaseInv, [Next]_vars PROVE PhaseInv'
  BY Zenon
<1>a. ASSUME UNCHANGED scanVars, (pc' # "init_dtb" /\ pc # "init_dtb") \/ UNCHANGED <<pc, csr>>
      PROVE  PhaseInv'
  BY <1>a, Zenon DEF PhaseInv, scanVars, ScanTypeInv, Tokens, Calls, Call, Scans, Cell
<1>1. CASE ScanNext /\ UNCHANGED bootVars
  <2>1. query # "over"
    BY <1>1, Zenon DEF ScanNext, fdt_nop, fdt_prop, fdt_begin_node, fdt_return, query_mem, query_over,
       Scanning
  <2> QED BY <1>1, <2>1, ScanTypeNext, Zenon DEF PhaseInv, bootVars
<1>2. CASE init_dtb
  <2>1. query = "over" /\ query' = query /\ g_mem_size' = g_mem_size /\ pc' = "mepc"
    BY <1>2, Zenon DEF init_dtb, At
  <2> QED BY <2>1, Zenon DEF ScanTypeInv, PhaseInv
<1>3. CASE set_mepc \/ set_mtvec \/ set_sie \/ timerinit_cmp \/ timerinit_enable \/ mret
         \/ enable_paging
  BY <1>3, <1>a, Zenon DEF set_mepc, set_mtvec, set_sie, timerinit_cmp, timerinit_enable, mret,
     enable_paging, At, Kept
<1>4. CASE delegate_traps
  BY <1>4, <1>a, Zenon DEF delegate_traps, At
<1>5. CASE \E l \in Layouts : pmm_init(l)
  <2>1. PICK l \in Layouts : pmm_init(l) BY <1>5, Zenon
  <2>2. /\ query' = query /\ pc = "pmm_init" /\ pc' # "init_dtb"
        /\ g_mem_size' = Min({PKE_MAX_ALLOWABLE_RAM, g_mem_size})
    BY <2>1, Zenon DEF pmm_init
  <2>3. query = "over" /\ g_mem_size \in Nat BY <2>2, Zenon DEF PhaseInv, ScanTypeInv
  <2>4. g_mem_size' \in Nat BY <2>2, <2>3, BootAssumption, MinOfTwo, Zenon
  <2> QED BY <2>2, <2>3, <2>4, Zenon DEF PhaseInv, ScanTypeInv
<1>6. CASE kern_vm_init \/ kern_vm_map
  BY <1>6, <1>a, Zenon DEF kern_vm_init, kern_vm_map
<1>7. CASE tick
  BY <1>7, <1>a, Zenon DEF tick
<1>8. CASE handle_timer
  <2>1. UNCHANGED scanVars BY <1>8, Zenon DEF handle_timer
  <2>2. pc # "init_dtb" /\ (pc' = pc \/ pc' = "lost") BY <1>8, Zenon DEF handle_timer, PhaseInv
  <2> QED BY <1>a, <2>1, <2>2, Zenon
<1>9. CASE \E c \in Exceptions : user_trap(c)
  BY <1>9, <1>a, Zenon DEF user_trap, handle_mtrap, smode_trap_handler
<1>10. CASE soft_interrupt
  BY <1>10, <1>a, Zenon DEF soft_interrupt, handle_mtrap, smode_trap_handler
<1>11. CASE UNCHANGED vars
  BY <1>11, <1>a, Zenon DEF vars, bootVars
<1> QED BY <1>1, <1>2, <1>3, <1>4, <1>5, <1>6, <1>7, <1>8, <1>9, <1>10, <1>11, SMTT(30)
   DEF Next, MStart, SStart

\* The inductive invariant: from init_dtb() to pmm_init() the size of the memory is the one
\* the tree told of; from then on the pages that end before it are on the free list or
\* tables of the kernel.
PagesInv ==
    /\ PhaseInv /\ ram \in Nat
    /\ pc \in Early => ram = g_mem_size
    /\ pc \in Early \cup {"init_dtb", "kern_vm_init"} => kernel = NoTables
    /\ pc \in Managed => layout \in Layouts /\ Shared(free, kernel.tabs, Owned)

\* No page is managed at reset.
LEMMA PagesInit == Init => PagesInv
<1> SUFFICES ASSUME Init PROVE PagesInv BY Zenon
<1>1. PhaseInv BY PhaseInit, Zenon
<1>2. pc = "init_dtb" /\ ram = 0 /\ kernel = NoTables BY SMTT(30) DEF Init, BootInit
<1> QED BY <1>1, <1>2, Zenon DEF PagesInv, Early, Managed

\* Every step of the boot, the timer and the traps keeps the pages: pmm_init() lists them,
\* and page_walk() moves them from the list to the tables.
LEMMA PagesNext == PagesInv /\ [Next]_vars => PagesInv'
<1> SUFFICES ASSUME PagesInv, [Next]_vars PROVE PagesInv'
  BY Zenon
<1>t. PhaseInv /\ PhaseInv' BY PhaseNext, Zenon DEF PagesInv
<1>s. ASSUME UNCHANGED <<layout, ram>> PROVE Owned' = Owned
  BY <1>s, Zenon DEF Owned, RamEnd
<1>a. ASSUME UNCHANGED <<layout, ram, free, kernel>>, pc' = pc \/ pc' \in {"panic", "lost"},
             g_mem_size' = g_mem_size
      PROVE  PagesInv'
  BY <1>a, <1>s, <1>t, Zenon DEF PagesInv, Early, Managed
<1>b. ASSUME NEW u \in Early, NEW v \in Early \cup {"panic", "lost"}, At(u, v),
             UNCHANGED <<ram, g_mem_size>>
      PROVE  PagesInv'
  BY <1>b, <1>t, Zenon DEF PagesInv, Early, Managed, At
<1>1. CASE ScanNext /\ UNCHANGED bootVars
  <2>1. query # "over"
    BY <1>1, Zenon DEF ScanNext, fdt_nop, fdt_prop, fdt_begin_node, fdt_return, query_mem, query_over,
       Scanning
  <2>2. pc = "init_dtb" BY <1>t, <2>1, Zenon DEF PhaseInv
  <2> QED BY <1>1, <1>t, <2>2, Zenon DEF PagesInv, bootVars, Early, Managed
<1>2. CASE init_dtb
  <2>1. /\ pc = "init_dtb" /\ pc' = "mepc" /\ ram' = g_mem_size
        /\ g_mem_size' = g_mem_size /\ kernel' = kernel
    BY <1>2, Zenon DEF init_dtb, At
  <2>2. g_mem_size \in Nat BY <1>t, Zenon DEF PhaseInv, ScanTypeInv
  <2> QED BY <1>t, <2>1, <2>2, Zenon DEF PagesInv, Early, Managed
<1>3. CASE set_mepc
  BY <1>3, <1>b, Zenon DEF set_mepc, Kept, scanVars, Early
<1>4. CASE set_mtvec
  BY <1>4, <1>b, Zenon DEF set_mtvec, Kept, scanVars, Early
<1>5. CASE delegate_traps
  BY <1>5, <1>b, Zenon DEF delegate_traps, scanVars, Early
<1>6. CASE set_sie
  BY <1>6, <1>b, Zenon DEF set_sie, Kept, scanVars, Early
<1>7. CASE timerinit_cmp
  BY <1>7, <1>b, Zenon DEF timerinit_cmp, Kept, scanVars, Early
<1>8. CASE timerinit_enable
  BY <1>8, <1>b, Zenon DEF timerinit_enable, Kept, scanVars, Early
<1>9. CASE mret
  BY <1>9, <1>b, Zenon DEF mret, Kept, scanVars, Early
<1>10. CASE \E l \in Layouts : pmm_init(l)
  <2>1. PICK l \in Layouts : pmm_init(l) BY <1>10, Zenon
  <2> DEFINE size == Min({PKE_MAX_ALLOWABLE_RAM, g_mem_size})
  <2>2. /\ pc = "pmm_init" /\ layout' = l /\ ram' = ram /\ kernel' = kernel
        /\ \/ pc' = "panic"
           \/ pc' = "kern_vm_init" /\ free' = create_freepage_list(l.end, size + DRAM_BASE)
    BY <2>1, Zenon DEF pmm_init
  <2>3. CASE pc' = "panic"
    BY <1>t, <2>2, <2>3, Zenon DEF PagesInv, Early, Managed
  <2>4. CASE pc' = "kern_vm_init" /\ free' = create_freepage_list(l.end, size + DRAM_BASE)
    <3>1. ram = g_mem_size /\ ram \in Nat /\ kernel = NoTables BY <2>2, Zenon DEF PagesInv, Early
    <3>2. size \in Nat /\ RamEnd' = DRAM_BASE + size /\ DRAM_BASE \in Nat
      <4>1. PKE_MAX_ALLOWABLE_RAM \in Nat /\ DRAM_BASE \in Nat BY BootAssumption, Zenon
      <4>2. size \in Nat /\ size = Min({ram, PKE_MAX_ALLOWABLE_RAM})
        BY <3>1, <4>1, MinOfTwo, Zenon
      <4> QED BY <2>2, <4>1, <4>2, Zenon DEF RamEnd
    <3>3. l \in [etext : Nat, end : Nat] /\ l.end % PGSIZE = 0 /\ SELF \in DRAM_BASE .. l.etext - 1
          /\ l.etext <= l.end
      BY BootAssumption, Zenon
    <3>4. l.end \in Nat /\ l.end > 0 BY <3>2, <3>3
    <3> DEFINE e == size + DRAM_BASE
               f == create_freepage_list(l.end, e)
    <3> HIDE DEF size
    <3>5. e \in Nat /\ RamEnd' = e BY <3>2
    <3> HIDE DEF e
    <3>6. /\ f \in Seq(Nat)
          /\ \A i \in 1 .. Len(f), j \in 1 .. Len(f) : f[i] = f[j] => i = j
          /\ {f[i] : i \in 1 .. Len(f)} = {q \in l.end .. e : q % PGSIZE = 0 /\ q + PGSIZE < e}
      <4>1. PICK a : a = l.end BY Zenon
      <4>2. a \in Nat /\ a > 0 /\ a % PGSIZE = 0 BY <3>3, <3>4, <4>1, Zenon
      <4>3. PagesFrom(create_freepage_list(a, e), a, e)
        BY <3>5, <4>2, FreeList, Zenon
      <4> QED BY <4>1, <4>3 DEF PagesFrom
    <3>7. Owned' = {f[i] : i \in 1 .. Len(f)}
      BY <2>2, <3>5, <3>6, Zenon DEF Owned
    <3> HIDE DEF f
    <3>8. kernel'.tabs = <<>> /\ DOMAIN <<>> = {} /\ IsFiniteSet({})
      BY <2>2, <3>1, FS_EmptySet DEF NoTables
    <3>9. Shared(f, <<>>, Owned')
      BY <3>6, <3>7, <3>8, Zenon DEF Shared
    <3>10. Shared(free, kernel.tabs, Owned)'
      <4>1. free' = f BY <2>4, Zenon DEF f, e
      <4> QED BY <3>8, <3>9, <4>1 DEF Shared
    <3> QED BY <1>t, <2>2, <2>4, <3>1, <3>10, SMTT(30) DEF PagesInv, Early, Managed
  <2> QED BY <2>2, <2>3, <2>4, Zenon
<1>11. CASE kern_vm_init
  <2>1. pc = "kern_vm_init" /\ UNCHANGED <<layout, ram, g_mem_size>>
    BY <1>11, Zenon DEF kern_vm_init, scanVars
  <2>2. CASE pc' = "panic"
    BY <1>t, <2>1, <2>2, Zenon DEF PagesInv, Early, Managed
  <2>3. CASE pc' # "panic"
    <3>1. /\ free # <<>> /\ free' = Tail(free) /\ kernel'.tabs = Bind(<<>>, <<2, 0>>, Head(free))
          /\ pc' = "kern_vm_map"
      BY <1>11, <2>3 DEF kern_vm_init
    <3>2. kernel.tabs = <<>> /\ Shared(free, <<>>, Owned) /\ layout \in Layouts /\ ram \in Nat
      BY <2>1 DEF PagesInv, Managed, NoTables
    <3>3. Shared(Tail(free), Bind(<<>>, <<2, 0>>, Head(free)), Owned)
      <4>1. PICK t : t = <<>> BY Zenon
      <4>2. PICK x : x = <<2, 0>> BY ZenonT(60)
      <4>3. x \notin DOMAIN t BY <4>1
      <4>4. Shared(free, t, Owned) BY <3>2, <4>1, Zenon
      <4>5. Shared(Tail(free), Bind(t, x, Head(free)), Owned)
        BY <3>1, <4>3, <4>4, TakePage, Zenon
      <4> QED BY <4>1, <4>2, <4>5, Zenon
    <3>4. Shared(free, kernel.tabs, Owned)'
      BY <1>s, <2>1, <3>1, <3>3, SMTT(30) DEF Shared
    <3> QED BY <1>t, <2>1, <3>1, <3>2, <3>4, Zenon DEF PagesInv, Early, Managed
  <2> QED BY <2>2, <2>3, Zenon
<1>12. CASE kern_vm_map
  <2> DEFINE w0 == [free |-> free, ok |-> TRUE, tabs |-> kernel.tabs]
             w == page_walk(w0, next_va)
  <2>1. /\ pc = "kern_vm_map" /\ UNCHANGED <<layout, ram, g_mem_size>> /\ free' = w.free
        /\ \/ pc' = "panic"
           \/ kernel'.tabs = w.tabs /\ pc' \in {"enable_paging", "kern_vm_map"}
    BY <1>12 DEF kern_vm_map, scanVars
  <2>2. Shared(free, kernel.tabs, Owned) /\ layout \in Layouts /\ ram \in Nat
    BY <2>1, Zenon DEF PagesInv, Managed
  <2>3. Shared(w.free, w.tabs, Owned)
    <3>1. PICK p1 : p1 = <<1, next_va \div (PGSIZE * FAN * FAN)>> BY Zenon
    <3>2. PICK p0 : p0 = <<0, next_va \div (PGSIZE * FAN)>> BY Zenon
    <3> DEFINE w1 == walk(w0, p1)
    <3>3. w = walk(w1, p0) BY <3>1, <3>2, Zenon DEF page_walk
    <3>4. w0 = [free |-> w0.free, ok |-> w0.ok, tabs |-> w0.tabs] /\ Shared(w0.free, w0.tabs, Owned)
      BY <2>2, Zenon
    <3> HIDE DEF w0
    <3>5. w1 = [free |-> w1.free, ok |-> w1.ok, tabs |-> w1.tabs] /\ Shared(w1.free, w1.tabs, Owned)
      BY <3>4, WalkShares, Zenon
    <3> HIDE DEF w1
    <3> QED BY <3>3, <3>5, WalkShares, Zenon
  <2> HIDE DEF w
  <2>4. CASE pc' = "panic"
    BY <1>t, <2>1, <2>2, <2>4, Zenon DEF PagesInv, Early, Managed
  <2>5. CASE pc' # "panic"
    <3>1. Shared(free, kernel.tabs, Owned)'
      BY <1>s, <2>1, <2>3, <2>5 DEF Shared
    <3> QED BY <1>t, <2>1, <2>2, <2>5, <3>1, SMTT(30) DEF PagesInv, Early, Managed
  <2> QED BY <2>4, <2>5, Zenon
<1>13. CASE enable_paging
  <2>1. pc = "enable_paging" /\ pc' = "user" /\ UNCHANGED <<layout, ram, free, kernel>>
    BY <1>13, Zenon DEF enable_paging, At, Kept
  <2> QED BY <1>s, <1>t, <2>1, Zenon DEF PagesInv, Early, Managed
<1>14. CASE tick
  BY <1>14, <1>a, Zenon DEF tick, scanVars
<1>15. CASE handle_timer
  BY <1>15, <1>a, Zenon DEF handle_timer, scanVars
<1>16. CASE \E c \in Exceptions : user_trap(c)
  BY <1>16, <1>a, Zenon DEF user_trap, handle_mtrap, smode_trap_handler, scanVars
<1>17. CASE soft_interrupt
  BY <1>17, <1>a, Zenon DEF soft_interrupt, handle_mtrap, smode_trap_handler, scanVars
<1>18. CASE UNCHANGED vars
  BY <1>18, <1>a, Zenon DEF vars, bootVars, scanVars
<1> QED
  BY <1>1, <1>2, <1>3, <1>4, <1>5, <1>6, <1>7, <1>8, <1>9, <1>10, <1>11, <1>12, <1>13, <1>14,
     <1>15, <1>16, <1>17, <1>18, Zenon DEF Next, MStart, SStart

\* Pages that are each on the list or a table, and there once, are what the kernel needs.
LEMMA PagesUsable == PagesInv => FreePagesUsable
<1> SUFFICES ASSUME PagesInv, pc \in Managed
    PROVE  /\ Free \cap Tables = {} /\ Tables \cup Free \subseteq Usable
           /\ Cardinality(Free) = Len(free) /\ Cardinality(Tables) = Cardinality(DOMAIN kernel.tabs)
           /\ Cardinality(Usable \ (Free \cup Tables)) <= 1
  BY Zenon DEF FreePagesUsable
<1>1. Shared(free, kernel.tabs, Owned) /\ layout \in Layouts /\ ram \in Nat
  BY Zenon DEF PagesInv
<1>2. Free = {free[i] : i \in 1 .. Len(free)}
  BY <1>1 DEF Free, Range, Shared
<1>3. Tables = {kernel.tabs[x] : x \in DOMAIN kernel.tabs} BY Zenon DEF Tables
<1>4. Cardinality(Free) = Len(free) /\ Cardinality(Tables) = Cardinality(DOMAIN kernel.tabs)
  BY <1>1, <1>2, <1>3, SharedCount, Zenon
<1>5. Free \cap Tables = {}
  BY <1>1, <1>2, <1>3, Zenon DEF Shared
<1>6. Tables \cup Free = Owned
  BY <1>1, <1>2, <1>3, Zenon DEF Shared
<1>7. RamEnd \in Nat /\ layout.end \in Nat /\ PGSIZE \in Nat \ {0}
  <2>1. PKE_MAX_ALLOWABLE_RAM \in Nat /\ DRAM_BASE \in Nat /\ PGSIZE \in Nat \ {0}
        /\ layout \in [etext : Nat, end : Nat]
    BY <1>1, BootAssumption, Zenon
  <2>2. Min({ram, PKE_MAX_ALLOWABLE_RAM}) \in Nat BY <1>1, <2>1, MinOfTwo, Zenon
  <2> QED BY <2>1, <2>2 DEF RamEnd
<1>8. Owned \subseteq Usable
  BY <1>7 DEF Owned, Usable
<1>9. Usable \ Owned \subseteq {RamEnd - PGSIZE}
  BY <1>7 DEF Owned, Usable
<1>10. Cardinality(Usable \ Owned) <= 1
  <2> DEFINE x == RamEnd - PGSIZE
             V == Usable \ Owned
  <2>1. IsFiniteSet({x}) /\ Cardinality({x}) = 1 BY FS_Singleton, Zenon
  <2>2. V \in SUBSET {x} BY <1>9, Zenon
  <2> HIDE DEF x, V
  <2>3. Cardinality(V) <= Cardinality({x}) BY <2>1, <2>2, FS_Subset, Zenon
  <2> QED BY <2>1, <2>3, Zenon DEF V
<1> QED BY <1>4, <1>5, <1>6, <1>8, <1>10, Zenon

\* After pmm_init() the free list and the kernel's tables are the usable memory, no page lost
\* but the last and none in two places, for every tree, layout, page and memory size.
THEOREM PagesAreMemory == Spec => []FreePagesUsable
<1>1. PagesInv => FreePagesUsable BY PagesUsable, Zenon
<1> QED BY <1>1, PagesInit, PagesNext, PTL DEF Spec
=============================================================================
