----------------------------- MODULE PageProofs -----------------------------
(***************************************************************************)
(* Proofs, for every number of pages, of processes and of naive_malloc     *)
(* calls, that the memory of PKE hands out no page twice and loses none    *)
(* while it has a free one.  The inductive invariant is that some role map *)
(* of MemoryProofs fits the whole memory.                                  *)
(***************************************************************************)
EXTENDS MemoryProofs

\* The role map r agrees with the whole memory: the free list f and, of each process, the
\* kernel pages, the tables and the mappings.
Roled(r) ==
    \A x \in Pages :
      \/ r[x] \in {Free, None}
      \/ \E p \in Procs : Place(p, r[x]) \/ \E i \in 1 .. 4 : r[x] = Own(p, i)
Fit(f, o, a, b, r) ==
    /\ Roled(r)
    /\ Listed(f, r)
    /\ \A p \in Procs : Owned(o[p], p, r) /\ Tabled(a[p], p, r) /\ Mapped(b[p], p, r)

\* What a careful application holds is mapped.
HeldValid ==
    machine \in {"boot", "run"} => \A p \in Procs : \A va \in held[p] : pt[p][va].v

\* The inductive invariant: some role map fits the memory.  It needs HeldValid, as flipping
\* PTE_V of a PTE that is not valid would put its page on the list a second time.
ExclInv == CAREFUL /\ SpaceInv /\ HeldValid /\ \E r : Fit(free, own, tab, pt, r)

\* A step from the roles r, after which some role map fits, and no page has lost its
\* role unless the free list is empty.
Kept(r) ==
    \E s : /\ Fit(free', own', tab', pt', s)
           /\ Dropped(s) \subseteq Dropped(r) \/ free' = <<>>

\* A process not concerned keeps its pages.
LEMMA OthersKeep ==
    ASSUME NEW c \in Procs, NEW r, NEW s, Births(c, r, s)
    PROVE  /\ \A q, x : q # c /\ x \in Pages =>
                \A i : /\ s[x] = Own(q, i) <=> r[x] = Own(q, i)
                       /\ s[x] = Tab(q, i) <=> r[x] = Tab(q, i)
                       /\ s[x] = Map(q, i) <=> r[x] = Map(q, i)
           /\ Roled(r) => Roled(s)
<1>1. ASSUME NEW q, NEW x \in Pages, q # c, NEW i
      PROVE  /\ s[x] = Own(q, i) <=> r[x] = Own(q, i)
             /\ s[x] = Tab(q, i) <=> r[x] = Tab(q, i)
             /\ s[x] = Map(q, i) <=> r[x] = Map(q, i)
  <2>1. CASE s[x] = r[x]
    BY <2>1, Zenon
  <2>2. CASE /\ r[x] \in {Free, None}
             /\ s[x] = None \/ Place(c, s[x]) \/ \E j \in 1 .. 4 : s[x] = Own(c, j)
    <3>1. r[x] # Own(q, i) /\ r[x] # Tab(q, i) /\ r[x] # Map(q, i)
      BY <2>2, RoleFacts, Zenon
    <3>2. s[x] # Own(q, i) /\ s[x] # Tab(q, i) /\ s[x] # Map(q, i)
      BY <1>1, <2>2, RoleFacts, PlaceFacts
    <3> QED
      BY <3>1, <3>2, Zenon
  <2> QED
    BY <2>1, <2>2, Zenon DEF Births
<1>2. Roled(r) => Roled(s)
  BY Zenon DEF Births, Roled
<1> QED
  BY <1>1, <1>2, Zenon

\* The space of a process is committed.
LEMMA CommitFit ==
    ASSUME TypeOK, NEW c \in Procs, NEW r, Fit(free, own, tab, pt, r), NEW s, Births(c, r, s),
           NEW k, Commit(c, k), Fits(k, c, s),
           NEW o, own' = [own EXCEPT ![c] = o], Owned(o, c, s)
    PROVE  Fit(free', own', tab', pt', s)
<1>1. /\ free' = k.free /\ own'[c] = o /\ tab'[c] = k.tab /\ pt'[c] = k.pt
      /\ \A q \in Procs : q # c => own'[q] = own[q] /\ tab'[q] = tab[q] /\ pt'[q] = pt[q]
  BY Zenon DEF Commit, TypeOK
<1>2. Listed(free', s)
  BY <1>1, Zenon DEF Fits
<1>3. Owned(own'[c], c, s) /\ Tabled(tab'[c], c, s) /\ Mapped(pt'[c], c, s)
  BY <1>1, Zenon DEF Fits
<1>4. ASSUME NEW q \in Procs, q # c
      PROVE  Owned(own'[q], q, s) /\ Tabled(tab'[q], q, s) /\ Mapped(pt'[q], q, s)
  <2>1. Owned(own[q], q, r) /\ Tabled(tab[q], q, r) /\ Mapped(pt[q], q, r)
    BY Zenon DEF Fit
  <2>0. \A x \in Pages : \A i : /\ s[x] = Own(q, i) <=> r[x] = Own(q, i)
                                /\ s[x] = Tab(q, i) <=> r[x] = Tab(q, i)
                                /\ s[x] = Map(q, i) <=> r[x] = Map(q, i)
    BY <1>4, OthersKeep
  <2>2. Owned(own[q], q, s)
    BY <2>0, <2>1 DEF Owned
  <2>3. Tabled(tab[q], q, s)
    BY <2>0, <2>1, Zenon DEF Tabled
  <2>4. Mapped(pt[q], q, s)
    BY <2>0, <2>1 DEF Mapped
  <2> QED
    BY <1>1, <1>4, <2>2, <2>3, <2>4, Zenon
<1>5. Roled(s)
  BY OthersKeep, Zenon DEF Fit
<1> QED
  BY <1>2, <1>3, <1>4, <1>5, Zenon DEF Fit

\* A process structure not in use has no page.
LEMMA FreeVacant ==
    ASSUME FreeIsEmpty, NEW c \in Procs, status[c] = FREE, NEW r, Fit(free, own, tab, pt, r)
    PROVE  Vacant(c, r)
<1>1. Owned(own[c], c, r) /\ Tabled(tab[c], c, r) /\ Mapped(pt[c], c, r)
  BY Zenon DEF Fit
<1>2. own[c] = <<>> /\ tab[c] = [t \in Tables |-> 0] /\ pt[c] = [va \in VAs |-> NoPte]
  BY Zenon DEF FreeIsEmpty
<1>3. ASSUME NEW x \in Pages
      PROVE  ~Place(c, r[x]) /\ \A i \in 1 .. 4 : r[x] # Own(c, i)
  <2>1. \A i \in 1 .. 4 : r[x] # Own(c, i)
    BY <1>1, <1>2 DEF Owned
  <2>2. \A t \in Tables : r[x] # Tab(c, t)
    BY <1>1, <1>2 DEF Tabled, Pages
  <2>3. \A va \in VAs : r[x] # Map(c, va)
    BY <1>1, <1>2, PteFacts DEF Mapped
  <2> QED
    BY <2>1, <2>2, <2>3, Zenon DEF Place
<1> QED
  BY <1>3, Zenon DEF Vacant

\* A process is created.
LEMMA CreateKept ==
    ASSUME TypeOK, NEW c \in Procs, NEW r, Fit(free, own, tab, pt, r), NEW k, Going(k),
           Born(c, free, r, k), Commit(c, k), own' = [own EXCEPT ![c] = KernelPages(free)]
    PROVE  Kept(r)
<1>1. PICK s : /\ Fits(k, c, s) /\ Births(c, r, s) /\ Owned(KernelPages(free), c, s)
               /\ k.fate = "ok" => Dropped(s) \subseteq Dropped(r)
  BY Zenon DEF Born
<1>2. Fit(free', own', tab', pt', s)
  BY <1>1, CommitFit, Zenon
<1>3. Dropped(s) \subseteq Dropped(r) \/ free' = <<>>
  BY <1>1, Zenon DEF Going, Commit
<1> QED
  BY <1>2, <1>3, Zenon DEF Kept

\* A page is taken and mapped.
LEMMA TouchKept ==
    ASSUME SpaceInv, NEW p \in Procs, NEW r, Fit(free, own, tab, pt, r), NEW va \in VAs,
           ~pt[p][va].v, Counted(p, va), NEW n, NEW w \in BOOLEAN,
           NEW k \in Spaces, k.free = AfterAlloc(free), k.tab = tab[p], k.pt = pt[p], k.fate = "ok",
           \/ n = map_pages(k, va, alloc_page(free), w)
           \/ n = user_vm_map(k, va, alloc_page(free), w),
           n.fate = "ok" \/ n.free = <<>>,
           Commit(p, n), own' = own
    PROVE  Kept(r)
<1> DEFINE m == Space(p)
<1>2. m \in Spaces /\ m.free = free /\ m.tab = tab[p] /\ m.pt = pt[p]
  <2>1. free \in Seq(Pages) /\ tab[p] \in [Tables -> 0 .. PAGES] /\ pt[p] \in [VAs -> PTEs]
    BY Zenon DEF SpaceInv, TypeOK
  <2>2. "ok" \in Fates
    BY Zenon DEF Fates
  <2>3. m = [free |-> free, tab |-> tab[p], pt |-> pt[p], fate |-> "ok"]
    BY Zenon DEF Space
  <2>4. [free |-> free, tab |-> tab[p], pt |-> pt[p], fate |-> "ok"] \in Spaces
    BY <2>1, <2>2, MakeSpace, SMTT(30)
  <2> QED
    BY <2>3, <2>4
<1> HIDE DEF m
<1>3. Fits(m, p, r) /\ Owned(own[p], p, r)
  BY <1>2, Zenon DEF Fit, Fits
<1>4. \/ n = map_pages(k, va, alloc_page(m.free), w)
      \/ n = user_vm_map(k, va, alloc_page(m.free), w)
  BY <1>2, Zenon
<1>5. PICK s : /\ Fits(n, p, s) /\ Moves(p, r, s)
               /\ n.fate = "ok" => Dropped(s) \subseteq Dropped(r)
  <2>1. /\ k.free = AfterAlloc(m.free) /\ k.tab = m.tab /\ k.pt = m.pt /\ ~m.pt[va].v
    BY <1>2, Zenon
  <2> QED
    BY <1>2, <1>3, <1>4, <2>1, TakeMapRoles
<1>6. Births(p, r, s) /\ Owned(own[p], p, s)
  <2>1. Births(p, r, r)
    BY Zenon DEF Births
  <2> QED
    BY <1>3, <1>5, <2>1, BornMoves, Zenon
<1>7. own' = [own EXCEPT ![p] = own[p]]
  BY Zenon DEF SpaceInv, TypeOK
<1>8. Fit(free', own', tab', pt', s)
  BY <1>5, <1>6, <1>7, CommitFit, Zenon DEF SpaceInv
<1>9. Dropped(s) \subseteq Dropped(r) \/ free' = <<>>
  BY <1>5, Zenon DEF Commit
<1> QED
  BY <1>8, <1>9, Zenon DEF Kept

\* What a heap address of naive_malloc or a fault maps is counted.
LEMMA StoreCounted ==
    ASSUME NEW p, NEW va \in StoreVAs
    PROVE  Counted(p, va)
<1>1. va # CTX /\ va # CODE
  BY Distinct, Addresses, Zenon DEF StoreVAs, CODE, DATA, BELOW, CTX
<1> QED
  BY <1>1, Zenon DEF Counted

\* What is held is a virtual page.
LEMMA HeldVAs ==
    ASSUME SpaceInv, NEW p \in Procs
    PROVE  held[p] \subseteq VAs
<1>1. {HeapVa(i) : i \in 1 .. issued} \subseteq VAs
  BY MemoryAssumption, Addresses DEF SpaceInv, TypeOK
<1> QED
  BY <1>1, Zenon DEF SpaceInv, TypeOK

\* naive_malloc: a free page becomes the page at the new address.
LEMMA MallocKept ==
    ASSUME SpaceInv, NEW p \in Procs, sys_user_allocate_page(p), NEW r, Fit(free, own, tab, pt, r)
    PROVE  Kept(r) /\ (HeldValid => HeldValid')
<1> DEFINE va == HeapVa(issued + 1)
           k == [Space(p) EXCEPT !.free = AfterAlloc(free)]
           w == TRUE
           n == user_vm_map(k, va, alloc_page(free), w)
<1>1. /\ Running(p) /\ Commit(p, n) /\ own' = own
      /\ held' = [held EXCEPT ![p] = @ \cup {va}] /\ w \in BOOLEAN
  BY Zenon DEF sys_user_allocate_page
<1>2. issued + 1 \in 1 .. HEAP /\ issued + 1 > issued
  BY MemoryAssumption DEF SpaceInv, TypeOK, sys_user_allocate_page
<1>3. va \in HeapVAs /\ va \in StoreVAs /\ va \in VAs
  BY <1>2, Addresses, Zenon DEF StoreVAs
<1>4. ~pt[p][va].v
  BY <1>2, PteFacts, Zenon DEF SpaceInv, Unissued
<1>5. Counted(p, va)
  BY <1>3, StoreCounted, Zenon
<1> HIDE DEF k, va, w
<1>6. /\ k \in Spaces /\ k.free = AfterAlloc(free) /\ k.tab = tab[p] /\ k.pt = pt[p] /\ k.fate = "ok"
      /\ alloc_page(free) \in 0 .. PAGES + 2
  BY Taken, Zenon DEF SpaceInv, k
<1>7. ~k.pt[va].v
  BY <1>4, <1>6, Zenon
<1>8. \/ n.fate = "ok" /\ n.pt = [k.pt EXCEPT ![va] = Pte(alloc_page(free), w)]
      \/ n.fate = "oom_panic" /\ n.free = <<>> /\ n.pt = k.pt
  BY <1>1, <1>3, <1>6, <1>7, UserMapFacts, Zenon
<1>9. Kept(r)
  <2>1. n.fate = "ok" \/ n.free = <<>>
    BY <1>8, Zenon
  <2>2. n = user_vm_map(k, va, alloc_page(free), w)
    BY Zenon
  <2> HIDE DEF n
  <2> QED
    BY <1>1, <1>3, <1>4, <1>5, <1>6, <2>1, <2>2, TouchKept, Zenon
<1> HIDE DEF n
<1>10. ASSUME HeldValid, machine' \in {"boot", "run"}, NEW q \in Procs, NEW u \in held'[q]
       PROVE  pt'[q][u].v
  <2>1. pt \in [Procs -> [VAs -> PTEs]] /\ held \in [Procs -> SUBSET VAs] /\ machine = "run"
    <3>1. {HeapVa(i) : i \in 1 .. issued} \subseteq VAs
      BY MemoryAssumption, Addresses DEF SpaceInv, TypeOK
    <3> QED
      BY <1>1, <3>1, Zenon DEF SpaceInv, TypeOK, Running
  <2>2. n.pt = [pt[p] EXCEPT ![va] = Pte(alloc_page(free), w)]
    BY <1>1, <1>6, <1>8, <1>10, Zenon DEF Commit
  <2>3. pt' = [pt EXCEPT ![p] = n.pt]
    BY <1>1, Zenon DEF Commit
  <2>4. CASE q = p /\ u = va
    BY <1>3, <2>1, <2>2, <2>3, <2>4, PteFacts
  <2>5. CASE ~(q = p /\ u = va)
    <3>1. u \in held[q] /\ u \in VAs
      BY <1>1, <2>1, <2>5, Zenon
    <3>2. pt'[q][u] = pt[q][u]
      BY <1>3, <2>1, <2>2, <2>3, <2>5, <3>1, Zenon
    <3> QED
      BY <1>10, <2>1, <3>1, <3>2, Zenon DEF HeldValid
  <2> QED
    BY <2>4, <2>5, Zenon
<1> QED
  BY <1>9, <1>10, Zenon DEF HeldValid

\* The store page fault, also when map_pages fails and the page taken is lost.
LEMMA FaultKept ==
    ASSUME SpaceInv, NEW p \in Procs, NEW va, handle_user_page_fault(p, va),
           NEW r, Fit(free, own, tab, pt, r)
    PROVE  Kept(r) /\ (HeldValid => HeldValid')
<1> DEFINE k == [Space(p) EXCEPT !.free = AfterAlloc(free)]
           w == TRUE
           n == map_pages(k, va, alloc_page(free), w)
<1>1. /\ Running(p) /\ va \in StoreTargets /\ ~UserWritable(p, va) /\ Commit(p, n)
      /\ UNCHANGED <<own, held>> /\ w \in BOOLEAN
  BY Zenon DEF handle_user_page_fault
<1>2. issued \in Nat /\ issued <= HEAP
  BY MemoryAssumption DEF SpaceInv, TypeOK
<1>3. va \in StoreVAs /\ va \in VAs
  BY <1>1, <1>2, MemoryAssumption, Distinct, Addresses DEF StoreTargets, StoreVAs
<1>4. ~pt[p][va].v
  BY <1>1, <1>3, Zenon DEF SpaceInv, StoreFlags, UserWritable
<1>5. Counted(p, va)
  BY <1>3, StoreCounted, Zenon
<1> HIDE DEF k, w
<1>6. /\ k \in Spaces /\ k.free = AfterAlloc(free) /\ k.tab = tab[p] /\ k.pt = pt[p] /\ k.fate = "ok"
      /\ alloc_page(free) \in 0 .. PAGES + 2
  BY Taken, Zenon DEF SpaceInv, k
<1>7. ~k.pt[va].v
  BY <1>4, <1>6, Zenon
<1>8. \/ n.fate = "ok" /\ n.pt = [k.pt EXCEPT ![va] = Pte(alloc_page(free), w)]
      \/ n.fate = "failed" /\ n.free = <<>> /\ n.pt = k.pt
  BY <1>1, <1>3, <1>6, <1>7, MapFacts, Zenon
<1>9. Kept(r)
  <2>1. n.fate = "ok" \/ n.free = <<>>
    BY <1>8, Zenon
  <2>2. n = map_pages(k, va, alloc_page(free), w)
    BY Zenon
  <2> HIDE DEF n
  <2> QED
    BY <1>1, <1>3, <1>4, <1>5, <1>6, <2>1, <2>2, TouchKept, Zenon
<1> HIDE DEF n
<1>10. ASSUME HeldValid, NEW q \in Procs, NEW u \in held[q]
       PROVE  pt'[q][u].v
  <2>1. pt \in [Procs -> [VAs -> PTEs]] /\ machine = "run" /\ u \in VAs
    <3>1. {HeapVa(i) : i \in 1 .. issued} \subseteq VAs
      BY <1>2, MemoryAssumption, Addresses
    <3> QED
      BY <1>1, <3>1, Zenon DEF SpaceInv, TypeOK, Running
  <2>2. n.pt = pt[p] \/ n.pt = [pt[p] EXCEPT ![va] = Pte(alloc_page(free), w)]
    BY <1>6, <1>8, Zenon
  <2>3. pt' = [pt EXCEPT ![p] = n.pt]
    BY <1>1, Zenon DEF Commit
  <2>4. pt'[q][u] = pt[q][u] \/ pt'[q][u] = Pte(alloc_page(free), w)
    BY <1>3, <2>1, <2>2, <2>3, Zenon
  <2> QED
    BY <1>10, <2>1, <2>4, PteFacts DEF HeldValid
<1> QED
  BY <1>1, <1>9, <1>10, Zenon DEF HeldValid

\* naive_free of an address that is held: the page goes from the process to the list.
LEMMA FreeKept ==
    ASSUME SpaceInv, HeldValid, CAREFUL, NEW p \in Procs, NEW va \in HeapVAs,
           sys_user_free_page(p, va), NEW r, Fit(free, own, tab, pt, r)
    PROVE  Kept(r) /\ HeldValid'
<1>t. /\ pt \in [Procs -> [VAs -> PTEs]] /\ free \in Seq(Pages) /\ tab' = tab /\ own' = own
      /\ machine = "run" /\ va \in held[p] /\ held' = [held EXCEPT ![p] = @ \ {va}]
      /\ va \in VAs /\ Counted(p, va) /\ pt[p][va] \in PTEs
  <2>1. va \in VAs /\ va \in StoreVAs
    BY Addresses, Zenon DEF StoreVAs
  <2> QED
    BY <2>1, StoreCounted DEF SpaceInv, TypeOK, sys_user_free_page, Running, MayFree
<1>1. CASE free' = free /\ pt' = pt /\ machine' \in {"crash", "free_panic"}
  BY <1>1, <1>t, Zenon DEF Kept, HeldValid
<1>2. CASE /\ pt[p][va].pa \in Pages
           /\ free' = free_page(free, pt[p][va].pa)
           /\ pt' = [pt EXCEPT ![p][va] = Invalidated(@)]
           /\ machine' = machine
  <2> DEFINE pa == pt[p][va].pa
             s == [x \in Pages |-> IF x = pa THEN Free ELSE r[x]]
  <2>1. pt[p][va].v
    BY <1>t, Zenon DEF HeldValid
  <2>2. r[pa] = Map(p, va)
    BY <1>2, <1>t, <2>1 DEF Fit, Mapped
  <2>3. /\ \A q \in Procs, u \in VAs : q # p \/ u # va => pt'[q][u] = pt[q][u]
        /\ ~pt'[p][va].v
    <3>1. ~Invalidated(pt[p][va]).v
      BY <1>t, <2>1, Zenon DEF Invalidated, PTEs
    <3>2. pt' = [pt EXCEPT ![p] = [pt[p] EXCEPT ![va] = Invalidated(pt[p][va])]]
      BY <1>2, Zenon
    <3>3. pt'[p][va] = Invalidated(pt[p][va])
      BY <1>t, <3>2, Zenon
    <3>4. \A q \in Procs, u \in VAs : q # p \/ u # va => pt'[q][u] = pt[q][u]
      BY <1>t, <3>2, Zenon
    <3> QED
      BY <3>1, <3>3, <3>4, Zenon
  <2>4. s[pa] = Free /\ \A x \in Pages : x # pa => s[x] = r[x]
    BY <1>2, Zenon
  <2>p. pa \in Pages /\ free' = <<pa>> \o free
    BY <1>2, Zenon DEF free_page
  <2> HIDE DEF s, pa
  <2>v. \A q \in Procs, u \in VAs : (q # p \/ u # va) /\ Counted(q, u) /\ pt[q][u].v => pt[q][u].pa # pa
    <3> SUFFICES ASSUME NEW q \in Procs, NEW u \in VAs, Counted(q, u), pt[q][u].v, pt[q][u].pa = pa
                 PROVE  q = p /\ u = va
      BY Zenon
    <3>1. r[pa] = Map(q, u)
      BY <2>p DEF Fit, Mapped
    <3>2. Map(p, va) = Map(q, u)
      BY <2>2, <3>1, Zenon
    <3> QED
      BY <3>2, Zenon DEF Map
  <2>5. Listed(free', s)
    <3>0. Listed(free, r)
      BY Zenon DEF Fit
    <3>1. /\ DOMAIN free' = 1 .. Len(free) + 1 /\ DOMAIN free = 1 .. Len(free) /\ Len(free) \in Nat
          /\ free'[1] = pa /\ \A i \in 1 .. Len(free) : free'[i + 1] = free[i]
      BY <1>t, <2>p
    <3>2. \A i \in DOMAIN free : free[i] \in Pages /\ free[i] # pa
      <4>1. r[pa] # Free
        BY <2>2, RoleFacts, Zenon
      <4> QED
        BY <1>t, <2>p, <3>0, <4>1 DEF Listed
    <3>3. ASSUME NEW x \in Pages PROVE s[x] = Free <=> \E i \in DOMAIN free' : free'[i] = x
      <4>1. CASE x = pa
        BY <2>4, <3>1, <4>1
      <4>2. CASE x # pa
        <5>1. s[x] = Free <=> \E i \in DOMAIN free : free[i] = x
          BY <2>4, <3>0, <4>2, Zenon DEF Listed
        <5>2. ASSUME NEW i \in DOMAIN free, free[i] = x PROVE \E j \in DOMAIN free' : free'[j] = x
          <6>1. i + 1 \in DOMAIN free' /\ free'[i + 1] = x
            BY <3>1, <5>2
          <6> QED
            BY <6>1, Zenon
        <5>3. ASSUME NEW j \in DOMAIN free', free'[j] = x PROVE \E i \in DOMAIN free : free[i] = x
          <6>1. j # 1
            BY <3>1, <4>2, <5>3, Zenon
          <6>2. j - 1 \in DOMAIN free /\ free'[j - 1 + 1] = free[j - 1] /\ j - 1 + 1 = j
            BY <3>1, <5>3, <6>1
          <6> QED
            BY <5>3, <6>2, Zenon
        <5> QED
          BY <5>1, <5>2, <5>3, Zenon
      <4> QED
        BY <4>1, <4>2, Zenon
    <3>4. ASSUME NEW i \in DOMAIN free', NEW j \in DOMAIN free', free'[i] = free'[j] PROVE i = j
      <4>1. \A a \in DOMAIN free' : a = 1 \/ (a - 1 \in DOMAIN free /\ free'[a] = free[a - 1])
        <5> TAKE a \in DOMAIN free'
        <5>1. CASE a # 1
          <6>1. a - 1 \in 1 .. Len(free) /\ a - 1 + 1 = a
            BY <3>1, <5>1
          <6> QED
            BY <3>1, <6>1, Zenon
        <5> QED
          BY <5>1, Zenon
      <4>2. CASE i = 1 \/ j = 1
        BY <3>1, <3>2, <3>4, <4>1, <4>2, Zenon
      <4>3. CASE i # 1 /\ j # 1
        <5>1. i - 1 = j - 1
          BY <3>0, <3>4, <4>1, <4>3, SMTT(30) DEF Listed
        <5> QED
          BY <3>1, <5>1
      <4> QED
        BY <4>2, <4>3, Zenon
    <3> QED
      BY <3>3, <3>4, Zenon DEF Listed
  <2>6. ASSUME NEW q \in Procs
        PROVE  Owned(own'[q], q, s) /\ Tabled(tab'[q], q, s) /\ Mapped(pt'[q], q, s)
    <3>0. Owned(own[q], q, r) /\ Tabled(tab[q], q, r) /\ Mapped(pt[q], q, r)
      BY Zenon DEF Fit
    <3>1. Owned(own[q], q, s)
      <4>1. \A x \in Pages, i \in 1 .. 4 : s[x] = Own(q, i) <=> r[x] = Own(q, i)
        BY <2>2, <2>4, RoleFacts, SMTT(30)
      <4> QED
        BY <3>0, <4>1 DEF Owned
    <3>2. Tabled(tab[q], q, s)
      <4>1. \A x \in Pages, t \in Tables : s[x] = Tab(q, t) <=> r[x] = Tab(q, t)
        BY <2>2, <2>4, RoleFacts
      <4> QED
        BY <3>0, <4>1 DEF Tabled
    <3>3. ASSUME NEW x \in Pages, NEW u \in VAs
          PROVE  s[x] = Map(q, u) <=> Counted(q, u) /\ pt'[q][u].v /\ pt'[q][u].pa = x
      <4>0. r[x] = Map(q, u) <=> Counted(q, u) /\ pt[q][u].v /\ pt[q][u].pa = x
        BY <3>0, SMTT(30) DEF Mapped
      <4>1. CASE q = p /\ u = va
        <5>1. s[x] # Map(p, va)
          <6>1. CASE x = pa
            BY <2>4, <6>1, RoleFacts, Zenon
          <6>2. CASE x # pa
            BY <2>4, <4>0, <4>1, <6>2, Zenon DEF pa
          <6> QED
            BY <6>1, <6>2, Zenon
        <5> QED
          BY <2>3, <4>1, <5>1, Zenon
      <4>2. CASE q # p \/ u # va
        <5>1. pt'[q][u] = pt[q][u]
          BY <2>3, <4>2, SMTT(30)
        <5>2. CASE x = pa
          BY <2>4, <2>v, <4>2, <5>1, <5>2, RoleFacts, SMTT(30)
        <5>3. CASE x # pa
          BY <2>4, <4>0, <5>1, <5>3, SMTT(30)
        <5> QED
          BY <5>2, <5>3, Zenon
      <4> QED
        BY <4>1, <4>2, SMTT(30)
    <3> QED
      BY <1>t, <3>1, <3>2, <3>3, Zenon DEF Mapped
  <2>7. Roled(s)
    BY <2>4, Zenon DEF Fit, Roled
  <2>8. Dropped(s) \subseteq Dropped(r)
    BY <2>4, RoleFacts, SMTT(30) DEF Dropped
  <2>9. Kept(r)
    BY <2>5, <2>6, <2>7, <2>8, SMTT(30) DEF Kept, Fit
  <2>10. HeldValid'
    <3> SUFFICES ASSUME NEW q \in Procs, NEW u \in held'[q] PROVE pt'[q][u].v
      BY Zenon DEF HeldValid
    <3>1. u \in held[q] /\ (q # p \/ u # va) /\ u \in VAs
      <4>1. held \in [Procs -> SUBSET {HeapVa(i) : i \in 1 .. issued}]
        BY Zenon DEF SpaceInv, TypeOK
      <4>2. {HeapVa(i) : i \in 1 .. issued} \subseteq VAs
        BY MemoryAssumption, Addresses DEF SpaceInv, TypeOK
      <4> QED
        BY <1>t, <4>1, <4>2, Zenon
    <3> QED
      BY <1>t, <2>3, <3>1, Zenon DEF HeldValid
  <2> QED
    BY <2>9, <2>10, Zenon
<1> QED
  BY <1>1, <1>2, Zenon DEF sys_user_free_page

\* Every handler turns one role map into another.
LEMMA ExclStep ==
    ASSUME SpaceInv, HeldValid, CAREFUL, [Next]_vars, NEW r, Fit(free, own, tab, pt, r)
    PROVE  Kept(r) /\ HeldValid'
<1> USE DEF FREE, READY
<1>1. CASE load_user_program
  <2> DEFINE k == elf_alloc_mb(elf_alloc_mb(alloc_process(free), CODE), DATA)
  <2>1. /\ Commit(0, k) /\ own' = [own EXCEPT ![0] = KernelPages(free)] /\ held' = held
        /\ machine = "boot"
    BY <1>1, Zenon DEF load_user_program
  <2>2. 0 \in Procs /\ free \in Seq(Pages) /\ \A p \in Procs : status[p] = FREE
    BY <2>1, Distinct, Zenon DEF SpaceInv, TypeOK, Started
  <2>3. Vacant(0, r) /\ Listed(free, r)
    BY <2>2, FreeVacant, Zenon DEF SpaceInv, Fit
  <2>4. Born(0, free, r, k) /\ Going(k)
    BY <2>2, <2>3, LoadBorn, LoadFresh, Zenon DEF Fresh
  <2> HIDE DEF k
  <2>5. Kept(r)
    BY <2>1, <2>2, <2>4, CreateKept, Zenon DEF SpaceInv
  <2>6. \A p \in Procs : held[p] = {}
    <3> SUFFICES ASSUME NEW p \in Procs, NEW va \in held[p] PROVE FALSE
      BY Zenon
    <3>1. va \in VAs
      BY HeldVAs, Zenon
    <3>2. pt[p][va] = NoPte
      BY <2>2, <3>1, Zenon DEF SpaceInv, FreeIsEmpty
    <3> QED
      BY <2>1, <3>2, PteFacts, Zenon DEF HeldValid
  <2> QED
    BY <2>1, <2>5, <2>6, Zenon DEF HeldValid
<1>2. ASSUME NEW p \in Procs, NEW child \in Procs, do_fork(p, child) PROVE Kept(r) /\ HeldValid'
  <2> DEFINE k == Copied(p)
  <2>1. /\ Running(p) /\ status[child] = FREE /\ Commit(child, k) /\ held' = held
        /\ own' = [own EXCEPT ![child] = KernelPages(free)] /\ machine = "run"
    BY <1>2, Zenon DEF do_fork, Running
  <2>2. child # 0
    BY <2>1, SMTT(30) DEF SpaceInv, Started
  <2>3. Vacant(child, r) /\ Listed(free, r)
    BY <2>1, FreeVacant, SMTT(30) DEF SpaceInv, Fit
  <2>4. Born(child, free, r, k) /\ Going(k)
    BY <2>1, <2>2, <2>3, CopiedBorn, CopiedFresh, Zenon DEF Fresh
  <2> HIDE DEF k
  <2>5. Kept(r)
    BY <2>1, <2>4, CreateKept, Zenon DEF SpaceInv
  <2>6. held[child] = {}
    <3> SUFFICES ASSUME NEW va \in held[child] PROVE FALSE
      BY Zenon
    <3>1. va \in VAs
      BY HeldVAs, Zenon
    <3>2. pt[child][va] = NoPte
      BY <2>1, <3>1, SMTT(30) DEF SpaceInv, FreeIsEmpty
    <3> QED
      BY <2>1, <3>2, PteFacts, Zenon DEF HeldValid
  <2>7. \A q \in Procs : q # child => pt'[q] = pt[q]
    BY <2>1, SMTT(30) DEF Commit, SpaceInv, TypeOK
  <2>8. HeldValid'
    BY <2>1, <2>6, <2>7, Zenon DEF HeldValid
  <2> QED
    BY <2>5, <2>8, Zenon
<1>3. CASE UNCHANGED <<free, own, tab, pt, held, machine>>
  <2>1. HeldValid'
    BY <1>3, Zenon DEF HeldValid
  <2>2. Kept(r)
    BY <1>3, Zenon DEF Kept
  <2> QED
    BY <2>1, <2>2, Zenon
<1>4. ASSUME NEW p \in Procs, sys_user_exit(p) PROVE UNCHANGED <<free, own, tab, pt, held, machine>>
  BY <1>4, Zenon DEF sys_user_exit
<1>5. UNCHANGED vars => UNCHANGED <<free, own, tab, pt, held, machine>>
  BY Zenon DEF vars
<1> QED
  BY <1>1, <1>2, <1>3, <1>4, <1>5, MallocKept, FreeKept, FaultKept, SMTT(30) DEF Next

\* At the start the pages of the machine are on the list, each once.
LEMMA ExclInit == CAREFUL /\ Init => ExclInv
<1> SUFFICES ASSUME CAREFUL, Init PROVE ExclInv
  BY Zenon
<1>1. PICK m \in Machines : free = [i \in 1 .. m.pages |-> m.pages + 1 - i]
  BY Zenon DEF Init
<1>2. m.pages \in 0 .. PAGES
  BY MemoryAssumption, Zenon
<1> DEFINE r == [x \in Pages |-> IF x <= m.pages THEN Free ELSE None]
           M == m.pages
<1>r. \A x \in Pages : r[x] = IF x <= M THEN Free ELSE None
  BY Zenon
<1>m. M \in 0 .. PAGES /\ free = [i \in 1 .. M |-> M + 1 - i]
  BY <1>1, <1>2, Zenon
<1> HIDE DEF r, M
<1>3. Listed(free, r)
  <2>1. ASSUME NEW x \in Pages PROVE r[x] = Free <=> \E i \in DOMAIN free : free[i] = x
    <3>1. CASE x <= M
      <4>1. M + 1 - x \in DOMAIN free /\ free[M + 1 - x] = x
        BY <1>m, <3>1, MemoryAssumption DEF Pages
      <4> QED
        BY <1>r, <3>1, <4>1, Zenon
    <3>2. CASE ~(x <= M)
      BY <1>r, <1>m, <3>2, MemoryAssumption, RoleFacts DEF Pages
    <3> QED
      BY <3>1, <3>2, Zenon
  <2>2. \A i, j \in DOMAIN free : free[i] = free[j] => i = j
    BY <1>m, MemoryAssumption
  <2> QED
    BY <2>1, <2>2, Zenon DEF Listed
<1>4. Roled(r)
  BY <1>r, Zenon DEF Roled
<1>5. ASSUME NEW p \in Procs
      PROVE  Owned(own[p], p, r) /\ Tabled(tab[p], p, r) /\ Mapped(pt[p], p, r)
  <2>0. \A x \in Pages : \A i : r[x] # Own(p, i) /\ r[x] # Tab(p, i) /\ r[x] # Map(p, i)
    BY <1>r, RoleFacts, Zenon
  <2>1. own[p] = <<>> /\ tab[p] = [t \in Tables |-> 0] /\ pt[p] = [va \in VAs |-> NoPte]
    BY Zenon DEF Init
  <2>2. Owned(own[p], p, r)
    BY <2>0, <2>1 DEF Owned
  <2>3. Tabled(tab[p], p, r)
    BY <2>0, <2>1 DEF Tabled, Pages
  <2>4. Mapped(pt[p], p, r)
    BY <2>0, <2>1, PteFacts, Zenon DEF Mapped
  <2> QED
    BY <2>2, <2>3, <2>4, Zenon
<1>6. HeldValid
  BY Zenon DEF Init, HeldValid
<1> QED
  BY <1>3, <1>4, <1>5, <1>6, SpaceInit, Zenon DEF ExclInv, Fit

-----------------------------------------------------------------------------
\* ExclInv is inductive.
LEMMA ExclNext == ExclInv /\ [Next]_vars => ExclInv'
<1> SUFFICES ASSUME ExclInv, [Next]_vars PROVE ExclInv'
  BY Zenon
<1>1. PICK r : Fit(free, own, tab, pt, r)
  BY Zenon DEF ExclInv
<1>2. Kept(r) /\ HeldValid'
  BY <1>1, ExclStep, Zenon DEF ExclInv
<1>3. SpaceInv'
  BY SpaceStep, Zenon DEF ExclInv
<1> QED
  BY <1>2, <1>3, Zenon DEF ExclInv, Kept

\* The role a use gives its page.
RoleOf(u) == IF u[2] = "free" THEN Free ELSE <<u[2], u[3], u[4]>>

\* A role map that fits gives every page in use the role of that use.
LEMMA UseRole ==
    ASSUME TypeOK, NEW r, Fit(free, own, tab, pt, r), NEW u \in PageUses
    PROVE  /\ r[u[1]] = RoleOf(u) /\ r[u[1]] # None
           /\ \/ u[2] = "free" /\ u[3] \in DOMAIN free /\ u = <<free[u[3]], "free", u[3]>>
              \/ u[2] # "free" /\ u = <<u[1], u[2], u[3], u[4]>>
<1>1. u \in Uses /\ u[1] \in Pages
  BY Zenon DEF PageUses
<1>2. CASE u \in FreeUses
  <2>1. PICK i \in DOMAIN free : u = <<free[i], "free", i>>
    BY <1>2, Zenon DEF FreeUses
  <2>2. r[u[1]] = Free
    BY <1>1, <2>1, Zenon DEF Fit, Listed
  <2> QED
    BY <2>1, <2>2 DEF RoleOf, Free, None
<1>3. CASE u \in OwnUses
  <2>1. PICK p \in Procs : \E i \in DOMAIN own[p] : u = <<own[p][i], "own", p, i>>
    BY <1>3, Zenon DEF OwnUses
  <2>2. PICK i \in DOMAIN own[p] : u = <<own[p][i], "own", p, i>>
    BY <2>1, Zenon
  <2>3. i \in 1 .. 4
    BY DEF TypeOK
  <2>4. r[u[1]] = Own(p, i)
    BY <1>1, <2>2, <2>3, Zenon DEF Fit, Owned
  <2> QED
    BY <2>2, <2>4 DEF RoleOf, Own, None
<1>4. CASE u \in TableUses
  <2>1. PICK p \in Procs, t \in Tables : u = <<tab[p][t], "table", p, t>>
    BY <1>4, Zenon DEF TableUses
  <2>2. r[u[1]] = Tab(p, t)
    BY <1>1, <2>1, Zenon DEF Fit, Tabled
  <2> QED
    BY <2>1, <2>2 DEF RoleOf, Tab, None
<1>5. CASE u \in MappedUses
  <2>1. PICK p \in Procs, va \in VAs : /\ Counted(p, va) /\ pt[p][va].v
                                       /\ u = <<pt[p][va].pa, "mapped", p, va>>
    BY <1>5, SMTT(30) DEF MappedUses
  <2>2. r[u[1]] = Map(p, va)
    BY <1>1, <2>1 DEF Fit, Mapped
  <2> QED
    BY <2>1, <2>2 DEF RoleOf, Map, None
<1> QED
  BY <1>1, <1>2, <1>3, <1>4, <1>5, Zenon DEF Uses

\* Two uses of a page are the same use.
LEMMA OneUse ==
    ASSUME TypeOK, NEW r, Fit(free, own, tab, pt, r)
    PROVE  \A u, v \in PageUses : u[1] = v[1] => u = v
<1> SUFFICES ASSUME NEW u \in PageUses, NEW v \in PageUses, u[1] = v[1]
             PROVE  u = v
  BY Zenon
<1>1. RoleOf(u) = RoleOf(v)
  BY UseRole, Zenon
<1>2. CASE u[2] = "free" /\ v[2] = "free"
  <2>1. /\ u[3] \in DOMAIN free /\ u = <<free[u[3]], "free", u[3]>>
        /\ v[3] \in DOMAIN free /\ v = <<free[v[3]], "free", v[3]>>
    BY <1>2, UseRole, Zenon
  <2>2. \A i, j \in DOMAIN free : free[i] = free[j] => i = j
    BY Zenon DEF Fit, Listed
  <2>3. u[3] = v[3]
    BY <2>1, <2>2
  <2> QED
    BY <2>1, <2>3, Zenon
<1>3. CASE ~(u[2] = "free" /\ v[2] = "free")
  <2>1. u[2] # "free" /\ v[2] # "free" /\ u[2] = v[2] /\ u[3] = v[3] /\ u[4] = v[4]
    BY <1>1, <1>3, Zenon DEF RoleOf, Free
  <2>2. u = <<u[1], u[2], u[3], u[4]>> /\ v = <<v[1], v[2], v[3], v[4]>>
    BY <2>1, UseRole, Zenon
  <2> QED
    BY <2>1, <2>2, Zenon
<1> QED
  BY <1>2, <1>3, Zenon

\* The pages neither free nor in use are those without a role.
RolesTellLost == \A r : Fit(free, own, tab, pt, r) => Lost = Dropped(r)

\* Lost pages and role maps agree.
LEMMA LostDropped == TypeOK => RolesTellLost
<1> SUFFICES ASSUME TypeOK, NEW r, Fit(free, own, tab, pt, r), NEW x \in Pages
             PROVE  x \in InUse <=> r[x] # None
  BY Zenon DEF RolesTellLost, Lost, Dropped
<1>1. x \in InUse => r[x] # None
  BY UseRole, Zenon DEF InUse
<1>2. ASSUME NEW u \in Uses, u[1] = x PROVE x \in InUse
  BY <1>2, Zenon DEF InUse, PageUses
<1>3. ASSUME r[x] = Free PROVE x \in InUse
  <2>1. PICK i \in DOMAIN free : free[i] = x
    BY <1>3, Zenon DEF Fit, Listed
  <2>2. <<free[i], "free", i>> \in Uses
    BY Zenon DEF Uses, FreeUses
  <2> QED
    BY <1>2, <2>1, <2>2, SMTT(30)
<1>4. ASSUME NEW p \in Procs, NEW i \in 1 .. 4, r[x] = Own(p, i) PROVE x \in InUse
  <2>1. i \in DOMAIN own[p] /\ own[p][i] = x
    BY <1>4, Zenon DEF Fit, Owned
  <2>2. <<own[p][i], "own", p, i>> \in Uses
    BY <2>1 DEF Uses, OwnUses
  <2> QED
    BY <1>2, <2>1, <2>2, Zenon
<1>5. ASSUME NEW p \in Procs, NEW t \in Tables, r[x] = Tab(p, t) PROVE x \in InUse
  <2>1. tab[p][t] = x
    BY <1>5, Zenon DEF Fit, Tabled
  <2>2. <<tab[p][t], "table", p, t>> \in Uses
    BY DEF Uses, TableUses
  <2> QED
    BY <1>2, <2>1, <2>2, Zenon
<1>6. ASSUME NEW p \in Procs, NEW va \in VAs, r[x] = Map(p, va) PROVE x \in InUse
  <2>1. Counted(p, va) /\ pt[p][va].v /\ pt[p][va].pa = x
    BY <1>6 DEF Fit, Mapped
  <2>2. <<pt[p][va].pa, "mapped", p, va>> \in Uses
    BY <2>1, SMTT(30) DEF Uses, MappedUses
  <2> QED
    BY <1>2, <2>1, <2>2, SMTT(30)
<1>7. r[x] # None => x \in InUse
  BY <1>3, <1>4, <1>5, <1>6, Zenon DEF Fit, Roled, Place
<1> QED
  BY <1>1, <1>7, Zenon

\* Under the same condition no handler loses a page while the free list has one left.
THEOREM LostSafety == CAREFUL /\ Spec => LostOnlyWhenExhausted
<1>1. TypeOK' => RolesTellLost'
  BY LostDropped, PTL
<1>2. ExclInv /\ [Next]_vars => [Lost' \subseteq Lost \/ free' = <<>>]_vars
  <2> SUFFICES ASSUME ExclInv, [Next]_vars PROVE Lost' \subseteq Lost \/ free' = <<>>
    BY Zenon
  <2>1. PICK r : Fit(free, own, tab, pt, r)
    BY Zenon DEF ExclInv
  <2>2. PICK s : /\ Fit(free', own', tab', pt', s)
                 /\ Dropped(s) \subseteq Dropped(r) \/ free' = <<>>
    BY <2>1, ExclStep, Zenon DEF ExclInv, Kept
  <2>3. TypeOK /\ TypeOK'
    BY SpaceStep, Zenon DEF ExclInv, SpaceInv
  <2>4. Lost = Dropped(r)
    BY <2>1, <2>3, LostDropped, Zenon DEF RolesTellLost
  <2>5. Lost' = Dropped(s)
    BY <1>1, <2>2, <2>3, Zenon DEF RolesTellLost
  <2> QED
    BY <2>2, <2>4, <2>5, Zenon
<1> QED
  BY <1>2, ExclInit, ExclNext, PTL DEF Spec, LostOnlyWhenExhausted

-----------------------------------------------------------------------------
\* What follows counts the uses.
INSTANCE FiniteSetTheorems

\* PagesExclusive compares the cardinalities, the uses being finitely many.
LEMMA FitExclusive == ExclInv => PagesExclusive
<1> SUFFICES ASSUME ExclInv PROVE PagesExclusive
  BY Zenon
<1>1. PICK r : Fit(free, own, tab, pt, r)
  BY Zenon DEF ExclInv
<1>2. \A u, v \in PageUses : u[1] = v[1] => u = v
  BY <1>1, OneUse, Zenon DEF ExclInv, SpaceInv
<1> DEFINE f == [u \in PageUses |-> u[1]]
<1>3. InUse = {u[1] : u \in PageUses}
  BY Zenon DEF InUse
<1>4. IsFiniteSet(InUse)
  <2>1. InUse \in SUBSET (1 .. PAGES)
    BY Zenon DEF InUse, PageUses, Pages
  <2>2. IsFiniteSet(1 .. PAGES)
    BY MemoryAssumption, FS_Interval
  <2> QED
    BY <2>1, <2>2, FS_Subset, Zenon
<1>5. f \in Injection(PageUses, InUse) /\ f \in Surjection(PageUses, InUse)
  <2>1. f \in [PageUses -> InUse]
    BY <1>3, Zenon
  <2>2. \A u, v \in PageUses : f[u] = f[v] => u = v
    BY <1>2, Zenon
  <2>3. \A x \in InUse : \E u \in PageUses : f[u] = x
    BY <1>3, Zenon
  <2> HIDE DEF f
  <2> QED
    BY <2>1, <2>2, <2>3, Zenon DEF Injection, Surjection, IsInjective
<1> HIDE DEF f
<1>6. Cardinality(PageUses) = Cardinality(InUse)
  BY <1>4, <1>5, FS_Injection, Zenon
<1> QED
  BY <1>6, Zenon DEF PagesExclusive

\* If the application frees only what it holds, a page of RAM has at most one use, for every
\* size of the memory, of procs[] and of the heap: the free list, the page tables, the
\* kernel's structures and the mappings of all processes never share a page (pmm.c, vmm.c,
\* process.c, strap.c, syscall.c).
THEOREM PagesSafety == CAREFUL /\ Spec => []PagesExclusive
  BY ExclInit, ExclNext, FitExclusive, PTL DEF Spec
=============================================================================
