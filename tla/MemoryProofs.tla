---------------------------- MODULE MemoryProofs ----------------------------
(***************************************************************************)
(* Proofs, for every number of pages, of processes and of naive_malloc     *)
(* calls, of the properties of Memory that concern one address space at a  *)
(* time, and how the operations move pages from one use to another.  They  *)
(* hold for any application, careful or not.                               *)
(***************************************************************************)
EXTENDS Memory, TLAPS

\* What a handler can come to, and the records it works on.
Fates == {"ok", "failed", "map_panic", "oom_panic", "crash"}
Spaces == [free : Seq(Pages), tab : [Tables -> 0 .. PAGES], pt : [VAs -> PTEs], fate : Fates]

\* The PTE map_pages writes.
Pte(pa, w) == [v |-> TRUE, pa |-> pa, w |-> w]

\* The fields of a zeroed PTE, and of one map_pages has written.
LEMMA PteFacts ==
    /\ NoPte.v = FALSE /\ NoPte.pa \notin Pages
    /\ \A x, w : Pte(x, w).v = TRUE /\ Pte(x, w).pa = x /\ Pte(x, w).w = w
    /\ \A x : Pte(x, TRUE).w
  BY DEF NoPte, Pte, Pages

\* The virtual pages and the tables on the way to them.
LEMMA Addresses ==
    /\ {CODE, DATA, BELOW, STACK, CTX, TRAP} \subseteq VAs
    /\ HeapVAs \subseteq VAs
    /\ \A va \in VAs : Directory(va) \in Tables /\ LeafTable(va) \in Tables
    /\ \A n \in 1 .. HEAP : HeapVa(n) \in HeapVAs
    /\ \A va \in HeapVAs : va \notin {CODE, DATA, BELOW, STACK, CTX, TRAP}
<1>1. \A n \in 1 .. HEAP : HeapVa(n) \in HeapVAs
  BY Zenon DEF HeapVAs
<1>2. HeapVAs \subseteq VAs /\ \A va \in HeapVAs : va > 6
  BY MemoryAssumption DEF HeapVAs, HeapVa, VAs
<1>3. \A va \in VAs : Directory(va) \in Tables /\ LeafTable(va) \in Tables
  BY Zenon DEF Tables
<1> QED
  BY MemoryAssumption, <1>1, <1>2, <1>3 DEF VAs, CODE, DATA, BELOW, STACK, CTX, TRAP

\* alloc_page returns a page of the list, or 0 when the list is empty.
LEMMA AllocFacts ==
    ASSUME NEW f \in Seq(Pages)
    PROVE  /\ AfterAlloc(f) \in Seq(Pages)
           /\ alloc_page(f) \in 0 .. PAGES
           /\ f # <<>> => alloc_page(f) \in Pages
           /\ f = <<>> => AfterAlloc(f) = <<>> /\ alloc_page(f) = 0
<1>1. CASE f = <<>>
  BY <1>1, MemoryAssumption DEF AfterAlloc, alloc_page
<1>2. CASE f # <<>>
  <2>1. Head(f) \in Pages /\ Tail(f) \in Seq(Pages)
    BY <1>2
  <2> QED
    BY <1>2, <2>1, MemoryAssumption DEF AfterAlloc, alloc_page, Pages
<1> QED
  BY <1>1, <1>2, Zenon

\* The updates the handlers make to the record they work on.
LEMMA SetFate ==
    ASSUME NEW m \in Spaces, NEW x \in Fates, NEW n,
           n = [m EXCEPT !.fate = x]
    PROVE  n \in Spaces /\ n.free = m.free /\ n.tab = m.tab /\ n.pt = m.pt /\ n.fate = x
  BY Zenon DEF Spaces

\* The free list is replaced.
LEMMA SetFree ==
    ASSUME NEW m \in Spaces, NEW f \in Seq(Pages), NEW n,
           n = [m EXCEPT !.free = f]
    PROVE  n \in Spaces /\ n.free = f /\ n.tab = m.tab /\ n.pt = m.pt /\ n.fate = m.fate
  BY Zenon DEF Spaces

\* One PTE is replaced.
LEMMA SetPte ==
    ASSUME NEW m \in Spaces, NEW va \in VAs, NEW x \in PTEs, NEW n,
           n = [m EXCEPT !.pt[va] = x]
    PROVE  /\ n \in Spaces /\ n.free = m.free /\ n.tab = m.tab /\ n.fate = m.fate
           /\ n.pt = [m.pt EXCEPT ![va] = x]
  BY Zenon DEF Spaces

\* A record put together from well-typed parts.
LEMMA MakeSpace ==
    ASSUME NEW f \in Seq(Pages), NEW a \in [Tables -> 0 .. PAGES], NEW b \in [VAs -> PTEs],
           NEW x \in Fates
    PROVE  [free |-> f, tab |-> a, pt |-> b, fate |-> x] \in Spaces
  BY Zenon DEF Spaces

\* The fields of such a record.
LEMMA SpaceFields ==
    ASSUME NEW m \in Spaces
    PROVE  /\ m.free \in Seq(Pages) /\ m.tab \in [Tables -> 0 .. PAGES]
           /\ m.pt \in [VAs -> PTEs] /\ m.fate \in Fates
  BY Zenon DEF Spaces

\* One level of page_walk.
LEMMA WalkLevelFacts ==
    ASSUME NEW m \in Spaces, NEW t \in Tables
    PROVE  LET n == page_walk_level(m, t)
           IN  /\ n \in Spaces
               /\ n.pt = m.pt
               /\ m.fate # "ok" => n = m
               /\ m.fate = "ok" => n.fate = "ok" \/ (n.fate = "failed" /\ n.free = <<>>)
<1> DEFINE n == page_walk_level(m, t)
<1>1. CASE m.fate # "ok" \/ m.tab[t] # 0
  BY <1>1, Zenon DEF page_walk_level
<1>2. CASE m.fate = "ok" /\ m.tab[t] = 0 /\ m.free = <<>>
  <2>1. n = [m EXCEPT !.fate = "failed"]
    BY <1>2, Zenon DEF page_walk_level
  <2>2. "failed" \in Fates
    BY Zenon DEF Fates
  <2>3. n \in Spaces /\ n.free = m.free /\ n.pt = m.pt /\ n.fate = "failed"
    BY <2>1, <2>2, SetFate
  <2> QED
    BY <1>2, <2>3, Zenon
<1>3. CASE m.fate = "ok" /\ m.tab[t] = 0 /\ m.free # <<>>
  <2> DEFINE x == alloc_page(m.free)
             f == AfterAlloc(m.free)
  <2>1. n = [m EXCEPT !.tab[t] = x, !.free = f]
    BY <1>3, Zenon DEF page_walk_level
  <2>2. x \in 0 .. PAGES /\ f \in Seq(Pages)
    BY SpaceFields, AllocFacts, Zenon
  <2> HIDE DEF n, x, f
  <2>3. n \in Spaces /\ n.pt = m.pt /\ n.fate = "ok"
    BY <1>3, <2>1, <2>2, Zenon DEF Spaces
  <2> USE DEF n
  <2> QED
    BY <1>3, <2>3, Zenon
<1> QED
  BY <1>1, <1>2, <1>3, Zenon

\* page_walk touches no PTE, and fails only on an empty list.
LEMMA WalkFacts ==
    ASSUME NEW m \in Spaces, NEW va \in VAs
    PROVE  LET n == page_walk(m, va)
           IN  /\ n \in Spaces
               /\ n.pt = m.pt
               /\ m.fate # "ok" => n = m
               /\ m.fate = "ok" => n.fate = "ok" \/ (n.fate = "failed" /\ n.free = <<>>)
<1>1. Directory(va) \in Tables /\ LeafTable(va) \in Tables
  BY Addresses, Zenon
<1> QED
  BY <1>1, WalkLevelFacts DEF page_walk

\* map_pages on a page that is not mapped: mapped, or out of memory.
LEMMA MapFacts ==
    ASSUME NEW m \in Spaces, NEW va \in VAs, NEW pa \in 0 .. PAGES + 2, NEW w \in BOOLEAN,
           m.fate = "ok", ~m.pt[va].v
    PROVE  LET n == map_pages(m, va, pa, w)
           IN  /\ n \in Spaces
               /\ \/ n.fate = "ok" /\ n.pt = [m.pt EXCEPT ![va] = Pte(pa, w)]
                  \/ n.fate = "failed" /\ n.free = <<>> /\ n.pt = m.pt
<1> DEFINE k == page_walk(m, va)
<1>1. /\ k \in Spaces /\ k.pt = m.pt
      /\ k.fate = "ok" \/ (k.fate = "failed" /\ k.free = <<>>)
  BY WalkFacts, Zenon
<1>2. CASE k.fate = "ok"
  <2>1. map_pages(m, va, pa, w) = [k EXCEPT !.pt[va] = Pte(pa, w)]
    BY <1>1, <1>2, Zenon DEF map_pages, Pte
  <2>2. Pte(pa, w) \in PTEs
    BY Zenon DEF PTEs, Pte
  <2> QED
    BY <1>1, <1>2, <2>1, <2>2, SetPte
<1>3. CASE k.fate # "ok"
  BY <1>1, <1>3, Zenon DEF map_pages
<1> QED
  BY <1>2, <1>3, Zenon

\* user_vm_map of an address that is not mapped: it maps it, or panics for want of memory.
LEMMA UserMapFacts ==
    ASSUME NEW m \in Spaces, NEW va \in VAs, NEW pa \in 0 .. PAGES + 2, NEW w \in BOOLEAN,
           m.fate = "ok", ~m.pt[va].v
    PROVE  LET n == user_vm_map(m, va, pa, w)
           IN  /\ n \in Spaces
               /\ \/ n.fate = "ok" /\ n.pt = [m.pt EXCEPT ![va] = Pte(pa, w)]
                  \/ n.fate = "oom_panic" /\ n.free = <<>> /\ n.pt = m.pt
<1>1. /\ map_pages(m, va, pa, w) \in Spaces
      /\ LET n == map_pages(m, va, pa, w)
         IN \/ n.fate = "ok" /\ n.pt = [m.pt EXCEPT ![va] = Pte(pa, w)]
            \/ n.fate = "failed" /\ n.free = <<>> /\ n.pt = m.pt
  BY MapFacts, Zenon
<1> DEFINE k == map_pages(m, va, pa, w)
<1>2. CASE k.fate = "ok"
  BY <1>1, <1>2, Zenon DEF user_vm_map
<1>3. CASE k.fate = "failed"
  <2>1. user_vm_map(m, va, pa, w) = [k EXCEPT !.fate = "oom_panic"] /\ "oom_panic" \in Fates
    BY <1>3, Zenon DEF user_vm_map, Fates
  <2>2. LET n == user_vm_map(m, va, pa, w)
        IN  n \in Spaces /\ n.free = k.free /\ n.pt = k.pt /\ n.fate = "oom_panic"
    BY <1>1, <2>1, SetFate
  <2> QED
    BY <1>1, <1>3, <2>2, Zenon
<1> QED
  BY <1>1, <1>2, <1>3, Zenon

\* A handler that has stopped the machine does nothing more.
LEMMA UserMapStopped ==
    ASSUME NEW m \in Spaces, NEW va \in VAs, NEW pa, NEW w, m.fate \notin {"ok", "failed"}
    PROVE  user_vm_map(m, va, pa, w) = m
<1>1. page_walk(m, va) = m
  BY WalkFacts, Zenon
<1> QED
  BY <1>1, Zenon DEF user_vm_map, map_pages

\* The space of a handler that goes on, or that has stopped the machine for want of memory.
Going(m) == m \in Spaces /\ (m.fate = "ok" \/ (m.fate \in {"oom_panic", "crash"} /\ m.free = <<>>))

\* user_vm_map on such a space.
LEMMA MapNext ==
    ASSUME NEW m, Going(m), NEW va \in VAs, NEW pa \in 0 .. PAGES + 2, NEW w \in BOOLEAN,
           m.fate = "ok" => ~m.pt[va].v
    PROVE  LET n == user_vm_map(m, va, pa, w)
           IN  /\ Going(n)
               /\ \A u \in VAs : u # va => n.pt[u] = m.pt[u]
               /\ n.fate = "ok" => m.fate = "ok" /\ n.pt[va] = Pte(pa, w)
<1>1. CASE m.fate = "ok"
  <2> DEFINE n == user_vm_map(m, va, pa, w)
  <2>1. m \in Spaces /\ m.pt \in [VAs -> PTEs] /\ ~m.pt[va].v
    BY <1>1, SpaceFields, Zenon DEF Going
  <2>2. /\ n \in Spaces
        /\ \/ n.fate = "ok" /\ n.pt = [m.pt EXCEPT ![va] = Pte(pa, w)]
           \/ n.fate = "oom_panic" /\ n.free = <<>> /\ n.pt = m.pt
    BY <1>1, <2>1, UserMapFacts, Zenon
  <2> QED
    BY <1>1, <2>1, <2>2, Zenon DEF Going
<1>2. CASE m.fate # "ok"
  BY <1>2, UserMapStopped DEF Going
<1> QED
  BY <1>1, <1>2, Zenon

\* A space as alloc_process creates it.
LEMMA NewSpace ==
    ASSUME NEW f \in Seq(Pages), NEW x \in Fates, NEW n,
           n = [free |-> f, tab |-> [t \in Tables |-> 0], pt |-> [va \in VAs |-> NoPte],
                fate |-> x]
    PROVE  /\ n \in Spaces /\ n.fate = x /\ n.free = f
           /\ n.tab = [t \in Tables |-> 0]
           /\ n.pt = [va \in VAs |-> NoPte]
<1>1. NoPte \in PTEs
  BY MemoryAssumption DEF NoPte, PTEs
<1>2. [t \in Tables |-> 0] \in [Tables -> 0 .. PAGES]
  BY MemoryAssumption
<1>3. [va \in VAs |-> NoPte] \in [VAs -> PTEs]
  BY <1>1, Zenon
<1> QED
  BY <1>2, <1>3, Zenon DEF Spaces

\* The five pages alloc_process takes, and the rest.
LEMMA FivePages ==
    ASSUME NEW f \in Seq(Pages), Len(f) >= 5
    PROVE  /\ SubSeq(f, 6, Len(f)) \in Seq(Pages)
           /\ f[1] \in Pages /\ f[2] \in Pages /\ f[3] \in Pages
           /\ f[4] \in Pages /\ f[5] \in Pages
  OBVIOUS

\* alloc_process with too few pages.
LEMMA ShortAlloc ==
    ASSUME NEW f \in Seq(Pages), Len(f) < 5
    PROVE  LET n == alloc_process(f)
           IN  /\ n \in Spaces /\ n.free = <<>> /\ n.fate = "crash"
               /\ n.tab = [t \in Tables |-> 0] /\ n.pt = [va \in VAs |-> NoPte]
               /\ KernelPages(f) = <<>>
<1> DEFINE n == alloc_process(f)
<1>1. n = [free |-> <<>>, tab |-> [t \in Tables |-> 0], pt |-> [va \in VAs |-> NoPte],
           fate |-> "crash"]
  BY Zenon DEF alloc_process
<1>2. <<>> \in Seq(Pages) /\ "crash" \in Fates
  BY DEF Fates
<1>3. KernelPages(f) = <<>>
  BY Zenon DEF KernelPages
<1> HIDE DEF n
<1>4. /\ n \in Spaces /\ n.free = <<>> /\ n.fate = "crash"
      /\ n.tab = [t \in Tables |-> 0] /\ n.pt = [va \in VAs |-> NoPte]
  BY <1>1, <1>2, NewSpace, Zenon
<1> QED
  BY <1>3, <1>4, Zenon DEF n

\* The spaces alloc_process goes through.
Cleared(f) == [free |-> SubSeq(f, 6, Len(f)), tab |-> [t \in Tables |-> 0],
               pt |-> [va \in VAs |-> NoPte], fate |-> "ok"]
Stacked(f) == user_vm_map(Cleared(f), STACK, f[4], TRUE)
Framed(f) == user_vm_map(Stacked(f), CTX, f[1], FALSE)

\* alloc_process with enough pages: the three mappings are of distinct addresses, so none
\* meets a valid PTE, and a handler that stops has emptied the list.
LEMMA AllocChain ==
    ASSUME NEW f \in Seq(Pages), ~(Len(f) < 5)
    PROVE  /\ alloc_process(f) = user_vm_map(Framed(f), TRAP, TrapSection, FALSE)
           /\ f[1] \in 0 .. PAGES + 2 /\ f[4] \in 0 .. PAGES + 2 /\ TrapSection \in 0 .. PAGES + 2
           /\ Going(Cleared(f)) /\ ~Cleared(f).pt[STACK].v
           /\ Going(Stacked(f)) /\ ~Stacked(f).pt[CTX].v
           /\ Going(Framed(f)) /\ ~Framed(f).pt[TRAP].v
           /\ Going(alloc_process(f))
           /\ alloc_process(f).fate = "ok" => Framed(f).fate = "ok"
           /\ Framed(f).fate = "ok" => Stacked(f).fate = "ok"
           /\ \A va \in VAs \ {STACK, CTX, TRAP} : alloc_process(f).pt[va] = NoPte
           /\ Cleared(f).free = SubSeq(f, 6, Len(f)) /\ Cleared(f).fate = "ok"
           /\ Cleared(f).tab = [t \in Tables |-> 0] /\ Cleared(f).pt = [va \in VAs |-> NoPte]
<1> DEFINE e == Cleared(f)
           s == user_vm_map(e, STACK, f[4], TRUE)
           c == user_vm_map(s, CTX, f[1], FALSE)
           n == alloc_process(f)
<1>0. {STACK, CTX, TRAP} \subseteq VAs /\ Len(f) \in Nat
  BY Addresses
<1>1. n = user_vm_map(c, TRAP, TrapSection, FALSE) /\ c = Framed(f) /\ s = Stacked(f)
  BY Zenon DEF alloc_process, Framed, Stacked, Cleared
<1>2. /\ SubSeq(f, 6, Len(f)) \in Seq(Pages)
      /\ f[1] \in 0 .. PAGES + 2 /\ f[4] \in 0 .. PAGES + 2 /\ TrapSection \in 0 .. PAGES + 2
  BY <1>0, FivePages, MemoryAssumption DEF Pages, TrapSection
<1>3. "ok" \in Fates
  BY Zenon DEF Fates
<1>4. /\ e \in Spaces /\ e.fate = "ok" /\ e.free = SubSeq(f, 6, Len(f))
      /\ e.tab = [t \in Tables |-> 0] /\ e.pt = [va \in VAs |-> NoPte]
  BY <1>2, <1>3, NewSpace, Zenon DEF Cleared
<1> HIDE DEF n, e
<1>5. Going(e) /\ ~e.pt[STACK].v /\ \A va \in VAs : e.pt[va] = NoPte
  BY <1>0, <1>4 DEF Going, NoPte
<1>a. STACK \in VAs /\ CTX \in VAs /\ TRAP \in VAs
  BY <1>0, Zenon
<1>6. Going(s) /\ \A va \in VAs : va # STACK => s.pt[va] = NoPte
  <2>1. Going(s) /\ \A va \in VAs : va # STACK => s.pt[va] = e.pt[va]
    BY <1>2, <1>5, <1>a, MapNext, ZenonT(60)
  <2> QED
    BY <1>5, <2>1, Zenon
<1> HIDE DEF s
<1>7. ~s.pt[CTX].v
  BY <1>0, <1>6 DEF NoPte, STACK, CTX
<1>8. /\ Going(c) /\ \A va \in VAs : va # CTX => c.pt[va] = s.pt[va]
      /\ c.fate = "ok" => s.fate = "ok"
  BY <1>2, <1>6, <1>7, <1>a, MapNext, ZenonT(60)
<1> HIDE DEF c
<1>9. ~c.pt[TRAP].v
  BY <1>0, <1>6, <1>8 DEF NoPte, STACK, CTX, TRAP
<1>b. n = user_vm_map(c, TRAP, TrapSection, FALSE)
  BY <1>1, Zenon
<1>10. /\ Going(n) /\ \A va \in VAs : va # TRAP => n.pt[va] = c.pt[va]
       /\ n.fate = "ok" => c.fate = "ok"
  <2> DEFINE k == user_vm_map(c, TRAP, TrapSection, FALSE)
  <2>1. /\ Going(k) /\ \A va \in VAs : va # TRAP => k.pt[va] = c.pt[va]
        /\ k.fate = "ok" => c.fate = "ok"
    BY <1>2, <1>8, <1>9, <1>a, MapNext, ZenonT(60)
  <2> QED
    BY <1>b, <2>1, Zenon
<1>11. \A va \in VAs \ {STACK, CTX, TRAP} : n.pt[va] = NoPte
  BY <1>6, <1>8, <1>10, Zenon
<1> QED
  BY <1>1, <1>2, <1>4, <1>5, <1>6, <1>7, <1>8, <1>9, <1>10, <1>11, Zenon DEF n, e

\* alloc_process runs to its end, or stops the machine with the list empty.
LEMMA AllocProcessFacts ==
    ASSUME NEW f \in Seq(Pages)
    PROVE  LET n == alloc_process(f)
           IN  /\ Going(n)
               /\ \A va \in VAs \ {STACK, CTX, TRAP} : n.pt[va] = NoPte
<1>1. CASE Len(f) < 5
  BY <1>1, ShortAlloc, Zenon DEF Going
<1>2. CASE ~(Len(f) < 5)
  BY <1>2, AllocChain, Zenon
<1> QED
  BY <1>1, <1>2, Zenon

\* elf_alloc_mb for a segment that is not mapped.
LEMMA ElfAllocFacts ==
    ASSUME NEW m, Going(m), NEW seg \in VAs, ~m.pt[seg].v
    PROVE  LET n == elf_alloc_mb(m, seg)
           IN  /\ Going(n)
               /\ \A u \in VAs : u # seg => n.pt[u] = m.pt[u]
               /\ n.pt[seg] = m.pt[seg] \/ \E x \in Pages : n.pt[seg] = Pte(x, TRUE)
               /\ n.fate = "ok" => m.fate = "ok" /\ n.pt[seg].v
<1> DEFINE n == elf_alloc_mb(m, seg)
<1>1. CASE m.fate # "ok"
  BY <1>1, Zenon DEF elf_alloc_mb
<1>2. CASE m.fate = "ok" /\ m.free = <<>>
  <2>1. n = [m EXCEPT !.fate = "oom_panic"] /\ "oom_panic" \in Fates
    BY <1>2, Zenon DEF elf_alloc_mb, Fates
  <2> HIDE DEF n
  <2>2. n \in Spaces /\ n.free = <<>> /\ n.pt = m.pt /\ n.fate = "oom_panic"
    BY <1>2, <2>1, SetFate DEF Going
  <2> USE DEF n
  <2> QED
    BY <2>2, Zenon DEF Going
<1>3. CASE m.fate = "ok" /\ m.free # <<>>
  <2> DEFINE x == alloc_page(m.free)
             f == AfterAlloc(m.free)
             k == [m EXCEPT !.free = f]
  <2>1. n = user_vm_map(k, seg, x, TRUE)
    BY <1>3, Zenon DEF elf_alloc_mb
  <2>2. x \in Pages /\ x \in 0 .. PAGES + 2 /\ f \in Seq(Pages)
    BY <1>3, SpaceFields, AllocFacts, MemoryAssumption DEF Going, Pages
  <2> HIDE DEF x, f, n
  <2>3. Going(k) /\ k.pt = m.pt /\ k.fate = "ok"
    BY <1>3, <2>2, SetFree DEF Going
  <2> HIDE DEF k
  <2>4. k \in Spaces /\ ~k.pt[seg].v
    BY <2>3, Zenon DEF Going
  <2>5. /\ n \in Spaces
        /\ \/ n.fate = "ok" /\ n.pt = [k.pt EXCEPT ![seg] = Pte(x, TRUE)]
           \/ n.fate = "oom_panic" /\ n.free = <<>> /\ n.pt = k.pt
    BY <2>1, <2>2, <2>3, <2>4, UserMapFacts, Zenon
  <2>6. m.pt \in [VAs -> PTEs] /\ Pte(x, TRUE).v
    BY SpaceFields, Zenon DEF Going, Pte
  <2> USE DEF n
  <2> QED
    BY <1>3, <2>2, <2>3, <2>5, <2>6, Zenon DEF Going
<1> QED
  BY <1>1, <1>2, <1>3, Zenon

\* One round of do_fork's loop, over a code or a data segment that the child has not.
LEMMA ForkRegionFacts ==
    ASSUME NEW m, Going(m), NEW parent \in Procs, NEW seg \in {CODE, DATA}, ~m.pt[seg].v,
           lookup_pa(parent, CODE) \in 0 .. PAGES + 2
    PROVE  LET n == fork_region(parent, m, seg)
           IN  /\ Going(n)
               /\ \A u \in VAs : u # seg => n.pt[u] = m.pt[u]
               /\ n.fate = "ok" => m.fate = "ok"
               /\ seg = CODE /\ n.fate = "ok" => n.pt[seg] = Pte(lookup_pa(parent, CODE), FALSE)
               /\ seg = DATA => n.pt[seg] = m.pt[seg] \/ \E x \in Pages : n.pt[seg] = Pte(x, TRUE)
<1> DEFINE n == fork_region(parent, m, seg)
<1>0. seg \in VAs /\ CODE # DATA
  BY Addresses DEF CODE, DATA
<1>1. CASE m.fate # "ok"
  BY <1>1, Zenon DEF fork_region
<1>2. CASE m.fate = "ok" /\ seg = DATA /\ m.free = <<>>
  <2>1. n = [m EXCEPT !.fate = "crash"] /\ "crash" \in Fates
    BY <1>0, <1>2, Zenon DEF fork_region, Fates
  <2> HIDE DEF n
  <2>2. n \in Spaces /\ n.free = <<>> /\ n.pt = m.pt /\ n.fate = "crash"
    BY <1>2, <2>1, SetFate DEF Going
  <2> USE DEF n
  <2> QED
    BY <1>0, <1>2, <2>2, Zenon DEF Going
<1>3. CASE m.fate = "ok" /\ seg = DATA /\ m.free # <<>>
  <2>1. n = elf_alloc_mb(m, DATA)
    BY <1>0, <1>3, Zenon DEF fork_region, elf_alloc_mb
  <2>2. DATA \in VAs /\ ~m.pt[DATA].v
    BY <1>0, <1>3, Zenon
  <2> HIDE DEF n
  <2>3. /\ Going(n)
        /\ \A u \in VAs : u # DATA => n.pt[u] = m.pt[u]
        /\ n.pt[DATA] = m.pt[DATA] \/ \E x \in Pages : n.pt[DATA] = Pte(x, TRUE)
    BY <2>1, <2>2, ElfAllocFacts, ZenonT(60)
  <2> USE DEF n
  <2> QED
    BY <1>0, <1>3, <2>3, Zenon
<1>4. CASE m.fate = "ok" /\ seg = CODE
  <2>1. n = user_vm_map(m, CODE, lookup_pa(parent, CODE), FALSE)
    BY <1>0, <1>4, Zenon DEF fork_region
  <2>2. CODE \in VAs /\ ~m.pt[CODE].v
    BY <1>0, <1>4, Zenon
  <2> HIDE DEF n
  <2>3. /\ Going(n)
        /\ \A u \in VAs : u # CODE => n.pt[u] = m.pt[u]
        /\ n.fate = "ok" => n.pt[CODE] = Pte(lookup_pa(parent, CODE), FALSE)
    BY <2>1, <2>2, MapNext, Zenon
  <2> USE DEF n
  <2> QED
    BY <1>0, <1>4, <2>3, Zenon
<1> QED
  BY <1>1, <1>2, <1>3, <1>4, Zenon

\* Rounds over the regions alloc_process has set up change nothing.
LEMMA ForkSkips ==
    ASSUME NEW parent, NEW m, NEW seg \in {STACK, CTX, TRAP}
    PROVE  fork_region(parent, m, seg) = m
<1>1. seg # CODE /\ seg # DATA
  BY DEF CODE, DATA, STACK, CTX, TRAP
<1> QED
  BY <1>1, Zenon DEF fork_region

\* The loop, unrolled over the regions a process can have.
LEMMA Unrolled ==
    ASSUME NEW parent \in Procs, NEW rest \in {<<CODE>>, <<CODE, DATA>>},
           regions[parent] = NewRegions \o rest
    PROVE  LET coded == fork_region(parent, alloc_process(free), CODE)
           IN  Copied(parent) = IF rest = <<CODE>> THEN coded
                                ELSE fork_region(parent, coded, DATA)
<1> DEFINE s == regions[parent]
           a == alloc_process(free)
           R(m, seg) == fork_region(parent, m, seg)
           F(g) == [i \in 0 .. Len(s) |-> IF i = 0 THEN a ELSE R(g[i - 1], s[i])]
           c == CHOOSE g : g = F(g)
           coded == R(a, CODE)
           w == [i \in 0 .. Len(s) |-> IF i < 4 THEN a ELSE IF i = 4 THEN coded ELSE R(coded, DATA)]
<1>1. Copied(parent) = c[Len(s)]
  BY Zenon DEF Copied
<1>2. /\ Len(s) = IF rest = <<CODE>> THEN 4 ELSE 5
      /\ s[1] = STACK /\ s[2] = CTX /\ s[3] = TRAP /\ s[4] = CODE
      /\ rest # <<CODE>> => s[5] = DATA
  <2>1. CASE rest = <<CODE>>
    <3>1. s = <<STACK, CTX, TRAP>> \o <<CODE>>
      BY <2>1, Zenon DEF NewRegions
    <3>2. Len(s) = 4 /\ s[1] = STACK /\ s[2] = CTX /\ s[3] = TRAP /\ s[4] = CODE
      BY <3>1
    <3> QED
      BY <2>1, <3>2, Zenon
  <2>2. CASE rest = <<CODE, DATA>>
    <3>1. s = <<STACK, CTX, TRAP>> \o <<CODE, DATA>>
      BY <2>2, Zenon DEF NewRegions
    <3>2. Len(s) = 5 /\ s[1] = STACK /\ s[2] = CTX /\ s[3] = TRAP /\ s[4] = CODE /\ s[5] = DATA
      BY <3>1
    <3>3. <<CODE, DATA>> # <<CODE>>
      BY Zenon
    <3> QED
      BY <2>2, <3>2, <3>3, Zenon
  <2> QED
    BY <2>1, <2>2, Zenon
<1>3. \A m : R(m, STACK) = m /\ R(m, CTX) = m /\ R(m, TRAP) = m
  BY ForkSkips, Zenon
<1> HIDE DEF R, a, s
<1>4. w = F(w)
  <2>1. ASSUME NEW i \in 0 .. Len(s)
        PROVE  w[i] = IF i = 0 THEN a ELSE R(w[i - 1], s[i])
    <3>1. i \in {0, 1, 2, 3, 4, 5} /\ (i = 5 => rest # <<CODE>>)
      BY <1>2
    <3>2. CASE i = 0
      BY <3>2
    <3>3. CASE i \in {1, 2, 3}
      BY <1>2, <1>3, <3>3
    <3>4. CASE i = 4
      BY <1>2, <3>4
    <3>5. CASE i = 5
      BY <1>2, <3>1, <3>5
    <3> QED
      BY <3>1, <3>2, <3>3, <3>4, <3>5, Zenon
  <2> QED
    BY <2>1, Zenon
<1>5. c = F(c)
  <2>1. \E g : g = F(g)
    BY <1>4, Zenon
  <2> HIDE DEF F
  <2> QED BY <2>1, Zenon
<1> HIDE DEF c
<1>6. c[0] = a /\ c[1] = a /\ c[2] = a /\ c[3] = a /\ c[4] = coded
  <2>0. \A i \in 0 .. Len(s) : c[i] = IF i = 0 THEN a ELSE R(c[i - 1], s[i])
    BY <1>5, SMTT(30)
  <2>1. c[0] = a
    BY <1>2, <2>0
  <2>2. c[1] = a
    BY <1>2, <1>3, <2>0, <2>1
  <2>3. c[2] = a
    BY <1>2, <1>3, <2>0, <2>2
  <2>4. c[3] = a
    BY <1>2, <1>3, <2>0, <2>3
  <2>5. c[4] = coded
    BY <1>2, <2>0, <2>4
  <2> QED
    BY <2>1, <2>2, <2>3, <2>4, <2>5, Zenon
<1>7. rest # <<CODE>> => c[5] = R(coded, DATA)
  BY <1>2, <1>5, <1>6
<1> QED
  BY <1>1, <1>2, <1>6, <1>7, Zenon DEF R, a

-----------------------------------------------------------------------------
\* Where handle_user_page_fault and naive_malloc map pages.
StoreVAs == {DATA, BELOW} \cup HeapVAs

\* What the application may reach through such an address it may write to.
StoreFlags ==
    \A p \in Procs, va \in StoreVAs : pt[p][va].v \/ pt[p][va].pa \in Pages => pt[p][va].w

\* g_ufree_page has not passed a heap page that some process has mapped.
Unissued == \A p \in Procs, n \in 1 .. HEAP : n > issued => pt[p][HeapVa(n)] = NoPte

\* A process structure that is not in use holds no page.
FreeIsEmpty ==
    \A p \in Procs : status[p] = FREE =>
      /\ own[p] = <<>>
      /\ tab[p] = [t \in Tables |-> 0]
      /\ pt[p] = [va \in VAs |-> NoPte]

\* The first process is there once the kernel has left boot.
Started ==
    /\ machine = "boot" => \A p \in Procs : status[p] = FREE
    /\ machine = "run" => status[0] # FREE

\* The inductive invariant.  NoRemapPanic rests on StoreFlags for the fault handler (it runs
\* only if the address cannot be written, and then it is not mapped at all) and on Unissued
\* for naive_malloc.
SpaceInv ==
    /\ TypeOK /\ CodeIsShared /\ NoRemapPanic
    /\ StoreFlags /\ Unissued /\ FreeIsEmpty /\ Started

\* The space of a new process, when load_user_program or do_fork commits it.
Fresh(k) ==
    /\ Going(k)
    /\ k.fate = "ok" => k.pt[CODE].v
    /\ \A va \in HeapVAs \cup {BELOW} : k.pt[va] = NoPte
    /\ k.pt[DATA] = NoPte \/ \E x \in Pages : k.pt[DATA] = Pte(x, TRUE)

\* The regions of a process are apart.
LEMMA Distinct ==
    /\ CODE # DATA /\ {CODE, DATA, BELOW, STACK, CTX, TRAP} \cap HeapVAs = {}
    /\ {CODE, DATA, BELOW} \cap {STACK, CTX, TRAP} = {} /\ BELOW \notin {CODE, DATA}
    /\ StoreVAs \subseteq VAs /\ CODE \notin StoreVAs
    /\ {CODE, DATA, BELOW, STACK, CTX, TRAP} \subseteq VAs
    /\ 0 \in Procs
<1>1. CODE # DATA /\ {CODE, DATA, BELOW} \cap {STACK, CTX, TRAP} = {} /\ BELOW \notin {CODE, DATA}
  BY DEF CODE, DATA, BELOW, STACK, CTX, TRAP
<1>2. 0 \in Procs
  BY MemoryAssumption DEF Procs
<1> QED
  BY <1>1, <1>2, Addresses, Zenon DEF StoreVAs

\* What load_user_program commits.
LEMMA LoadFresh ==
    ASSUME free \in Seq(Pages)
    PROVE  Fresh(elf_alloc_mb(elf_alloc_mb(alloc_process(free), CODE), DATA))
<1> DEFINE a == alloc_process(free)
           c == elf_alloc_mb(a, CODE)
           d == elf_alloc_mb(c, DATA)
<1>1. Going(a) /\ \A va \in StoreVAs \cup {CODE} : a.pt[va] = NoPte
  BY AllocProcessFacts, Distinct, Zenon DEF StoreVAs
<1>2. ~a.pt[CODE].v
  BY <1>1 DEF NoPte
<1> HIDE DEF a
<1>3. /\ Going(c)
      /\ \A va \in VAs : va # CODE => c.pt[va] = a.pt[va]
      /\ c.fate = "ok" => c.pt[CODE].v
  BY <1>1, <1>2, ElfAllocFacts, Distinct, Zenon
<1>4. \A va \in StoreVAs : c.pt[va] = NoPte
  BY <1>1, <1>3, Distinct, Zenon
<1>5. ~c.pt[DATA].v
  BY <1>4 DEF NoPte, StoreVAs
<1> HIDE DEF c
<1>6. /\ Going(d)
      /\ \A va \in VAs : va # DATA => d.pt[va] = c.pt[va]
      /\ d.fate = "ok" => c.fate = "ok"
      /\ d.pt[DATA] = c.pt[DATA] \/ \E x \in Pages : d.pt[DATA] = Pte(x, TRUE)
  BY <1>3, <1>5, ElfAllocFacts, Distinct, Zenon
<1> HIDE DEF d
<1>7. Fresh(d)
  BY <1>3, <1>4, <1>6, Distinct, Zenon DEF Fresh, StoreVAs
<1> QED
  BY <1>7, Zenon DEF d, c, a

\* What do_fork commits: the child has the parent's code page, which is process 0's.
LEMMA CopiedFresh ==
    ASSUME SpaceInv, NEW parent \in Procs, Running(parent)
    PROVE  /\ Fresh(Copied(parent))
           /\ Copied(parent).fate = "ok" => Copied(parent).pt[CODE].pa = pt[0][CODE].pa
<1> DEFINE a == alloc_process(free)
           c == fork_region(parent, a, CODE)
           d == fork_region(parent, c, DATA)
           pa == lookup_pa(parent, CODE)
<1>0. free \in Seq(Pages) /\ pt[parent] \in [VAs -> PTEs] /\ status[parent] # FREE
  BY Zenon DEF SpaceInv, TypeOK, Running, READY, FREE
<1>p. pa = pt[0][CODE].pa /\ pa \in 0 .. PAGES + 2
  BY <1>0, Distinct, Zenon DEF SpaceInv, CodeIsShared, Running, lookup_pa, PTEs
<1>r. PICK rest \in {<<CODE>>, <<CODE, DATA>>} : regions[parent] = NewRegions \o rest
  BY <1>0, Zenon DEF SpaceInv, TypeOK
<1>1. Going(a) /\ \A va \in StoreVAs \cup {CODE} : a.pt[va] = NoPte
  BY <1>0, AllocProcessFacts, Distinct, Zenon DEF StoreVAs
<1>2. ~a.pt[CODE].v
  BY <1>1 DEF NoPte
<1>u. Copied(parent) = c \/ Copied(parent) = d
  BY <1>r, Unrolled, Zenon
<1> HIDE DEF a, pa
<1>3. /\ Going(c)
      /\ \A va \in VAs : va # CODE => c.pt[va] = a.pt[va]
      /\ c.fate = "ok" => c.pt[CODE] = Pte(pa, FALSE)
  BY <1>1, <1>2, <1>p, ForkRegionFacts, Zenon DEF pa
<1>4. \A va \in StoreVAs : c.pt[va] = NoPte
  BY <1>1, <1>3, Distinct, Zenon
<1>5. ~c.pt[DATA].v
  BY <1>4 DEF NoPte, StoreVAs
<1> HIDE DEF c
<1>6. /\ Going(d)
      /\ \A va \in VAs : va # DATA => d.pt[va] = c.pt[va]
      /\ d.fate = "ok" => c.fate = "ok"
      /\ d.pt[DATA] = c.pt[DATA] \/ \E x \in Pages : d.pt[DATA] = Pte(x, TRUE)
  BY <1>3, <1>5, <1>p, ForkRegionFacts, Zenon DEF pa
<1> HIDE DEF d
<1>7. Fresh(c) /\ (c.fate = "ok" => c.pt[CODE].pa = pa)
  BY <1>3, <1>4 DEF Fresh, StoreVAs, Pte
<1>8. Fresh(d) /\ (d.fate = "ok" => d.pt[CODE].pa = pa)
  BY <1>3, <1>4, <1>6, Distinct DEF Fresh, StoreVAs, Pte
<1> QED
  BY <1>7, <1>8, <1>p, <1>u, Zenon

\* The pages alloc_process keeps for the kernel.
LEMMA KernelPagesType ==
    ASSUME NEW f \in Seq(Pages)
    PROVE  KernelPages(f) \in {<<>>} \cup [1 .. 4 -> Pages]
<1>1. CASE Len(f) < 5
  BY <1>1, Zenon DEF KernelPages
<1>2. CASE ~(Len(f) < 5)
  <2>1. KernelPages(f) = <<f[1], f[2], f[3], f[5]>>
    BY <1>2, Zenon DEF KernelPages
  <2>2. f[1] \in Pages /\ f[2] \in Pages /\ f[3] \in Pages /\ f[5] \in Pages
    BY <1>2, FivePages
  <2> QED
    BY <2>1, <2>2
<1> QED
  BY <1>1, <1>2, Zenon

\* A process is created: load_user_program and do_fork.
LEMMA CreateStep ==
    ASSUME SpaceInv, NEW child \in Procs, NEW k, Fresh(k), Commit(child, k),
           NEW info \in {NewRegions \o <<CODE>>, NewRegions \o <<CODE, DATA>>},
           own' = [own EXCEPT ![child] = KernelPages(free)],
           regions' = [regions EXCEPT ![child] = info],
           status' = [status EXCEPT ![child] = READY],
           UNCHANGED <<issued, held, mallocs>>,
           \/ machine = "boot" /\ child = 0
           \/ machine = "run" /\ child # 0 /\ (k.fate = "ok" => k.pt[CODE].pa = pt[0][CODE].pa)
    PROVE  SpaceInv'
<1> USE DEF FREE, READY
<1>0. /\ k.free \in Seq(Pages) /\ k.tab \in [Tables -> 0 .. PAGES] /\ k.pt \in [VAs -> PTEs]
      /\ k.fate \in {"ok", "oom_panic", "crash"}
  BY SpaceFields, Zenon DEF Fresh, Going
<1>1. /\ free' = k.free
      /\ tab' = [tab EXCEPT ![child] = k.tab]
      /\ pt' = [pt EXCEPT ![child] = k.pt]
      /\ machine' = IF k.fate = "ok" THEN "run" ELSE k.fate
  BY <1>0, SMTT(30) DEF Commit
<1>2. TypeOK'
  <2>1. KernelPages(free) \in {<<>>} \cup [1 .. 4 -> Pages]
    BY KernelPagesType, Zenon DEF SpaceInv, TypeOK
  <2>2. info # <<>>
    BY DEF NewRegions
  <2>3. own' \in [Procs -> {<<>>} \cup [1 .. 4 -> Pages]]
    BY <2>1, Zenon DEF SpaceInv, TypeOK
  <2>4. /\ regions' \in [Procs -> {<<>>, NewRegions \o <<CODE>>, NewRegions \o <<CODE, DATA>>}]
        /\ \A p \in Procs : regions'[p] = <<>> <=> status'[p] = FREE
    BY <2>2, Zenon DEF SpaceInv, TypeOK
  <2>5. free' \in Seq(Pages) /\ tab' \in [Procs -> [Tables -> 0 .. PAGES]]
    BY <1>0, <1>1, Zenon DEF SpaceInv, TypeOK
  <2>6. pt' \in [Procs -> [VAs -> PTEs]]
    BY <1>0, <1>1, Zenon DEF SpaceInv, TypeOK
  <2>7. status' \in [Procs -> {FREE, READY, ZOMBIE}]
    BY Zenon DEF SpaceInv, TypeOK
  <2>8. machine' \in {"boot", "run", "map_panic", "oom_panic", "free_panic", "crash"}
    BY <1>0, <1>1, Zenon
  <2> QED
    BY <2>3, <2>4, <2>5, <2>6, <2>7, <2>8, Zenon DEF SpaceInv, TypeOK
<1>t. pt \in [Procs -> [VAs -> PTEs]] /\ status \in [Procs -> {FREE, READY, ZOMBIE}]
  BY Zenon DEF SpaceInv, TypeOK
<1>3. CodeIsShared'
  <2> SUFFICES ASSUME machine' = "run", NEW p \in Procs, status'[p] # FREE
               PROVE  pt'[p][CODE].v /\ pt'[p][CODE].pa = pt'[0][CODE].pa
    BY Zenon DEF CodeIsShared
  <2>1. k.fate = "ok" /\ k.pt[CODE].v
    BY <1>0, <1>1, Zenon DEF Fresh
  <2>2. CASE machine = "boot" /\ child = 0
    <3>1. p = child
      BY <1>t, <2>2, Zenon DEF SpaceInv, Started
    <3> QED
      BY <1>t, <1>1, <2>1, <2>2, <3>1, Zenon
  <2>3. CASE machine = "run" /\ child # 0 /\ k.pt[CODE].pa = pt[0][CODE].pa
    <3>1. pt'[0] = pt[0] /\ pt'[child] = k.pt
      BY <1>t, <1>1, <2>3, Distinct, SMTT(30)
    <3>2. CASE p = child
      BY <2>1, <2>3, <3>1, <3>2, Zenon
    <3>3. CASE p # child
      BY <1>t, <1>1, <2>3, <3>1, <3>3, Zenon DEF SpaceInv, CodeIsShared
    <3> QED
      BY <3>2, <3>3, Zenon
  <2> QED
    BY <2>1, <2>2, <2>3, Zenon
<1>4. NoRemapPanic'
  BY <1>0, <1>1, Zenon DEF NoRemapPanic
<1>5. StoreFlags'
  <2> SUFFICES ASSUME NEW p \in Procs, NEW va \in StoreVAs, pt'[p][va].v \/ pt'[p][va].pa \in Pages
               PROVE  pt'[p][va].w
    BY Zenon DEF StoreFlags
  <2>1. CASE p = child
    <3>1. pt'[p] = k.pt
      BY <1>t, <1>1, <2>1, Zenon
    <3>2. k.pt[va] = NoPte \/ \E x \in Pages : k.pt[va] = Pte(x, TRUE)
      BY Zenon DEF Fresh, StoreVAs
    <3>3. CASE k.pt[va] = NoPte
      BY <3>1, <3>3, PteFacts, Zenon
    <3>4. CASE \E x \in Pages : k.pt[va] = Pte(x, TRUE)
      BY <3>1, <3>4, PteFacts, ZenonT(60)
    <3> QED
      BY <3>2, <3>3, <3>4, Zenon
  <2>2. CASE p # child
    BY <1>t, <1>1, <2>2, Zenon DEF SpaceInv, StoreFlags
  <2> QED
    BY <2>1, <2>2, Zenon
<1>6. Unissued'
  <2> SUFFICES ASSUME NEW p \in Procs, NEW n \in 1 .. HEAP, n > issued
               PROVE  pt'[p][HeapVa(n)] = NoPte
    BY Zenon DEF Unissued
  <2>1. HeapVa(n) \in HeapVAs
    BY Addresses, Zenon
  <2>2. CASE p = child
    BY <1>t, <1>1, <2>1, <2>2, Zenon DEF Fresh
  <2>3. CASE p # child
    BY <1>t, <1>1, <2>3, SMTT(30) DEF SpaceInv, Unissued
  <2> QED
    BY <2>2, <2>3, Zenon
<1>7. FreeIsEmpty'
  <2> SUFFICES ASSUME NEW p \in Procs, status'[p] = FREE
               PROVE  own'[p] = own[p] /\ tab'[p] = tab[p] /\ pt'[p] = pt[p] /\ status[p] = FREE
    BY Zenon DEF FreeIsEmpty, SpaceInv
  <2>1. p # child
    BY <1>t, Zenon
  <2> QED
    BY <1>t, <1>1, <2>1, SMTT(30) DEF SpaceInv, TypeOK
<1>8. Started'
  <2>1. machine' # "boot"
    BY <1>0, <1>1, Zenon
  <2>2. status'[0] # FREE \/ machine' # "run"
    BY <1>t, Distinct, Zenon DEF SpaceInv, Started
  <2> QED
    BY <2>1, <2>2, Zenon DEF Started
<1> QED
  BY <1>2, <1>3, <1>4, <1>5, <1>6, <1>7, <1>8, SMTT(30) DEF SpaceInv

\* A page is mapped in a process that runs: naive_malloc and the store page fault.
LEMMA TouchStep ==
    ASSUME SpaceInv, NEW p \in Procs, Running(p), NEW k \in Spaces, NEW va \in StoreVAs,
           k.fate \in {"ok", "failed", "oom_panic"},
           \/ k.pt = pt[p]
           \/ \E x : k.pt = [pt[p] EXCEPT ![va] = Pte(x, TRUE)],
           Commit(p, k), UNCHANGED <<own, regions, status, mallocs>>,
           issued' \in issued .. mallocs,
           held' \in [Procs -> SUBSET {HeapVa(n) : n \in 1 .. issued'}],
           \A n \in 1 .. HEAP : va = HeapVa(n) => n <= issued'
    PROVE  SpaceInv'
<1> USE DEF FREE, READY
<1>0. k.free \in Seq(Pages) /\ k.tab \in [Tables -> 0 .. PAGES] /\ k.pt \in [VAs -> PTEs]
  BY SpaceFields, Zenon
<1>1. /\ free' = k.free
      /\ tab' = [tab EXCEPT ![p] = k.tab]
      /\ pt' = [pt EXCEPT ![p] = k.pt]
      /\ machine' = IF k.fate = "oom_panic" THEN "oom_panic" ELSE "run"
  BY SMTT(30) DEF Commit
<1>t. /\ pt \in [Procs -> [VAs -> PTEs]] /\ issued \in 0 .. mallocs /\ mallocs \in 0 .. HEAP
      /\ machine = "run" /\ status[p] # FREE
  BY SMTT(30) DEF SpaceInv, TypeOK, Running
<1>2. TypeOK'
  <2>1. free' \in Seq(Pages) /\ tab' \in [Procs -> [Tables -> 0 .. PAGES]]
    BY <1>0, <1>1, Zenon DEF SpaceInv, TypeOK
  <2>2. pt' \in [Procs -> [VAs -> PTEs]]
    BY <1>0, <1>1, <1>t, Zenon
  <2>3. issued' \in 0 .. mallocs
    BY <1>t
  <2>4. machine' \in {"boot", "run", "map_panic", "oom_panic", "free_panic", "crash"}
    BY <1>1, SMTT(30)
  <2> QED
    BY <2>1, <2>2, <2>3, <2>4, Zenon DEF SpaceInv, TypeOK
<1>p. /\ \A q \in Procs, u \in VAs : q # p \/ u # va => pt'[q][u] = pt[q][u]
      /\ pt'[p][va] = pt[p][va] \/ \E x : pt'[p][va] = Pte(x, TRUE)
  BY <1>0, <1>1, <1>t, Distinct, ZenonT(60)
<1>3. CodeIsShared'
  <2>1. \A q \in Procs : pt'[q][CODE] = pt[q][CODE]
    BY <1>p, Distinct, Zenon
  <2> QED
    BY <1>t, <2>1, Distinct, Zenon DEF SpaceInv, CodeIsShared
<1>4. NoRemapPanic'
  BY <1>1, SMTT(30) DEF NoRemapPanic
<1>5. StoreFlags'
  <2> SUFFICES ASSUME NEW q \in Procs, NEW u \in StoreVAs, pt'[q][u].v \/ pt'[q][u].pa \in Pages
               PROVE  pt'[q][u].w
    BY Zenon DEF StoreFlags
  <2>1. CASE pt'[q][u] = pt[q][u]
    BY <2>1, Zenon DEF SpaceInv, StoreFlags
  <2>2. CASE \E x : pt'[q][u] = Pte(x, TRUE)
    BY <2>2, PteFacts, ZenonT(60)
  <2> QED
    BY <1>p, <2>1, <2>2, Distinct, ZenonT(60)
<1>6. Unissued'
  <2> SUFFICES ASSUME NEW q \in Procs, NEW n \in 1 .. HEAP, n > issued'
               PROVE  pt'[q][HeapVa(n)] = NoPte
    BY Zenon DEF Unissued
  <2>1. HeapVa(n) # va /\ n > issued /\ HeapVa(n) \in VAs
    BY <1>t, Addresses, SMTT(30)
  <2> QED
    BY <1>p, <2>1 DEF SpaceInv, Unissued
<1>7. FreeIsEmpty'
  <2> SUFFICES ASSUME NEW q \in Procs, status[q] = FREE
               PROVE  tab'[q] = tab[q] /\ pt'[q] = pt[q]
    BY SMTT(30) DEF FreeIsEmpty, SpaceInv
  <2> QED
    BY <1>t, <1>1, Zenon DEF SpaceInv, TypeOK
<1>8. Started'
  BY <1>t, <1>1, Zenon DEF SpaceInv, Started
<1> QED
  BY <1>2, <1>3, <1>4, <1>5, <1>6, <1>7, <1>8, SMTT(30) DEF SpaceInv

\* A process's space with one page taken from the free list.
LEMMA Taken ==
    ASSUME TypeOK, NEW p \in Procs, NEW k, k = [Space(p) EXCEPT !.free = AfterAlloc(free)]
    PROVE  /\ k \in Spaces /\ k.free = AfterAlloc(free) /\ k.tab = tab[p] /\ k.pt = pt[p]
           /\ k.fate = "ok"
           /\ alloc_page(free) \in 0 .. PAGES + 2
<1>1. tab[p] \in [Tables -> 0 .. PAGES] /\ pt[p] \in [VAs -> PTEs] /\ free \in Seq(Pages)
  BY Zenon DEF TypeOK
<1>2. AfterAlloc(free) \in Seq(Pages) /\ alloc_page(free) \in 0 .. PAGES
  BY <1>1, AllocFacts, Zenon
<1>3. k = [free |-> AfterAlloc(free), tab |-> tab[p], pt |-> pt[p], fate |-> "ok"] /\ "ok" \in Fates
  BY Zenon DEF Space, Fates
<1>4. k \in Spaces /\ k.free = AfterAlloc(free) /\ k.tab = tab[p] /\ k.pt = pt[p] /\ k.fate = "ok"
  <2>1. [free |-> AfterAlloc(free), tab |-> tab[p], pt |-> pt[p], fate |-> "ok"] \in Spaces
    BY <1>1, <1>2, <1>3, MakeSpace, Zenon
  <2>2. k \in Spaces
    BY <1>3, <2>1, Zenon
  <2>3. k.free = AfterAlloc(free)
    BY <1>3, Zenon
  <2>4. k.tab = tab[p] /\ k.pt = pt[p] /\ k.fate = "ok"
    BY <1>3, SMTT(30)
  <2> QED
    BY <2>2, <2>3, <2>4, Zenon
<1> QED
  BY <1>2, <1>4, MemoryAssumption

\* naive_malloc maps the heap page g_ufree_page has just reached.
LEMMA MallocStep ==
    ASSUME SpaceInv, NEW p \in Procs, sys_user_allocate_page(p)
    PROVE  SpaceInv'
<1> DEFINE va == HeapVa(issued + 1)
           m == [Space(p) EXCEPT !.free = AfterAlloc(free)]
           k == user_vm_map(m, va, alloc_page(free), TRUE)
<1>1. /\ Running(p) /\ issued < mallocs /\ Commit(p, k)
      /\ held' = [held EXCEPT ![p] = @ \cup {va}]
      /\ issued' = issued + 1
      /\ UNCHANGED <<own, regions, status, mallocs>>
  BY Zenon DEF sys_user_allocate_page
<1>2. issued \in Nat /\ issued + 1 \in 1 .. HEAP /\ issued' \in issued .. mallocs
  BY <1>1, MemoryAssumption DEF SpaceInv, TypeOK
<1>3. va \in HeapVAs /\ va \in StoreVAs /\ va \in VAs
  BY <1>2, Addresses, Zenon DEF StoreVAs
<1>4. \A n \in 1 .. HEAP : va = HeapVa(n) => n <= issued'
  BY <1>1, <1>2 DEF HeapVa
<1>5. held' \in [Procs -> SUBSET {HeapVa(n) : n \in 1 .. issued'}]
  <2>1. {HeapVa(n) : n \in 1 .. issued} \subseteq {HeapVa(n) : n \in 1 .. issued'}
    BY <1>1, <1>2
  <2>2. va \in {HeapVa(n) : n \in 1 .. issued'}
    BY <1>1, <1>2
  <2> QED
    BY <1>1, <2>1, <2>2, Zenon DEF SpaceInv, TypeOK
<1>6. pt[p][va] = NoPte
  BY <1>2 DEF SpaceInv, Unissued
<1> HIDE DEF m, va
<1>7. m \in Spaces /\ m.pt = pt[p] /\ m.fate = "ok" /\ alloc_page(free) \in 0 .. PAGES + 2
  BY Taken, Zenon DEF SpaceInv, m
<1>8. ~m.pt[va].v
  BY <1>6, <1>7, PteFacts, Zenon
<1>9. /\ k \in Spaces
      /\ \/ k.fate = "ok" /\ k.pt = [m.pt EXCEPT ![va] = Pte(alloc_page(free), TRUE)]
         \/ k.fate = "oom_panic" /\ k.pt = m.pt
  BY <1>3, <1>7, <1>8, UserMapFacts, Zenon
<1> HIDE DEF k
<1>10. k.pt = pt[p] \/ \E x : k.pt = [pt[p] EXCEPT ![va] = Pte(x, TRUE)]
  BY <1>7, <1>9, Zenon
<1>11. k.fate \in {"ok", "failed", "oom_panic"}
  BY <1>9, Zenon
<1> QED
  BY <1>1, <1>2, <1>3, <1>4, <1>5, <1>9, <1>10, <1>11, TouchStep, Zenon

\* The store page fault maps an address that is not writable, hence not mapped.
LEMMA FaultStep ==
    ASSUME SpaceInv, NEW p \in Procs, NEW va, handle_user_page_fault(p, va)
    PROVE  SpaceInv'
<1> DEFINE m == [Space(p) EXCEPT !.free = AfterAlloc(free)]
           k == map_pages(m, va, alloc_page(free), TRUE)
<1>1. /\ Running(p) /\ va \in StoreTargets /\ ~UserWritable(p, va) /\ Commit(p, k)
      /\ UNCHANGED <<own, regions, status, issued, held, mallocs>>
  BY Zenon DEF handle_user_page_fault
<1>2. /\ issued \in Nat /\ mallocs \in Nat /\ issued \in issued .. mallocs /\ mallocs <= HEAP
      /\ held \in [Procs -> SUBSET {HeapVa(n) : n \in 1 .. issued}]
  BY MemoryAssumption DEF SpaceInv, TypeOK
<1>3. va \in StoreVAs /\ va \in VAs
  BY <1>1, <1>2, MemoryAssumption, Distinct, Addresses DEF StoreTargets, StoreVAs
<1>4. \A n \in 1 .. HEAP : va = HeapVa(n) => n <= issued
  BY <1>1, <1>2, Distinct, Addresses DEF StoreTargets, HeapVa
<1>5. ~pt[p][va].v
  BY <1>1, <1>3, Zenon DEF SpaceInv, StoreFlags, UserWritable
<1> HIDE DEF m
<1>7. m \in Spaces /\ m.pt = pt[p] /\ m.fate = "ok" /\ alloc_page(free) \in 0 .. PAGES + 2
  BY Taken, Zenon DEF SpaceInv, m
<1>8. ~m.pt[va].v
  BY <1>5, <1>7, Zenon
<1>9. /\ k \in Spaces
      /\ \/ k.fate = "ok" /\ k.pt = [m.pt EXCEPT ![va] = Pte(alloc_page(free), TRUE)]
         \/ k.fate = "failed" /\ k.pt = m.pt
  BY <1>3, <1>7, <1>8, MapFacts, Zenon
<1> HIDE DEF k
<1>10. k.pt = pt[p] \/ \E x : k.pt = [pt[p] EXCEPT ![va] = Pte(x, TRUE)]
  BY <1>7, <1>9, Zenon
<1>11. k.fate \in {"ok", "failed", "oom_panic"}
  BY <1>9, Zenon
<1>12. /\ issued' \in issued .. mallocs /\ issued' = issued
       /\ held' \in [Procs -> SUBSET {HeapVa(n) : n \in 1 .. issued'}]
       /\ \A n \in 1 .. HEAP : va = HeapVa(n) => n <= issued'
  BY <1>1, <1>2, <1>4, Zenon
<1> QED
  BY <1>1, <1>3, <1>9, <1>10, <1>11, <1>12, TouchStep, Zenon

\* naive_free flips PTE_V and changes neither the address nor the rights in the PTE.
LEMMA FreeStep ==
    ASSUME SpaceInv, NEW p \in Procs, NEW va \in HeapVAs, sys_user_free_page(p, va)
    PROVE  SpaceInv'
<1> USE DEF FREE, READY
<1>t. /\ pt \in [Procs -> [VAs -> PTEs]] /\ issued \in Nat /\ issued <= HEAP
      /\ free \in Seq(Pages)
      /\ held \in [Procs -> SUBSET {HeapVa(n) : n \in 1 .. issued}]
      /\ Running(p) /\ machine = "run" /\ status[p] # FREE
      /\ va \in MayFree(p)
      /\ held' = [held EXCEPT ![p] = @ \ {va}]
      /\ UNCHANGED <<tab, own, regions, status, issued, mallocs>>
  BY MemoryAssumption DEF SpaceInv, TypeOK, Running, sys_user_free_page
<1>h. held' \in [Procs -> SUBSET {HeapVa(n) : n \in 1 .. issued}]
  BY <1>t, Zenon
<1>1. CASE free' = free /\ pt' = pt /\ machine' \in {"crash", "free_panic"}
  <2>1. TypeOK'
    BY <1>1, <1>h, <1>t, SMTT(30) DEF SpaceInv, TypeOK
  <2>2. StoreFlags' /\ Unissued' /\ FreeIsEmpty'
    BY <1>1, <1>t, Zenon DEF SpaceInv, StoreFlags, Unissued, FreeIsEmpty
  <2>3. CodeIsShared' /\ NoRemapPanic' /\ Started'
    BY <1>1, Zenon DEF CodeIsShared, NoRemapPanic, Started
  <2> QED
    BY <2>1, <2>2, <2>3, Zenon DEF SpaceInv
<1>2. CASE /\ pt[p][va].pa \in Pages
           /\ free' = free_page(free, pt[p][va].pa)
           /\ pt' = [pt EXCEPT ![p][va] = Invalidated(@)]
           /\ machine' = machine
  <2>0. /\ va \in VAs /\ va \in StoreVAs /\ va # CODE
        /\ pt[p] \in [VAs -> PTEs] /\ pt[p][va] \in PTEs
    BY <1>t, Addresses, Zenon DEF StoreVAs
  <2>1. /\ Invalidated(pt[p][va]) \in PTEs
        /\ Invalidated(pt[p][va]).pa = pt[p][va].pa
        /\ Invalidated(pt[p][va]).w = pt[p][va].w
    BY <2>0, Zenon DEF Invalidated, PTEs
  <2>2. pt' = [pt EXCEPT ![p] = [pt[p] EXCEPT ![va] = Invalidated(pt[p][va])]]
    BY <1>2, Zenon
  <2>3. /\ pt' \in [Procs -> [VAs -> PTEs]]
        /\ \A q \in Procs, u \in VAs : q # p \/ u # va => pt'[q][u] = pt[q][u]
        /\ \A q \in Procs : q # p => pt'[q] = pt[q]
        /\ pt'[p][va] = Invalidated(pt[p][va])
    BY <1>t, <2>0, <2>1, <2>2, Zenon
  <2>4. free' \in Seq(Pages)
    BY <1>t, <1>2 DEF free_page
  <2>5. TypeOK'
    BY <1>2, <1>h, <1>t, <2>3, <2>4, Zenon DEF SpaceInv, TypeOK
  <2>6. CodeIsShared'
    <3>1. \A q \in Procs : pt'[q][CODE] = pt[q][CODE]
      BY <2>0, <2>3, Distinct, Zenon
    <3> QED
      BY <1>2, <1>t, <3>1, Distinct, Zenon DEF SpaceInv, CodeIsShared
  <2>7. StoreFlags'
    <3> SUFFICES ASSUME NEW q \in Procs, NEW u \in StoreVAs, pt'[q][u].v \/ pt'[q][u].pa \in Pages
                 PROVE  pt'[q][u].w
      BY Zenon DEF StoreFlags
    <3>1. CASE q # p \/ u # va
      <4>1. pt'[q][u] = pt[q][u]
        BY <2>3, <3>1, Distinct, Zenon
      <4> QED
        BY <4>1, Zenon DEF SpaceInv, StoreFlags
    <3>2. CASE q = p /\ u = va
      <4>1. pt[p][va].w
        BY <1>2, <2>0, Zenon DEF SpaceInv, StoreFlags
      <4> QED
        BY <2>1, <2>3, <3>2, <4>1, Zenon
    <3> QED
      BY <3>1, <3>2, Zenon
  <2>8. Unissued'
    <3> SUFFICES ASSUME NEW q \in Procs, NEW n \in 1 .. HEAP, n > issued
                 PROVE  pt'[q][HeapVa(n)] = NoPte
      BY <1>t, Zenon DEF Unissued
    <3>1. \E i \in 1 .. issued : va = HeapVa(i)
      BY <1>t, Zenon DEF MayFree
    <3>2. HeapVa(n) # va /\ HeapVa(n) \in VAs
      BY <1>t, <3>1, Addresses, SMTT(30) DEF HeapVa
    <3> QED
      BY <2>3, <3>2, Zenon DEF SpaceInv, Unissued
  <2>9. FreeIsEmpty'
    BY <1>t, <2>3, Zenon DEF SpaceInv, FreeIsEmpty
  <2>10. NoRemapPanic' /\ Started'
    BY <1>2, <1>t, Zenon DEF SpaceInv, NoRemapPanic, Started
  <2> QED
    BY <2>5, <2>6, <2>7, <2>8, <2>9, <2>10, Zenon DEF SpaceInv
<1> QED
  BY <1>1, <1>2, Zenon DEF sys_user_free_page

\* SpaceInv holds when the kernel starts.
LEMMA SpaceInit == Init => SpaceInv
<1> SUFFICES ASSUME Init PROVE SpaceInv
  BY Zenon
<1>1. PICK m \in Machines : free = [i \in 1 .. m.pages |-> m.pages + 1 - i] /\ mallocs = m.mallocs
  BY Zenon DEF Init
<1>2. m.pages \in 0 .. PAGES /\ m.mallocs \in 0 .. HEAP
  BY MemoryAssumption, Zenon
<1>3. free \in Seq(Pages)
  <2>1. \A i \in 1 .. m.pages : m.pages + 1 - i \in Pages
    BY <1>2, MemoryAssumption DEF Pages
  <2> QED
    BY <1>1, <1>2, <2>1
<1>4. [t \in Tables |-> 0] \in [Tables -> 0 .. PAGES] /\ [va \in VAs |-> NoPte] \in [VAs -> PTEs]
  <2>1. NoPte \in PTEs
    BY MemoryAssumption DEF NoPte, PTEs
  <2> QED
    BY <2>1, MemoryAssumption
<1>5. TypeOK
  <2>1. tab \in [Procs -> [Tables -> 0 .. PAGES]] /\ pt \in [Procs -> [VAs -> PTEs]]
    BY <1>4, Zenon DEF Init
  <2>2. issued \in 0 .. mallocs /\ mallocs \in 0 .. HEAP
    BY <1>1, <1>2 DEF Init
  <2> QED
    BY <1>3, <2>1, <2>2, Zenon DEF Init, TypeOK
<1>6. FreeIsEmpty /\ CodeIsShared /\ NoRemapPanic /\ Started
  BY Zenon DEF Init, FreeIsEmpty, CodeIsShared, NoRemapPanic, Started
<1>7. \A p \in Procs, va \in VAs : pt[p][va] = NoPte
  BY Zenon DEF Init
<1>8. StoreFlags /\ Unissued
  BY <1>7, PteFacts, Distinct, Addresses, Zenon DEF StoreFlags, Unissued
<1> QED
  BY <1>5, <1>6, <1>8, Zenon DEF SpaceInv

\* Every handler preserves SpaceInv.
LEMMA SpaceStep == SpaceInv /\ [Next]_vars => SpaceInv'
<1> SUFFICES ASSUME SpaceInv, [Next]_vars PROVE SpaceInv'
  BY SMTT(30)
<1> USE DEF FREE, READY
<1>1. CASE load_user_program
  <2> DEFINE k == elf_alloc_mb(elf_alloc_mb(alloc_process(free), CODE), DATA)
             info == NewRegions \o <<CODE, DATA>>
  <2>1. Fresh(k)
    BY LoadFresh, Zenon DEF SpaceInv, TypeOK
  <2>2. /\ Commit(0, k) /\ machine = "boot"
        /\ own' = [own EXCEPT ![0] = KernelPages(free)]
        /\ regions' = [regions EXCEPT ![0] = info]
        /\ status' = [status EXCEPT ![0] = READY]
        /\ UNCHANGED <<issued, held, mallocs>>
    BY <1>1, Zenon DEF load_user_program
  <2>3. info \in {NewRegions \o <<CODE>>, NewRegions \o <<CODE, DATA>>} /\ 0 \in Procs
    BY Distinct, Zenon
  <2> HIDE DEF k, info
  <2> QED
    BY <2>1, <2>2, <2>3, CreateStep, Zenon
<1>2. ASSUME NEW p \in Procs, NEW child \in Procs, do_fork(p, child) PROVE SpaceInv'
  <2> DEFINE k == Copied(p)
             info == ForkRegisters(p)
  <2>1. /\ Running(p) /\ status[child] = FREE /\ Commit(child, k)
        /\ own' = [own EXCEPT ![child] = KernelPages(free)]
        /\ regions' = [regions EXCEPT ![child] = info]
        /\ status' = [status EXCEPT ![child] = READY]
        /\ UNCHANGED <<issued, held, mallocs>>
    BY <1>2, Zenon DEF do_fork
  <2>2. Fresh(k) /\ (k.fate = "ok" => k.pt[CODE].pa = pt[0][CODE].pa)
    BY <2>1, CopiedFresh, Zenon
  <2>3. machine = "run" /\ child # 0
    BY <2>1, Zenon DEF Running, SpaceInv, Started
  <2>4. info = NewRegions \o <<CODE>>
    <3>1. regions[p] \in {NewRegions \o <<CODE>>, NewRegions \o <<CODE, DATA>>}
      BY <2>1, Zenon DEF Running, SpaceInv, TypeOK
    <3>2. 4 \in DOMAIN regions[p] /\ regions[p][4] = CODE
      BY <3>1 DEF NewRegions
    <3> QED
      BY <3>2, Zenon DEF ForkRegisters
  <2> HIDE DEF k, info
  <2> QED
    BY <2>1, <2>2, <2>3, <2>4, CreateStep, Zenon
<1>3. ASSUME NEW p \in Procs, sys_user_exit(p) PROVE SpaceInv'
  <2>1. /\ UNCHANGED <<free, tab, pt, own, regions, issued, held, machine, mallocs>>
        /\ status' = [status EXCEPT ![p] = ZOMBIE] /\ status[p] # FREE
        /\ status \in [Procs -> {FREE, READY, ZOMBIE}]
    BY <1>3, Zenon DEF sys_user_exit, Running, SpaceInv, TypeOK
  <2>2. \A q \in Procs : status'[q] = FREE <=> status[q] = FREE
    BY <2>1, Zenon DEF ZOMBIE
  <2>3. TypeOK'
    BY <2>1, <2>2, SMTT(30) DEF SpaceInv, TypeOK, ZOMBIE
  <2> QED
    BY <2>1, <2>2, <2>3, Distinct, Zenon
       DEF SpaceInv, CodeIsShared, NoRemapPanic, StoreFlags, Unissued, FreeIsEmpty, Started
<1>4. CASE UNCHANGED vars
  BY <1>4, Zenon DEF vars, SpaceInv, TypeOK, CodeIsShared, NoRemapPanic, StoreFlags, Unissued,
              FreeIsEmpty, Started
<1> QED
  BY <1>1, <1>2, <1>3, <1>4, MallocStep, FreeStep, FaultStep, Zenon DEF Next

\* Type correctness, for every size of the memory, of procs[] and of the heap.
THEOREM MemoryTypes == Spec => []TypeOK
<1>1. SpaceInv => TypeOK
  BY Zenon DEF SpaceInv
<1> QED
  BY <1>1, SpaceInit, SpaceStep, PTL DEF Spec

\* Every process executes the code page of process 0 (process.c:206), whatever the
\* application frees.
THEOREM CodeSharing == Spec => []CodeIsShared
<1>1. SpaceInv => CodeIsShared
  BY Zenon DEF SpaceInv
<1> QED
  BY <1>1, SpaceInit, SpaceStep, PTL DEF Spec

\* No handler ever maps an address that is mapped (the panic of vmm.c:27), whatever the
\* application frees.
THEOREM MapSafety == Spec => []NoRemapPanic
<1>1. SpaceInv => NoRemapPanic
  BY Zenon DEF SpaceInv
<1> QED
  BY <1>1, SpaceInit, SpaceStep, PTL DEF Spec

-----------------------------------------------------------------------------
(***************************************************************************)
(* How the operations move pages from one use to another.  A role map r    *)
(* gives each page the one use it has: on the free list, a kernel page, a  *)
(* page table or a mapped page of some process, or none.  The lemmas       *)
(* follow a handler from one allocation to the next.                       *)
(***************************************************************************)

\* What a page is used for.
Free == <<"free", 0, 0>>
None == <<"none", 0, 0>>
Own(p, i) == <<"own", p, i>>
Tab(p, t) == <<"table", p, t>>
Map(p, va) == <<"mapped", p, va>>

\* No two uses are the same.
LEMMA RoleFacts ==
    /\ Free # None
    /\ \A p, x : /\ Own(p, x) # Free /\ Own(p, x) # None
                 /\ Tab(p, x) # Free /\ Tab(p, x) # None
                 /\ Map(p, x) # Free /\ Map(p, x) # None
    /\ \A p, x, q, y : /\ Own(p, x) # Tab(q, y) /\ Own(p, x) # Map(q, y) /\ Tab(p, x) # Map(q, y)
                       /\ Own(p, x) = Own(q, y) => p = q /\ x = y
                       /\ Tab(p, x) = Tab(q, y) => p = q /\ x = y
                       /\ Map(p, x) = Map(q, y) => p = q /\ x = y
  BY DEF Free, None, Own, Tab, Map

\* The role map r agrees with the free list f, with the kernel pages o of p, and with
\* the tables and mappings of p in the space m.
Listed(f, r) ==
    /\ \A x \in Pages : r[x] = Free <=> \E i \in DOMAIN f : f[i] = x
    /\ \A i, j \in DOMAIN f : f[i] = f[j] => i = j
Owned(o, p, r) ==
    \A x \in Pages, i \in 1 .. 4 : r[x] = Own(p, i) <=> i \in DOMAIN o /\ o[i] = x
Tabled(a, p, r) ==
    \A x \in Pages, t \in Tables : r[x] = Tab(p, t) <=> a[t] = x
Mapped(b, p, r) ==
    \A x \in Pages, va \in VAs :
      r[x] = Map(p, va) <=> Counted(p, va) /\ b[va].v /\ b[va].pa = x
Fits(m, p, r) == Listed(m.free, r) /\ Tabled(m.tab, p, r) /\ Mapped(m.pt, p, r)

\* The pages without a role.
Dropped(r) == {x \in Pages : r[x] = None}

\* From r to s a page changes its role only if it had none or was free, and only to one in p.
Place(p, y) == (\E t \in Tables : y = Tab(p, t)) \/ (\E va \in VAs : y = Map(p, va))
Moves(p, r, s) ==
    \A x \in Pages : s[x] = r[x] \/ (r[x] \in {Free, None} /\ (s[x] = None \/ Place(p, s[x])))

\* A place in a process is neither the list nor nothing, and says which process.
LEMMA PlaceFacts ==
    ASSUME NEW p, NEW y, Place(p, y)
    PROVE  /\ y \notin {Free, None}
           /\ \A q, i : y # Own(q, i)
           /\ \A q, i : y = Tab(q, i) \/ y = Map(q, i) => q = p
  BY RoleFacts DEF Place

\* Two changes of roles, one after the other.
LEMMA MovesTrans ==
    ASSUME NEW p, NEW r, NEW s, NEW u, Moves(p, r, s), Moves(p, s, u)
    PROVE  Moves(p, r, u)
  BY PlaceFacts, RoleFacts, Zenon DEF Moves

\* Taking the first page off the free list.
LEMMA HeadTail ==
    ASSUME NEW f \in Seq(Pages), f # <<>>, NEW r, Listed(f, r)
    PROVE  /\ Head(f) \in Pages /\ r[Head(f)] = Free
           /\ \A x \in Pages : (\E i \in DOMAIN Tail(f) : Tail(f)[i] = x)
                                 <=> (x # Head(f) /\ r[x] = Free)
           /\ \A i, j \in DOMAIN Tail(f) : Tail(f)[i] = Tail(f)[j] => i = j
<1>1. Len(f) \in Nat /\ Len(f) >= 1 /\ DOMAIN f = 1 .. Len(f) /\ Head(f) = f[1] /\ f[1] \in Pages
  OBVIOUS
<1>2. DOMAIN Tail(f) = 1 .. Len(f) - 1 /\ \A i \in 1 .. Len(f) - 1 : Tail(f)[i] = f[i + 1]
  OBVIOUS
<1>3. r[Head(f)] = Free
  BY <1>1 DEF Listed
<1>4. ASSUME NEW i \in DOMAIN Tail(f), NEW j \in DOMAIN Tail(f), Tail(f)[i] = Tail(f)[j]
      PROVE  i = j
  <2>1. i + 1 \in DOMAIN f /\ j + 1 \in DOMAIN f /\ f[i + 1] = f[j + 1]
    BY <1>1, <1>2, <1>4
  <2>2. i + 1 = j + 1
    BY <2>1, Zenon DEF Listed
  <2> QED
    BY <1>1, <1>2, <2>2
<1>5. ASSUME NEW x \in Pages, NEW i \in DOMAIN Tail(f), Tail(f)[i] = x
      PROVE  x # Head(f) /\ r[x] = Free
  <2>1. i + 1 \in DOMAIN f /\ f[i + 1] = x /\ 1 \in DOMAIN f /\ i + 1 # 1
    BY <1>1, <1>2, <1>5
  <2> QED
    BY <1>1, <2>1, Zenon DEF Listed
<1>6. ASSUME NEW x \in Pages, x # Head(f), r[x] = Free
      PROVE  \E i \in DOMAIN Tail(f) : Tail(f)[i] = x
  <2>1. PICK j \in DOMAIN f : f[j] = x
    BY <1>6, Zenon DEF Listed
  <2>2. j - 1 \in DOMAIN Tail(f) /\ Tail(f)[j - 1] = x
    BY <1>1, <1>2, <1>6, <2>1
  <2> QED
    BY <2>2, Zenon
<1> QED
  BY <1>1, <1>3, <1>4, <1>5, <1>6, Zenon

\* A page taken for the table t of p.
LEMMA TableRole ==
    ASSUME NEW m \in Spaces, NEW n \in Spaces, NEW p, NEW r, NEW t \in Tables, Fits(m, p, r),
           m.free # <<>>, m.tab[t] = 0, n.free = Tail(m.free), n.pt = m.pt,
           n.tab = [m.tab EXCEPT ![t] = Head(m.free)]
    PROVE  \E s : Fits(n, p, s) /\ Moves(p, r, s) /\ Dropped(s) = Dropped(r)
<1> DEFINE x == Head(m.free)
           s == [y \in Pages |-> IF y = x THEN Tab(p, t) ELSE r[y]]
<1>0. m.free \in Seq(Pages) /\ m.tab \in [Tables -> 0 .. PAGES] /\ Listed(m.free, r)
  BY SpaceFields, Zenon DEF Fits
<1>1. /\ x \in Pages /\ r[x] = Free
      /\ \A y \in Pages : (\E i \in DOMAIN n.free : n.free[i] = y) <=> (y # x /\ r[y] = Free)
      /\ \A i, j \in DOMAIN n.free : n.free[i] = n.free[j] => i = j
  BY <1>0, HeadTail
<1> HIDE DEF x
<1>2. s[x] = Tab(p, t) /\ \A y \in Pages : y # x => s[y] = r[y]
  BY <1>1, Zenon
<1>3. n.tab[t] = x /\ \A u \in Tables : u # t => n.tab[u] = m.tab[u]
  BY <1>0, Zenon DEF x
<1> HIDE DEF s
<1>4. Listed(n.free, s)
  BY <1>1, <1>2, RoleFacts DEF Listed
<1>5. Tabled(n.tab, p, s)
  <2> SUFFICES ASSUME NEW y \in Pages, NEW u \in Tables
               PROVE  s[y] = Tab(p, u) <=> n.tab[u] = y
    BY Zenon DEF Tabled
  <2>1. r[y] = Tab(p, u) <=> m.tab[u] = y
    BY Zenon DEF Fits, Tabled
  <2>2. CASE y = x
    BY <1>1, <1>2, <1>3, <2>1, <2>2, RoleFacts
  <2>3. CASE y # x /\ u = t
    BY <1>2, <1>3, <2>1, <2>3 DEF Pages
  <2>4. CASE y # x /\ u # t
    BY <1>2, <1>3, <2>1, <2>4, Zenon
  <2> QED
    BY <2>2, <2>3, <2>4, Zenon
<1>6. Mapped(n.pt, p, s)
  <2> SUFFICES ASSUME NEW y \in Pages, NEW va \in VAs
               PROVE  s[y] = Map(p, va) <=> r[y] = Map(p, va)
    BY DEF Mapped, Fits
  <2> QED
    BY <1>1, <1>2, RoleFacts
<1>7. Moves(p, r, s)
  BY <1>1, <1>2, Zenon DEF Moves, Place
<1>8. Dropped(s) = Dropped(r)
  BY <1>1, <1>2, RoleFacts DEF Dropped
<1> QED
  BY <1>4, <1>5, <1>6, <1>7, <1>8, Zenon DEF Fits

\* The fate of a handler says nothing about pages.
LEMMA SameFits ==
    ASSUME NEW m, NEW n, NEW p, NEW r, Fits(m, p, r), n.free = m.free, n.tab = m.tab, n.pt = m.pt
    PROVE  Fits(n, p, r) /\ Moves(p, r, r)
  BY Zenon DEF Fits, Moves

\* A level of page_walk: a free page becomes a table.
LEMMA WalkLevelRoles ==
    ASSUME NEW m \in Spaces, NEW t \in Tables, NEW p, NEW r, Fits(m, p, r)
    PROVE  \E s : Fits(page_walk_level(m, t), p, s) /\ Moves(p, r, s) /\ Dropped(s) = Dropped(r)
<1> DEFINE n == page_walk_level(m, t)
<1>1. CASE m.fate # "ok" \/ m.tab[t] # 0
  <2>1. n = m
    BY <1>1, Zenon DEF page_walk_level
  <2> HIDE DEF n
  <2>2. Fits(n, p, r) /\ Moves(p, r, r)
    BY <2>1, SameFits, Zenon
  <2> QED
    BY <2>2, Zenon DEF n
<1>2. CASE m.fate = "ok" /\ m.tab[t] = 0 /\ m.free = <<>>
  <2>1. n = [m EXCEPT !.fate = "failed"] /\ "failed" \in Fates
    BY <1>2, Zenon DEF page_walk_level, Fates
  <2> HIDE DEF n
  <2>2. n.free = m.free /\ n.tab = m.tab /\ n.pt = m.pt
    BY <2>1, SetFate
  <2>3. Fits(n, p, r) /\ Moves(p, r, r)
    BY <2>2, SameFits, Zenon
  <2> QED
    BY <2>3, Zenon DEF n
<1>3. CASE m.fate = "ok" /\ m.tab[t] = 0 /\ m.free # <<>>
  <2> DEFINE x == alloc_page(m.free)
             f == AfterAlloc(m.free)
  <2>1. n = [m EXCEPT !.tab[t] = x, !.free = f]
    BY <1>3, Zenon DEF page_walk_level
  <2>2. x \in 0 .. PAGES /\ f \in Seq(Pages)
    BY SpaceFields, AllocFacts, Zenon
  <2>3. x = Head(m.free) /\ f = Tail(m.free)
    BY <1>3, Zenon DEF alloc_page, AfterAlloc
  <2> HIDE DEF n, x, f
  <2>4. n.free = f /\ n.pt = m.pt /\ n.tab = [m.tab EXCEPT ![t] = x] /\ n \in Spaces
    BY <2>1, <2>2, Zenon DEF Spaces
  <2>5. \E s : Fits(n, p, s) /\ Moves(p, r, s) /\ Dropped(s) = Dropped(r)
    BY <1>3, <2>3, <2>4, TableRole
  <2> QED
    BY <2>5, Zenon DEF n
<1> QED
  BY <1>1, <1>2, <1>3, Zenon

\* Both levels of page_walk.
LEMMA WalkRoles ==
    ASSUME NEW m \in Spaces, NEW va \in VAs, NEW p, NEW r, Fits(m, p, r)
    PROVE  \E s : Fits(page_walk(m, va), p, s) /\ Moves(p, r, s) /\ Dropped(s) = Dropped(r)
<1> DEFINE d == page_walk_level(m, Directory(va))
<1>0. Directory(va) \in Tables /\ LeafTable(va) \in Tables
  BY Addresses, Zenon
<1>1. PICK s : Fits(d, p, s) /\ Moves(p, r, s) /\ Dropped(s) = Dropped(r)
  BY <1>0, WalkLevelRoles
<1>2. d \in Spaces
  BY <1>0, WalkLevelFacts, Zenon
<1>3. page_walk(m, va) = page_walk_level(d, LeafTable(va))
  BY Zenon DEF page_walk
<1> HIDE DEF d
<1>4. PICK u : /\ Fits(page_walk_level(d, LeafTable(va)), p, u)
               /\ Moves(p, s, u) /\ Dropped(u) = Dropped(s)
  BY <1>0, <1>1, <1>2, WalkLevelRoles
<1>5. Moves(p, r, u)
  BY <1>1, <1>4, MovesTrans, Zenon
<1> QED
  BY <1>1, <1>3, <1>4, <1>5, Zenon

\* The pages without a role that are left when pa is mapped at va of p.
Left(p, r, va, pa) == {x \in Dropped(r) : ~(Counted(p, va) /\ x = pa)}

\* pa may be mapped at va: it has no role yet, or its mapping there is not counted.
Placeable(p, r, va, pa) == Counted(p, va) => pa \in Dropped(r) \/ pa \notin Pages

\* From m to n the page pa is mapped at va.
Installs(m, n, va, pa) ==
    /\ n.free = m.free /\ n.tab = m.tab /\ ~m.pt[va].v
    /\ \A u \in VAs : u # va => n.pt[u] = m.pt[u]
    /\ n.pt[va].v /\ n.pt[va].pa = pa

\* A page without a role is mapped.
LEMMA MapRole ==
    ASSUME NEW m, NEW n, NEW p, NEW r, NEW va \in VAs, NEW pa,
           Fits(m, p, r), Installs(m, n, va, pa), Placeable(p, r, va, pa)
    PROVE  \E s : /\ Fits(n, p, s) /\ Moves(p, r, s)
                  /\ Dropped(s) = Left(p, r, va, pa)
<1> DEFINE s == [y \in Pages |-> IF y = pa /\ Counted(p, va) THEN Map(p, va) ELSE r[y]]
<1>1. ASSUME NEW y \in Pages, y = pa, Counted(p, va)
      PROVE  s[y] = Map(p, va) /\ r[y] = None
  BY <1>1, Zenon DEF Dropped, Placeable
<1>2. ASSUME NEW y \in Pages, ~(y = pa /\ Counted(p, va))
      PROVE  s[y] = r[y]
  BY <1>2, Zenon
<1> HIDE DEF s
<1>3. \A y \in Pages : \/ s[y] = r[y] /\ ~(y = pa /\ Counted(p, va))
                       \/ s[y] = Map(p, va) /\ r[y] = None /\ y = pa /\ Counted(p, va)
  BY <1>1, <1>2, Zenon
<1>4. Listed(n.free, s)
  <2>1. \A y \in Pages : s[y] = Free <=> r[y] = Free
    BY <1>3, RoleFacts, Zenon
  <2> QED
    BY <2>1 DEF Listed, Fits, Installs
<1>5. Tabled(n.tab, p, s)
  <2>1. \A y \in Pages, t \in Tables : s[y] = Tab(p, t) <=> r[y] = Tab(p, t)
    BY <1>3, RoleFacts, Zenon
  <2> QED
    BY <2>1 DEF Tabled, Fits, Installs
<1>6. Mapped(n.pt, p, s)
  <2> SUFFICES ASSUME NEW y \in Pages, NEW u \in VAs
               PROVE  s[y] = Map(p, u) <=> Counted(p, u) /\ n.pt[u].v /\ n.pt[u].pa = y
    BY Zenon DEF Mapped
  <2>1. r[y] = Map(p, u) <=> Counted(p, u) /\ m.pt[u].v /\ m.pt[u].pa = y
    BY Zenon DEF Fits, Mapped
  <2>2. CASE u = va
    BY <1>3, <2>1, <2>2, RoleFacts, Zenon DEF Installs
  <2>3. CASE u # va
    BY <1>3, <2>1, <2>3, RoleFacts DEF Installs
  <2> QED
    BY <2>2, <2>3, Zenon
<1>7. Moves(p, r, s)
  BY <1>3, Zenon DEF Moves, Place
<1>8. Dropped(s) = Left(p, r, va, pa)
  BY <1>3, RoleFacts DEF Dropped, Left
<1> QED
  BY <1>4, <1>5, <1>6, <1>7, <1>8, Zenon DEF Fits

\* map_pages places the tables it needs and then the page it maps.
LEMMA MapPagesRoles ==
    ASSUME NEW m \in Spaces, NEW p, NEW r, NEW va \in VAs, NEW pa \in 0 .. PAGES + 2,
           NEW w \in BOOLEAN, m.fate = "ok", ~m.pt[va].v, Fits(m, p, r),
           Placeable(p, r, va, pa)
    PROVE  LET n == map_pages(m, va, pa, w)
           IN  \E s : /\ Fits(n, p, s) /\ Moves(p, r, s)
                      /\ n.fate = "ok" => Dropped(s) = Left(p, r, va, pa)
<1> DEFINE k == page_walk(m, va)
           n == map_pages(m, va, pa, w)
<1>1. k \in Spaces /\ k.pt = m.pt
  BY WalkFacts, Zenon
<1>2. PICK s : Fits(k, p, s) /\ Moves(p, r, s) /\ Dropped(s) = Dropped(r)
  BY WalkRoles
<1>3. CASE k.fate # "ok"
  <2>1. n = k
    BY <1>3, Zenon DEF map_pages
  <2> QED
    BY <1>2, <1>3, <2>1, Zenon
<1>4. CASE k.fate = "ok"
  <2>1. n = [k EXCEPT !.pt[va] = Pte(pa, w)]
    BY <1>1, <1>4, Zenon DEF map_pages, Pte
  <2>2. Pte(pa, w) \in PTEs
    BY Zenon DEF PTEs, Pte
  <2> HIDE DEF n, k
  <2>3. /\ n \in Spaces /\ n.free = k.free /\ n.tab = k.tab
        /\ n.pt = [k.pt EXCEPT ![va] = Pte(pa, w)]
    <3> DEFINE e == Pte(pa, w)
    <3> HIDE DEF e
    <3>1. e \in PTEs /\ n = [k EXCEPT !.pt[va] = e]
      BY <2>1, <2>2, Zenon DEF e
    <3>2. n \in Spaces /\ n.free = k.free /\ n.tab = k.tab /\ n.pt = [k.pt EXCEPT ![va] = e]
      BY <1>1, <3>1, Zenon DEF Spaces
    <3> QED
      BY <3>2, Zenon DEF e
  <2>4. PICK u : /\ Fits(n, p, u) /\ Moves(p, s, u)
                 /\ Dropped(u) = Left(p, s, va, pa)
    <3>1. Placeable(p, s, va, pa)
      BY <1>2, Zenon DEF Placeable
    <3>2. Fits(k, p, s)
      BY <1>2, Zenon
    <3>3. Installs(k, n, va, pa)
      BY <1>1, <2>3, SpaceFields, PteFacts DEF Installs
    <3> QED
      BY <3>1, <3>2, <3>3, MapRole
  <2>5. Moves(p, r, u)
    BY <1>2, <2>4, MovesTrans, Zenon
  <2> QED
    <3>1. Left(p, s, va, pa) = Left(p, r, va, pa)
      BY <1>2, Zenon DEF Left
    <3> QED
      BY <2>4, <2>5, <3>1, Zenon DEF n
<1> QED
  BY <1>3, <1>4, Zenon

\* user_vm_map, called also after an earlier mapping of the handler failed.
LEMMA UserMapRoles ==
    ASSUME NEW m, Going(m), NEW p, NEW r, NEW va \in VAs, NEW pa \in 0 .. PAGES + 2,
           NEW w \in BOOLEAN, m.fate = "ok" => ~m.pt[va].v, Fits(m, p, r),
           m.fate = "ok" => Placeable(p, r, va, pa)
    PROVE  LET n == user_vm_map(m, va, pa, w)
           IN  \E s : /\ Fits(n, p, s) /\ Moves(p, r, s)
                      /\ n.fate = "ok" => Dropped(s) = Left(p, r, va, pa)
<1> DEFINE n == user_vm_map(m, va, pa, w)
           k == map_pages(m, va, pa, w)
<1>1. CASE m.fate # "ok"
  <2>1. n = m
    BY <1>1, UserMapStopped, Zenon DEF Going
  <2>2. Fits(n, p, r) /\ Moves(p, r, r)
    BY <2>1, SameFits, Zenon
  <2> QED
    BY <1>1, <2>1, <2>2, Zenon
<1>2. CASE m.fate = "ok"
  <2>1. m \in Spaces /\ ~m.pt[va].v
    BY <1>2, Zenon DEF Going
  <2>2. PICK s : /\ Fits(k, p, s) /\ Moves(p, r, s)
                 /\ k.fate = "ok" => Dropped(s) = Left(p, r, va, pa)
    BY <1>2, <2>1, MapPagesRoles, Zenon
  <2>3. k \in Spaces /\ n = IF k.fate = "failed" THEN [k EXCEPT !.fate = "oom_panic"] ELSE k
    BY <1>2, <2>1, MapFacts, Zenon DEF user_vm_map
  <2>4. n.free = k.free /\ n.tab = k.tab /\ n.pt = k.pt /\ (n.fate = "ok" => k.fate = "ok")
    <3>1. CASE k.fate = "failed"
      <4>1. "oom_panic" \in Fates /\ n = [k EXCEPT !.fate = "oom_panic"]
        BY <2>3, <3>1, Zenon DEF Fates
      <4> HIDE DEF n, k
      <4> QED
        BY <2>3, <4>1, SetFate
    <3>2. CASE k.fate # "failed"
      BY <2>3, <3>2, Zenon
    <3> QED
      BY <3>1, <3>2, Zenon
  <2> HIDE DEF n, k
  <2>5. Fits(n, p, s)
    BY <2>2, <2>4, SameFits, Zenon
  <2> QED
    BY <2>2, <2>4, <2>5, Zenon DEF n
<1> QED
  BY <1>1, <1>2, Zenon

\* alloc_page takes a page off the list and gives it no role.
LEMMA TakeRole ==
    ASSUME NEW m, NEW k, NEW p, NEW r, Fits(m, p, r), m.free \in Seq(Pages),
           k.free = AfterAlloc(m.free), k.tab = m.tab, k.pt = m.pt
    PROVE  LET pa == alloc_page(m.free)
           IN  \E s : /\ Fits(k, p, s) /\ Moves(p, r, s)
                      /\ pa \in Dropped(s) \/ pa \notin Pages
                      /\ \A x \in Dropped(s) : x # pa => x \in Dropped(r)
<1> DEFINE pa == alloc_page(m.free)
<1>1. CASE m.free = <<>>
  <2>1. k.free = m.free /\ pa = 0 /\ pa \notin Pages
    BY <1>1 DEF Pages, AfterAlloc, alloc_page
  <2>2. Fits(k, p, r) /\ Moves(p, r, r)
    BY <2>1, SameFits, Zenon
  <2> QED
    BY <2>1, <2>2, Zenon
<1>2. CASE m.free # <<>>
  <2> DEFINE s == [y \in Pages |-> IF y = pa THEN None ELSE r[y]]
  <2>1. pa = Head(m.free) /\ k.free = Tail(m.free)
    BY <1>2, Zenon DEF alloc_page, AfterAlloc
  <2>2. /\ pa \in Pages /\ r[pa] = Free
        /\ \A y \in Pages : (\E i \in DOMAIN k.free : k.free[i] = y) <=> (y # pa /\ r[y] = Free)
        /\ \A i, j \in DOMAIN k.free : k.free[i] = k.free[j] => i = j
    BY <1>2, <2>1, HeadTail DEF Fits
  <2> HIDE DEF pa
  <2>3. s[pa] = None /\ \A y \in Pages : y # pa => s[y] = r[y]
    BY <2>2, Zenon
  <2> HIDE DEF s
  <2>4. Listed(k.free, s)
    BY <2>2, <2>3, RoleFacts DEF Listed
  <2>5. \A y \in Pages : \A u : (s[y] = Tab(p, u) <=> r[y] = Tab(p, u)) /\ (s[y] = Map(p, u) <=> r[y] = Map(p, u))
    BY <2>2, <2>3, RoleFacts
  <2>6. Tabled(k.tab, p, s) /\ Mapped(k.pt, p, s)
    BY <2>5 DEF Fits, Tabled, Mapped
  <2>7. Moves(p, r, s)
    BY <2>2, <2>3, Zenon DEF Moves
  <2>8. pa \in Dropped(s) /\ \A x \in Dropped(s) : x # pa => x \in Dropped(r)
    BY <2>2, <2>3, Zenon DEF Dropped
  <2> QED
    BY <2>4, <2>6, <2>7, <2>8, Zenon DEF Fits, pa
<1> QED
  BY <1>1, <1>2, Zenon

\* A page is taken and mapped, by map_pages or by user_vm_map.
LEMMA TakeMapRoles ==
    ASSUME NEW m \in Spaces, NEW k \in Spaces, NEW p, NEW r, NEW va \in VAs, Fits(m, p, r),
           k.free = AfterAlloc(m.free), k.tab = m.tab, k.pt = m.pt, k.fate = "ok",
           ~m.pt[va].v, Counted(p, va), NEW n, NEW w \in BOOLEAN,
           \/ n = map_pages(k, va, alloc_page(m.free), w)
           \/ n = user_vm_map(k, va, alloc_page(m.free), w)
    PROVE  \E s : /\ Fits(n, p, s) /\ Moves(p, r, s)
                  /\ n.fate = "ok" => Dropped(s) \subseteq Dropped(r)
<1> DEFINE pa == alloc_page(m.free)
<1>0. m.free \in Seq(Pages) /\ pa \in 0 .. PAGES + 2 /\ ~k.pt[va].v /\ Going(k)
  BY SpaceFields, AllocFacts, MemoryAssumption DEF Going
<1>1. PICK s : /\ Fits(k, p, s) /\ Moves(p, r, s)
               /\ pa \in Dropped(s) \/ pa \notin Pages
               /\ \A x \in Dropped(s) : x # pa => x \in Dropped(r)
  BY <1>0, TakeRole, Zenon
<1>2. Placeable(p, s, va, pa)
  BY <1>1, Zenon DEF Placeable
<1> HIDE DEF pa
<1>3. PICK u : /\ Fits(n, p, u) /\ Moves(p, s, u)
               /\ n.fate = "ok" => Dropped(u) = Left(p, s, va, pa)
  <2>1. CASE n = map_pages(k, va, pa, w)
    <3>1. Fits(k, p, s)
      BY <1>1, Zenon
    <3> QED
      BY <1>0, <1>2, <2>1, <3>1, MapPagesRoles
  <2>2. CASE n = user_vm_map(k, va, pa, w)
    <3>1. Fits(k, p, s)
      BY <1>1, Zenon
    <3> QED
      BY <1>0, <1>2, <2>2, <3>1, UserMapRoles
  <2> QED
    BY <2>1, <2>2, Zenon DEF pa
<1>4. Moves(p, r, u)
  BY <1>1, <1>3, MovesTrans, Zenon
<1>5. n.fate = "ok" => Dropped(u) \subseteq Dropped(r)
  BY <1>1, <1>3, Zenon DEF Left
<1> QED
  BY <1>3, <1>4, <1>5, Zenon

-----------------------------------------------------------------------------
\* No page has a role in c; and, from r to s, pages that were free or had no role get one in c.
Vacant(c, r) == \A x \in Pages : ~Place(c, r[x]) /\ \A i \in 1 .. 4 : r[x] # Own(c, i)
Births(c, r, s) ==
    \A x \in Pages :
      \/ s[x] = r[x]
      \/ /\ r[x] \in {Free, None}
         /\ s[x] = None \/ Place(c, s[x]) \/ \E i \in 1 .. 4 : s[x] = Own(c, i)

\* The space k of a new process c, the pages alloc_process took from f included.
Born(c, f, r, k) ==
    \E s : /\ Fits(k, c, s) /\ Births(c, r, s) /\ Owned(KernelPages(f), c, s)
           /\ k.fate = "ok" => Dropped(s) \subseteq Dropped(r)

\* Later mappings leave the kernel pages of the new process alone.
LEMMA BornMoves ==
    ASSUME NEW c, NEW r, NEW s, NEW u, NEW o, Births(c, r, s), Moves(c, s, u), Owned(o, c, s)
    PROVE  Births(c, r, u) /\ Owned(o, c, u)
<1>1. Births(c, r, u)
  <2> SUFFICES ASSUME NEW x \in Pages, u[x] # r[x]
               PROVE  /\ r[x] \in {Free, None}
                      /\ u[x] = None \/ Place(c, u[x]) \/ \E i \in 1 .. 4 : u[x] = Own(c, i)
    BY Zenon DEF Births
  <2>1. CASE u[x] = s[x]
    BY <2>1, Zenon DEF Births
  <2>2. CASE s[x] \in {Free, None} /\ (u[x] = None \/ Place(c, u[x]))
    <3>1. s[x] = r[x] \/ r[x] \in {Free, None}
      BY Zenon DEF Births
    <3> QED
      BY <2>2, <3>1, Zenon
  <2> QED
    BY <2>1, <2>2, Zenon DEF Moves
<1>2. Owned(o, c, u)
  <2> SUFFICES ASSUME NEW x \in Pages, NEW i \in 1 .. 4
               PROVE  u[x] = Own(c, i) <=> s[x] = Own(c, i)
    BY DEF Owned
  <2> QED
    BY PlaceFacts, RoleFacts, Zenon DEF Moves
<1> QED
  BY <1>1, <1>2, Zenon

\* A step of the handler that creates the process.
LEMMA BornStep ==
    ASSUME NEW c, NEW f, NEW r, NEW m, NEW n, Born(c, f, r, m), n.fate = "ok" => m.fate = "ok",
           \A s : Fits(m, c, s) => \E u : /\ Fits(n, c, u) /\ Moves(c, s, u)
                                          /\ n.fate = "ok" => Dropped(u) \subseteq Dropped(s)
    PROVE  Born(c, f, r, n)
<1>1. PICK s : /\ Fits(m, c, s) /\ Births(c, r, s) /\ Owned(KernelPages(f), c, s)
               /\ m.fate = "ok" => Dropped(s) \subseteq Dropped(r)
  BY Zenon DEF Born
<1>2. PICK u : /\ Fits(n, c, u) /\ Moves(c, s, u)
               /\ n.fate = "ok" => Dropped(u) \subseteq Dropped(s)
  BY <1>1, Zenon
<1>3. Births(c, r, u) /\ Owned(KernelPages(f), c, u)
  BY <1>1, <1>2, BornMoves, Zenon
<1>4. n.fate = "ok" => Dropped(u) \subseteq Dropped(r)
  BY <1>1, <1>2, Zenon
<1> QED
  BY <1>2, <1>3, <1>4, Zenon DEF Born

\* The five pages are distinct, and the rest of the list is what stays free.
LEMMA FiveRoles ==
    ASSUME NEW f \in Seq(Pages), Len(f) >= 5, NEW r, Listed(f, r)
    PROVE  LET g == SubSeq(f, 6, Len(f))
               five == {f[1], f[2], f[3], f[4], f[5]}
           IN  /\ \A i, j \in 1 .. 5 : f[i] = f[j] => i = j
               /\ \A x \in five : x \in Pages /\ r[x] = Free
               /\ \A x \in Pages : (\E i \in DOMAIN g : g[i] = x) <=> (x \notin five /\ r[x] = Free)
               /\ \A i, j \in DOMAIN g : g[i] = g[j] => i = j
<1> DEFINE g == SubSeq(f, 6, Len(f))
<1>1. Len(f) \in Nat /\ DOMAIN f = 1 .. Len(f) /\ \A i \in 1 .. Len(f) : f[i] \in Pages
  OBVIOUS
<1>2. DOMAIN g = 1 .. Len(f) - 5 /\ \A i \in 1 .. Len(f) - 5 : g[i] = f[i + 5]
  OBVIOUS
<1> HIDE DEF g
<1>3. \A i, j \in 1 .. 5 : f[i] = f[j] => i = j
  BY <1>1 DEF Listed
<1>4. \A x \in {f[1], f[2], f[3], f[4], f[5]} : x \in Pages /\ r[x] = Free
  BY <1>1 DEF Listed
<1>5. ASSUME NEW i \in DOMAIN g, NEW j \in DOMAIN g, g[i] = g[j]
      PROVE  i = j
  <2>1. i + 5 \in DOMAIN f /\ j + 5 \in DOMAIN f /\ f[i + 5] = f[j + 5]
    BY <1>1, <1>2, <1>5
  <2>2. i + 5 = j + 5
    BY <2>1 DEF Listed
  <2> QED
    BY <1>1, <1>2, <2>2
<1>6. ASSUME NEW x \in Pages, NEW i \in DOMAIN g, g[i] = x
      PROVE  x \notin {f[1], f[2], f[3], f[4], f[5]} /\ r[x] = Free
  <2>1. i + 5 \in DOMAIN f /\ f[i + 5] = x /\ \A j \in 1 .. 5 : j \in DOMAIN f /\ j # i + 5
    BY <1>1, <1>2, <1>6
  <2>2. \A j \in 1 .. 5 : f[j] # x
    BY <2>1, Zenon DEF Listed
  <2> QED
    BY <2>1, <2>2 DEF Listed
<1>7. ASSUME NEW x \in Pages, x \notin {f[1], f[2], f[3], f[4], f[5]}, r[x] = Free
      PROVE  \E i \in DOMAIN g : g[i] = x
  <2>1. PICK j \in DOMAIN f : f[j] = x
    BY <1>7, Zenon DEF Listed
  <2>2. j \in 1 .. Len(f) /\ j \notin {1, 2, 3, 4, 5}
    BY <1>1, <1>7, <2>1, Zenon
  <2>3. j - 5 \in DOMAIN g /\ g[j - 5] = x
    BY <1>1, <1>2, <2>1, <2>2
  <2> QED
    BY <2>3, Zenon
<1> QED
  BY <1>3, <1>4, <1>5, <1>6, <1>7, Zenon DEF g

\* The roles once the five pages are taken and before anything is mapped.
LEMMA FiveBorn ==
    ASSUME NEW c, NEW f \in Seq(Pages), Len(f) >= 5, NEW r, Listed(f, r), Vacant(c, r), NEW e,
           e.free = SubSeq(f, 6, Len(f)), e.tab = [t \in Tables |-> 0], e.pt = [va \in VAs |-> NoPte]
    PROVE  \E s : /\ Fits(e, c, s) /\ Births(c, r, s) /\ Owned(KernelPages(f), c, s)
                  /\ f[4] \in Dropped(s) /\ \A x \in Dropped(s) : x # f[4] => x \in Dropped(r)
<1> DEFINE s == [x \in Pages |-> CASE x = f[1] -> Own(c, 1)
                                   [] x = f[2] -> Own(c, 2)
                                   [] x = f[3] -> Own(c, 3)
                                   [] x = f[4] -> None
                                   [] x = f[5] -> Own(c, 4)
                                   [] OTHER -> r[x]]
           five == {f[1], f[2], f[3], f[4], f[5]}
<1>1. /\ \A i, j \in 1 .. 5 : f[i] = f[j] => i = j
      /\ \A x \in five : x \in Pages /\ r[x] = Free
      /\ \A x \in Pages : (\E i \in DOMAIN e.free : e.free[i] = x) <=> (x \notin five /\ r[x] = Free)
      /\ \A i, j \in DOMAIN e.free : e.free[i] = e.free[j] => i = j
  BY FiveRoles
<1>2. /\ f[1] # f[2] /\ f[1] # f[3] /\ f[1] # f[4] /\ f[1] # f[5] /\ f[2] # f[3]
      /\ f[2] # f[4] /\ f[2] # f[5] /\ f[3] # f[4] /\ f[3] # f[5] /\ f[4] # f[5]
  BY <1>1
<1>3. /\ s[f[1]] = Own(c, 1) /\ s[f[2]] = Own(c, 2) /\ s[f[3]] = Own(c, 3)
      /\ s[f[4]] = None /\ s[f[5]] = Own(c, 4)
  BY <1>1, <1>2, Zenon
<1>4. \A x \in Pages : x \notin five => s[x] = r[x]
  BY Zenon
<1> HIDE DEF s
<1>5. \A x \in five : ~Place(c, s[x]) /\ s[x] # Free
  BY <1>3, PlaceFacts, RoleFacts
<1>6. \A x \in Pages : ~Place(c, s[x])
  BY <1>4, <1>5, Zenon DEF Vacant
<1>7. Listed(e.free, s)
  BY <1>1, <1>4, <1>5, Zenon DEF Listed
<1>8. Tabled(e.tab, c, s)
  <2>1. \A x \in Pages, t \in Tables : s[x] # Tab(c, t) /\ e.tab[t] # x
    BY <1>6 DEF Place, Pages
  <2> QED
    BY <2>1, Zenon DEF Tabled
<1>9. Mapped(e.pt, c, s)
  <2>1. \A x \in Pages, va \in VAs : s[x] # Map(c, va) /\ e.pt[va] = NoPte
    BY <1>6, Zenon DEF Place
  <2> QED
    BY <2>1, PteFacts DEF Mapped
<1>f. \A x \in five : (x = f[4] /\ s[x] = None) \/ \E i \in 1 .. 4 : s[x] = Own(c, i)
  <2>1. 1 \in 1 .. 4 /\ 2 \in 1 .. 4 /\ 3 \in 1 .. 4 /\ 4 \in 1 .. 4
    OBVIOUS
  <2> QED
    BY <1>3, <2>1, Zenon
<1>10. Births(c, r, s)
  <2> SUFFICES ASSUME NEW x \in Pages
               PROVE  \/ s[x] = r[x]
                      \/ r[x] = Free /\ (s[x] = None \/ \E i \in 1 .. 4 : s[x] = Own(c, i))
    BY Zenon DEF Births
  <2> HIDE DEF five
  <2> QED
    BY <1>1, <1>f, <1>4, Zenon
<1>11. Owned(KernelPages(f), c, s)
  <2>1. KernelPages(f) = <<f[1], f[2], f[3], f[5]>>
    BY DEF KernelPages
  <2> SUFFICES ASSUME NEW x \in Pages, NEW i \in 1 .. 4
               PROVE  s[x] = Own(c, i) <=> <<f[1], f[2], f[3], f[5]>>[i] = x
    BY <2>1 DEF Owned
  <2>2. CASE x \notin five
    BY <1>4, <2>2, SMTT(30) DEF Vacant
  <2>3. CASE x \in five
    <3>1. i \in {1, 2, 3, 4}
      OBVIOUS
    <3> QED
      BY <1>2, <1>3, <2>3, <3>1, RoleFacts
  <2> QED
    BY <2>2, <2>3, Zenon
<1>12. f[4] \in Dropped(s) /\ \A x \in Dropped(s) : x # f[4] => x \in Dropped(r)
  <2>1. f[4] \in Pages
    BY <1>1, Zenon
  <2>2. ASSUME NEW x \in Pages, x # f[4], s[x] = None
        PROVE  r[x] = None
    <3>1. x \notin five
      BY <1>f, <2>2, RoleFacts
    <3> QED
      BY <1>4, <2>2, <3>1, Zenon
  <2> QED
    BY <1>3, <2>1, <2>2, Zenon DEF Dropped
<1> QED
  BY <1>7, <1>8, <1>9, <1>10, <1>11, <1>12, SMTT(30) DEF Fits

\* alloc_process: of its five pages four become kernel pages and one the user stack.
LEMMA AllocBorn ==
    ASSUME NEW c, NEW f \in Seq(Pages), NEW r, Listed(f, r), Vacant(c, r)
    PROVE  Born(c, f, r, alloc_process(f))
<1> DEFINE n == alloc_process(f)
<1>1. CASE Len(f) < 5
  <2> DEFINE s == [x \in Pages |-> IF r[x] = Free THEN None ELSE r[x]]
  <2>1. /\ n.free = <<>> /\ n.fate = "crash" /\ KernelPages(f) = <<>>
        /\ n.tab = [t \in Tables |-> 0] /\ n.pt = [va \in VAs |-> NoPte]
    BY <1>1, ShortAlloc, Zenon
  <2>2. \A x \in Pages : (s[x] = r[x] /\ r[x] # Free) \/ (s[x] = None /\ r[x] = Free)
    BY Zenon
  <2> HIDE DEF n, s
  <2>3. \A x \in Pages : ~Place(c, s[x]) /\ s[x] # Free /\ \A i \in 1 .. 4 : s[x] # Own(c, i)
    BY <2>2, PlaceFacts, RoleFacts, SMTT(30) DEF Vacant
  <2>4. Listed(n.free, s)
    BY <2>1, <2>3 DEF Listed
  <2>5. Tabled(n.tab, c, s)
    <3>1. \A x \in Pages, t \in Tables : s[x] # Tab(c, t) /\ n.tab[t] # x
      BY <2>1, <2>3 DEF Place, Pages
    <3> QED
      BY <3>1, Zenon DEF Tabled
  <2>6. Mapped(n.pt, c, s)
    <3>1. \A x \in Pages, va \in VAs : s[x] # Map(c, va) /\ n.pt[va] = NoPte
      BY <2>1, <2>3, Zenon DEF Place
    <3> QED
      BY <3>1, PteFacts, Zenon DEF Mapped
  <2>7. Owned(KernelPages(f), c, s)
    BY <2>1, <2>3 DEF Owned
  <2>8. Births(c, r, s)
    BY <2>2, Zenon DEF Births
  <2>9. Born(c, f, r, n)
    BY <2>1, <2>4, <2>5, <2>6, <2>7, <2>8, Zenon DEF Born, Fits
  <2> QED
    BY <2>9, Zenon DEF n
<1>2. CASE ~(Len(f) < 5)
  <2> DEFINE e == Cleared(f)
             a == Stacked(f)
             b == Framed(f)
  <2>0. /\ STACK \in VAs /\ CTX \in VAs /\ TRAP \in VAs /\ TrapSection \notin Pages
        /\ Counted(c, STACK) /\ ~Counted(c, CTX)
    BY Addresses, MemoryAssumption DEF TrapSection, Pages, Counted, STACK, CTX, CODE
  <2>1. PICK s : /\ Fits(e, c, s) /\ Births(c, r, s) /\ Owned(KernelPages(f), c, s)
                 /\ f[4] \in Dropped(s) /\ \A x \in Dropped(s) : x # f[4] => x \in Dropped(r)
    <3>1. Len(f) >= 5
      BY <1>2
    <3>2. /\ e.free = SubSeq(f, 6, Len(f)) /\ e.tab = [t \in Tables |-> 0]
          /\ e.pt = [va \in VAs |-> NoPte]
      BY <1>2, AllocChain, Zenon
    <3> HIDE DEF e
    <3> QED
      BY <3>1, <3>2, FiveBorn, ZenonT(60)
  <2>2. Born(c, f, r, a)
    <3> DEFINE w == TRUE
               k == user_vm_map(e, STACK, f[4], w)
    <3>1. w \in BOOLEAN /\ a = k
      BY Zenon DEF Stacked
    <3>2. Going(e) /\ ~e.pt[STACK].v /\ f[4] \in 0 .. PAGES + 2
      BY <1>2, AllocChain, Zenon
    <3>3. Placeable(c, s, STACK, f[4]) /\ Fits(e, c, s) /\ STACK \in VAs
      BY <2>0, <2>1, Zenon DEF Placeable
    <3> HIDE DEF w, e, a
    <3>4. PICK u : /\ Fits(k, c, u) /\ Moves(c, s, u)
                   /\ k.fate = "ok" => Dropped(u) = Left(c, s, STACK, f[4])
      BY <3>1, <3>2, <3>3, UserMapRoles
    <3>5. Births(c, r, u) /\ Owned(KernelPages(f), c, u)
      BY <2>1, <3>4, BornMoves, Zenon
    <3>6. k.fate = "ok" => Dropped(u) \subseteq Dropped(r)
      BY <2>0, <2>1, <3>4, Zenon DEF Left
    <3>7. Born(c, f, r, k)
      BY <3>4, <3>5, <3>6, Zenon DEF Born
    <3> QED
      BY <3>1, <3>7, Zenon
  <2>3. Born(c, f, r, b)
    <3> DEFINE w == FALSE
               k == user_vm_map(a, CTX, f[1], w)
    <3>1. w \in BOOLEAN /\ b = k
      BY SMTT(30) DEF Framed
    <3>2. /\ Going(a) /\ ~a.pt[CTX].v /\ f[1] \in 0 .. PAGES + 2
          /\ b.fate = "ok" => a.fate = "ok"
      BY <1>2, AllocChain, Zenon
    <3>3. CTX \in VAs /\ \A u : Placeable(c, u, CTX, f[1])
      BY <2>0, Zenon DEF Placeable
    <3> HIDE DEF w, a, b
    <3>4. ASSUME NEW u, Fits(a, c, u)
          PROVE  \E v : /\ Fits(k, c, v) /\ Moves(c, u, v)
                        /\ k.fate = "ok" => Dropped(v) \subseteq Dropped(u)
      <4>1. PICK v : /\ Fits(k, c, v) /\ Moves(c, u, v)
                     /\ k.fate = "ok" => Dropped(v) = Left(c, u, CTX, f[1])
        BY <3>1, <3>2, <3>3, <3>4, UserMapRoles
      <4> QED
        BY <4>1, Zenon DEF Left
    <3> HIDE DEF k
    <3>5. Born(c, f, r, k)
      BY <2>2, <3>1, <3>2, <3>4, BornStep, SMTT(30)
    <3> QED
      BY <3>1, <3>5, Zenon
  <2>4. Born(c, f, r, n)
    <3> DEFINE w == FALSE
               k == user_vm_map(b, TRAP, TrapSection, w)
    <3>1. w \in BOOLEAN /\ n = k
      BY <1>2, AllocChain, Zenon
    <3>2. /\ Going(b) /\ ~b.pt[TRAP].v /\ TrapSection \in 0 .. PAGES + 2
          /\ n.fate = "ok" => b.fate = "ok"
      BY <1>2, AllocChain, Zenon
    <3>3. TRAP \in VAs /\ \A u : Placeable(c, u, TRAP, TrapSection)
      BY <2>0, Zenon DEF Placeable
    <3> HIDE DEF w, b, n
    <3>4. ASSUME NEW u, Fits(b, c, u)
          PROVE  \E v : /\ Fits(k, c, v) /\ Moves(c, u, v)
                        /\ k.fate = "ok" => Dropped(v) \subseteq Dropped(u)
      <4>1. PICK v : /\ Fits(k, c, v) /\ Moves(c, u, v)
                     /\ k.fate = "ok" => Dropped(v) = Left(c, u, TRAP, TrapSection)
        BY <3>1, <3>2, <3>3, <3>4, UserMapRoles
      <4> QED
        BY <4>1, Zenon DEF Left
    <3> HIDE DEF k
    <3>5. Born(c, f, r, k)
      BY <2>3, <3>1, <3>2, <3>4, BornStep, Zenon
    <3> QED
      BY <3>1, <3>5, Zenon
  <2> QED
    BY <2>4, Zenon
<1> QED
  BY <1>1, <1>2, Zenon

\* A handler that cannot go on changes no table and no mapping.
LEMMA StopRoles ==
    ASSUME NEW m \in Spaces, NEW n, NEW x \in Fates, n = [m EXCEPT !.fate = x], x # "ok",
           NEW c, NEW s, Fits(m, c, s)
    PROVE  \E u : /\ Fits(n, c, u) /\ Moves(c, s, u)
                  /\ n.fate = "ok" => Dropped(u) \subseteq Dropped(s)
<1>1. n.free = m.free /\ n.tab = m.tab /\ n.pt = m.pt /\ n.fate = x
  BY SetFate
<1>2. Fits(n, c, s)
  BY <1>1, Zenon DEF Fits
<1>3. Moves(c, s, s)
  BY Zenon DEF Moves
<1> QED
  BY <1>1, <1>2, <1>3, Zenon

\* A segment gets a page: elf_alloc_mb, and do_fork for the data segment.
LEMMA ElfBorn ==
    ASSUME NEW c, NEW f, NEW r, NEW m, Going(m), NEW seg \in VAs, ~m.pt[seg].v, Counted(c, seg),
           Born(c, f, r, m)
    PROVE  Born(c, f, r, elf_alloc_mb(m, seg))
<1> DEFINE n == elf_alloc_mb(m, seg)
<1>1. CASE m.fate # "ok"
  BY <1>1, Zenon DEF elf_alloc_mb
<1>2. CASE m.fate = "ok" /\ m.free = <<>>
  <2>1. n = [m EXCEPT !.fate = "oom_panic"] /\ "oom_panic" \in Fates /\ m \in Spaces
    BY <1>2, Zenon DEF elf_alloc_mb, Fates, Going
  <2> HIDE DEF n
  <2>2. ASSUME NEW s, Fits(m, c, s)
        PROVE  \E u : /\ Fits(n, c, u) /\ Moves(c, s, u)
                      /\ n.fate = "ok" => Dropped(u) \subseteq Dropped(s)
    BY <2>1, <2>2, StopRoles, SMTT(30)
  <2>3. Born(c, f, r, n)
    BY <1>2, <2>2, BornStep, Zenon
  <2> QED
    BY <2>3, Zenon DEF n
<1>3. CASE m.fate = "ok" /\ m.free # <<>>
  <2> DEFINE k == [m EXCEPT !.free = AfterAlloc(m.free)]
             w == TRUE
  <2>1. n = user_vm_map(k, seg, alloc_page(m.free), w) /\ w \in BOOLEAN /\ m \in Spaces
    BY <1>3, Zenon DEF elf_alloc_mb, Going
  <2>2. AfterAlloc(m.free) \in Seq(Pages)
    BY <2>1, SpaceFields, AllocFacts, Zenon
  <2>3. /\ k \in Spaces /\ k.free = AfterAlloc(m.free) /\ k.tab = m.tab /\ k.pt = m.pt
        /\ k.fate = "ok"
    BY <1>3, <2>1, <2>2, SetFree
  <2> HIDE DEF k, w, n
  <2>4. ASSUME NEW s, Fits(m, c, s)
        PROVE  \E u : /\ Fits(n, c, u) /\ Moves(c, s, u)
                      /\ n.fate = "ok" => Dropped(u) \subseteq Dropped(s)
    BY <2>1, <2>3, <2>4, TakeMapRoles, SMTT(30)
  <2>5. Born(c, f, r, n)
    BY <1>3, <2>4, BornStep, Zenon
  <2> QED
    BY <2>5, Zenon DEF n
<1> QED
  BY <1>1, <1>2, <1>3, Zenon

\* One round of do_fork's loop.  The code page keeps the role it has for process 0.
LEMMA ForkBorn ==
    ASSUME NEW c, c # 0, NEW f, NEW r, NEW m, Going(m), NEW parent \in Procs,
           NEW seg \in {CODE, DATA}, ~m.pt[seg].v, lookup_pa(parent, CODE) \in 0 .. PAGES + 2,
           Born(c, f, r, m)
    PROVE  Born(c, f, r, fork_region(parent, m, seg))
<1> DEFINE n == fork_region(parent, m, seg)
<1>0. CODE \in VAs /\ DATA \in VAs /\ CODE # DATA /\ Counted(c, DATA) /\ ~Counted(c, CODE)
  BY Addresses DEF CODE, DATA, CTX, Counted
<1>1. CASE m.fate # "ok"
  BY <1>1, Zenon DEF fork_region
<1>2. CASE m.fate = "ok" /\ seg = DATA /\ m.free = <<>>
  <2>1. n = [m EXCEPT !.fate = "crash"] /\ "crash" \in Fates /\ m \in Spaces
    BY <1>0, <1>2, Zenon DEF fork_region, Fates, Going
  <2> HIDE DEF n
  <2>2. ASSUME NEW s, Fits(m, c, s)
        PROVE  \E u : /\ Fits(n, c, u) /\ Moves(c, s, u)
                      /\ n.fate = "ok" => Dropped(u) \subseteq Dropped(s)
    BY <2>1, <2>2, StopRoles
  <2>3. Born(c, f, r, n)
    BY <1>2, <2>2, BornStep, Zenon
  <2> QED
    BY <2>3, Zenon DEF n
<1>3. CASE m.fate = "ok" /\ seg = DATA /\ m.free # <<>>
  <2>1. n = elf_alloc_mb(m, DATA)
    BY <1>0, <1>3, Zenon DEF fork_region, elf_alloc_mb
  <2>2. ~m.pt[DATA].v
    BY <1>3, Zenon
  <2> HIDE DEF n
  <2>3. Born(c, f, r, n)
    BY <1>0, <2>1, <2>2, ElfBorn, Zenon
  <2> QED
    BY <2>3, Zenon DEF n
<1>4. CASE m.fate = "ok" /\ seg = CODE
  <2> DEFINE w == FALSE
             pa == lookup_pa(parent, CODE)
             k == user_vm_map(m, CODE, pa, w)
  <2>1. n = k /\ w \in BOOLEAN
    BY <1>0, <1>4, Zenon DEF fork_region
  <2>2. ~m.pt[CODE].v /\ \A s : Placeable(c, s, CODE, pa)
    BY <1>0, <1>4, Zenon DEF Placeable
  <2> HIDE DEF w, n, pa
  <2>3. pa \in 0 .. PAGES + 2
    BY Zenon DEF pa
  <2>4. ASSUME NEW s, Fits(m, c, s)
        PROVE  \E u : /\ Fits(k, c, u) /\ Moves(c, s, u)
                      /\ k.fate = "ok" => Dropped(u) \subseteq Dropped(s)
    <3>1. PICK u : /\ Fits(k, c, u) /\ Moves(c, s, u)
                   /\ k.fate = "ok" => Dropped(u) = Left(c, s, CODE, pa)
      BY <1>0, <2>1, <2>2, <2>3, <2>4, UserMapRoles, SMTT(30)
    <3> QED
      BY <3>1, Zenon DEF Left
  <2> HIDE DEF k
  <2>5. Born(c, f, r, k)
    BY <1>4, <2>4, BornStep, Zenon
  <2> QED
    BY <2>1, <2>5, Zenon DEF n
<1> QED
  BY <1>1, <1>2, <1>3, <1>4, Zenon

\* The pages of the space load_user_program commits all have one role.
LEMMA LoadBorn ==
    ASSUME free \in Seq(Pages), NEW r, Listed(free, r), Vacant(0, r)
    PROVE  Born(0, free, r, elf_alloc_mb(elf_alloc_mb(alloc_process(free), CODE), DATA))
<1> DEFINE a == alloc_process(free)
           c == elf_alloc_mb(a, CODE)
           d == elf_alloc_mb(c, DATA)
<1>0. Counted(0, CODE) /\ Counted(0, DATA) /\ CODE # DATA /\ CODE \in VAs /\ DATA \in VAs
  BY Addresses DEF Counted, CODE, DATA, CTX
<1>1. Going(a) /\ a.pt[CODE] = NoPte /\ a.pt[DATA] = NoPte
  BY AllocProcessFacts, Distinct, Zenon
<1>2. Born(0, free, r, a)
  BY AllocBorn, Zenon
<1> HIDE DEF a
<1>3. ~a.pt[CODE].v
  BY <1>1, PteFacts, Zenon
<1>4. Going(c) /\ c.pt[DATA] = NoPte
  BY <1>0, <1>1, <1>3, ElfAllocFacts, Zenon
<1>5. Born(0, free, r, c)
  BY <1>0, <1>1, <1>2, <1>3, ElfBorn, Zenon
<1> HIDE DEF c
<1>6. ~c.pt[DATA].v
  BY <1>4, PteFacts, Zenon
<1>7. Born(0, free, r, d)
  BY <1>0, <1>4, <1>5, <1>6, ElfBorn, Zenon
<1> QED
  BY <1>7, Zenon DEF d, c, a

\* The same of the space do_fork commits.
LEMMA CopiedBorn ==
    ASSUME SpaceInv, NEW parent \in Procs, Running(parent), NEW child, child # 0,
           NEW r, Listed(free, r), Vacant(child, r)
    PROVE  Born(child, free, r, Copied(parent))
<1> DEFINE a == alloc_process(free)
           c == fork_region(parent, a, CODE)
           d == fork_region(parent, c, DATA)
<1>0. /\ free \in Seq(Pages) /\ pt[parent] \in [VAs -> PTEs] /\ status[parent] # FREE
      /\ CODE \in VAs /\ DATA \in VAs /\ CODE # DATA
  BY Distinct, Zenon DEF SpaceInv, TypeOK, Running, READY, FREE
<1>p. lookup_pa(parent, CODE) \in 0 .. PAGES + 2
  BY <1>0, MemoryAssumption DEF lookup_pa, PTEs
<1>r. PICK rest \in {<<CODE>>, <<CODE, DATA>>} : regions[parent] = NewRegions \o rest
  BY <1>0, SMTT(30) DEF SpaceInv, TypeOK
<1>u. Copied(parent) = c \/ Copied(parent) = d
  BY <1>r, Unrolled, Zenon
<1>1. Going(a) /\ a.pt[CODE] = NoPte /\ a.pt[DATA] = NoPte
  BY <1>0, AllocProcessFacts, Distinct, Zenon
<1>2. Born(child, free, r, a)
  BY <1>0, AllocBorn, Zenon
<1> HIDE DEF a
<1>3. ~a.pt[CODE].v
  BY <1>1, PteFacts, Zenon
<1>4. Going(c) /\ c.pt[DATA] = NoPte
  BY <1>0, <1>1, <1>3, <1>p, ForkRegionFacts, Zenon
<1>5. Born(child, free, r, c)
  BY <1>0, <1>1, <1>2, <1>3, <1>p, ForkBorn, Zenon
<1> HIDE DEF c
<1>6. ~c.pt[DATA].v
  BY <1>4, PteFacts, Zenon
<1>7. Born(child, free, r, d)
  BY <1>0, <1>4, <1>5, <1>6, <1>p, ForkBorn, Zenon
<1> QED
  BY <1>5, <1>7, <1>u, Zenon
=============================================================================
