---------------------------- MODULE ScanProofs ----------------------------
(***************************************************************************)
(* Proofs about the scan of the device tree (module DeviceTree) as a part  *)
(* of the boot, for every device tree: init_dtb() finds what a well-formed *)
(* tree says, with no assertion failing.                                   *)
(***************************************************************************)
EXTENDS Boot, DeviceTreeProofs

\* Of the regions of a well-formed tree, mem_done() finds those the kernel is in.
LEMMA RegionFacts ==
    ASSUME dtb \in Trees, WellFormed, NEW b \in MemoryNodes
    PROVE  LET reg == Value(b, "reg")
               a == AddressCells(b)
               s == SizeCells(b)
           IN  /\ reg \in Seq(Cell) /\ a \in Nat /\ s \in Nat /\ a + s > 0
               /\ Len(reg) % (a + s) = 0
               /\ Regions(b) = {Entry(reg, a, s, i) : i \in 1 .. Len(reg) \div (a + s)}
               /\ \A r \in Regions(b) : Covers(r) <=> r \in KernelRegions
<1> DEFINE reg == Value(b, "reg")
           a == AddressCells(b)
           s == SizeCells(b)
<1>1. ~IsRoot(b) /\ Says(b, "reg") /\ a + s > 0 /\ Len(reg) % (a + s) = 0
  BY SMTT(30) DEF WellFormed
<1>v. ASSUME NEW c, NEW name, Says(c, name)
      PROVE  /\ Value(c, name) \in Seq(Cell)
             /\ name \in CountNames => Value(c, name)[1] \in Nat
  <2>1. PropsOf(c, name) \subseteq 1 .. Len(Tokens) /\ PropsOf(c, name) # {} /\ Len(Tokens) \in Nat
    BY <1>v, PropsFacts, TreeType, Zenon DEF Says
  <2>2. PropsOf(c, name) \in SUBSET (0 .. Len(Tokens))
    BY <2>1
  <2>3. Max(PropsOf(c, name)) \in PropsOf(c, name)
    BY <2>1, <2>2, MaxOf, Zenon
  <2>4. Max(PropsOf(c, name)) \in 1 .. Len(Tokens) /\ Tokens[Max(PropsOf(c, name))].name = name
    BY <2>1, <2>3, PropsFacts, Zenon
  <2> QED BY <2>4, TreeType, ZenonT(60) DEF Value, CountNames
<1>2. reg \in Seq(Cell)
  BY <1>1, <1>v, Zenon
<1>3. a \in Nat /\ s \in Nat
  BY <1>v, Zenon DEF AddressCells, SizeCells, CellsOf, CountNames
<1>4. Regions(b) = {Entry(reg, a, s, i) : i \in 1 .. Len(reg) \div (a + s)}
  BY Zenon DEF Regions
<1>5. ASSUME NEW r \in Regions(b)
      PROVE  r.base \in Nat /\ r.size \in Nat /\ r.base + r.size < CELL * CELL
             /\ r.base + r.size # SELF
  <2>1. PICK i \in 1 .. Len(reg) \div (a + s) : r = Entry(reg, a, s, i)
    BY <1>4, Zenon
  <2>2. r.base \in 0 .. CELL * CELL - 1 /\ r.size \in 0 .. CELL * CELL - 1
    <3> HIDE DEF reg, a, s
    <3> QED BY <1>1, <1>2, <1>3, <2>1, EntryType, Zenon
  <2>3. r \in UNION {Regions(c) : c \in MemoryNodes}
    BY Zenon
  <2>4. r.base + r.size < CELL * CELL /\ r.base + r.size # SELF
    BY <2>3, Zenon DEF WellFormed
  <2> QED BY <2>2, <2>4
<1>6. ASSUME NEW r \in Regions(b) PROVE Covers(r) <=> r \in KernelRegions
  <2> DEFINE e == r.base + r.size
             M == CELL * CELL
  <2>1. e \in Nat /\ e < M /\ e # SELF /\ M \in Nat /\ SELF \in Nat
    <3>1. CELL \in Nat BY DeviceTreeAssumption, Zenon
    <3>2. CELL * CELL \in Nat BY <3>1, Z3
    <3> QED BY <1>5, <3>2, DeviceTreeAssumption
  <2>2. Covers(r) <=> r.base <= SELF /\ SELF <= e % M
    BY Zenon DEF Covers
  <2>3. r \in KernelRegions <=> r.base <= SELF /\ SELF < e
    BY Zenon DEF KernelRegions
  <2> HIDE DEF e, M
  <2>4. e % M = e
    BY <2>1
  <2> QED BY <2>1, <2>2, <2>3, <2>4
<1> HIDE DEF reg, a, s
<1>7. /\ reg \in Seq(Cell) /\ a \in Nat /\ s \in Nat /\ a + s > 0
      /\ Len(reg) % (a + s) = 0
      /\ Regions(b) = {Entry(reg, a, s, i) : i \in 1 .. Len(reg) \div (a + s)}
      /\ \A r \in Regions(b) : Covers(r) <=> r \in KernelRegions
  BY <1>1, <1>2, <1>3, <1>4, <1>6, Zenon
<1> QED BY <1>7, Zenon DEF reg, a, s

\* The kernel lies in a region that is not empty.
LEMMA SizesPositive ==
    ASSUME dtb \in Trees, WellFormed
    PROVE  \A z \in Sizes : z \in Nat /\ z > 0
<1> SUFFICES ASSUME NEW r \in KernelRegions PROVE r.size \in Nat /\ r.size > 0
  BY Zenon DEF Sizes
<1>1. PICK b \in MemoryNodes : r \in Regions(b)
  BY Zenon DEF KernelRegions
<1> DEFINE reg == Value(b, "reg")
           a == AddressCells(b)
           s == SizeCells(b)
<1>2. /\ reg \in Seq(Cell) /\ a \in Nat /\ s \in Nat /\ a + s > 0
      /\ Regions(b) = {Entry(reg, a, s, i) : i \in 1 .. Len(reg) \div (a + s)}
  BY RegionFacts, Zenon
<1> HIDE DEF reg, a, s
<1>3. PICK i \in 1 .. Len(reg) \div (a + s) : r = Entry(reg, a, s, i)
  BY <1>1, <1>2, Zenon
<1>4. r.base \in 0 .. CELL * CELL - 1 /\ r.size \in 0 .. CELL * CELL - 1
  BY <1>2, <1>3, EntryType, Zenon
<1>5. r.base <= SELF /\ SELF < r.base + r.size /\ SELF \in Nat
  BY DeviceTreeAssumption DEF KernelRegions
<1> QED BY <1>4, <1>5

\* The call-back done, at the end of the properties of a node, adds the node to the
\* results, and no assertion of it fails.
LEMMA ScanDone ==
    ASSUME ScanTypeInv, WellFormed, query # "over", fate = "ok", stack # <<>>,
           NEW p, ScanAt(p), Tokens[lex].t \in {"begin", "end", "stop"},
           done, dtb' = dtb, query' = query,
           NEW S, S = {b \in Nodes : b < lex}
    PROVE  fate' = "ok" /\ Results(S)'
<1> DEFINE n == Len(p)
           F == Finished(p)
<1>1. /\ dtb \in Trees /\ lex \in 1 .. Len(Tokens) /\ lex \in Nat /\ Len(Tokens) \in Nat
      /\ IsPath(p, lex) /\ DOMAIN Tokens = 1 .. Len(Tokens) /\ n \in Nat
      /\ level \in Nat /\ level > 0 /\ query \in {"htif", "mem"} /\ stack \in Calls
      /\ level = Len(stack) /\ scan \in Scans /\ p \in Seq(Nat)
  BY ScanFacts, TreeType, Zenon
<1>2. /\ Results(F)
      /\ level <= n + 1
      /\ \A j \in 1 .. level : j <= n => stack[j].last
  BY Zenon DEF ScanAt, Shape
<1>3. ASSUME HasHtif(S)' = HasHtif(S), NoKernel(S)' = NoKernel(S), Sizes' = Sizes,
             HasHtif(Nodes)' = HasHtif(Nodes),
             query = "htif" => (htif' <=> HasHtif(S)),
             query = "mem" => /\ htif' <=> HasHtif(Nodes)
                              /\ g_mem_size' \in Sizes \/ (g_mem_size' = 0 /\ NoKernel(S))
      PROVE  Results(S)'
  BY <1>3, Zenon DEF Results
<1>4. /\ HasHtif(S)' = HasHtif(S) /\ NoKernel(S)' = NoKernel(S) /\ Sizes' = Sizes
      /\ HasHtif(Nodes)' = HasHtif(Nodes)
  BY SameTree, Zenon DEF HasHtif, NoKernel, Sizes
<1>5. CASE ~Working(p)
  <2>1. S = F
    BY <1>5, Zenon DEF Finished
  <2>2. top.last \/ ~HasNode
    <3>1. level <= n \/ level = n + 1 BY <1>1, <1>2
    <3>2. level \in 1 .. level BY <1>1
    <3> QED BY <1>1, <1>2, <1>5, <3>1, <3>2, Zenon DEF Working, top, HasNode
  <2>3. UNCHANGED <<htif, g_mem_size, fate>>
    BY <2>2, Zenon DEF done
  <2> QED BY <1>2, <1>3, <1>4, <2>1, <2>3, Zenon DEF Results
<1>6. CASE Working(p)
  <2> DEFINE b == p[Len(p)]
  <2>1. level = n + 1 /\ n > 0 /\ ~top.last /\ HasNode /\ p # <<>>
    BY <1>1, <1>6 DEF Working, top, HasNode
  <2>2. b \in Nat /\ b > 0 /\ b < lex /\ Tokens[b].t = "begin" /\ Around(b) = First(p, n - 1)
    <3>1. n \in 1 .. n BY <1>1, <2>1, LastIndex, Zenon
    <3>2. lex \in Nat /\ IsPath(p, lex) BY <1>1, Zenon
    <3> QED BY <3>1, <3>2, PathAt, Zenon
  <2>3. b \in Nodes /\ S = F \cup {b}
    <3>1. b \in Nodes BY <1>1, <2>2 DEF Nodes
    <3> QED BY <1>6, <2>2, <3>1, Zenon DEF Finished
  <2>4. \A name : Read(b, name) = PropsOf(b, name)
    BY <2>1, AllRead, Zenon
  <2>5. CASE query = "htif"
    <3>1. scan.found <=> Says(b, "compatible")
      BY <1>6, <2>4, <2>5, Zenon DEF ScanAt, ScanRead, Says
    <3>2. htif' = (htif \/ scan.found) /\ fate' = fate
      BY <2>1, <2>5, Zenon DEF done, htif_done
    <3>3. htif' <=> HasHtif(S)
      BY <1>2, <2>3, <2>5, <3>1, <3>2, Zenon DEF Results, HasHtif
    <3> QED BY <1>3, <1>4, <2>5, <3>2, <3>3, Zenon
  <2>6. CASE query = "mem"
    <3>1. /\ scan.found <=> b \in MemoryNodes
          /\ scan.has_reg <=> Says(b, "reg")
          /\ Says(b, "reg") => scan.reg = Value(b, "reg")
      BY <1>6, <2>3, <2>4, <2>6, Zenon DEF ScanAt, ScanRead, Says, Value, MemoryNodes
    <3>2. mem_done
      BY <2>1, <2>6, Zenon DEF done
    <3>3. htif' = htif /\ (htif <=> HasHtif(Nodes))
          /\ (g_mem_size \in Sizes \/ (g_mem_size = 0 /\ NoKernel(F)))
      BY <1>2, <2>6, <3>2, Zenon DEF mem_done, Results
    <3>4. CASE b \notin MemoryNodes
      <4>1. fate' = "ok" /\ g_mem_size' = g_mem_size
        BY <3>1, <3>2, <3>4, Zenon DEF mem_done, mem_done_fate
      <4>2. NoKernel(F) => NoKernel(S)
        BY <2>3, <3>4, Zenon DEF NoKernel
      <4> QED BY <1>3, <1>4, <2>6, <3>3, <4>1, <4>2, Zenon
    <3>5. CASE b \in MemoryNodes
      <4> DEFINE reg == Value(b, "reg")
                 a == AddressCells(b)
                 s == SizeCells(b)
                 I == 1 .. Len(reg) \div (a + s)
      <4>1. /\ reg \in Seq(Cell) /\ a \in Nat /\ s \in Nat /\ a + s > 0
            /\ Len(reg) % (a + s) = 0
            /\ Regions(b) = {Entry(reg, a, s, i) : i \in I}
            /\ \A r \in Regions(b) : Covers(r) <=> r \in KernelRegions
        BY <1>1, <3>5, RegionFacts, Zenon
      <4>2. ~IsRoot(b) /\ Says(b, "reg") /\ OwnCells(Parent(b))
        BY <3>5, Zenon DEF WellFormed
      <4>3. scan.found /\ scan.has_reg /\ scan.reg = reg
        BY <3>1, <3>5, <4>2, Zenon
      <4>4. CASE reg = <<>>
        <5>1. fate' = "ok" /\ g_mem_size' = g_mem_size
          BY <3>2, <4>3, <4>4, Zenon DEF mem_done, mem_done_fate
        <5>2. Regions(b) = {}
          <6> HIDE DEF reg, a, s
          <6>1. Len(reg) = 0 BY <4>4, Zenon
          <6>2. 0 \div (a + s) = 0
            <7>1. a + s \in Nat \ {0} BY <4>1
            <7> HIDE DEF I
            <7> QED BY <7>1, Z3
          <6>3. I = {} BY <6>1, <6>2
          <6> QED BY <4>1, <6>3, Zenon
        <5>3. NoKernel(F) => NoKernel(S)
          BY <2>3, <5>2, Zenon DEF NoKernel
        <5> QED BY <1>3, <1>4, <2>6, <3>3, <5>1, <5>3, Zenon
      <4>5. CASE reg # <<>>
        <5>1. n > 1
          <6>1. First(p, n - 1) # {} BY <2>2, <4>2, Zenon DEF IsRoot
          <6>2. \E k : k \in 1 .. n - 1 BY <6>1, Zenon DEF First
          <6> QED BY <1>1, <6>2
        <5>2. /\ Count(level - 2, "#address-cells") = a
              /\ Count(level - 2, "#size-cells") = s
          <6>1. \A name \in CountNames :
                  Count(level - 2, name) = CellsOf(Parent(b), name, Default(name))
            BY <2>1, <4>2, <5>1, CellsMatch, Zenon
          <6> QED BY <6>1, Zenon DEF CountNames, Default, AddressCells, SizeCells
        <5>3. RegCells.address_cells = a /\ RegCells.size_cells = s
          BY <5>2, Zenon DEF Count, RegCells
        <5>4. ~(level < 3) /\ a + s # 0
          BY <1>1, <2>1, <4>1, <5>1
        <5> HIDE DEF reg, a, s
        <5>5. mem_done_fate = "ok"
          BY <4>1, <4>3, <4>5, <5>3, <5>4, Zenon DEF mem_done_fate
        <5>6. fate' = "ok" /\ g_mem_size' = Chosen(reg, a, s, g_mem_size)
          BY <3>2, <4>3, <4>5, <5>3, <5>5, Zenon DEF mem_done
        <5>7. g_mem_size \in Nat BY Zenon DEF ScanTypeInv
        <5>8. \/ g_mem_size' = g_mem_size /\ \A i \in I : ~Covers(Entry(reg, a, s, i))
              \/ \E i \in I : Covers(Entry(reg, a, s, i)) /\ g_mem_size' = Entry(reg, a, s, i).size
          <6> HIDE DEF I
          <6>1. \/ /\ Chosen(reg, a, s, g_mem_size) = g_mem_size
                   /\ \A i \in I : ~Covers(Entry(reg, a, s, i))
                \/ \E i \in I : /\ Covers(Entry(reg, a, s, i))
                                 /\ Chosen(reg, a, s, g_mem_size) = Entry(reg, a, s, i).size
            BY <4>1, <5>7, ChosenIs, ZenonT(40) DEF I
          <6> QED BY <5>6, <6>1, Zenon
        <5> HIDE DEF I
        <5>9. CASE g_mem_size' = g_mem_size /\ \A i \in I : ~Covers(Entry(reg, a, s, i))
          <6>1. Regions(b) \cap KernelRegions = {}
            BY <4>1, <5>9, Zenon
          <6>2. NoKernel(F) => NoKernel(S)
            BY <2>3, <6>1, Zenon DEF NoKernel
          <6> QED BY <1>3, <1>4, <2>6, <3>3, <5>6, <5>9, <6>2, Zenon
        <5>10. CASE \E i \in I : /\ Covers(Entry(reg, a, s, i))
                                 /\ g_mem_size' = Entry(reg, a, s, i).size
          <6>1. PICK i \in I : Covers(Entry(reg, a, s, i)) /\ g_mem_size' = Entry(reg, a, s, i).size
            BY <5>10, Zenon
          <6>2. Entry(reg, a, s, i) \in KernelRegions
            BY <4>1, <6>1, Zenon
          <6>3. g_mem_size' \in Sizes
            BY <6>1, <6>2, Zenon DEF Sizes
          <6> QED BY <1>3, <1>4, <2>6, <3>3, <5>6, <6>3, Zenon
        <5> QED BY <5>8, <5>9, <5>10, Zenon
      <4> QED BY <4>4, <4>5, Zenon
    <3> QED BY <3>4, <3>5, Zenon
  <2> QED BY <1>1, <2>5, <2>6, Zenon
<1> QED BY <1>5, <1>6, Zenon

\* FDT_BEGIN_NODE.
LEMMA ScanBegin ==
    ASSUME ScanTypeInv, WellFormed, fate = "ok", NEW p, ScanAt(p), fdt_begin_node
    PROVE  fate' = "ok" /\ \E q : ScanAt(q)'
<1>0. /\ query # "over" /\ tok.t = "begin" /\ stack # <<>> /\ done /\ dtb' = dtb /\ query' = query
      /\ stack' = Append([stack EXCEPT ![level].last = TRUE], Frame)
      /\ scan' = Cleared /\ lex' = lex + 1
  BY Zenon DEF fdt_begin_node, Scanning
<1>1. /\ dtb \in Trees /\ lex \in 1 .. Len(Tokens) /\ lex \in Nat /\ Len(Tokens) \in Nat
      /\ IsPath(p, lex) /\ DOMAIN Tokens = 1 .. Len(Tokens) /\ Len(p) \in Nat /\ p \in Seq(Nat)
      /\ level \in Nat /\ level > 0 /\ stack \in Calls /\ level = Len(stack)
      /\ Tokens[lex].t = "begin"
  BY <1>0, ScanFacts, TreeType, Zenon
<1>l. PICK b : b = lex BY Zenon
<1> DEFINE n == Len(p)
           q == Append(p, b)
<1>2. IsPath(q, lex)'
  <2>1. IsPath(Append(p, lex), lex + 1) BY <1>1, PathBegin, Zenon
  <2> QED BY <1>0, <1>l, <2>1, SameTree, Zenon
<1>3. level = n + 1
  BY <1>1, Zenon DEF ScanAt, Shape
<1>4. Len(q) = n + 1 /\ q[n + 1] = b /\ \A j \in 1 .. n : q[j] = p[j]
  BY <1>1, <1>l
<1>f. \A j \in 1 .. n + 1 : First(q, j - 1) = First(p, j - 1)
  <2> HIDE DEF n, q
  <2>1. \A m \in Nat : m <= n => First(q, m) = First(p, m)
    BY <1>1, <1>4, FirstSame, Zenon DEF n
  <2>2. \A j \in 1 .. n + 1 : j - 1 \in Nat /\ j - 1 <= n BY <1>1 DEF n
  <2> QED BY <2>1, <2>2, Zenon
<1>5. /\ level' = n + 2 /\ stack'[n + 2] = Frame
      /\ \A j \in 1 .. n : stack'[j] = stack[j]
      /\ stack'[n + 1] = [stack[n + 1] EXCEPT !.last = TRUE] /\ stack[n + 1] \in Call
  <2>0. n + 1 \in 1 .. Len(stack) /\ stack[n + 1] \in Call
    <3>1. n + 1 \in 1 .. Len(stack) BY <1>1, <1>3
    <3> HIDE DEF n
    <3> QED BY <1>1, <3>1 DEF Calls
  <2> DEFINE t == [stack EXCEPT ![level].last = TRUE]
             u == [stack EXCEPT ![n + 1] = [stack[n + 1] EXCEPT !.last = TRUE]]
  <2>t. t = u
    BY <1>3, Zenon
  <2>1. /\ t \in Seq(Call) /\ Len(t) = n + 1 /\ t[n + 1] = [stack[n + 1] EXCEPT !.last = TRUE]
        /\ \A j \in 1 .. n : t[j] = stack[j]
    <3>1. [stack[n + 1] EXCEPT !.last = TRUE] \in Call
      BY <2>0, Zenon DEF Call
    <3>2. /\ u \in Seq(Call) /\ Len(u) = Len(stack)
          /\ u[n + 1] = [stack[n + 1] EXCEPT !.last = TRUE]
          /\ \A j \in 1 .. Len(stack) : j # n + 1 => u[j] = stack[j]
      <4> DEFINE x == [stack[n + 1] EXCEPT !.last = TRUE]
                 k == n + 1
      <4>1. x \in Call /\ k \in 1 .. Len(stack) /\ stack \in Seq(Call)
        BY <1>1, <2>0, <3>1, Zenon DEF Calls
      <4> HIDE DEF x, k
      <4>2. /\ [stack EXCEPT ![k] = x] \in Seq(Call) /\ Len([stack EXCEPT ![k] = x]) = Len(stack)
            /\ [stack EXCEPT ![k] = x][k] = x
            /\ \A j \in 1 .. Len(stack) : j # k => [stack EXCEPT ![k] = x][j] = stack[j]
        BY <4>1, SeqUpdate
      <4> QED BY <4>2, Zenon DEF x, k
    <3> QED BY <1>1, <1>3, <2>t, <3>2
  <2>2. stack' = Append(t, Frame)
    BY <1>0, Zenon
  <2>3. Frame \in Call BY Zenon DEF Frame, Call
  <2> HIDE DEF t
  <2>4. Len(stack') = n + 2 /\ stack'[n + 2] = Frame /\ \A j \in 1 .. n + 1 : stack'[j] = t[j]
    BY <1>1, <2>1, <2>2, <2>3
  <2> QED BY <1>1, <2>0, <2>1, <2>4 DEF level
<1>6. /\ \A j \in 1 .. n + 1 : /\ stack'[j].address_cells = stack[j].address_cells
                               /\ stack'[j].size_cells = stack[j].size_cells
      /\ \A j \in 1 .. n + 1 : stack'[j].last = (j = n + 1 \/ stack[j].last)
  <2>1. \A j \in 1 .. n + 1 : j \in 1 .. n \/ j = n + 1 BY <1>1
  <2>2. /\ stack'[n + 1].address_cells = stack[n + 1].address_cells
        /\ stack'[n + 1].size_cells = stack[n + 1].size_cells
        /\ stack'[n + 1].last = TRUE
    BY <1>5, Zenon DEF Call
  <2>3. \A j \in 1 .. n : stack[j].last = TRUE
    <3>1. \A j \in 1 .. level : j <= n => stack[j].last
      BY Zenon DEF ScanAt, Shape
    <3> QED BY <1>1, <1>3, <1>5, <3>1
  <2> QED BY <1>5, <2>1, <2>2, <2>3, Zenon
<1>7. \A j \in 1 .. n + 1, name \in CountNames : Count(j, name)' = Count(j, name)
  BY <1>6, Zenon DEF Count
<1>r. /\ \A c, name : Read(c, name)' = Read(c, name)
      /\ \A name : Read(b, name)' = {}
  <2>1. \A c, name : Read(c, name)' = Read(c, name) \cup ({lex} \cap PropsOf(c, name))
    BY <1>0, <1>1, ReadNext, Zenon
  <2>2. \A c, name : lex \notin PropsOf(c, name)
    BY <1>1, PropsFacts, Zenon
  <2>3. ASSUME NEW c, NEW name PROVE Read(c, name)' = Read(c, name)
    BY <2>1, <2>2, Zenon
  <2>4. ASSUME NEW name PROVE Read(b, name) = {}
    <3> SUFFICES ASSUME NEW i \in PropsOf(b, name), i < lex PROVE FALSE
      BY Zenon DEF Read
    <3>1. b < i /\ i \in 1 .. Len(Tokens) BY <1>1, PropsFacts, Zenon
    <3> QED BY <1>1, <1>l, <3>1
  <2> QED BY <2>3, <2>4, Zenon
<1>k. \A j \in 1 .. n + 1 : Kids(p, j) \subseteq Kids(q, j)'
  <2>1. \A j : Kids(p, j) \subseteq Kids(p, j)'
    BY <1>0, <1>1, ReadNext, Zenon
  <2>2. \A j \in 1 .. n + 1 : Kids(q, j)' = Kids(p, j)'
    <3> HIDE DEF q, n
    <3> QED BY <1>f, Zenon DEF Kids
  <2> QED BY <2>1, <2>2, Zenon
<1>8. Shape(q)'
  <2>1. level' = Len(q) + 1 BY <1>1, <1>4, <1>5
  <2>2. ASSUME NEW j \in 1 .. level', j <= Len(q) PROVE stack'[j].last
    <3>1. \A k \in 1 .. level : k <= n => stack[k].last
      BY Zenon DEF ScanAt, Shape
    <3>2. j \in 1 .. n + 1 /\ (j = n + 1 \/ j \in 1 .. n)
      BY <1>1, <1>4, <1>5, <2>2
    <3>3. CASE j = n + 1
      BY <1>6, <3>2, <3>3, Zenon
    <3>4. CASE j \in 1 .. n
      <4>1. j \in 1 .. level /\ j <= n BY <1>1, <1>3, <3>4
      <4>2. stack'[j] = stack[j] BY <1>5, <3>4, Zenon
      <4> QED BY <3>1, <4>1, <4>2, Zenon
    <3> QED BY <3>2, <3>3, <3>4, Zenon
  <2>3. ~stack'[level'].last
    BY <1>5 DEF Frame
  <2> HIDE DEF q, n
  <2> QED BY <1>1, <1>4, <2>1, <2>2, <2>3 DEF Shape, n
<1>9. CellsRead(q)'
  <2> SUFFICES ASSUME NEW j \in 1 .. n + 2, NEW name \in CountNames
      PROVE  /\ (\A c \in Kids(q, j)' : Read(c, name)' = {}) => Count(j, name)' = Default(name)
             /\ (j <= Len(q) /\ Read(q[j], name)' # {}) =>
                  Count(j, name)' = Tokens'[Max(Read(q[j], name)')].value[1]
    BY <1>5, Zenon DEF CellsRead
  <2>1. CASE j = n + 2
    <3>1. Count(j, name)' = Default(name)
      BY <1>5, <2>1 DEF Count, Default, Frame, CountNames
    <3>2. ~(j <= Len(q)) BY <1>1, <1>4, <2>1
    <3> QED BY <3>1, <3>2, Zenon
  <2>2. CASE j # n + 2
    <3>0. j \in 1 .. n + 1 /\ j \in 1 .. level BY <1>1, <1>3, <2>2
    <3>1. /\ (\A c \in Kids(p, j) : Read(c, name) = {}) => Count(j, name) = Default(name)
          /\ (j <= Len(p) /\ Read(p[j], name) # {}) =>
               Count(j, name) = Tokens[Max(Read(p[j], name))].value[1]
      BY <3>0, Zenon DEF ScanAt, CellsRead
    <3>2. Tokens' = Tokens BY <1>0, SameTree, Zenon
    <3>3. j <= Len(q) /\ Read(q[j], name)' # {} => j <= n /\ q[j] = p[j]
      <4>1. j = n + 1 => q[j] = b BY <1>4, Zenon
      <4>2. j # n + 1 => j \in 1 .. n BY <1>1, <3>0
      <4> QED BY <1>1, <1>4, <1>r, <4>1, <4>2, SMTT(30)
    <3> HIDE DEF q
    <3> QED BY <1>7, <1>k, <1>r, <3>0, <3>1, <3>2, <3>3, Zenon
  <2> QED BY <2>1, <2>2, Zenon
<1>w. Working(q)' /\ q[Len(q)] = b
  BY <1>1, <1>4, <1>5 DEF Working, Frame
<1>10. ScanRead(q)'
  BY <1>0, <1>r, <1>w, Zenon DEF ScanRead, Cleared
<1>11. Finished(q)' = {c \in Nodes : c < lex}
  <2>1. Nodes' = Nodes BY <1>0, SameTree, Zenon
  <2>2. \A c \in Nodes : c < lex' <=> c < lex \/ c = lex BY <1>0, <1>1, ReadNext, Zenon
  <2>3. ~(lex < lex) BY <1>1
  <2> HIDE DEF q
  <2> QED BY <1>l, <1>w, <2>1, <2>2, <2>3, Zenon DEF Finished
<1>12. PICK S : S = {c \in Nodes : c < lex} BY Zenon
<1>13. fate' = "ok" /\ Results(S)'
  BY <1>0, <1>1, <1>12, ScanDone, Zenon
<1>14. Results(Finished(q))'
  <2> HIDE DEF q
  <2> QED BY <1>11, <1>12, <1>13, Zenon
<1>15. ScanAt(q)'
  BY <1>2, <1>8, <1>9, <1>10, <1>14, Zenon DEF ScanAt
<1> QED BY <1>13, <1>15, Zenon

\* FDT_END_NODE and FDT_END: the innermost call returns.
LEMMA ScanReturn ==
    ASSUME ScanTypeInv, WellFormed, fate = "ok", NEW p, ScanAt(p), fdt_return
    PROVE  fate' = "ok" /\ \E q : ScanAt(q)'
<1>0. /\ query # "over" /\ tok.t \in {"end", "stop"} /\ stack # <<>> /\ done /\ dtb' = dtb
      /\ query' = query /\ stack' = SubSeq(stack, 1, level - 1)
      /\ lex' = (IF tok.t = "end" THEN lex + 1 ELSE lex) /\ scan' = scan
  BY Zenon DEF fdt_return, Scanning
<1>1. /\ dtb \in Trees /\ lex \in 1 .. Len(Tokens) /\ lex \in Nat /\ Len(Tokens) \in Nat
      /\ IsPath(p, lex) /\ DOMAIN Tokens = 1 .. Len(Tokens) /\ Len(p) \in Nat /\ p \in Seq(Nat)
      /\ level \in Nat /\ level > 0 /\ stack \in Calls /\ level = Len(stack)
      /\ Tokens[lex].t = tok.t
  BY <1>0, ScanFacts, TreeType, Zenon
<1> DEFINE n == Len(p)
<1>2. level' = level - 1 /\ \A j \in 1 .. level - 1 : stack'[j] = stack[j]
  BY <1>0, <1>1, SeqFront, Zenon DEF Calls, level
<1>3. /\ level <= n + 1 /\ \A j \in 1 .. level : j <= n => stack[j].last
      /\ Tokens[lex].t # "stop" => level = n + 1
  BY Zenon DEF ScanAt, Shape
<1>4. PICK S : S = {c \in Nodes : c < lex} BY Zenon
<1>5. fate' = "ok" /\ Results(S)'
  BY <1>0, <1>1, <1>4, ScanDone, Zenon
<1>6. \A j \in 1 .. level - 1 : \A name : Count(j, name)' = Count(j, name)
  BY <1>2, Zenon DEF Count
<1>7. Tokens' = Tokens /\ Nodes' = Nodes BY <1>0, SameTree, Zenon
<1>8. CASE tok.t = "end"
  <2> DEFINE q == SubSeq(p, 1, Len(p) - 1)
  <2>0. level = n + 1 /\ lex' = lex + 1 /\ lex \in DOMAIN Tokens
    BY <1>0, <1>1, <1>3, <1>8, Zenon
  <2>1. p # <<>> /\ IsPath(q, lex + 1)
    <3>1. Depth(lex) >= 0 BY <2>0, Zenon DEF WellFormed
    <3> QED BY <1>1, <1>8, <3>1, PathEnd, Zenon
  <2>2. IsPath(q, lex)'
    BY <1>0, <2>0, <2>1, SameTree, Zenon
  <2>3. n > 0 /\ Len(q) = n - 1 /\ \A j \in 1 .. n - 1 : q[j] = p[j]
    <3>1. n > 0 BY <1>1, <2>1
    <3>2. Len(q) = Len(p) - 1 /\ \A j \in 1 .. Len(p) - 1 : q[j] = p[j]
      BY <1>1, <2>1, SeqFront, Zenon
    <3> QED BY <3>1, <3>2, Zenon
  <2>f. \A j \in 1 .. n : First(q, j - 1) = First(p, j - 1)
    <3> HIDE DEF n, q
    <3>0. n - 1 \in Nat BY <1>1, <2>3 DEF n
    <3>1. \A m \in Nat : m <= n - 1 => First(q, m) = First(p, m)
      BY <2>3, <3>0, FirstSame, Zenon
    <3>2. \A j \in 1 .. n : j - 1 \in Nat /\ j - 1 <= n - 1 BY <1>1 DEF n
    <3> QED BY <3>1, <3>2, Zenon
  <2>4. \A c, name : Read(c, name)' = Read(c, name)
    <3>1. \A c, name : Read(c, name)' = Read(c, name) \cup ({lex} \cap PropsOf(c, name))
      BY <1>0, <1>1, <2>0, ReadNext, Zenon
    <3>2. \A c, name : lex \notin PropsOf(c, name)
      BY <1>1, <1>8, PropsFacts
    <3> QED BY <3>1, <3>2, Zenon
  <2>5. \A j \in 1 .. n : Kids(q, j)' = Kids(p, j)
    <3>1. \A r, j : Kids(r, j)' = Kids(r, j)
      BY <1>0, <1>1, <1>8, <2>0, ReadNext, Zenon
    <3>2. \A j \in 1 .. n : Kids(q, j)' = Kids(p, j)'
      <4> HIDE DEF q, n
      <4> QED BY <2>f, Zenon DEF Kids
    <3> QED BY <3>1, <3>2, Zenon
  <2>6. p[n] \in Kids(p, n)
    <3>1. n \in 1 .. n BY <1>1, <2>3
    <3>2. /\ p[n] \in Nat /\ p[n] > 0 /\ p[n] < lex /\ Tokens[p[n]].t = "begin"
          /\ Around(p[n]) = First(p, n - 1)
      <4>1. lex \in Nat /\ IsPath(p, lex) BY <1>1, Zenon
      <4> QED BY <3>1, <4>1, PathAt, Zenon
    <3>3. p[n] \in Nodes BY <1>1, <3>2 DEF Nodes
    <3> QED BY <3>2, <3>3, Zenon DEF Kids
  <2>7. level' = n /\ Len(q) + 1 = n /\ n \in 1 .. level /\ stack'[n] = stack[n] /\ stack[n].last
    BY <1>1, <1>2, <1>3, <2>0, <2>3
  <2>8. Shape(q)'
    <3>1. ASSUME NEW j \in 1 .. level', j <= Len(q) PROVE stack'[j].last
      <4>1. j \in 1 .. level - 1 /\ j \in 1 .. level /\ j <= n BY <1>1, <2>0, <2>3, <2>7, <3>1
      <4>2. stack'[j] = stack[j] BY <1>2, <4>1, Zenon
      <4> QED BY <1>3, <4>1, <4>2, Zenon
    <3>2. Kids(q, n)' # {}
      <4>1. n \in 1 .. n BY <1>1, <2>3
      <4> QED BY <2>5, <2>6, <4>1, Zenon
    <3>3. Kids(q, level)' # {}
      <4> HIDE DEF q, n
      <4> QED BY <2>7, <3>2, Zenon DEF Kids
    <3>4. level' = Len(q) + 1 BY <2>7, Zenon
    <3>5. level' <= Len(q) + 1 BY <1>1, <2>3, <2>7
    <3> HIDE DEF q, n
    <3> QED BY <3>1, <3>3, <3>4, <3>5, Zenon DEF Shape
  <2>9. CellsRead(q)'
    <3> SUFFICES ASSUME NEW j \in 1 .. n, NEW name \in CountNames
        PROVE  /\ (\A c \in Kids(q, j)' : Read(c, name)' = {}) => Count(j, name)' = Default(name)
               /\ (j <= Len(q) /\ Read(q[j], name)' # {}) =>
                    Count(j, name)' = Tokens'[Max(Read(q[j], name)')].value[1]
      BY <2>7, Zenon DEF CellsRead
    <3>0. j \in 1 .. level /\ j \in 1 .. level - 1 /\ (j <= Len(q) => j <= n /\ q[j] = p[j])
      BY <1>1, <2>0, <2>3
    <3>1. /\ (\A c \in Kids(p, j) : Read(c, name) = {}) => Count(j, name) = Default(name)
          /\ (j <= Len(p) /\ Read(p[j], name) # {}) =>
               Count(j, name) = Tokens[Max(Read(p[j], name))].value[1]
      BY <3>0, Zenon DEF ScanAt, CellsRead
    <3> HIDE DEF q
    <3> QED BY <1>6, <1>7, <2>4, <2>5, <3>0, <3>1, SMTT(30)
  <2>10. ~Working(q)'
    BY <1>1, <2>7, Zenon DEF Working
  <2>11. ScanRead(q)'
    BY <2>10, Zenon DEF ScanRead
  <2>12. Finished(q)' = S
    <3>1. \A c \in Nodes : c < lex' <=> c < lex
      BY <1>0, <1>1, <1>8, <2>0, ReadNext, Zenon
    <3> HIDE DEF q
    <3> QED BY <1>4, <1>7, <2>10, <3>1, Zenon DEF Finished
  <2>13. ScanAt(q)'
    <3> HIDE DEF q
    <3> QED BY <1>5, <2>2, <2>8, <2>9, <2>11, <2>12, Zenon DEF ScanAt
  <2> QED BY <1>5, <2>13, Zenon
<1>9. CASE tok.t = "stop"
  <2>0. lex' = lex BY <1>0, <1>9, Zenon
  <2>1. IsPath(p, lex)' BY <1>0, <1>1, <2>0, SameTree, Zenon
  <2>2. /\ \A c, name : Read(c, name)' = Read(c, name)
        /\ \A j : Kids(p, j)' = Kids(p, j)
    <3>1. \A c, name : PropsOf(c, name)' = PropsOf(c, name) BY <1>0, SameTree, Zenon
    <3>2. \A c : Around(c)' = Around(c) BY <1>0, SameTree, Zenon
    <3> QED BY <1>7, <2>0, <3>1, <3>2, Zenon DEF Read, Kids
  <2>3. level' <= n /\ level' \in Nat BY <1>1, <1>2, <1>3
  <2>4. Shape(p)'
    <3>1. ASSUME NEW j \in 1 .. level', j <= n PROVE stack'[j].last
      <4>1. j \in 1 .. level - 1 /\ j \in 1 .. level BY <1>1, <1>2, SMTT(30)
      <4> QED BY <1>2, <1>3, <3>1, <4>1, Zenon
    <3> QED BY <1>1, <1>7, <1>9, <2>0, <2>3, <3>1, SMTT(30) DEF Shape
  <2>5. CellsRead(p)'
    <3> SUFFICES ASSUME NEW j \in 1 .. level', NEW name \in CountNames
        PROVE  /\ (\A c \in Kids(p, j)' : Read(c, name)' = {}) => Count(j, name)' = Default(name)
               /\ (j <= Len(p) /\ Read(p[j], name)' # {}) =>
                    Count(j, name)' = Tokens'[Max(Read(p[j], name)')].value[1]
      BY Zenon DEF CellsRead
    <3>0. j \in 1 .. level /\ j \in 1 .. level - 1
      BY <1>1, <1>2, SMTT(30)
    <3>1. /\ (\A c \in Kids(p, j) : Read(c, name) = {}) => Count(j, name) = Default(name)
          /\ (j <= Len(p) /\ Read(p[j], name) # {}) =>
               Count(j, name) = Tokens[Max(Read(p[j], name))].value[1]
      BY <3>0, Zenon DEF ScanAt, CellsRead
    <3> QED BY <1>6, <1>7, <2>2, <3>0, <3>1, SMTT(30)
  <2>6. ~Working(p)'
    BY <1>1, <2>3 DEF Working
  <2>7. ScanRead(p)'
    BY <2>6, Zenon DEF ScanRead
  <2>8. Finished(p)' = S
    BY <1>4, <1>7, <2>0, <2>6, Zenon DEF Finished
  <2>9. ScanAt(p)'
    BY <1>5, <2>1, <2>4, <2>5, <2>7, <2>8, Zenon DEF ScanAt
  <2> QED BY <1>5, <2>9, Zenon
<1> QED BY <1>0, <1>8, <1>9, Zenon

\* A scan that starts: no node is open and none was read.
ScanStarts ==
    /\ dtb \in Trees /\ dtb.known /\ lex = 1 /\ stack = fdt_scan(dtb) /\ scan = Cleared
    /\ query \in {"htif", "mem"}
    /\ query = "htif" => htif = FALSE
    /\ query = "mem" => g_mem_size = 0 /\ (htif <=> HasHtif(Nodes))

\* At the first token nothing was read and no node is open.
LEMMA ScanStart == ScanStarts => ScanAt(<<>>)
<1> SUFFICES ASSUME ScanStarts PROVE ScanAt(<<>>) BY Zenon
<1> USE DEF ScanStarts
<1>1. IsPath(<<>>, lex) BY PathStart, Zenon
<1>2. level = 1 /\ stack[1] = Frame /\ Len(<<>>) = 0
  BY SMTT(30) DEF fdt_scan, level
<1>3. Nodes \subseteq 1 .. Len(Tokens) /\ Len(Tokens) \in Nat
  BY TreeType, Zenon DEF Nodes
<1>4. \A c \in Nodes : ~(c < lex)
  BY <1>3
<1>5. \A c, name : Read(c, name) = {}
  <2> SUFFICES ASSUME NEW c, NEW name, NEW i \in PropsOf(c, name), i < lex PROVE FALSE
    BY Zenon DEF Read
  <2>1. i \in 1 .. Len(Tokens) BY PropsFacts, Zenon
  <2> QED BY <1>3, <2>1
<1>6. Shape(<<>>)
  BY <1>2 DEF Shape, Frame
<1>7. CellsRead(<<>>)
  <2> SUFFICES ASSUME NEW j \in 1 .. level, NEW name \in CountNames
      PROVE  Count(j, name) = Default(name)
    BY <1>5, Zenon DEF CellsRead
  <2>1. j = 1 BY <1>2
  <2> QED BY <1>2, <2>1 DEF Count, Default, Frame
<1>8. ScanRead(<<>>)
  BY <1>2 DEF ScanRead, Working
<1>9. Finished(<<>>) = {}
  BY <1>4, Zenon DEF Finished
<1>10. ~HasHtif({}) /\ NoKernel({})
  BY Zenon DEF HasHtif, NoKernel
<1>11. Results(Finished(<<>>))
  BY <1>9, <1>10, Zenon DEF Results
<1> QED BY <1>1, <1>6, <1>7, <1>8, <1>11, Zenon DEF ScanAt

\* The same of the next state.
LEMMA ScanStartNext == ScanStarts' => ScanAt(<<>>)'
BY ScanStart, PTL

\* A scan that is over has finished every node.
LEMMA ScanEnd ==
    ASSUME ScanTypeInv, query # "over", NEW p, ScanAt(p), stack = <<>>
    PROVE  Results(Nodes)
<1>1. /\ dtb \in Trees /\ lex \in 1 .. Len(Tokens) /\ Len(Tokens) \in Nat /\ level = 0
      /\ DOMAIN Tokens = 1 .. Len(Tokens) /\ Len(p) \in Nat
  BY ScanFacts, TreeType, Zenon DEF level
<1>2. Tokens[lex].t = "stop"
  BY <1>1 DEF ScanAt, Shape
<1>3. lex = Len(Tokens)
  BY <1>1, <1>2, TreesAssumption, Zenon DEF Tokens
<1>4. \A c \in Nodes : c < lex
  <2> SUFFICES ASSUME NEW c \in DOMAIN Tokens, Tokens[c].t = "begin" PROVE c < lex
    BY Zenon DEF Nodes
  <2>1. c # lex BY <1>2, Zenon
  <2> QED BY <1>1, <1>3, <2>1
<1>5. ~Working(p)
  BY <1>1 DEF Working
<1>6. Finished(p) = Nodes
  BY <1>4, <1>5, Zenon DEF Finished
<1> QED BY <1>6, Zenon DEF ScanAt

\* query_mem() starts after query_htif() found what there is.
LEMMA ScanMem ==
    ASSUME ScanTypeInv, WellFormed, NEW p, ScanAt(p), query_mem
    PROVE  ScanAt(<<>>)'
<1>1. Results(Nodes)
  BY ScanEnd, Zenon DEF query_mem
<1>2. htif <=> HasHtif(Nodes)
  BY <1>1, Zenon DEF Results, query_mem
<1>3. dtb' = dtb /\ htif' = htif /\ query' = "mem" /\ lex' = 1 /\ scan' = Cleared
      /\ stack' = fdt_scan(dtb) /\ g_mem_size' = 0
  BY Zenon DEF query_mem
<1>4. Nodes' = Nodes /\ \A b, name : Says(b, name)' = Says(b, name)
  BY <1>3, SameTree, Zenon
<1>5. (htif <=> HasHtif(Nodes))'
  BY <1>2, <1>3, <1>4, Zenon DEF HasHtif
<1>6. (stack = fdt_scan(dtb))' /\ (scan = Cleared)'
  BY <1>3, Zenon DEF fdt_scan, Cleared, Frame
<1>7. dtb \in Trees /\ dtb.known
  BY ScanFacts, Zenon DEF query_mem, WellFormed
<1> QED BY <1>3, <1>5, <1>6, <1>7, ScanStartNext, Zenon DEF ScanStarts

\* query_mem() returns with the size of a region around the kernel.
LEMMA ScanOver ==
    ASSUME ScanTypeInv, WellFormed, fate = "ok", NEW p, ScanAt(p), query_over
    PROVE  fate' = "ok" /\ query' = "over" /\ g_mem_size' \in Sizes' /\ (htif' <=> HasHtif(Nodes)')
<1>1. Results(Nodes)
  BY ScanEnd, Zenon DEF query_over
<1>2. (htif <=> HasHtif(Nodes)) /\ (g_mem_size \in Sizes \/ NoKernel(Nodes))
  BY <1>1, Zenon DEF Results, query_over
<1>3. ~NoKernel(Nodes)
  <2>1. PICK r : r \in KernelRegions BY Zenon DEF WellFormed
  <2>2. PICK b \in MemoryNodes : r \in Regions(b) BY <2>1, Zenon DEF KernelRegions
  <2>3. b \in Nodes BY Zenon DEF MemoryNodes
  <2> QED BY <2>1, <2>2, <2>3, Zenon DEF NoKernel
<1>4. dtb \in Trees
  BY ScanFacts, Zenon DEF query_over
<1>5. g_mem_size > 0
  BY <1>2, <1>3, <1>4, SizesPositive, Zenon
<1>6. dtb' = dtb /\ fate' = fate /\ query' = "over" /\ g_mem_size' = g_mem_size /\ htif' = htif
  BY <1>5, Zenon DEF query_over
<1>7. /\ Nodes' = Nodes /\ KernelRegions' = KernelRegions
      /\ \A b, name : Says(b, name)' = Says(b, name)
  BY <1>6, SameTree, Zenon
<1> QED BY <1>2, <1>3, <1>6, <1>7, Zenon DEF Sizes, HasHtif

\* query_htif() starts the first scan.
LEMMA ScanInvInit ==
    ASSUME query_htif
    PROVE  ScanInv
BY ScanStart, Zenon DEF query_htif, ScanInv, ScanStarts

\* Every token, and the step from one query to the next, keeps what the scan has found.
LEMMA ScanInvNext ==
    ASSUME ScanTypeInv, ScanInv, ScanNext
    PROVE  ScanInv'
<1>0. dtb' = dtb
  BY Zenon DEF ScanNext, fdt_nop, fdt_prop, fdt_begin_node, fdt_return, query_mem, query_over
<1> SUFFICES ASSUME dtb.known, WellFormed
    PROVE  /\ fate' = "ok"
           /\ query' # "over" => \E p : ScanAt(p)'
           /\ query' = "over" => g_mem_size' \in Sizes' /\ (htif' <=> HasHtif(Nodes)')
  BY <1>0, SameTree, Zenon DEF ScanInv
<1>1. fate = "ok" /\ query # "over" /\ \E p : ScanAt(p)
  BY Zenon DEF ScanInv, ScanNext, fdt_nop, fdt_prop, fdt_begin_node, fdt_return, query_mem,
     query_over, Scanning
<1>2. PICK p : ScanAt(p) BY <1>1, Zenon
<1>3. CASE fdt_nop
  BY <1>1, <1>2, <1>3, ScanNop, Zenon DEF fdt_nop
<1>4. CASE fdt_prop
  BY <1>1, <1>2, <1>4, ScanProp, Zenon DEF fdt_prop
<1>5. CASE fdt_begin_node
  BY <1>1, <1>2, <1>5, ScanBegin, Zenon DEF fdt_begin_node
<1>6. CASE fdt_return
  BY <1>1, <1>2, <1>6, ScanReturn, Zenon DEF fdt_return
<1>7. CASE query_mem
  BY <1>1, <1>2, <1>7, ScanMem, Zenon DEF query_mem
<1>8. CASE query_over
  BY <1>1, <1>2, <1>8, ScanOver, Zenon
<1> QED BY <1>3, <1>4, <1>5, <1>6, <1>7, <1>8, SMTT(30) DEF ScanNext

\* When query_mem() has returned the results are those of the whole tree.
LEMMA ScanInvMatches ==
    ASSUME ScanInv
    PROVE  ScanMatchesTree
BY Zenon DEF ScanInv, ScanMatchesTree, Sizes, HasHtif

-----------------------------------------------------------------------------
(* The scan of the device tree, as a part of the boot. *)

\* What the invariant of the scan says depends on the variables of the scan only.
LEMMA SameScan ==
    ASSUME UNCHANGED scanVars, ScanTypeInv, ScanInv
    PROVE  ScanTypeInv' /\ ScanInv'
<1>0. /\ dtb' = dtb /\ query' = query /\ lex' = lex /\ stack' = stack /\ scan' = scan
      /\ htif' = htif /\ g_mem_size' = g_mem_size /\ fate' = fate
  BY Zenon DEF scanVars
<1>1. ScanTypeInv'
  BY <1>0, Zenon DEF ScanTypeInv, Tokens, Calls, Call, Scans, Cell
<1>2. /\ Tokens' = Tokens /\ Nodes' = Nodes /\ WellFormed' = WellFormed
      /\ KernelRegions' = KernelRegions /\ MemoryNodes' = MemoryNodes
      /\ \A b, n : Says(b, n)' = Says(b, n)
      /\ \A b : Regions(b)' = Regions(b)
  BY <1>0, SameTree, Zenon
<1>3. \A b, name : Read(b, name)' = Read(b, name)
  <2>1. \A b, name : PropsOf(b, name)' = PropsOf(b, name) BY <1>0, SameTree, Zenon
  <2> QED BY <1>0, <2>1, Zenon DEF Read
<1>4. \A p, j : Kids(p, j)' = Kids(p, j)
  <2>1. \A c : Around(c)' = Around(c) BY <1>0, SameTree, Zenon
  <2> QED BY <1>0, <1>2, <2>1, Zenon DEF Kids
<1>5. level' = level BY <1>0, Zenon DEF level
<1>6. \A S : HasHtif(S)' = HasHtif(S) /\ NoKernel(S)' = NoKernel(S)
  BY <1>2, Zenon DEF HasHtif, NoKernel
<1>7. Sizes' = Sizes BY <1>2, Zenon DEF Sizes
<1>8. ASSUME NEW p, ScanAt(p) PROVE ScanAt(p)'
  <2>1. IsPath(p, lex)'
    <3>1. IsPath(p, lex) BY <1>8, Zenon DEF ScanAt
    <3>2. \A i : IsPath(p, i)' = IsPath(p, i) BY <1>0, SameTree, Zenon
    <3>3. PICK i : i = lex BY Zenon
    <3> QED BY <1>0, <3>1, <3>2, <3>3, Zenon
  <2>2. Shape(p)'
    <3>1. Shape(p) BY <1>8, Zenon DEF ScanAt
    <3> QED BY <1>0, <1>2, <1>4, <1>5, <3>1, Zenon DEF Shape
  <2>3. CellsRead(p)'
    <3>1. CellsRead(p) BY <1>8, Zenon DEF ScanAt
    <3>2. \A j, name : Count(j, name)' = Count(j, name) BY <1>0, Zenon DEF Count
    <3> QED BY <1>2, <1>3, <1>4, <1>5, <3>1, <3>2, Zenon DEF CellsRead
  <2>4. Working(p)' = Working(p) BY <1>0, <1>5, Zenon DEF Working
  <2>5. ScanRead(p)'
    <3>1. ScanRead(p) BY <1>8, Zenon DEF ScanAt
    <3> QED BY <1>0, <1>2, <1>3, <2>4, <3>1, Zenon DEF ScanRead
  <2>6. Results(Finished(p))'
    <3>1. Finished(p)' = Finished(p) BY <1>0, <1>2, <2>4, Zenon DEF Finished
    <3>2. Results(Finished(p)) BY <1>8, Zenon DEF ScanAt
    <3>3. PICK S : S = Finished(p) BY Zenon
    <3>4. Results(S)' BY <1>0, <1>2, <1>6, <1>7, <3>2, <3>3, Zenon DEF Results
    <3> QED BY <3>1, <3>3, <3>4, Zenon
  <2> QED BY <2>1, <2>2, <2>3, <2>5, <2>6, Zenon DEF ScanAt
<1>9. ScanInv'
  <2> SUFFICES ASSUME dtb.known, WellFormed
      PROVE  /\ fate' = "ok"
             /\ query' # "over" => \E p : ScanAt(p)'
             /\ query' = "over" => g_mem_size' \in Sizes' /\ (htif' <=> HasHtif(Nodes)')
    BY <1>0, <1>2, Zenon DEF ScanInv
  <2>1. HasHtif(Nodes)' <=> HasHtif(Nodes) BY <1>2, Zenon DEF HasHtif
  <2> QED BY <1>0, <1>7, <1>8, <2>1, Zenon DEF ScanInv
<1> QED BY <1>1, <1>9, Zenon

\* Once init_dtb() has returned the scan is over and its tree is gone.
TreeInv == /\ ScanTypeInv /\ ScanInv
           /\ pc = "init_dtb" => ~csr.MTIE
           /\ pc # "init_dtb" => query = "over" /\ ~dtb.known

\* The boot starts with the scan.
LEMMA TreeInit == Init => TreeInv
BY ScanTypeInit, ScanInvInit DEF Init, BootInit, TreeInv

\* Only init_dtb() scans; no other step of the boot, the timer or a trap touches the scan.
LEMMA TreeNext == TreeInv /\ [Next]_vars => TreeInv'
<1> SUFFICES ASSUME TreeInv, [Next]_vars PROVE TreeInv'
  BY Zenon
<1>a. ASSUME UNCHANGED scanVars, (pc' # "init_dtb" /\ pc # "init_dtb") \/ UNCHANGED <<pc, csr>>
      PROVE  TreeInv'
  BY <1>a, SameScan, Zenon DEF TreeInv, scanVars
<1>1. CASE ScanNext /\ UNCHANGED bootVars
  <2>1. query # "over"
    BY <1>1, Zenon DEF ScanNext, fdt_nop, fdt_prop, fdt_begin_node, fdt_return, query_mem, query_over,
       Scanning
  <2> QED BY <1>1, <2>1, ScanTypeNext, ScanInvNext, Zenon DEF TreeInv, bootVars
<1>2. CASE init_dtb
  <2>1. /\ dtb' = NoTree /\ query = "over" /\ query' = query
        /\ g_mem_size' = g_mem_size /\ pc' = "mepc"
    BY <1>2, Zenon DEF init_dtb, At
  <2>2. ScanTypeInv' BY <2>1, Zenon DEF ScanTypeInv, TreeInv
  <2>3. ~dtb'.known BY <2>1, Zenon DEF NoTree
  <2> QED BY <2>1, <2>2, <2>3, Zenon DEF TreeInv, ScanInv
<1>3. CASE set_mepc \/ set_mtvec \/ set_sie \/ timerinit_cmp \/ timerinit_enable \/ mret
         \/ enable_paging
  BY <1>3, <1>a, Zenon DEF set_mepc, set_mtvec, set_sie, timerinit_cmp, timerinit_enable, mret,
     enable_paging, At, Kept
<1>4. CASE delegate_traps
  BY <1>4, <1>a, Zenon DEF delegate_traps, At
<1>5. CASE \E l \in Layouts : pmm_init(l)
  <2>1. PICK l \in Layouts : pmm_init(l) BY <1>5, Zenon
  <2>2. /\ dtb' = dtb /\ query' = query /\ pc = "pmm_init" /\ pc' # "init_dtb"
        /\ g_mem_size' = Min({PKE_MAX_ALLOWABLE_RAM, g_mem_size})
    BY <2>1, Zenon DEF pmm_init
  <2>3. query = "over" /\ ~dtb.known /\ g_mem_size \in Nat BY <2>2, Zenon DEF TreeInv, ScanTypeInv
  <2>4. g_mem_size' \in Nat BY <2>2, <2>3, BootAssumption, MinOfTwo, Zenon
  <2> QED BY <2>2, <2>3, <2>4, Zenon DEF TreeInv, ScanTypeInv, ScanInv
<1>6. CASE kern_vm_init \/ kern_vm_map
  BY <1>6, <1>a, Zenon DEF kern_vm_init, kern_vm_map
<1>7. CASE tick
  BY <1>7, <1>a, Zenon DEF tick
<1>8. CASE handle_timer
  <2>1. UNCHANGED scanVars BY <1>8, Zenon DEF handle_timer
  <2>2. pc # "init_dtb" /\ (pc' = pc \/ pc' = "lost") BY <1>8, Zenon DEF handle_timer, TreeInv
  <2> QED BY <1>a, <2>1, <2>2, Zenon
<1>9. CASE \E c \in Exceptions : user_trap(c)
  BY <1>9, <1>a, Zenon DEF user_trap, handle_mtrap, smode_trap_handler
<1>10. CASE soft_interrupt
  BY <1>10, <1>a, Zenon DEF soft_interrupt, handle_mtrap, smode_trap_handler
<1>11. CASE UNCHANGED vars
  BY <1>11, <1>a, Zenon DEF vars, bootVars
<1> QED BY <1>1, <1>2, <1>3, <1>4, <1>5, <1>6, <1>7, <1>8, <1>9, <1>10, <1>11, Zenon
   DEF Next, MStart, SStart

\* The scan of a well-formed device tree ends with what the tree says, for every tree.
THEOREM ScanCorrect == Spec => []ScanMatchesTree
<1>1. TreeInv => ScanMatchesTree
  BY ScanInvMatches, Zenon DEF TreeInv
<1> QED BY <1>1, TreeInit, TreeNext, PTL DEF Spec
=============================================================================
