-------------------------- MODULE DeviceTreeProofs --------------------------
(***************************************************************************)
(* The scan of a device tree (module DeviceTree), for every tree: its      *)
(* types, the nodes that are open before a token, and what the scan has    *)
(* made of the tokens it has read.  ScanInv, the inductive invariant, is   *)
(* shown to be kept in ScanProofs.                                         *)
(***************************************************************************)
EXTENDS DeviceTree, TLAPS
INSTANCE FiniteSetTheorems
INSTANCE WellFoundedInduction

\* Every non-empty set of naturals has a least element: induction, by the least
\* counterexample.
LEMMA Least ==
    ASSUME NEW T \in SUBSET Nat, T # {}
    PROVE  \E x \in T : \A y \in T : x <= y
<1> DEFINE R == OpToRel(<, Nat)
<1>1. IsWellFoundedOn(R, Nat)
  BY NatLessThanWellFounded, Zenon
<1>2. PICK x \in T : \A y \in T : ~(<<y, x>> \in R)
  <2> HIDE DEF R
  <2> QED BY <1>1, WFMin, Zenon
<1>3. \A y \in T : ~(y < x)
  BY <1>2, Zenon DEF OpToRel
<1> QED BY <1>3

\* The maximum of a bounded set of naturals.
LEMMA MaxOf ==
    ASSUME NEW n \in Nat, NEW T \in SUBSET (0 .. n), T # {}
    PROVE  Max(T) \in T /\ \A y \in T : y <= Max(T)
<1> DEFINE U == {n - y : y \in T}
<1>0. \A y \in T : y \in Nat /\ y <= n /\ n - y \in Nat
  OBVIOUS
<1>1. U \in SUBSET Nat /\ U # {}
  BY <1>0, Zenon
<1>2. PICK u \in U : \A y \in U : u <= y
  <2> HIDE DEF U
  <2> QED BY <1>1, Least, Zenon
<1>3. \E x \in T : \A y \in T : x >= y
  <2>1. PICK x \in T : u = n - x
    BY <1>2, Zenon
  <2>2. \A y \in T : n - x <= n - y
    BY <1>2, <2>1, Zenon
  <2> QED BY <1>0, <2>1, <2>2
<1> QED BY <1>3, Zenon DEF Max

\* A cell of a property.
Cell == 0 .. CELL - 1

\* The smaller of two sizes.
LEMMA MinOfTwo ==
    ASSUME NEW a \in Nat, NEW b \in Nat
    PROVE  Min({a, b}) \in Nat /\ Min({a, b}) = Min({b, a})
<1>1. \E x \in {a, b} : \A y \in {a, b} : x <= y OBVIOUS
<1>2. {a, b} = {b, a} BY Zenon
<1> QED BY <1>1, <1>2, Zenon DEF Min

\* fdt_get_address() and fdt_get_size() compute a number below 2^64.
LEMMA FdtGetType ==
    ASSUME NEW cells \in Seq(Cell)
    PROVE  fdt_get(cells) \in 0 .. CELL * CELL - 1
<1> DEFINE M == CELL * CELL
           Step(r, i) == IF i = 0 THEN 0 ELSE (r[i - 1] * CELL + cells[i]) % M
           Is(r, n) == r = [i \in 0 .. n |-> Step(r, i)]
           N == Len(cells)
<1>0. CELL \in Nat /\ M \in Nat /\ M > 1 /\ N \in Nat
  <2>1. CELL \in Nat /\ CELL > 1 /\ N \in Nat
    BY DeviceTreeAssumption
  <2>2. CELL * CELL \in Nat /\ CELL * CELL > 1
    BY <2>1, Z3
  <2> QED BY <2>1, <2>2, Zenon
<1>1. \A n \in Nat : n <= N => \E r : Is(r, n)
  <2> DEFINE C == {n \in Nat : n <= N /\ ~\E r : Is(r, n)}
  <2> SUFFICES ASSUME C # {} PROVE FALSE
    BY Zenon
  <2>1. PICK n \in C : \A m \in C : n <= m
    <3>1. C \in SUBSET Nat BY Zenon
    <3> HIDE DEF C
    <3> QED BY <3>1, Least, Zenon
  <2>2. CASE n = 0
    <3>1. Is([i \in 0 .. 0 |-> 0], 0)
      OBVIOUS
    <3> QED BY <2>1, <2>2, <3>1, Zenon
  <2>3. CASE n # 0
    <3>1. n - 1 \in Nat /\ n - 1 \notin C /\ n - 1 <= N
      <4>1. n \in Nat /\ n <= N
        BY Zenon
      <4> HIDE DEF C
      <4> QED BY <1>0, <2>1, <2>3, <4>1
    <3>2. PICK r : Is(r, n - 1)
      BY <3>1, Zenon
    <3> DEFINE s == [i \in 0 .. n |-> IF i = n THEN (r[n - 1] * CELL + cells[n]) % M ELSE r[i]]
    <3>3. ASSUME NEW i \in 0 .. n PROVE s[i] = Step(s, i)
      <4>1. CASE i = n
        BY <2>1, <2>3, <4>1
      <4>2. CASE i # n
        <5>1. i \in 0 .. n - 1
          BY <2>1, <4>2
        <5>2. r[i] = Step(r, i)
          BY <3>2, <5>1, Zenon
        <5>3. i # 0 => i - 1 \in 0 .. n /\ i - 1 # n /\ s[i - 1] = r[i - 1]
          BY <2>1, <5>1
        <5> QED BY <4>2, <5>2, <5>3, Zenon
      <4> QED BY <4>1, <4>2, Zenon
    <3>4. Is(s, n)
      BY <3>3, Zenon
    <3> QED BY <2>1, <3>4, Zenon
  <2> QED BY <2>2, <2>3, Zenon
<1>2. PICK r : Is(r, N) /\ fdt_get(cells) = r[N]
  <2>1. \E r : Is(r, N)
    BY <1>0, <1>1
  <2>2. Is(CHOOSE r : Is(r, N), N)
    BY <2>1, Zenon
  <2>3. fdt_get(cells) = (CHOOSE r : Is(r, N))[N]
    BY Zenon DEF fdt_get
  <2> QED BY <2>2, <2>3, Zenon
<1>3. \A n \in Nat : n <= N => r[n] \in 0 .. M - 1
  <2> DEFINE C == {n \in Nat : n <= N /\ ~(r[n] \in 0 .. M - 1)}
  <2> SUFFICES ASSUME C # {} PROVE FALSE
    BY Zenon
  <2>1. PICK n \in C : \A m \in C : n <= m
    <3>1. C \in SUBSET Nat BY Zenon
    <3> HIDE DEF C
    <3> QED BY <3>1, Least, Zenon
  <2>2. n \in 0 .. N /\ r[n] = Step(r, n)
    <3>1. n \in 0 .. N
      BY <1>0, <2>1
    <3>2. r[n] = [i \in 0 .. N |-> Step(r, i)][n]
      BY <1>2, Zenon
    <3> HIDE DEF Step, N
    <3> QED BY <3>1, <3>2, Zenon
  <2>3. n # 0
    BY <1>0, <2>1, <2>2
  <2>4. n - 1 \in Nat /\ n - 1 <= N /\ n - 1 \notin C
    BY <1>0, <2>1, <2>2, <2>3
  <2>5. r[n - 1] \in Nat
    BY <1>0, <2>4
  <2>6. cells[n] \in Nat
    BY <2>2, <2>3, DeviceTreeAssumption DEF Cell
  <2>7. r[n - 1] * CELL + cells[n] \in Nat
    <3>1. ASSUME NEW a \in Nat, NEW b \in Nat, NEW c \in Nat PROVE a * b + c \in Nat
      OBVIOUS
    <3> QED BY <1>0, <2>5, <2>6, <3>1, Zenon
  <2>8. (r[n - 1] * CELL + cells[n]) % M \in 0 .. M - 1
    <3> HIDE DEF M
    <3> QED BY <1>0, <2>7
  <2> QED BY <2>1, <2>2, <2>3, <2>8, Zenon
<1> QED BY <1>0, <1>2, <1>3

-----------------------------------------------------------------------------
(* The types of the scan. *)

\* What fdt_scan_helper() and the call-backs keep.
Call == [last : BOOLEAN, address_cells : Nat, size_cells : Nat]
Calls == Seq(Call)
Scans == [found : BOOLEAN, reg : Seq(Cell), has_reg : BOOLEAN]

\* A scan reads the tokens of a tree, and finds numbers.
ScanTypeInv ==
    /\ query \in {"htif", "mem", "over"}
    /\ g_mem_size \in Nat
    /\ query # "over" => /\ dtb \in Trees /\ lex \in 1 .. Len(Tokens)
                         /\ stack \in Calls /\ scan \in Scans

\* What TreesAssumption says of the tree that is scanned.
LEMMA TreeType ==
    ASSUME dtb \in Trees
    PROVE  /\ Tokens \in Seq(Token) /\ Len(Tokens) \in Nat /\ Len(Tokens) > 0
           /\ DOMAIN Tokens = 1 .. Len(Tokens)
           /\ \A i \in 1 .. Len(Tokens) :
                /\ Tokens[i] \in Token
                /\ Tokens[i].t \in {"begin", "end", "nop", "prop", "stop"}
                /\ Tokens[i].value \in Seq(Cell)
                /\ Tokens[i].t = "stop" <=> i = Len(Tokens)
                /\ Tokens[i].name \in {"#address-cells", "#size-cells"} =>
                     Tokens[i].value[1] \in Nat
<1>1. /\ dtb \in [known : BOOLEAN, tokens : Seq(Token)] /\ Tokens # <<>>
      /\ \A i \in DOMAIN Tokens :
           /\ Tokens[i].t = "stop" <=> i = Len(Tokens)
           /\ Tokens[i].name \in {"#address-cells", "#size-cells"} => Tokens[i].value # <<>>
  BY TreesAssumption, Zenon DEF Tokens
<1>2. Tokens \in Seq(Token) /\ Tokens # <<>>
  BY <1>1, Zenon DEF Tokens
<1>3. Len(Tokens) \in Nat /\ Len(Tokens) > 0 /\ DOMAIN Tokens = 1 .. Len(Tokens)
  BY <1>2
<1>4. ASSUME NEW i \in 1 .. Len(Tokens)
      PROVE  /\ Tokens[i] \in Token
             /\ Tokens[i].t \in {"begin", "end", "nop", "prop", "stop"}
             /\ Tokens[i].value \in Seq(Cell)
             /\ Tokens[i].t = "stop" <=> i = Len(Tokens)
             /\ Tokens[i].name \in {"#address-cells", "#size-cells"} =>
                  Tokens[i].value[1] \in Nat
  <2>1. Tokens[i] \in Token
    BY <1>2
  <2>2. /\ Tokens[i].t \in {"begin", "end", "nop", "prop", "stop"}
        /\ Tokens[i].value \in Seq(Cell)
    BY <2>1, Zenon DEF Token, Cell
  <2>3. ASSUME Tokens[i].value # <<>> PROVE Tokens[i].value[1] \in Nat
    <3> DEFINE v == Tokens[i].value
    <3>1. v \in Seq(Cell) /\ v # <<>> BY <2>2, <2>3, Zenon
    <3> HIDE DEF v
    <3>2. v[1] \in Cell BY <3>1
    <3> QED BY <3>2, DeviceTreeAssumption DEF Cell, v
  <2> QED BY <1>1, <1>3, <2>1, <2>2, <2>3, Zenon
<1> QED BY <1>2, <1>3, <1>4, Zenon

\* An entry of a property reg is a pair of numbers.
LEMMA EntryType ==
    ASSUME NEW reg \in Seq(Cell), NEW a \in Nat, NEW s \in Nat, a + s > 0,
           NEW i \in 1 .. Len(reg) \div (a + s)
    PROVE  /\ Entry(reg, a, s, i).base \in 0 .. CELL * CELL - 1
           /\ Entry(reg, a, s, i).size \in 0 .. CELL * CELL - 1
<1> DEFINE w == a + s
           at == (i - 1) * w
<1>1. w \in Nat /\ w > 0 /\ Len(reg) \in Nat
  OBVIOUS
<1>2. at \in Nat /\ at + w <= Len(reg)
  <2>0. w \in Nat /\ w > 0 /\ Len(reg) \in Nat /\ i \in 1 .. Len(reg) \div w
    OBVIOUS
  <2> HIDE DEF w
  <2>1. Len(reg) \div w \in Nat /\ (Len(reg) \div w) * w <= Len(reg)
    BY <2>0, Z3
  <2>2. i \in Nat /\ i >= 1 /\ i <= Len(reg) \div w
    BY <2>0, <2>1
  <2>3. i * w <= (Len(reg) \div w) * w /\ i * w = (i - 1) * w + w /\ (i - 1) * w \in Nat
    <3> DEFINE d == Len(reg) \div w
    <3>1. d \in Nat /\ i <= d BY <2>1, <2>2, Zenon
    <3> HIDE DEF d
    <3>2. i * w <= d * w /\ i * w = (i - 1) * w + w /\ (i - 1) * w \in Nat
      BY <2>0, <2>2, <3>1, Z3
    <3> QED BY <3>2, Zenon DEF d
  <2> QED BY <2>0, <2>1, <2>2, <2>3
<1> DEFINE b == SubSeq(reg, at + 1, at + a)
           z == SubSeq(reg, at + a + 1, at + a + s)
<1>3. b \in Seq(Cell) /\ z \in Seq(Cell)
  <2> HIDE DEF at
  <2> QED BY <1>2
<1>4. fdt_get(b) \in 0 .. CELL * CELL - 1 /\ fdt_get(z) \in 0 .. CELL * CELL - 1
  BY <1>3, FdtGetType, Zenon
<1>5. Entry(reg, a, s, i) = [base |-> fdt_get(b), size |-> fdt_get(z)]
  BY Zenon DEF Entry
<1> HIDE DEF b, z
<1> QED BY <1>4, <1>5

\* The entries mem_done() finds the kernel in have a last one.
LEMMA ChosenIs ==
    ASSUME NEW reg \in Seq(Cell), NEW a \in Nat, NEW s \in Nat, a + s > 0, NEW size \in Nat
    PROVE  \/ /\ Chosen(reg, a, s, size) = size
              /\ \A i \in 1 .. Len(reg) \div (a + s) : ~Covers(Entry(reg, a, s, i))
           \/ \E i \in 1 .. Len(reg) \div (a + s) :
                /\ Covers(Entry(reg, a, s, i))
                /\ Chosen(reg, a, s, size) = Entry(reg, a, s, i).size
<1> DEFINE n == Len(reg) \div (a + s)
           C == {i \in 1 .. n : Covers(Entry(reg, a, s, i))}
<1>1. n \in Nat
  <2>1. Len(reg) \in Nat /\ a + s \in Nat \ {0} OBVIOUS
  <2> QED BY <2>1, Z3
<1>2. Chosen(reg, a, s, size) = IF C = {} THEN size ELSE Entry(reg, a, s, Max(C)).size
  BY Zenon DEF Chosen
<1>3. CASE C = {}
  BY <1>2, <1>3, Zenon
<1>4. CASE C # {}
  <2>1. C \in SUBSET (0 .. n)
    BY <1>1
  <2>2. Max(C) \in C
    <3> HIDE DEF C, n
    <3> QED BY <1>1, <1>4, <2>1, MaxOf, Zenon
  <2> QED BY <1>2, <1>4, <2>2, Zenon
<1> QED BY <1>3, <1>4, Zenon

\* mem_done() finds a number.
LEMMA ChosenType ==
    ASSUME NEW reg \in Seq(Cell), NEW a \in Nat, NEW s \in Nat, a + s > 0, NEW size \in Nat
    PROVE  Chosen(reg, a, s, size) \in Nat
<1>1. ASSUME NEW i \in 1 .. Len(reg) \div (a + s)
      PROVE  Entry(reg, a, s, i).size \in Nat
  BY EntryType
<1>2. \/ Chosen(reg, a, s, size) = size
      \/ \E i \in 1 .. Len(reg) \div (a + s) : Chosen(reg, a, s, size) = Entry(reg, a, s, i).size
  BY ChosenIs, Zenon
<1> QED BY <1>1, <1>2, Zenon

\* A sequence with one element replaced, and without its last element.
LEMMA SeqUpdate ==
    ASSUME NEW S, NEW q \in Seq(S), NEW k \in 1 .. Len(q), NEW x \in S
    PROVE  /\ [q EXCEPT ![k] = x] \in Seq(S) /\ Len([q EXCEPT ![k] = x]) = Len(q)
           /\ [q EXCEPT ![k] = x][k] = x
           /\ \A j \in 1 .. Len(q) : j # k => [q EXCEPT ![k] = x][j] = q[j]
OBVIOUS

\* All of a sequence but its end.
LEMMA SeqFront ==
    ASSUME NEW S, NEW q \in Seq(S), q # <<>>
    PROVE  LET f == SubSeq(q, 1, Len(q) - 1)
           IN  /\ f \in Seq(S) /\ Len(f) = Len(q) - 1
               /\ \A j \in 1 .. Len(q) - 1 : f[j] = q[j]
OBVIOUS

\* The first call of the helper.
LEMMA FirstCall == \A tree : fdt_scan(tree) \in Calls /\ Cleared \in Scans
<1>1. Frame \in Call
  BY Zenon DEF Frame, Call
<1>2. <<Frame>> \in Calls /\ <<>> \in Calls
  BY <1>1 DEF Calls
<1>3. Cleared \in Scans
  BY DEF Cleared, Scans
<1> QED BY <1>2, <1>3, Zenon DEF fdt_scan

\* query_htif() starts with the first token of a tree.
LEMMA ScanTypeInit == query_htif => ScanTypeInv
<1> SUFFICES ASSUME query_htif PROVE ScanTypeInv
  BY Zenon
<1>1. dtb \in Trees /\ query = "htif" /\ lex = 1 /\ stack = fdt_scan(dtb) /\ scan = Cleared
      /\ g_mem_size = 0
  BY Zenon DEF query_htif
<1>2. lex \in 1 .. Len(Tokens)
  <2>1. Len(Tokens) \in Nat /\ Len(Tokens) > 0
    BY <1>1, TreeType, Zenon
  <2> QED BY <1>1, <2>1, SMTT(30)
<1> QED BY <1>1, <1>2, FirstCall, Zenon DEF ScanTypeInv

\* The call-back done leaves a number in g_mem_size.
LEMMA DoneType ==
    ASSUME ScanTypeInv, query # "over", level > 0, done
    PROVE  g_mem_size' \in Nat
<1>1. CASE g_mem_size' = g_mem_size
  BY <1>1, Zenon DEF ScanTypeInv
<1>2. CASE g_mem_size' # g_mem_size
  <2> DEFINE a == RegCells.address_cells
             s == RegCells.size_cells
  <2>1. /\ mem_done_fate = "ok" /\ scan.found /\ scan.reg # <<>>
        /\ g_mem_size' = Chosen(scan.reg, a, s, g_mem_size)
    BY <1>2, Zenon DEF done, htif_done, mem_done
  <2>2. /\ ~(level < 3) /\ a + s # 0
    BY <2>1, Zenon DEF mem_done_fate, Died
  <2>3. stack \in Calls /\ scan.reg \in Seq(Cell) /\ g_mem_size \in Nat
    BY Zenon DEF ScanTypeInv, Scans
  <2>4. RegCells \in Call
    <3>1. level \in Nat /\ level - 2 \in 1 .. Len(stack)
      BY <2>2, <2>3 DEF level, Calls
    <3> QED BY <2>3, <3>1 DEF RegCells, Calls
  <2>5. a \in Nat /\ s \in Nat /\ a + s > 0
    BY <2>2, <2>4 DEF Call
  <2> HIDE DEF a, s
  <2>7. Chosen(scan.reg, a, s, g_mem_size) \in Nat
    BY <2>3, <2>5, ChosenType, Zenon
  <2> QED BY <2>1, <2>7, Zenon
<1> QED BY <1>1, <1>2, Zenon

\* Every step of the scan stays within the tree.
LEMMA ScanTypeNext == ScanTypeInv /\ ScanNext => ScanTypeInv'
<1> SUFFICES ASSUME ScanTypeInv, ScanNext PROVE ScanTypeInv'
  BY Zenon
<1> USE DEF ScanTypeInv
<1>t. dtb' = dtb => Tokens' = Tokens
  BY Zenon DEF Tokens
<1>s. ASSUME NEW t, Scanning(t), t # "stop"
      PROVE  /\ query # "over" /\ lex \in 1 .. Len(Tokens) /\ tok = Tokens[lex] /\ tok.t = t
             /\ lex + 1 \in 1 .. Len(Tokens) /\ stack # <<>> /\ level \in Nat /\ level > 0
             /\ DOMAIN stack = 1 .. level
  <2>1. /\ query # "over" /\ stack # <<>> /\ tok = Tokens[lex] /\ tok.t = t
    BY <1>s, SMTT(30) DEF Scanning, tok, Tokens
  <2>2. lex \in 1 .. Len(Tokens) /\ lex # Len(Tokens) /\ Len(Tokens) \in Nat
    BY <1>s, <2>1, TreeType, Zenon
  <2>3. level \in Nat /\ level > 0 /\ DOMAIN stack = 1 .. level
    BY <2>1 DEF level, Calls
  <2> QED BY <2>1, <2>2, <2>3
<1>1. CASE fdt_nop
  BY <1>1, <1>s, <1>t, Zenon DEF fdt_nop
<1>2. CASE fdt_prop
  <2>1. CASE top.last
    BY <1>2, <2>1, <1>t, <1>s, Zenon DEF fdt_prop
  <2>2. CASE ~top.last
    <3>0. Scanning("prop") /\ UNCHANGED <<dtb, query, g_mem_size>> /\ lex' = lex + 1
      BY <1>2, <2>2, Zenon DEF fdt_prop
    <3>1. lex \in 1 .. Len(Tokens) /\ tok = Tokens[lex] /\ lex + 1 \in 1 .. Len(Tokens)
          /\ query # "over" /\ level \in Nat /\ level > 0 /\ DOMAIN stack = 1 .. level
      BY <1>s, <3>0, SMTT(30)
    <3>2. /\ tok.value \in Seq(Cell)
          /\ tok.name \in {"#address-cells", "#size-cells"} => tok.value[1] \in Nat
      BY <3>1, TreeType, Zenon
    <3>3. stack' \in Calls
      <4>1. stack \in Calls
        BY <3>1, Zenon
      <4>2. ASSUME NEW v \in Nat, HasNode
            PROVE  /\ [stack EXCEPT ![level - 1].address_cells = v] \in Calls
                   /\ [stack EXCEPT ![level - 1].size_cells = v] \in Calls
        <5>1. level - 1 \in 1 .. Len(stack)
          BY <3>1, <4>2 DEF HasNode, level
        <5>2. stack[level - 1] \in Call
          BY <4>1, <5>1 DEF Calls
        <5>3. /\ [stack[level - 1] EXCEPT !.address_cells = v] \in Call
              /\ [stack[level - 1] EXCEPT !.size_cells = v] \in Call
          BY <5>2, <4>2, Zenon DEF Call
        <5> QED BY <4>1, <5>1, <5>3, SeqUpdate, Zenon DEF Calls
      <4> QED BY <1>2, <2>2, <3>2, <4>1, <4>2, Zenon DEF fdt_prop
    <3>4. scan' \in Scans
      <4>1. scan \in Scans BY <3>1, Zenon
      <4>2. scan' = IF query = "htif" THEN htif_prop(tok) ELSE mem_prop(tok)
        BY <1>2, <2>2, Zenon DEF fdt_prop
      <4>3. htif_prop(tok) \in Scans
        BY <4>1, Zenon DEF htif_prop, Scans
      <4>4. mem_prop(tok) \in Scans
        BY <4>1, <3>2, Zenon DEF mem_prop, Scans
      <4> QED BY <4>2, <4>3, <4>4, Zenon
    <3> QED BY <3>0, <3>1, <3>3, <3>4, <1>t, Zenon
  <2> QED BY <2>1, <2>2, Zenon
<1>3. CASE fdt_begin_node
  <2>1. Scanning("begin") /\ UNCHANGED <<dtb, query>> /\ lex' = lex + 1 /\ scan' = Cleared /\ done
        /\ stack' = Append([stack EXCEPT ![level].last = TRUE], Frame)
    BY <1>3, Zenon DEF fdt_begin_node
  <2>2. level \in Nat /\ level > 0 /\ query # "over" /\ lex + 1 \in 1 .. Len(Tokens)
        /\ stack \in Calls /\ level \in 1 .. Len(stack)
    BY <2>1, <1>s DEF level
  <2>3. stack' \in Calls
    <3>1. Frame \in Call
      BY Zenon DEF Frame, Call
    <3>2. [stack EXCEPT ![level].last = TRUE] \in Calls
      <4>1. [stack[level] EXCEPT !.last = TRUE] \in Call
        <5>1. stack[level] \in Call
          BY <2>2 DEF Calls
        <5> QED BY <5>1, Zenon DEF Call
      <4> QED BY <2>2, <4>1, SeqUpdate, Zenon DEF Calls
    <3> QED BY <2>1, <3>1, <3>2 DEF Calls
  <2> QED BY <2>1, <2>2, <2>3, <1>t, DoneType, FirstCall, Zenon
<1>4. CASE fdt_return
  <2>1. /\ Scanning("end") \/ Scanning("stop")
        /\ UNCHANGED <<dtb, query, scan>> /\ done /\ stack' = SubSeq(stack, 1, level - 1)
        /\ lex' = IF tok.t = "end" THEN lex + 1 ELSE lex
    BY <1>4, Zenon DEF fdt_return
  <2>2. query # "over" /\ stack \in Calls /\ stack # <<>> /\ lex \in 1 .. Len(Tokens)
    BY <2>1, Zenon DEF Scanning
  <2>3. level \in Nat /\ level > 0 /\ stack' \in Calls
    BY <2>1, <2>2, SeqFront DEF level, Calls
  <2>4. lex' \in 1 .. Len(Tokens)
    <3>1. Scanning("end") => tok.t = "end" /\ lex + 1 \in 1 .. Len(Tokens)
      BY <1>s, Zenon
    <3>2. Scanning("stop") => tok.t = "stop"
      BY Zenon DEF Scanning
    <3> QED BY <2>1, <2>2, <3>1, <3>2, Zenon
  <2> QED BY <2>1, <2>2, <2>3, <2>4, <1>t, DoneType, Zenon
<1>5. CASE query_mem
  <2>1. dtb' = dtb /\ query = "htif" /\ query' = "mem" /\ lex' = 1 /\ scan' = Cleared
        /\ stack' = fdt_scan(dtb) /\ g_mem_size' = 0
    BY <1>5, Zenon DEF query_mem
  <2>2. 1 \in 1 .. Len(Tokens)
    <3>1. Len(Tokens) \in Nat /\ Len(Tokens) > 0
      BY <2>1, TreeType, Zenon
    <3> QED BY <3>1, SMTT(30)
  <2> QED BY <2>1, <2>2, <1>t, FirstCall, Zenon
<1>6. CASE query_over
  BY <1>6, <1>t, Zenon DEF query_over
<1> QED BY <1>1, <1>2, <1>3, <1>4, <1>5, <1>6, Zenon DEF ScanNext

\* The m outermost nodes of p.
First(p, m) == {p[k] : k \in 1 .. m}

\* The nodes that are open before token i, the outermost first.
IsPath(p, i) ==
    /\ p \in Seq(Nat) /\ Len(p) = Depth(i - 1)
    /\ \A j \in 1 .. Len(p) : /\ p[j] \in 1 .. i - 1 /\ Tokens[p[j]].t = "begin"
                              /\ Depth(p[j]) = j
                              /\ Around(p[j]) = First(p, j - 1)
    /\ \A j \in 1 .. Len(p), k \in 1 .. Len(p) : j < k => p[j] < p[k]
    /\ Around(i) = First(p, Len(p))

\* The reference operators depend on the tree only.
LEMMA SameTree ==
    ASSUME dtb' = dtb
    PROVE  /\ Tokens' = Tokens /\ Nodes' = Nodes
           /\ \A i : Depth(i)' = Depth(i)
           /\ \A i : Around(i)' = Around(i)
           /\ \A b, n : PropsOf(b, n)' = PropsOf(b, n)
           /\ \A b, n : Says(b, n)' = Says(b, n)
           /\ MemoryNodes' = MemoryNodes
           /\ \A b : Regions(b)' = Regions(b)
           /\ KernelRegions' = KernelRegions
           /\ WellFormed' = WellFormed
           /\ \A p, i : IsPath(p, i)' = IsPath(p, i)
<1>1. Tokens' = Tokens BY Zenon DEF Tokens
<1>2. \A i : Depth(i)' = Depth(i) BY Zenon DEF Depth, Ends, Tokens
<1>3. \A i : Around(i)' = Around(i) BY <1>1, <1>2, Zenon DEF Around
<1>4. \A b, n : PropsOf(b, n)' = PropsOf(b, n) BY <1>1, <1>3, Zenon DEF PropsOf
<1>5. Nodes' = Nodes BY <1>1, Zenon DEF Nodes
<1>6. \A b, n : Says(b, n)' = Says(b, n) BY <1>4, Zenon DEF Says
<1>7. MemoryNodes' = MemoryNodes BY <1>5, <1>6, Zenon DEF MemoryNodes
<1>8. \A b, n : Value(b, n)' = Value(b, n) BY <1>1, <1>4, Zenon DEF Value
<1>9. \A b : /\ IsRoot(b)' = IsRoot(b) /\ Parent(b)' = Parent(b)
             /\ AddressCells(b)' = AddressCells(b) /\ SizeCells(b)' = SizeCells(b)
  BY <1>3, <1>6, <1>8, Zenon DEF IsRoot, Parent, AddressCells, SizeCells, CellsOf
<1>10. \A b : Regions(b)' = Regions(b)
  BY <1>8, <1>9, Zenon DEF Regions
<1>11. KernelRegions' = KernelRegions
  BY <1>7, <1>10, Zenon DEF KernelRegions
<1>12. \A b : OwnCells(b)' = OwnCells(b)
  BY <1>3, <1>5, <1>6, Zenon DEF OwnCells
<1>13. WellFormed' = WellFormed
  BY <1>1, <1>2, <1>3, <1>5, <1>6, <1>7, <1>8, <1>9, <1>10, <1>11, <1>12, Zenon DEF WellFormed
<1>14. \A p, i : IsPath(p, i)' = IsPath(p, i)
  BY <1>1, <1>2, <1>3, ZenonT(60) DEF IsPath
<1> QED BY <1>1, <1>2, <1>3, <1>4, <1>5, <1>6, <1>7, <1>10, <1>11, <1>13, <1>14, Zenon

\* The depth counts the nodes that were begun and not ended.
LEMMA DepthStep ==
    ASSUME dtb \in Trees, NEW i \in 1 .. Len(Tokens)
    PROVE  /\ Depth(0) = 0 /\ Depth(i - 1) \in Int /\ Depth(i) \in Int
           /\ Tokens[i].t = "begin" => Depth(i) = Depth(i - 1) + 1
           /\ Tokens[i].t = "end" => Depth(i) = Depth(i - 1) - 1
           /\ Tokens[i].t \notin {"begin", "end"} => Depth(i) = Depth(i - 1)
<1> DEFINE E(k, t) == {m \in 1 .. k : Tokens[m].t = t}
<1>0. i \in Nat /\ i - 1 \in Nat
  <2>1. Len(Tokens) \in Nat BY TreeType, Zenon
  <2> QED BY <2>1
<1>1. ASSUME NEW k \in Nat, NEW t PROVE IsFiniteSet(E(k, t)) /\ Ends(k, t) \in Nat
  <2>1. IsFiniteSet(1 .. k) BY FS_Interval
  <2>2. IsFiniteSet(E(k, t))
    <3>1. E(k, t) \subseteq 1 .. k BY Zenon
    <3> HIDE DEF E
    <3> QED BY <2>1, <3>1, FS_Subset, Zenon
  <2>3. Ends(k, t) = Cardinality(E(k, t)) BY Zenon DEF Ends
  <2> HIDE DEF E
  <2> QED BY <2>2, <2>3, FS_CardinalityType, Zenon
<1>2. ASSUME NEW t PROVE Ends(i, t) = IF Tokens[i].t = t THEN Ends(i - 1, t) + 1 ELSE Ends(i - 1, t)
  <2>1. CASE Tokens[i].t = t
    <3>1. E(i, t) = E(i - 1, t) \cup {i} /\ i \notin E(i - 1, t)
      BY <1>0, <2>1
    <3>2. IsFiniteSet(E(i - 1, t)) BY <1>0, <1>1, Zenon
    <3>3. Cardinality(E(i, t)) = Cardinality(E(i - 1, t)) + 1
      <4> HIDE DEF E
      <4> QED BY <3>1, <3>2, FS_AddElement, Zenon
    <3> QED BY <2>1, <3>3, Zenon DEF Ends
  <2>2. CASE Tokens[i].t # t
    <3>1. E(i, t) = E(i - 1, t)
      BY <1>0, <2>2
    <3> QED BY <2>2, <3>1, Zenon DEF Ends
  <2> QED BY <2>1, <2>2, Zenon
<1>3. Depth(0) = 0
  <2>1. \A t : E(0, t) = {}
    OBVIOUS
  <2>2. \A t : Ends(0, t) = 0
    BY <2>1, FS_EmptySet, Zenon DEF Ends
  <2> QED BY <2>2 DEF Depth
<1>4. /\ Ends(i - 1, "begin") \in Nat /\ Ends(i - 1, "end") \in Nat
      /\ Ends(i, "begin") \in Nat /\ Ends(i, "end") \in Nat
  BY <1>0, <1>1, Zenon
<1>5. /\ Ends(i, "begin") = IF Tokens[i].t = "begin" THEN Ends(i - 1, "begin") + 1
                                                     ELSE Ends(i - 1, "begin")
      /\ Ends(i, "end") = IF Tokens[i].t = "end" THEN Ends(i - 1, "end") + 1 ELSE Ends(i - 1, "end")
  BY <1>2, Zenon
<1>6. Depth(i - 1) \in Int /\ Depth(i) \in Int
  BY <1>4 DEF Depth
<1>7. Tokens[i].t = "begin" => Depth(i) = Depth(i - 1) + 1
  BY <1>4, <1>5 DEF Depth
<1>8. Tokens[i].t = "end" => Depth(i) = Depth(i - 1) - 1
  BY <1>4, <1>5 DEF Depth
<1>9. Tokens[i].t \notin {"begin", "end"} => Depth(i) = Depth(i - 1)
  BY <1>5, Zenon DEF Depth
<1> QED BY <1>3, <1>6, <1>7, <1>8, <1>9, Zenon

\* Before the first token no node is open.
LEMMA PathStart ==
    ASSUME dtb \in Trees
    PROVE  IsPath(<<>>, 1)
<1>1. 1 \in 1 .. Len(Tokens)
  <2>1. Len(Tokens) \in Nat /\ Len(Tokens) > 0 BY TreeType, Zenon
  <2> QED BY <2>1
<1>2. Depth(1 - 1) = 0
  BY <1>1, DepthStep
<1>3. Around(1) = {}
  BY DEF Around
<1> QED BY <1>2, <1>3 DEF IsPath, First

\* How a token changes the nodes around the next one.
LEMMA AroundNext ==
    ASSUME dtb \in Trees, NEW i \in 1 .. Len(Tokens)
    PROVE  Around(i + 1) = {b \in Around(i) : Depth(b) <= Depth(i)}
                             \cup (IF Tokens[i].t = "begin" THEN {i} ELSE {})
<1>0. i \in Nat /\ i > 0 /\ Depth(i) \in Int /\ i + 1 - 1 = i
  <2>1. Len(Tokens) \in Nat BY TreeType, Zenon
  <2> QED BY <2>1, DepthStep, SMTT(30)
<1>d. \A b \in 1 .. i : Depth(b) \in Int
  <2>1. Len(Tokens) \in Nat BY TreeType, Zenon
  <2>2. \A b \in 1 .. i : b \in 1 .. Len(Tokens) BY <2>1
  <2> QED BY <2>2, DepthStep, SMTT(30)
<1>1. ASSUME NEW b \in Around(i + 1)
      PROVE  b \in {c \in Around(i) : Depth(c) <= Depth(i)}
                     \cup (IF Tokens[i].t = "begin" THEN {i} ELSE {})
  <2>1. b \in 1 .. i /\ Tokens[b].t = "begin" /\ \A k \in b .. i : Depth(k) >= Depth(b)
    BY <1>0 DEF Around
  <2>2. CASE b = i
    BY <2>1, <2>2, Zenon
  <2>3. CASE b # i
    <3>1. b \in 1 .. i - 1 /\ \A k \in b .. i - 1 : Depth(k) >= Depth(b)
      BY <1>0, <2>1, <2>3
    <3>2. Depth(b) <= Depth(i)
      BY <1>0, <1>d, <2>1
    <3> QED BY <2>1, <3>1, <3>2, Zenon DEF Around
  <2> QED BY <2>2, <2>3, Zenon
<1>2. ASSUME NEW b \in Around(i), Depth(b) <= Depth(i)
      PROVE  b \in Around(i + 1)
  <2>1. b \in 1 .. i - 1 /\ Tokens[b].t = "begin" /\ \A k \in b .. i - 1 : Depth(k) >= Depth(b)
    BY Zenon DEF Around
  <2>2. \A k \in b .. i : Depth(k) >= Depth(b)
    BY <1>0, <1>d, <1>2, <2>1
  <2> QED BY <1>0, <2>1, <2>2 DEF Around
<1>3. ASSUME Tokens[i].t = "begin" PROVE i \in Around(i + 1)
  <2>1. i \in 1 .. i + 1 - 1 /\ \A k \in i .. i + 1 - 1 : k = i
    BY <1>0
  <2>2. \A k \in i .. i + 1 - 1 : Depth(k) >= Depth(i)
    BY <1>0, <2>1
  <2> QED BY <1>3, <2>1, <2>2 DEF Around
<1> QED BY <1>1, <1>2, <1>3, Zenon

\* What IsPath says, fact by fact.
LEMMA PathFacts ==
    ASSUME NEW i \in Nat, NEW p, IsPath(p, i)
    PROVE  /\ p \in Seq(Nat) /\ Len(p) \in Nat /\ Len(p) = Depth(i - 1)
           /\ \A j \in 1 .. Len(p) : /\ p[j] \in Nat /\ p[j] > 0 /\ p[j] < i
                                     /\ Tokens[p[j]].t = "begin" /\ Depth(p[j]) = j
           /\ \A j \in 1 .. Len(p) : Around(p[j]) = First(p, j - 1)
           /\ \A j \in 1 .. Len(p), k \in 1 .. Len(p) : j < k => p[j] < p[k]
           /\ Around(i) = First(p, Len(p))
<1>1. p \in Seq(Nat) /\ Len(p) \in Nat
  BY DEF IsPath
<1>2. \A j \in 1 .. Len(p) : p[j] \in 1 .. i - 1
  BY Zenon DEF IsPath
<1>3. \A j \in 1 .. Len(p) : p[j] \in Nat /\ p[j] > 0 /\ p[j] < i
  BY <1>2
<1> QED BY <1>1, <1>3, Zenon DEF IsPath

\* The same of one open node.
LEMMA PathAt ==
    ASSUME NEW i \in Nat, NEW p, IsPath(p, i), NEW j \in 1 .. Len(p)
    PROVE  /\ p[j] \in Nat /\ p[j] > 0 /\ p[j] < i
           /\ Tokens[p[j]].t = "begin" /\ Depth(p[j]) = j
           /\ Around(p[j]) = First(p, j - 1)
  BY PathFacts, Zenon

\* Two open nodes are not the same.
LEMMA PathApart ==
    ASSUME NEW i \in Nat, NEW p, IsPath(p, i), NEW j \in 1 .. Len(p), NEW k \in 1 .. Len(p),
           j < k
    PROVE  p[j] # p[k]
<1>1. p[j] < p[k] BY PathFacts, Zenon
<1>2. p[j] \in Nat /\ p[k] \in Nat BY PathAt, Zenon
<1> QED BY <1>1, <1>2

\* The last index of a sequence that is not empty.
LEMMA LastIndex == \A n \in Nat : n > 0 => n \in 1 .. n
OBVIOUS

\* Two sequences that agree have the same first elements.
LEMMA FirstSame ==
    ASSUME NEW p, NEW q, NEW n \in Nat, \A k \in 1 .. n : q[k] = p[k], NEW m \in Nat, m <= n
    PROVE  First(q, m) = First(p, m)
<1>1. \A k \in 1 .. m : q[k] = p[k]
  OBVIOUS
<1> QED BY <1>1, Zenon DEF First

\* A node that begins is the innermost one.
LEMMA PathBegin ==
    ASSUME dtb \in Trees, NEW i \in 1 .. Len(Tokens), Tokens[i].t = "begin", NEW p, IsPath(p, i)
    PROVE  IsPath(Append(p, i), i + 1)
<1> DEFINE q == Append(p, i)
           n == Len(p)
<1>0. i \in Nat /\ i > 0 /\ i + 1 - 1 = i
  <2>1. Len(Tokens) \in Nat BY TreeType, Zenon
  <2> QED BY <2>1, SMTT(30)
<1>1. p \in Seq(Nat) /\ n = Depth(i - 1) /\ n \in Nat
  BY <1>0, PathFacts, Zenon
<1>2. \A j \in 1 .. n : /\ p[j] \in Nat /\ p[j] > 0 /\ p[j] < i
                         /\ Tokens[p[j]].t = "begin" /\ Depth(p[j]) = j
  BY <1>0, PathFacts, Zenon
<1>3. \A j \in 1 .. n : Around(p[j]) = First(p, j - 1)
  BY <1>0, PathFacts, Zenon
<1>4. \A j \in 1 .. n, k \in 1 .. n : j < k => p[j] < p[k]
  BY <1>0, PathFacts, Zenon
<1>5. Around(i) = First(p, n)
  BY <1>0, PathFacts, Zenon
<1>6. Depth(i) = n + 1
  BY <1>1, DepthStep, Zenon
<1>7. q \in Seq(Nat) /\ Len(q) = n + 1 /\ q[n + 1] = i
  BY <1>0, <1>1
<1>8. \A j \in 1 .. n : q[j] = p[j]
  BY <1>0, <1>1
<1> HIDE DEF q, n
<1>9. \A m \in Nat : m <= n => First(q, m) = First(p, m)
  BY <1>1, <1>8, FirstSame, Zenon
<1>10. ASSUME NEW j \in 1 .. n + 1
       PROVE  /\ q[j] \in 1 .. i /\ Tokens[q[j]].t = "begin" /\ Depth(q[j]) = j
              /\ Around(q[j]) = First(q, j - 1)
  <2>1. CASE j = n + 1
    <3>1. j - 1 = n BY <1>1, <2>1
    <3>2. First(q, j - 1) = First(p, n) BY <1>1, <1>9, <3>1
    <3>3. q[j] = i BY <1>7, <2>1, Zenon
    <3> QED BY <1>0, <1>5, <1>6, <2>1, <3>2, <3>3
  <2>2. CASE j # n + 1
    <3>1. j \in 1 .. n /\ j - 1 \in Nat /\ j - 1 <= n BY <1>1, <2>2
    <3>2. q[j] = p[j] BY <1>8, <3>1, Zenon
    <3>3. First(q, j - 1) = First(p, j - 1) BY <1>9, <3>1, Zenon
    <3> QED BY <1>0, <1>2, <1>3, <3>1, <3>2, <3>3
  <2> QED BY <2>1, <2>2, Zenon
<1>11. ASSUME NEW j \in 1 .. n + 1, NEW k \in 1 .. n + 1, j < k PROVE q[j] < q[k]
  <2>1. j \in 1 .. n BY <1>1, <1>11
  <2>2. CASE k = n + 1
    BY <1>0, <1>2, <1>7, <1>8, <2>1, <2>2, Zenon
  <2>3. CASE k # n + 1
    <3>1. k \in 1 .. n BY <1>1, <2>3
    <3> QED BY <1>4, <1>8, <1>11, <2>1, <3>1, Zenon
  <2> QED BY <2>2, <2>3, Zenon
<1>12. Around(i + 1) = First(q, n + 1)
  <2>1. \A b \in Around(i) : Depth(b) <= Depth(i)
    BY <1>1, <1>2, <1>5, <1>6 DEF First
  <2>2. Around(i + 1) = Around(i) \cup {i}
    BY <2>1, AroundNext, Zenon
  <2>3. First(q, n + 1) = First(q, n) \cup {q[n + 1]}
    <3>1. \A k : k \in 1 .. n + 1 <=> k \in 1 .. n \/ k = n + 1
      BY <1>1
    <3> QED BY <3>1, Zenon DEF First
  <2>4. First(q, n) = First(p, n)
    BY <1>1, <1>9
  <2> QED BY <1>5, <1>7, <2>2, <2>3, <2>4, Zenon
<1>13. Len(q) = Depth(i + 1 - 1)
  BY <1>0, <1>6, <1>7, Zenon
<1> HIDE DEF First
<1>14. IsPath(q, i + 1)
  <2>1. \A j \in 1 .. Len(q) : /\ q[j] \in 1 .. i + 1 - 1 /\ Tokens[q[j]].t = "begin"
                                /\ Depth(q[j]) = j /\ Around(q[j]) = First(q, j - 1)
    BY <1>0, <1>7, <1>10, Zenon
  <2>2. \A j \in 1 .. Len(q), k \in 1 .. Len(q) : j < k => q[j] < q[k]
    BY <1>7, <1>11, Zenon
  <2>3. Around(i + 1) = First(q, Len(q))
    BY <1>7, <1>12, Zenon
  <2> QED BY <1>7, <1>13, <2>1, <2>2, <2>3 DEF IsPath
<1> QED BY <1>14, Zenon DEF q

\* A node that ends is the innermost one.
LEMMA PathEnd ==
    ASSUME dtb \in Trees, NEW i \in 1 .. Len(Tokens), Tokens[i].t = "end", Depth(i) >= 0,
           NEW p, IsPath(p, i)
    PROVE  p # <<>> /\ IsPath(SubSeq(p, 1, Len(p) - 1), i + 1)
<1> DEFINE n == Len(p)
           m == Len(p) - 1
           q == SubSeq(p, 1, Len(p) - 1)
<1>0. i \in Nat /\ i > 0 /\ i + 1 - 1 = i
  <2>1. Len(Tokens) \in Nat BY TreeType, Zenon
  <2> QED BY <2>1, SMTT(30)
<1>1. p \in Seq(Nat) /\ n = Depth(i - 1) /\ n \in Nat
  BY <1>0, PathFacts, Zenon
<1>2. \A j \in 1 .. n : /\ p[j] \in Nat /\ p[j] > 0 /\ p[j] < i
                         /\ Tokens[p[j]].t = "begin" /\ Depth(p[j]) = j
  BY <1>0, PathFacts, Zenon
<1>3. \A j \in 1 .. n : Around(p[j]) = First(p, j - 1)
  BY <1>0, PathFacts, Zenon
<1>4. \A j \in 1 .. n, k \in 1 .. n : j < k => p[j] < p[k]
  BY <1>0, PathFacts, Zenon
<1>5. Around(i) = First(p, n)
  BY <1>0, PathFacts, Zenon
<1>6. Depth(i) = n - 1 /\ n > 0 /\ m \in Nat /\ m = n - 1
  BY <1>1, DepthStep
<1>7. p # <<>>
  BY <1>6
<1>8. q \in Seq(Nat) /\ Len(q) = m /\ \A j \in 1 .. m : q[j] = p[j]
  BY <1>1, <1>7, SeqFront, Zenon
<1> HIDE DEF q, n, m
<1>9. \A k \in Nat : k <= m => First(q, k) = First(p, k)
  BY <1>6, <1>8, FirstSame, Zenon
<1>10. ASSUME NEW j \in 1 .. m
       PROVE  /\ q[j] \in 1 .. i /\ Tokens[q[j]].t = "begin" /\ Depth(q[j]) = j
              /\ Around(q[j]) = First(q, j - 1)
  <2>1. j \in 1 .. n /\ j - 1 \in Nat /\ j - 1 <= m BY <1>1, <1>6
  <2>2. q[j] = p[j] BY <1>8, Zenon
  <2>3. First(q, j - 1) = First(p, j - 1) BY <1>9, <2>1, Zenon
  <2> QED BY <1>0, <1>2, <1>3, <2>1, <2>2, <2>3
<1>11. ASSUME NEW j \in 1 .. m, NEW k \in 1 .. m, j < k PROVE q[j] < q[k]
  <2>1. j \in 1 .. n /\ k \in 1 .. n BY <1>1, <1>6
  <2> QED BY <1>4, <1>8, <1>11, <2>1, Zenon
<1>12. Around(i + 1) = First(q, m)
  <2>1. Around(i + 1) = {b \in Around(i) : Depth(b) <= m}
    BY <1>6, AroundNext, Zenon
  <2>2. ASSUME NEW b \in Around(i), Depth(b) <= m PROVE b \in First(p, m)
    <3>1. PICK j \in 1 .. n : b = p[j]
      BY <1>5, Zenon DEF First
    <3>2. j \in 1 .. m
      BY <1>1, <1>2, <1>6, <2>2, <3>1
    <3> QED BY <3>1, <3>2, Zenon DEF First
  <2>3. ASSUME NEW b \in First(p, m) PROVE b \in Around(i) /\ Depth(b) <= m
    <3>1. PICK j \in 1 .. m : b = p[j]
      BY Zenon DEF First
    <3>2. j \in 1 .. n /\ j <= m
      BY <1>1, <1>6
    <3> QED BY <1>2, <1>5, <3>1, <3>2, Zenon DEF First
  <2>4. First(q, m) = First(p, m)
    BY <1>6, <1>9
  <2> QED BY <2>1, <2>2, <2>3, <2>4, Zenon
<1>13. Len(q) = Depth(i + 1 - 1)
  BY <1>0, <1>6, <1>8, Zenon
<1>14. IsPath(q, i + 1)
  <2>1. \A j \in 1 .. Len(q) : /\ q[j] \in 1 .. i + 1 - 1 /\ Tokens[q[j]].t = "begin"
                                /\ Depth(q[j]) = j /\ Around(q[j]) = First(q, j - 1)
    BY <1>0, <1>8, <1>10, Zenon
  <2>2. \A j \in 1 .. Len(q), k \in 1 .. Len(q) : j < k => q[j] < q[k]
    BY <1>8, <1>11, Zenon
  <2>3. Around(i + 1) = First(q, Len(q))
    BY <1>8, <1>12, Zenon
  <2> QED BY <1>8, <1>13, <2>1, <2>2, <2>3 DEF IsPath
<1> QED BY <1>7, <1>14, Zenon DEF q

\* Other tokens leave the open nodes as they are.
LEMMA PathKept ==
    ASSUME dtb \in Trees, NEW i \in 1 .. Len(Tokens), Tokens[i].t \notin {"begin", "end"},
           NEW p, IsPath(p, i)
    PROVE  IsPath(p, i + 1)
<1>0. i \in Nat /\ i > 0 /\ i + 1 - 1 = i
  <2>1. Len(Tokens) \in Nat BY TreeType, Zenon
  <2> QED BY <2>1, SMTT(30)
<1>1. Depth(i) = Depth(i - 1)
  BY DepthStep, Zenon
<1>2. \A b \in Around(i) : Depth(b) <= Depth(i)
  <2>1. Around(i) = First(p, Len(p)) /\ Len(p) = Depth(i) /\ Len(p) \in Nat
    BY <1>0, <1>1, PathFacts, Zenon
  <2>2. ASSUME NEW j \in 1 .. Len(p) PROVE Depth(p[j]) <= Depth(i)
    <3>1. Depth(p[j]) = j BY <1>0, PathAt, Zenon
    <3>2. j <= Len(p) BY <2>1
    <3> QED BY <2>1, <3>1, <3>2, Zenon
  <2> QED BY <2>1, <2>2, Zenon DEF First
<1>3. Around(i + 1) = Around(i)
  BY <1>2, AroundNext, Zenon
<1> QED BY <1>0, <1>1, <1>3 DEF IsPath

\* The innermost of the open nodes.
LEMMA PathTop ==
    ASSUME NEW i \in Nat, NEW p, IsPath(p, i), p # <<>>
    PROVE  Max(Around(i)) = p[Len(p)] /\ Around(i) # {}
<1> DEFINE n == Len(p)
<1>1. p \in Seq(Nat) /\ n \in Nat /\ n > 0
  <2>1. p \in Seq(Nat) BY PathFacts, Zenon
  <2> QED BY <2>1
<1>2. \A j \in 1 .. n : p[j] \in Nat
  BY PathFacts, Zenon
<1>3. \A j \in 1 .. n, k \in 1 .. n : j < k => p[j] < p[k]
  BY PathFacts, Zenon
<1>4. Around(i) = First(p, n)
  BY PathFacts, Zenon
<1> HIDE DEF n
<1>5. p[n] \in Around(i) /\ \A y \in Around(i) : p[n] >= y
  BY <1>1, <1>2, <1>3, <1>4, SMTT(30) DEF First
<1>6. \A y \in Around(i) : y \in Nat
  BY <1>2, <1>4, Zenon DEF First
<1>7. \A x \in Around(i) : (\A y \in Around(i) : x >= y) => x = p[n]
  BY <1>5, <1>6
<1> QED BY <1>5, <1>7, Zenon DEF Max, n

\* A node that is open is around everything since it began.
LEMMA StillOpen ==
    ASSUME NEW i \in Nat, NEW b \in Around(i), NEW c \in Nat, b < c, c <= i
    PROVE  b \in Around(c)
BY DEF Around

-----------------------------------------------------------------------------
(* The scan, token by token. *)

\* The cell counts, in the record of the call at level j and where a node gives none.
CountNames == {"#address-cells", "#size-cells"}
Count(j, name) == IF name = "#address-cells" THEN stack[j].address_cells ELSE stack[j].size_cells
Default(name) == IF name = "#address-cells" THEN 2 ELSE 1

\* The properties of a node, and the nodes inside of the j - 1 outermost open ones, that
\* were read so far.
Read(b, name) == {i \in PropsOf(b, name) : i < lex}
Kids(p, j) == {c \in Nodes : c < lex /\ Around(c) = First(p, j - 1)}

\* There is a call for each open node and one around them, up to FDT_END, where they
\* return; a call knows whether its node has children yet.
Shape(p) ==
    /\ level <= Len(p) + 1
    /\ Tokens[lex].t # "stop" => level = Len(p) + 1
    /\ \A j \in 1 .. level : j <= Len(p) => stack[j].last
    /\ (level = Len(p) + 1 /\ stack[level].last) => Kids(p, level) # {}

\* The cell counts of an open node are the last ones it gave so far.  A child record no
\* node gave a count has the default.
CellsRead(p) ==
    \A j \in 1 .. level, name \in CountNames :
      /\ (\A c \in Kids(p, j) : Read(c, name) = {}) => Count(j, name) = Default(name)
      /\ (j <= Len(p) /\ Read(p[j], name) # {}) =>
           Count(j, name) = Tokens[Max(Read(p[j], name))].value[1]

\* The innermost open node has no children yet: its properties are being read.
Working(p) == level = Len(p) + 1 /\ level > 1 /\ ~stack[level].last

\* What the call-back prop has noted of them.
ScanRead(p) ==
    Working(p) =>
      LET b == p[Len(p)]
      IN  /\ query = "htif" => (scan.found <=> Read(b, "compatible") # {})
          /\ query = "mem" =>
               /\ scan.found <=> Read(b, "device_type") # {}
               /\ scan.has_reg <=> Read(b, "reg") # {}
               /\ Read(b, "reg") # {} => scan.reg = Tokens[Max(Read(b, "reg"))].value

\* The nodes done() was called for, and what it made of them.
Finished(p) == {b \in Nodes : b < lex /\ ~(Working(p) /\ b = p[Len(p)])}

\* The sizes mem_done() may find, and what the nodes of S say.
Sizes == {r.size : r \in KernelRegions}
HasHtif(S) == \E b \in S : Says(b, "compatible")
NoKernel(S) == \A b \in S \cap MemoryNodes : Regions(b) \cap KernelRegions = {}

\* After the nodes of S the results are those of a search among S.
Results(S) ==
    /\ query = "htif" => (htif <=> HasHtif(S))
    /\ query = "mem" => /\ htif <=> HasHtif(Nodes)
                        /\ g_mem_size \in Sizes \/ (g_mem_size = 0 /\ NoKernel(S))

\* What holds between two tokens while the nodes of p are open.
ScanAt(p) == IsPath(p, lex) /\ Shape(p) /\ CellsRead(p) /\ ScanRead(p) /\ Results(Finished(p))

\* The inductive invariant, for a well-formed tree.
ScanInv ==
    (dtb.known /\ WellFormed) =>
      /\ fate = "ok"
      /\ query # "over" => \E p : ScanAt(p)
      /\ query = "over" => g_mem_size \in Sizes /\ (htif <=> HasHtif(Nodes))

\* A property belongs to the innermost node around it, so it comes after its begin.
LEMMA PropsFacts ==
    ASSUME dtb \in Trees, NEW b, NEW name
    PROVE  /\ PropsOf(b, name) \subseteq 1 .. Len(Tokens)
           /\ \A i \in PropsOf(b, name) : /\ Tokens[i].t = "prop" /\ Tokens[i].name = name
                                          /\ Around(i) # {} /\ Max(Around(i)) = b
                                          /\ b \in Around(i) /\ b \in Nat /\ b < i
           /\ \A i \in 1 .. Len(Tokens) :
                (/\ Tokens[i].t = "prop" /\ Tokens[i].name = name
                 /\ Around(i) # {} /\ Max(Around(i)) = b)
                  => i \in PropsOf(b, name)
<1>0. Len(Tokens) \in Nat /\ DOMAIN Tokens = 1 .. Len(Tokens)
  BY TreeType, Zenon
<1>1. PropsOf(b, name) \subseteq 1 .. Len(Tokens)
  BY <1>0, Zenon DEF PropsOf
<1>2. ASSUME NEW i \in PropsOf(b, name)
      PROVE  /\ Tokens[i].t = "prop" /\ Tokens[i].name = name
             /\ Around(i) # {} /\ Max(Around(i)) = b
             /\ b \in Around(i) /\ b \in Nat /\ b < i
  <2>1. i \in 1 .. Len(Tokens) /\ Tokens[i].t = "prop" /\ Tokens[i].name = name
        /\ Around(i) # {} /\ Max(Around(i)) = b
    BY <1>0, Zenon DEF PropsOf
  <2>2. i \in Nat /\ Around(i) \subseteq 1 .. i - 1 /\ Around(i) \subseteq 0 .. i
    BY <1>0, <2>1 DEF Around
  <2>3. Max(Around(i)) \in Around(i)
    BY <2>1, <2>2, MaxOf, Zenon
  <2>4. b \in 1 .. i - 1
    BY <2>1, <2>2, <2>3, Zenon
  <2> QED BY <2>1, <2>2, <2>3, <2>4
<1>3. ASSUME NEW i \in 1 .. Len(Tokens),
             Tokens[i].t = "prop", Tokens[i].name = name, Around(i) # {}, Max(Around(i)) = b
      PROVE  i \in PropsOf(b, name)
  BY <1>0, <1>3, Zenon DEF PropsOf
<1> QED BY <1>1, <1>2, <1>3, Zenon

\* What reading one token adds.
LEMMA ReadNext ==
    ASSUME dtb \in Trees, lex \in 1 .. Len(Tokens), dtb' = dtb, lex' = lex + 1
    PROVE  /\ \A b, name : Read(b, name)' = Read(b, name) \cup ({lex} \cap PropsOf(b, name))
           /\ \A p, j : Kids(p, j) \subseteq Kids(p, j)'
           /\ Tokens[lex].t # "begin" => \A p, j : Kids(p, j)' = Kids(p, j)
           /\ \A c \in Nodes : c < lex' <=> c < lex \/ c = lex
           /\ Tokens[lex].t # "begin" => \A c \in Nodes : c < lex' <=> c < lex
<1>0. Len(Tokens) \in Nat /\ DOMAIN Tokens = 1 .. Len(Tokens) /\ lex \in Nat
  <2>1. Len(Tokens) \in Nat /\ DOMAIN Tokens = 1 .. Len(Tokens) BY TreeType, Zenon
  <2> QED BY <2>1, SMTT(30)
<1>1. \A i \in 1 .. Len(Tokens) : i < lex + 1 <=> i < lex \/ i = lex
  BY <1>0
<1>2. \A c \in Nodes : c \in 1 .. Len(Tokens) /\ Tokens[c].t = "begin"
  BY <1>0, Zenon DEF Nodes
<1>3. ASSUME NEW b, NEW name
      PROVE  Read(b, name)' = Read(b, name) \cup ({lex} \cap PropsOf(b, name))
  <2>1. PropsOf(b, name)' = PropsOf(b, name)
    BY SameTree, Zenon
  <2>2. PropsOf(b, name) \subseteq 1 .. Len(Tokens)
    BY PropsFacts, Zenon
  <2>3. Read(b, name)' = {i \in PropsOf(b, name) : i < lex + 1}
    BY <2>1, Zenon DEF Read
  <2> QED BY <1>1, <2>2, <2>3, Zenon DEF Read
<1>4. ASSUME NEW p, NEW j
      PROVE  Kids(p, j)' = {c \in Nodes : c < lex + 1 /\ Around(c) = First(p, j - 1)}
  <2>1. Nodes' = Nodes /\ \A c : Around(c)' = Around(c)
    BY SameTree, Zenon
  <2> QED BY <2>1, Zenon DEF Kids, First
<1>5. ASSUME NEW p, NEW j
      PROVE  /\ Kids(p, j) \subseteq Kids(p, j)'
             /\ Tokens[lex].t # "begin" => Kids(p, j)' = Kids(p, j)
  <2>1. \A c \in Nodes : /\ c < lex => c < lex + 1
                         /\ Tokens[lex].t # "begin" => (c < lex + 1 <=> c < lex)
    BY <1>1, <1>2, Zenon
  <2>2. Kids(p, j) = {c \in Nodes : c < lex /\ Around(c) = First(p, j - 1)}
    BY Zenon DEF Kids
  <2> QED BY <1>4, <2>1, <2>2, Zenon
<1>6. \A c \in Nodes : c < lex' <=> c < lex \/ c = lex
  BY <1>1, <1>2, Zenon
<1>7. Tokens[lex].t # "begin" => \A c \in Nodes : c # lex
  BY <1>2, Zenon
<1> QED BY <1>3, <1>5, <1>6, <1>7, Zenon

\* The last property read so far.
LEMMA LastRead ==
    ASSUME dtb \in Trees, lex \in 1 .. Len(Tokens), NEW b, NEW name
    PROVE  /\ Read(b, name) # {} => /\ Max(Read(b, name)) \in Read(b, name)
                                    /\ Max(Read(b, name)) \in PropsOf(b, name)
           /\ Max(Read(b, name) \cup {lex}) = lex
<1> DEFINE R == Read(b, name)
<1>0. Len(Tokens) \in Nat /\ lex \in Nat
  <2>1. Len(Tokens) \in Nat BY TreeType, Zenon
  <2> QED BY <2>1, SMTT(30)
<1>1. R \subseteq PropsOf(b, name) /\ \A i \in R : i \in Nat /\ i < lex
  BY <1>0, PropsFacts DEF Read
<1>2. R \in SUBSET (0 .. lex) /\ R \cup {lex} \in SUBSET (0 .. lex)
  BY <1>0, <1>1
<1> HIDE DEF R
<1>3. R # {} => Max(R) \in R
  BY <1>0, <1>2, MaxOf, Zenon
<1>4. Max(R \cup {lex}) \in R \cup {lex} /\ \A y \in R \cup {lex} : y <= Max(R \cup {lex})
  <2> DEFINE U == R \cup {lex}
  <2>1. U \in SUBSET (0 .. lex) /\ U # {} BY <1>2, Zenon
  <2> HIDE DEF U
  <2>2. Max(U) \in U /\ \A y \in U : y <= Max(U)
    BY <1>0, <2>1, MaxOf, Zenon
  <2> QED BY <2>2, Zenon DEF U
<1>5. Max(R \cup {lex}) = lex
  <2> DEFINE m == Max(R \cup {lex})
  <2>1. m \in R \cup {lex} /\ lex <= m BY <1>4, Zenon
  <2> HIDE DEF m
  <2>2. m = lex BY <1>0, <1>1, <2>1
  <2> QED BY <2>2, Zenon DEF m
<1> QED BY <1>1, <1>3, <1>5, Zenon DEF R

\* What a scanning state has, fact by fact.
LEMMA ScanFacts ==
    ASSUME ScanTypeInv, query # "over", NEW p, ScanAt(p)
    PROVE  /\ dtb \in Trees /\ lex \in 1 .. Len(Tokens) /\ Len(Tokens) \in Nat /\ lex \in Nat
           /\ stack \in Calls /\ scan \in Scans /\ level \in Nat /\ tok = Tokens[lex]
           /\ level = Len(stack) /\ (stack # <<>> <=> level > 0)
           /\ p \in Seq(Nat) /\ Len(p) \in Nat /\ IsPath(p, lex)
           /\ query \in {"htif", "mem"}
<1>1. dtb \in Trees /\ lex \in 1 .. Len(Tokens) /\ stack \in Calls /\ scan \in Scans
      /\ query \in {"htif", "mem"}
  BY SMTT(30) DEF ScanTypeInv
<1>2. Len(Tokens) \in Nat BY <1>1, TreeType, Zenon
<1>3. lex \in Nat BY <1>1, <1>2
<1>4. level = Len(stack) /\ level \in Nat /\ (stack # <<>> <=> level > 0)
  BY <1>1 DEF level, Calls
<1>5. IsPath(p, lex) BY Zenon DEF ScanAt
<1>6. p \in Seq(Nat) /\ Len(p) \in Nat BY <1>3, <1>5, PathFacts, Zenon
<1>7. tok = Tokens[lex] BY Zenon DEF tok, Tokens
<1> QED BY <1>1, <1>2, <1>3, <1>4, <1>5, <1>6, <1>7, Zenon

\* FDT_NOP.
LEMMA ScanNop ==
    ASSUME ScanTypeInv, NEW p, ScanAt(p), fdt_nop
    PROVE  ScanAt(p)'
<1>0. query # "over" /\ tok.t = "nop" /\ UNCHANGED <<dtb, query, stack, scan, htif, g_mem_size>>
      /\ lex' = lex + 1 /\ fate' = fate
  BY Zenon DEF fdt_nop, Scanning
<1>1. dtb \in Trees /\ lex \in 1 .. Len(Tokens) /\ Tokens[lex].t = "nop" /\ IsPath(p, lex)
  BY <1>0, ScanFacts, Zenon
<1>2. IsPath(p, lex + 1)
  BY <1>1, PathKept, Zenon
<1>3. IsPath(p, lex)'
  BY <1>0, <1>2, SameTree, Zenon
<1>4. \A b, name : lex \notin PropsOf(b, name)
  BY <1>1, PropsFacts, Zenon
<1>5. (\A b, name : Read(b, name)' = Read(b, name)) /\ \A q, j : Kids(q, j)' = Kids(q, j)
  <2>1. \A b, name : Read(b, name)' = Read(b, name) \cup ({lex} \cap PropsOf(b, name))
    BY <1>0, <1>1, ReadNext, Zenon
  <2>2. \A q, j : Kids(q, j)' = Kids(q, j)
    BY <1>0, <1>1, ReadNext, Zenon
  <2>3. ASSUME NEW b, NEW name PROVE Read(b, name)' = Read(b, name)
    BY <1>4, <2>1, Zenon
  <2> QED BY <2>2, <2>3, Zenon
<1>6. level' = level /\ Tokens' = Tokens /\ \A j, name : Count(j, name)' = Count(j, name)
  BY <1>0, SameTree, Zenon DEF level, Count
<1>7. Shape(p)'
  <2>1. level = Len(p) + 1
    BY <1>1, Zenon DEF ScanAt, Shape
  <2> QED BY <1>0, <1>5, <1>6, <2>1, Zenon DEF ScanAt, Shape
<1>8. CellsRead(p)'
  BY <1>0, <1>5, <1>6, SMTT(30) DEF ScanAt, CellsRead
<1>w. Working(p)' = Working(p)
  BY <1>0, <1>6, Zenon DEF Working
<1>9. ScanRead(p)'
  BY <1>0, <1>5, <1>6, <1>w, Zenon DEF ScanAt, ScanRead
<1>10. Finished(p)' = Finished(p)
  <2>1. Nodes' = Nodes BY <1>0, SameTree, Zenon
  <2>2. \A c \in Nodes : c < lex' <=> c < lex BY <1>0, <1>1, ReadNext, SMTT(30)
  <2> QED BY <2>1, <2>2, <1>w, Zenon DEF Finished
<1>11. Results(Finished(p))'
  BY <1>0, <1>10, SameTree, Zenon DEF ScanAt, Results, HasHtif, NoKernel, Sizes
<1> QED BY <1>3, <1>7, <1>8, <1>9, <1>11, Zenon DEF ScanAt

\* A property is read into the record of its node, and into the scan.
LEMMA ScanProp ==
    ASSUME ScanTypeInv, WellFormed, NEW p, ScanAt(p), fdt_prop
    PROVE  ScanAt(p)' /\ fate' = fate
<1> DEFINE n == Len(p)
           b == p[Len(p)]
<1>0. query # "over" /\ tok.t = "prop" /\ UNCHANGED <<dtb, query, htif, g_mem_size>>
      /\ stack # <<>>
  BY Zenon DEF fdt_prop, Scanning
<1>1. /\ dtb \in Trees /\ lex \in 1 .. Len(Tokens) /\ lex \in Nat /\ Tokens[lex].t = "prop"
      /\ tok = Tokens[lex] /\ IsPath(p, lex) /\ DOMAIN Tokens = 1 .. Len(Tokens)
      /\ stack \in Calls /\ level \in Nat /\ level = Len(stack) /\ level > 0 /\ n \in Nat
      /\ scan \in Scans /\ query \in {"htif", "mem"}
  BY <1>0, ScanFacts, TreeType, Zenon
<1>2. Around(lex) # {}
  BY <1>1, Zenon DEF WellFormed
<1>3. p # <<>> /\ n > 0
  <2>1. Around(lex) = First(p, n) BY <1>1, PathFacts, Zenon
  <2>2. n # 0 BY <1>2, <2>1 DEF First
  <2> QED BY <1>1, <2>2
<1>4. Max(Around(lex)) = b
  BY <1>1, <1>3, PathTop, Zenon
<1>5. level = n + 1 /\ level > 1 /\ HasNode
  BY <1>1, <1>3 DEF ScanAt, Shape, HasNode
<1>6. ~top.last
  <2> SUFFICES ASSUME top.last PROVE FALSE
    BY Zenon
  <2>1. PICK c \in Nodes : c < lex /\ Around(c) = First(p, level - 1)
    BY <1>5, Zenon DEF ScanAt, Shape, Kids, top
  <2>2. Around(c) = Around(lex)
    <3>1. level - 1 = n BY <1>1, <1>5
    <3>2. Around(lex) = First(p, n) BY <1>1, PathFacts, Zenon
    <3> QED BY <2>1, <3>1, <3>2, Zenon
  <2>3. ~IsRoot(c) /\ Parent(c) = Max(Around(lex))
    BY <1>2, <2>2, Zenon DEF IsRoot, Parent
  <2> QED BY <1>1, <2>1, <2>3, Zenon DEF WellFormed
<1>t. PICK nm, v : nm = tok.name /\ v = tok.value
  BY Zenon
<1>7. /\ stack' = CASE nm = "#address-cells" -> [stack EXCEPT ![n].address_cells = v[1]]
                     [] nm = "#size-cells" -> [stack EXCEPT ![n].size_cells = v[1]]
                     [] OTHER -> stack
      /\ scan' = IF query = "htif" THEN htif_prop(tok) ELSE mem_prop(tok)
      /\ lex' = lex + 1 /\ fate' = fate
  <2>1. level - 1 = n BY <1>1, <1>5
  <2> QED BY <1>5, <1>6, <1>t, <2>1, Zenon DEF fdt_prop
<1>8. IsPath(p, lex)'
  <2>1. IsPath(p, lex + 1)
    BY <1>1, PathKept, Zenon
  <2> QED BY <1>0, <1>7, <2>1, SameTree, Zenon
<1>9. \A c, name : Read(c, name)' = IF name = nm /\ c = b THEN Read(c, name) \cup {lex}
                                                         ELSE Read(c, name)
  <2>1. \A c, name : Read(c, name)' = Read(c, name) \cup ({lex} \cap PropsOf(c, name))
    BY <1>0, <1>1, <1>7, ReadNext, SMTT(30)
  <2>2. ASSUME NEW c, NEW name PROVE lex \in PropsOf(c, name) <=> name = nm /\ c = b
    BY <1>1, <1>2, <1>4, <1>t, PropsFacts
  <2>3. ASSUME NEW c, NEW name
        PROVE  Read(c, name)' = IF name = nm /\ c = b THEN Read(c, name) \cup {lex}
                                                     ELSE Read(c, name)
    BY <2>1, <2>2, Zenon
  <2> QED BY <2>3, Zenon
<1>10. \A q, j : Kids(q, j)' = Kids(q, j)
  BY <1>0, <1>1, <1>7, ReadNext, Zenon
<1>11. Max(Read(b, nm)') = lex /\ Read(b, nm)' # {}
  BY <1>1, <1>9, LastRead, SMTT(30)
<1>12. /\ level' = level
       /\ \A j \in 1 .. level : stack'[j].last = stack[j].last
       /\ \A j \in 1 .. level, name \in CountNames :
            Count(j, name)' = IF j = n /\ name = nm THEN v[1] ELSE Count(j, name)
  <2>0. n \in 1 .. Len(stack) /\ stack[n] \in Call
    <3>1. n \in 1 .. Len(stack) BY <1>1, <1>3, <1>5
    <3> HIDE DEF n
    <3> QED BY <1>1, <3>1 DEF Calls
  <2>1. CASE nm = "#address-cells"
    <3>1. stack' = [stack EXCEPT ![n] = [stack[n] EXCEPT !.address_cells = v[1]]]
      BY <1>7, <2>1, Zenon
    <3>2. /\ Len(stack') = Len(stack) /\ stack'[n] = [stack[n] EXCEPT !.address_cells = v[1]]
          /\ \A j \in 1 .. Len(stack) : j # n => stack'[j] = stack[j]
      BY <1>1, <2>0, <3>1 DEF Calls
    <3>3. /\ stack'[n].address_cells = v[1] /\ stack'[n].size_cells = stack[n].size_cells
          /\ stack'[n].last = stack[n].last
      BY <2>0, <3>2, Zenon DEF Call
    <3> QED BY <1>1, <2>1, <3>2, <3>3, Zenon DEF level, Count, CountNames
  <2>2. CASE nm = "#size-cells"
    <3>1. stack' = [stack EXCEPT ![n] = [stack[n] EXCEPT !.size_cells = v[1]]]
      BY <1>7, <2>2, Zenon
    <3>2. /\ Len(stack') = Len(stack) /\ stack'[n] = [stack[n] EXCEPT !.size_cells = v[1]]
          /\ \A j \in 1 .. Len(stack) : j # n => stack'[j] = stack[j]
      BY <1>1, <2>0, <3>1 DEF Calls
    <3>3. /\ stack'[n].size_cells = v[1] /\ stack'[n].address_cells = stack[n].address_cells
          /\ stack'[n].last = stack[n].last
      BY <2>0, <3>2, Zenon DEF Call
    <3> QED BY <1>1, <2>2, <3>2, <3>3, Zenon DEF level, Count, CountNames
  <2>3. CASE nm \notin CountNames
    <3>1. stack' = stack
      BY <1>7, <2>3, Zenon DEF CountNames
    <3> QED BY <2>3, <3>1, Zenon DEF level, Count
  <2> QED BY <2>1, <2>2, <2>3, Zenon DEF CountNames
<1>13. Tokens' = Tokens /\ Tokens[lex].name = nm /\ Tokens[lex].value = v
  BY <1>0, <1>1, <1>t, SameTree, SMTT(30)
<1>14. Shape(p)'
  BY <1>1, <1>5, <1>6, <1>10, <1>12, SMTT(30) DEF ScanAt, Shape, top
<1>15. ASSUME NEW j \in 1 .. level, NEW name \in CountNames
       PROVE  /\ (\A c \in Kids(p, j)' : Read(c, name)' = {}) => Count(j, name)' = Default(name)
              /\ (j <= Len(p) /\ Read(p[j], name)' # {}) =>
                   Count(j, name)' = Tokens'[Max(Read(p[j], name)')].value[1]
  <2>0. /\ (\A c \in Kids(p, j) : Read(c, name) = {}) => Count(j, name) = Default(name)
        /\ (j <= Len(p) /\ Read(p[j], name) # {}) =>
             Count(j, name) = Tokens[Max(Read(p[j], name))].value[1]
    BY Zenon DEF ScanAt, CellsRead
  <2>1. CASE j = n /\ name = nm
    <3>1. b \in Kids(p, j)
      <4>1. b \in Nat /\ b > 0 /\ b < lex /\ Tokens[b].t = "begin" /\ Around(b) = First(p, n - 1)
        <5>1. n \in 1 .. n BY <1>1, <1>3, LastIndex, Zenon
        <5> QED BY <1>1, <5>1, PathAt, Zenon
      <4> QED BY <1>1, <2>1, <4>1, SMTT(30) DEF Kids, Nodes
    <3> QED BY <1>10, <1>11, <1>12, <1>13, <2>1, <3>1, SMTT(30)
  <2>2. CASE ~(j = n /\ name = nm)
    <3>1. Count(j, name)' = Count(j, name)
      BY <1>12, <2>2, Zenon
    <3>2. \A c : Read(c, name) \subseteq Read(c, name)'
      BY <1>9, Zenon
    <3>3. j <= n => Read(p[j], name)' = Read(p[j], name)
      <4> SUFFICES ASSUME j <= n PROVE Read(p[j], name)' = Read(p[j], name)
        BY Zenon
      <4>1. name = nm => p[j] # b
        <5>1. name = nm => j < n BY <1>1, <2>2, SMTT(30)
        <5>2. n \in 1 .. n BY <1>1, <1>3, LastIndex, Zenon
        <5>3. j \in 1 .. n BY <1>1
        <5> QED BY <1>1, <5>1, <5>2, <5>3, PathApart, Zenon
      <4> QED BY <1>9, <4>1, Zenon
    <3> QED BY <1>10, <1>13, <2>0, <3>1, <3>2, <3>3, SMTT(30)
  <2> QED BY <2>1, <2>2, SMTT(30)
<1>16. CellsRead(p)'
  BY <1>12, <1>15, Zenon DEF CellsRead
<1>w. Working(p) /\ Working(p)'
  <2>1. level \in 1 .. level BY <1>1
  <2> QED BY <1>5, <1>6, <1>12, <2>1, Zenon DEF Working, top
<1>17. ScanRead(p)'
  <2>0. /\ query = "htif" => (scan.found <=> Read(b, "compatible") # {})
        /\ query = "mem" =>
             /\ scan.found <=> Read(b, "device_type") # {}
             /\ scan.has_reg <=> Read(b, "reg") # {}
             /\ Read(b, "reg") # {} => scan.reg = Tokens[Max(Read(b, "reg"))].value
    BY <1>w, Zenon DEF ScanAt, ScanRead
  <2>1. \A name : name # nm => Read(b, name)' = Read(b, name)
    BY <1>9, Zenon
  <2>2. CASE query = "htif"
    <3>1. scan' = IF nm = "compatible" THEN [scan EXCEPT !.found = TRUE] ELSE scan
      BY <1>7, <1>t, <2>2, Zenon DEF htif_prop
    <3>2. scan'.found <=> Read(b, "compatible")' # {}
      BY <1>1, <1>11, <2>0, <2>1, <2>2, <3>1, SMTT(30) DEF Scans
    <3> QED BY <1>0, <2>2, <3>2, Zenon DEF ScanRead
  <2>3. CASE query = "mem"
    <3>1. scan' = CASE nm = "device_type" -> [scan EXCEPT !.found = TRUE]
                    [] nm = "reg" -> [scan EXCEPT !.reg = v, !.has_reg = TRUE]
                    [] OTHER -> scan
      BY <1>7, <1>t, <2>3, Zenon DEF mem_prop
    <3>2. /\ scan'.found <=> Read(b, "device_type")' # {}
          /\ scan'.has_reg <=> Read(b, "reg")' # {}
      BY <1>1, <1>11, <2>0, <2>1, <2>3, <3>1, SMTT(30) DEF Scans
    <3>3. Read(b, "reg")' # {} => scan'.reg = Tokens'[Max(Read(b, "reg")')].value
      BY <1>1, <1>11, <1>13, <2>0, <2>1, <2>3, <3>1, SMTT(30) DEF Scans
    <3> QED BY <1>0, <2>3, <3>2, <3>3, Zenon DEF ScanRead
  <2> QED BY <1>1, <2>2, <2>3, SMTT(30)
<1>18. Finished(p)' = Finished(p)
  <2>1. Nodes' = Nodes BY <1>0, SameTree, Zenon
  <2>2. \A c \in Nodes : c < lex' <=> c < lex BY <1>0, <1>1, <1>7, ReadNext, SMTT(30)
  <2> QED BY <2>1, <2>2, <1>w, Zenon DEF Finished
<1>19. Results(Finished(p))'
  BY <1>0, <1>18, SameTree, Zenon DEF ScanAt, Results, HasHtif, NoKernel, Sizes
<1> QED BY <1>7, <1>8, <1>14, <1>16, <1>17, <1>19, SMTT(30) DEF ScanAt

\* The parent of an open node is the open node around it.
LEMMA PathParent ==
    ASSUME NEW i \in Nat, NEW p, IsPath(p, i), Len(p) > 1
    PROVE  /\ Parent(p[Len(p)]) = p[Len(p) - 1] /\ ~IsRoot(p[Len(p)])
           /\ p[Len(p) - 1] \in Around(i)
<1> DEFINE n == Len(p)
           m == Len(p) - 1
           b == p[Len(p)]
           P == p[Len(p) - 1]
<1>1. n \in Nat /\ m \in Nat /\ m \in 1 .. n /\ n \in 1 .. n /\ m = n - 1
  BY PathFacts, SMTT(30)
<1>p. \A j \in 1 .. n : p[j] \in Nat
  BY PathFacts, Zenon
<1>2. b \in Nat /\ P \in Nat
  <2>1. b = p[n] /\ P = p[m] BY Zenon
  <2> HIDE DEF n, m, b, P
  <2> QED BY <1>1, <1>p, <2>1, Zenon
<1>3. Around(b) = First(p, m) /\ Around(i) = First(p, n)
  BY <1>1, PathFacts, Zenon
<1>4. \A j \in 1 .. m : p[j] \in Nat /\ p[j] <= P
  <2>3. \A j \in 1 .. n, k \in 1 .. n : j < k => p[j] < p[k] BY <1>1, PathFacts, Zenon
  <2>4. P = p[m] BY Zenon
  <2> HIDE DEF n, m, b, P
  <2>1. \A j \in 1 .. m : j \in 1 .. n /\ (j = m \/ j < m) BY <1>1
  <2>5. ASSUME NEW j \in 1 .. m PROVE p[j] \in Nat /\ p[j] <= P
    <3>1. CASE j = m BY <1>2, <2>4, <3>1
    <3>2. CASE j < m
      <4>1. j \in 1 .. n /\ m \in 1 .. n BY <1>1, <2>1, Zenon
      <4>2. p[j] < p[m] BY <2>3, <3>2, <4>1, Zenon
      <4>3. p[j] \in Nat /\ p[m] \in Nat BY <1>p, <4>1, Zenon
      <4> QED BY <2>4, <4>2, <4>3
    <3> QED BY <2>1, <3>1, <3>2, Zenon
  <2> QED BY <2>5, Zenon
<1> HIDE DEF n, b, P, m
<1>5. Parent(b) = P /\ ~IsRoot(b) /\ P \in Around(i)
  <2>1. P \in Around(b) /\ \A y \in Around(b) : y \in Nat /\ y <= P
    <3>1. m \in 1 .. m BY <1>1
    <3> QED BY <1>3, <1>4, <3>1, Zenon DEF First, P, m
  <2>2. \A x \in Around(b) : (\A y \in Around(b) : x >= y) => x = P
    BY <2>1, <1>2
  <2>3. \A y \in Around(b) : P >= y
    BY <1>2, <2>1, Zenon
  <2>4. P \in Around(i)
    BY <1>1, <1>3, Zenon DEF First, P, m
  <2> QED BY <2>1, <2>2, <2>3, <2>4, Zenon DEF Parent, Max, IsRoot
<1> QED BY <1>5, Zenon DEF b, P

\* When done() is called for a node, all its properties were read.
LEMMA AllRead ==
    ASSUME ScanTypeInv, WellFormed, query # "over", NEW p, ScanAt(p), p # <<>>,
           Tokens[lex].t \in {"begin", "end", "stop"}, NEW name
    PROVE  Read(p[Len(p)], name) = PropsOf(p[Len(p)], name)
<1> DEFINE n == Len(p)
           b == p[Len(p)]
<1>1. /\ dtb \in Trees /\ lex \in 1 .. Len(Tokens) /\ lex \in Nat /\ Len(Tokens) \in Nat
      /\ IsPath(p, lex) /\ DOMAIN Tokens = 1 .. Len(Tokens) /\ n \in Nat /\ n > 0
  BY ScanFacts, TreeType
<1>2. b \in Nat /\ b < lex /\ Depth(b) = n /\ n = Depth(lex - 1)
  <2>1. n \in 1 .. n BY <1>1, LastIndex, Zenon
  <2>2. n = Depth(lex - 1) BY <1>1, PathFacts, Zenon
  <2> QED BY <1>1, <2>1, <2>2, PathAt, Zenon
<1>3. Max(Around(lex)) = b /\ Around(lex) # {}
  BY <1>1, PathTop, Zenon
<1> SUFFICES ASSUME NEW i \in PropsOf(b, name), ~(i < lex) PROVE FALSE
  BY Zenon DEF Read
<1>4. /\ i \in 1 .. Len(Tokens) /\ Tokens[i].t = "prop" /\ b \in Around(i)
      /\ Max(Around(i)) = b
  BY <1>1, PropsFacts
<1> HIDE DEF b
<1>5. i > lex
  BY <1>1, <1>4
<1>6. CASE Tokens[lex].t = "begin"
  <2>1. lex \in Nodes
    BY <1>1, <1>6, Zenon DEF Nodes
  <2>2. ~IsRoot(lex) /\ Parent(lex) = b
    BY <1>3, Zenon DEF IsRoot, Parent
  <2> QED BY <1>1, <1>4, <1>5, <2>1, <2>2, SMTT(30) DEF WellFormed
<1>7. CASE Tokens[lex].t = "end"
  <2>1. Depth(lex) = n - 1
    BY <1>1, <1>2, <1>7, DepthStep, Zenon
  <2>2. lex \in b .. i - 1
    BY <1>1, <1>2, <1>4, <1>5
  <2>3. Depth(lex) >= Depth(b)
    BY <1>4, <2>2, Zenon DEF Around
  <2> QED BY <1>1, <1>2, <2>1, <2>3, SMTT(30)
<1>8. CASE Tokens[lex].t = "stop"
  <2>1. lex = Len(Tokens)
    BY <1>1, <1>8, TreeType, Zenon
  <2> QED BY <1>1, <1>4, <1>5, <2>1, SMTT(30)
<1> QED BY <1>6, <1>7, <1>8, Zenon

\* The record of the parent of a node has the cell counts the tree gives the parent.
LEMMA CellsMatch ==
    ASSUME ScanTypeInv, WellFormed, query # "over", NEW p, ScanAt(p), Len(p) > 1,
           level = Len(p) + 1,
           OwnCells(Parent(p[Len(p)])), NEW name \in CountNames
    PROVE  Count(level - 2, name) = CellsOf(Parent(p[Len(p)]), name, Default(name))
<1> DEFINE n == Len(p)
           m == Len(p) - 1
           b == p[Len(p)]
           P == p[Len(p) - 1]
<1>1. /\ dtb \in Trees /\ lex \in 1 .. Len(Tokens) /\ lex \in Nat /\ Len(Tokens) \in Nat
      /\ IsPath(p, lex) /\ DOMAIN Tokens = 1 .. Len(Tokens) /\ n \in Nat /\ m \in Nat
      /\ m \in 1 .. n /\ n \in 1 .. n /\ m = n - 1 /\ m = level - 2 /\ m \in 1 .. level
  BY ScanFacts, TreeType
<1>l. lex \in Nat /\ IsPath(p, lex)
  BY <1>1, Zenon
<1>p. \A j \in 1 .. n : p[j] \in Nat /\ p[j] < lex /\ Tokens[p[j]].t = "begin" /\ p[j] > 0
  BY <1>l, PathAt, Zenon
<1>2. /\ b \in Nat /\ b < lex /\ Tokens[b].t = "begin" /\ b > 0
      /\ P \in Nat /\ P < lex /\ Tokens[P].t = "begin" /\ P > 0
  <2>1. b = p[n] /\ P = p[m] BY Zenon
  <2> HIDE DEF n, m, b, P
  <2> QED BY <1>1, <1>p, <2>1, Zenon
<1>3. Around(b) = First(p, m) /\ Around(P) = First(p, m - 1) /\ Around(lex) = First(p, n)
  <2>1. \A j \in 1 .. n : Around(p[j]) = First(p, j - 1) BY <1>l, PathAt, Zenon
  <2>2. Around(lex) = First(p, n) BY <1>l, PathFacts, Zenon
  <2>3. b = p[n] /\ P = p[m] BY Zenon
  <2> HIDE DEF n, m, b, P
  <2> QED BY <1>1, <2>1, <2>2, <2>3, Zenon
<1>c. b \in Nodes /\ P \in Nodes
  BY <1>1, <1>2 DEF Nodes
<1> HIDE DEF n, b, P, m
<1>5. Parent(b) = P /\ ~IsRoot(b) /\ P \in Around(lex)
  BY <1>1, PathParent, SMTT(30) DEF b, P
<1>6. Read(P, name) = PropsOf(P, name)
  <2> SUFFICES ASSUME NEW i \in PropsOf(P, name), ~(i < lex) PROVE FALSE
    BY Zenon DEF Read
  <2>1. i \in 1 .. Len(Tokens) /\ Tokens[i].t = "prop" /\ Max(Around(i)) = P
    BY <1>1, PropsFacts
  <2>2. b < i BY <1>1, <1>2, <2>1, SMTT(30)
  <2> QED BY <1>1, <1>c, <1>5, <2>1, <2>2, Zenon DEF WellFormed
<1>7. /\ (\A c \in Kids(p, m) : Read(c, name) = {}) => Count(m, name) = Default(name)
      /\ Read(P, name) # {} => Count(m, name) = Tokens[Max(Read(P, name))].value[1]
  <2>1. m <= Len(p) /\ p[m] = P BY <1>1 DEF n, m, P
  <2> QED BY <1>1, <2>1, Zenon DEF ScanAt, CellsRead
<1>8. ASSUME Says(P, name) PROVE Count(m, name) = CellsOf(P, name, Default(name))
  BY <1>6, <1>7, <1>8, SMTT(30) DEF Says, CellsOf, Value
<1>9. ASSUME ~Says(P, name) PROVE Count(m, name) = CellsOf(P, name, Default(name))
  <2>1. \A c \in Nodes : (c < P /\ Around(c) = Around(P)) => ~Says(c, name)
    BY <1>5, <1>9, Zenon DEF OwnCells, CountNames, b
  <2>2. ASSUME NEW c \in Kids(p, m) PROVE Read(c, name) = {}
    <3>1. c \in Nodes /\ c < lex /\ Around(c) = Around(P) /\ c \in Nat
      BY <1>1, <1>3 DEF Kids, Nodes
    <3>2. ~(P < c)
      <4> SUFFICES ASSUME P < c PROVE FALSE
        BY Zenon
      <4>1. P \in Around(c)
        BY <1>1, <1>2, <1>5, <3>1, StillOpen, SMTT(30)
      <4>2. P \in Around(P) BY <3>1, <4>1, Zenon
      <4> QED BY <1>2, <4>2 DEF Around
    <3>3. ~Says(c, name)
      <4>1. c < P \/ c = P BY <1>2, <3>1, <3>2
      <4> QED BY <1>9, <2>1, <3>1, <4>1, SMTT(30)
    <3> QED BY <3>3, Zenon DEF Says, Read
  <2> QED BY <1>7, <1>9, <2>2, Zenon DEF CellsOf
<1>10. Count(m, name) = CellsOf(P, name, Default(name))
  BY <1>8, <1>9, Zenon
<1> QED BY <1>1, <1>5, <1>10, SMTT(30) DEF b, P, m
=============================================================================
