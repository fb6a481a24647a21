----------------------------- MODULE DeviceTree -----------------------------
(***************************************************************************)
(* The scan of the flattened device tree at boot: fdt_scan_helper() of     *)
(* spike_interface/dts_parse.c, run twice, with the call-backs of          *)
(* query_htif() (spike_htif.c) and of query_mem() (spike_memory.c).        *)
(*                                                                         *)
(* The tree is a sequence of tokens, one per round of the helper's loop;   *)
(* the helper's recursion is the variable stack, one frame per call.  A    *)
(* 32-bit cell has CELL values here, so that addresses and sizes, of two   *)
(* cells, are taken modulo CELL * CELL.                                    *)
(***************************************************************************)
EXTENDS Integers, Sequences, FiniteSetsExt

CONSTANTS Trees,   \* what Spike may leave in memory: [known, tokens]
          CELL,    \* 2^32
          SELF     \* the address of mem_done(), in the kernel's text

ASSUME DeviceTreeAssumption ==
    /\ CELL \in Nat \ {0, 1}
    /\ SELF \in 0 .. CELL * CELL - 1

\* A token of the structure block.  A property has one of the names the kernel looks
\* for: "device_type" stands for device_type = "memory" and "compatible" for
\* compatible = "ucb,htif0".
Token == [t : {"begin", "end", "nop", "prop", "stop"}, name : STRING, value : Seq(0 .. CELL - 1)]

\* The helper reads up to the first FDT_END, and one cell of a property of cell counts.
ASSUME TreesAssumption ==
    \A tree \in Trees :
      /\ tree \in [known : BOOLEAN, tokens : Seq(Token)]
      /\ tree.tokens # <<>>
      /\ \A i \in DOMAIN tree.tokens :
           /\ tree.tokens[i].t = "stop" <=> i = Len(tree.tokens)
           /\ tree.tokens[i].name \in {"#address-cells", "#size-cells"} =>
                tree.tokens[i].value # <<>>

VARIABLES
    dtb,          \* the device tree
    query,        \* "htif", "mem", or "over": the scan that is running
    lex,          \* the next token
    stack,        \* the calls of fdt_scan_helper(), the innermost last
    scan,         \* the struct htif_scan or mem_scan of the query
    htif,
    g_mem_size,
    fate          \* "ok", or how the scan stopped the machine

scanVars == <<dtb, query, lex, stack, scan, htif, g_mem_size, fate>>

BEGIN == [t |-> "begin", name |-> "", value |-> <<>>]
END == [t |-> "end", name |-> "", value |-> <<>>]
NOP == [t |-> "nop", name |-> "", value |-> <<>>]
STOP == [t |-> "stop", name |-> "", value |-> <<>>]
Prop(name, value) == [t |-> "prop", name |-> name, value |-> value]

tok == dtb.tokens[lex]

\* A call of the helper: its flag last and the cell counts of its child record.
Frame == [last |-> FALSE, address_cells |-> 2, size_cells |-> 1]
Cleared == [found |-> FALSE, reg |-> <<>>, has_reg |-> FALSE]

level == Len(stack)
top == stack[level]
\* The node a call works on is the child record of its caller.
HasNode == level > 1

\* assert() ends in poweroff(), which asserts again that there is an HTIF: without
\* one it calls itself for ever.
Died == IF htif THEN "poweroff" ELSE "recursing"

-----------------------------------------------------------------------------
(* The values of a property. *)

\* fdt_get_address() and fdt_get_size(): big-endian cells, modulo 2^64.
fdt_get(cells) ==
    LET result[i \in 0 .. Len(cells)] ==
          IF i = 0 THEN 0 ELSE (result[i - 1] * CELL + cells[i]) % (CELL * CELL)
    IN  result[Len(cells)]

Entry(reg, a, s, i) ==
    LET at == (i - 1) * (a + s)
    IN  [base |-> fdt_get(SubSeq(reg, at + 1, at + a)),
         size |-> fdt_get(SubSeq(reg, at + a + 1, at + a + s))]

Covers(e) == e.base <= SELF /\ SELF <= (e.base + e.size) % (CELL * CELL)

\* What mem_done() makes of g_mem_size: the last entry that covers mem_done().
Chosen(reg, a, s, size) ==
    LET covering == {i \in 1 .. Len(reg) \div (a + s) : Covers(Entry(reg, a, s, i))}
    IN  IF covering = {} THEN size ELSE Entry(reg, a, s, Max(covering)).size

\* Mutant: the cell counts of the node itself.
RegCells_own == stack[level - 1]

\* node->parent: the child record of the caller's caller.
RegCells == stack[level - 2]

\* How mem_done() ends: the null parent of the root, a loop that does not
\* advance, or a reg that is not made of whole entries.
mem_done_fate ==
    IF ~scan.found THEN "ok"
    ELSE IF ~scan.has_reg THEN Died
    ELSE IF scan.reg = <<>> THEN "ok"
    ELSE IF level < 3 THEN "fault"
    ELSE LET w == RegCells.address_cells + RegCells.size_cells
         IN  IF w = 0 THEN "hangs" ELSE IF Len(scan.reg) % w # 0 THEN Died ELSE "ok"

htif_done == htif' = (htif \/ scan.found) /\ UNCHANGED <<fate, g_mem_size>>

mem_done ==
    /\ fate' = mem_done_fate
    /\ g_mem_size' = IF mem_done_fate = "ok" /\ scan.found /\ scan.reg # <<>>
                     THEN Chosen(scan.reg, RegCells.address_cells, RegCells.size_cells, g_mem_size)
                     ELSE g_mem_size
    /\ UNCHANGED htif

\* `if (!last && node && cb->done)`: once, after the last property of the node.
done == IF top.last \/ ~HasNode THEN UNCHANGED <<htif, g_mem_size, fate>>
        ELSE IF query = "htif" THEN htif_done ELSE mem_done

-----------------------------------------------------------------------------
\* The calls of the helper at the start: none for a header fdt_scan() does not know.
fdt_scan(tree) == IF tree.known THEN <<Frame>> ELSE <<>>

\* query_htif() starts.
query_htif ==
    /\ dtb \in Trees
    /\ query = "htif" /\ lex = 1
    /\ stack = fdt_scan(dtb)
    /\ scan = Cleared
    /\ htif = FALSE /\ g_mem_size = 0 /\ fate = "ok"

Scanning(t) == query # "over" /\ fate = "ok" /\ stack # <<>> /\ tok.t = t

fdt_nop ==
    /\ Scanning("nop")
    /\ lex' = lex + 1
    /\ UNCHANGED <<dtb, query, stack, scan, htif, g_mem_size, fate>>

\* The call-backs prop.
htif_prop(p) == IF p.name = "compatible" THEN [scan EXCEPT !.found = TRUE] ELSE scan
mem_prop(p) ==
    CASE p.name = "device_type" -> [scan EXCEPT !.found = TRUE]
      [] p.name = "reg" -> [scan EXCEPT !.reg = p.value, !.has_reg = TRUE]
      [] OTHER -> scan

fdt_prop ==
    /\ Scanning("prop")
    /\ IF top.last
       THEN fate' = Died /\ UNCHANGED <<lex, stack, scan>>
       ELSE /\ stack' = CASE HasNode /\ tok.name = "#address-cells" ->
                               [stack EXCEPT ![level - 1].address_cells = tok.value[1]]
                          [] HasNode /\ tok.name = "#size-cells" ->
                               [stack EXCEPT ![level - 1].size_cells = tok.value[1]]
                          [] OTHER -> stack
            /\ scan' = IF query = "htif" THEN htif_prop(tok) ELSE mem_prop(tok)
            /\ lex' = lex + 1
            /\ UNCHANGED fate
    /\ UNCHANGED <<dtb, query, htif, g_mem_size>>

\* The node is done at its first child; open then clears the scan for the child.
fdt_begin_node ==
    /\ Scanning("begin")
    /\ done
    /\ stack' = Append([stack EXCEPT ![level].last = TRUE], Frame)
    /\ scan' = Cleared
    /\ lex' = lex + 1
    /\ UNCHANGED <<dtb, query>>

\* FDT_END_NODE is consumed; FDT_END is not, and ends every call in turn.
fdt_return ==
    /\ Scanning("end") \/ Scanning("stop")
    /\ done
    /\ stack' = SubSeq(stack, 1, level - 1)
    /\ lex' = IF tok.t = "end" THEN lex + 1 ELSE lex
    /\ UNCHANGED <<dtb, query, scan>>

\* query_htif() returns and query_mem() starts.
query_mem ==
    /\ query = "htif" /\ fate = "ok" /\ stack = <<>>
    /\ query' = "mem" /\ lex' = 1 /\ scan' = Cleared
    /\ stack' = fdt_scan(dtb)
    /\ g_mem_size' = 0
    /\ UNCHANGED <<dtb, htif, fate>>

\* query_mem() returns, if it found memory.
query_over ==
    /\ query = "mem" /\ fate = "ok" /\ stack = <<>>
    /\ IF g_mem_size > 0 THEN query' = "over" /\ UNCHANGED fate
                         ELSE fate' = Died /\ UNCHANGED query
    /\ UNCHANGED <<dtb, lex, stack, scan, htif, g_mem_size>>

ScanNext == \/ fdt_nop \/ fdt_prop \/ fdt_begin_node \/ fdt_return
            \/ query_mem \/ query_over

-----------------------------------------------------------------------------
(* The reference: what the tree says, read off the tokens at once. *)

Tokens == dtb.tokens
Ends(i, t) == Cardinality({k \in 1 .. i : Tokens[k].t = t})
Depth(i) == Ends(i, "begin") - Ends(i, "end")

\* The nodes, named by their first token, that token i is inside of.
Around(i) == {b \in 1 .. i - 1 : /\ Tokens[b].t = "begin"
                                 /\ \A k \in b .. i - 1 : Depth(k) >= Depth(b)}
Nodes == {b \in DOMAIN Tokens : Tokens[b].t = "begin"}
IsRoot(b) == Around(b) = {}
Parent(b) == Max(Around(b))
PropsOf(b, name) == {i \in DOMAIN Tokens : /\ Tokens[i].t = "prop" /\ Tokens[i].name = name
                                           /\ Around(i) # {} /\ Max(Around(i)) = b}
Says(b, name) == PropsOf(b, name) # {}
Value(b, name) == Tokens[Max(PropsOf(b, name))].value
CellsOf(b, name, default) == IF Says(b, name) THEN Value(b, name)[1] ELSE default

MemoryNodes == {b \in Nodes : Says(b, "device_type")}
AddressCells(b) == CellsOf(Parent(b), "#address-cells", 2)
SizeCells(b) == CellsOf(Parent(b), "#size-cells", 1)
Regions(b) == {Entry(Value(b, "reg"), AddressCells(b), SizeCells(b), i) :
                 i \in 1 .. Len(Value(b, "reg")) \div (AddressCells(b) + SizeCells(b))}
\* The regions of memory the kernel's text lies in.
KernelRegions == {r \in UNION {Regions(b) : b \in MemoryNodes} :
                    r.base <= SELF /\ SELF < r.base + r.size}

\* The one child record of a call serves all its children in turn and gets its
\* default cell counts only once, so a child without cell counts of its own has
\* those of an earlier sibling.  A tree where no memory node depends on it:
OwnCells(b) ==
    \/ Says(b, "#address-cells") /\ Says(b, "#size-cells")
    \/ \A c \in Nodes : (c < b /\ Around(c) = Around(b)) =>
          ~Says(c, "#address-cells") /\ ~Says(c, "#size-cells")

\* A tree as the device tree specification wants it, that describes the memory the
\* kernel was loaded to: properties belong to nodes and come before the children, the
\* root is no memory node, reg has whole entries, and no region goes round the end of
\* the addresses or ends where mem_done() begins, which mem_done() takes for its own.
WellFormed ==
    /\ dtb.known
    /\ \A i \in DOMAIN Tokens : Depth(i) >= 0
    /\ \A i \in DOMAIN Tokens : Tokens[i].t = "prop" => Around(i) # {}
    /\ \A b \in MemoryNodes :
         /\ ~IsRoot(b) /\ Says(b, "reg") /\ OwnCells(Parent(b))
         /\ AddressCells(b) + SizeCells(b) > 0
         /\ Len(Value(b, "reg")) % (AddressCells(b) + SizeCells(b)) = 0
    /\ \A i \in DOMAIN Tokens, b \in Nodes :
         (Tokens[i].t = "prop" /\ b < i /\ ~IsRoot(b)) => Parent(b) # Max(Around(i))
    /\ \A r \in UNION {Regions(b) : b \in MemoryNodes} :
         r.base + r.size < CELL * CELL /\ r.base + r.size # SELF
    /\ KernelRegions # {}

\* The scan agrees with the tree.  fdt_scan() finds out, in one pass with one
\* record per level and no look-ahead, what the whole tree says: from a well-formed
\* tree, in whatever order its nodes and their properties come, query_mem() takes
\* the size of the region around the kernel, read with the cell counts of the
\* memory node's parent, and query_htif() finds the HTIF node wherever it is; no
\* assertion of the scan fails and it does not loop.
ScanMatchesTree ==
    dtb.known =>
      /\ (query = "over" /\ WellFormed) =>
            /\ g_mem_size \in {r.size : r \in KernelRegions}
            /\ htif <=> \E b \in Nodes : Says(b, "compatible")
      /\ fate # "ok" => ~WellFormed
=============================================================================
