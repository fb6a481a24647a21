------------------------------- MODULE MCBoot -------------------------------
(* Two instances in one run: the boot from every tree of MCTrees, and every call of MCUtil. *)
EXTENDS Boot, MCUtil

Cells(a, s) == <<Prop("#address-cells", <<a>>), Prop("#size-cells", <<s>>)>>
Number(v, k) == [i \in 1 .. k |-> IF i = k THEN v ELSE 0]
Reg(base, size, c) == Number(base, c[1]) \o Number(size, c[2])

MEMORY == Prop("device_type", <<>>)
MemNode(reg) == <<BEGIN, MEMORY, Prop("reg", reg), END>>

\* The nodes that may follow each other below the root, whose cell counts are c;
\* the kernel's memory has m bytes.
Child(shape, m, c) ==
    CASE shape = "memory" -> MemNode(Reg(16, m, c))
      [] shape = "reg first" -> <<BEGIN, Prop("reg", Reg(48, 8, c) \o Reg(16, m, c)), NOP, MEMORY, END>>
      [] shape = "elsewhere" -> MemNode(Reg(0, 16, c))
      [] shape = "parent" -> <<BEGIN, MEMORY>> \o Cells(1, 0) \o <<Prop("reg", Reg(16, m, c)),
                               BEGIN, Prop("reg", <<3>>), END, END>>
      [] shape = "bus" -> <<BEGIN>> \o Cells(1, 1) \o MemNode(Reg(16, m, <<1, 1>>)) \o <<END>>
      [] shape = "plain bus" -> <<BEGIN>> \o MemNode(Reg(16, m, <<2, 1>>)) \o <<END>>
      [] shape = "cpus" -> <<BEGIN>> \o Cells(1, 0) \o <<BEGIN, Prop("reg", <<0>>), END, END>>
      [] shape = "htif" -> <<BEGIN, Prop("compatible", <<>>), END>>
      [] shape = "late" -> <<BEGIN, BEGIN, END, Prop("reg", <<1>>), END>>
      [] shape = "no reg" -> <<BEGIN, MEMORY, END>>
      [] shape = "no cells" -> <<BEGIN>> \o Cells(0, 0) \o MemNode(<<1>>) \o <<END>>
      [] shape = "odd reg" -> MemNode(<<0>> \o Reg(16, m, c))

Good == {"memory", "reg first", "elsewhere", "parent", "bus", "plain bus", "cpus", "htif"}
Bad == {"late", "no reg", "odd reg", "no cells"}

Tree(shapes, m, c) ==
    [known |-> TRUE,
     tokens |-> <<BEGIN>> \o (IF c = <<2, 1>> THEN <<>> ELSE Cells(c[1], c[2]))
                \o FlattenSeq([i \in DOMAIN shapes |-> Child(shapes[i], m, c)]) \o <<END, STOP>>]

MCTrees ==
    {Tree(ss, m, c) : ss \in UNION {[1 .. k -> Good \cup Bad] : k \in 1 .. 2},
                      m \in {6, 16}, c \in {<<2, 1>>, <<2, 2>>, <<1, 1>>}}
    \cup {Tree(<<"htif", "memory">>, m, <<2, 2>>) : m \in 1 .. 20}
    \cup {Tree(ss, 16, <<2, 2>>) : ss \in [1 .. 3 -> Good]}
    \cup {[known |-> TRUE, tokens |-> MemNode(<<0, 16, 16>>) \o <<STOP>>],
          [known |-> FALSE, tokens |-> <<STOP>>]}

\* A kernel of two to five pages.
MCLayouts == {[etext |-> 18, end |-> 20], [etext |-> 20, end |-> 20], [etext |-> 20, end |-> 26]}

\* A behaviour is a boot or a call; the other part stands still.
NoBoot ==
    /\ dtb = NoTree /\ query = "over" /\ lex = 1 /\ stack = <<>> /\ scan = Cleared
    /\ htif = TRUE /\ g_mem_size = 0 /\ fate = "none"
    /\ BootInit
NoCall ==
    /\ call = [by |-> "none", fmt |-> <<>>, args |-> <<>>] /\ pass = "none"
    /\ fmt = <<>> /\ args = <<>> /\ result = <<>>
    /\ out = Buffer /\ pos = 0 /\ format = FALSE /\ longarg = FALSE /\ console = <<>>

MCInit == (Init /\ NoCall) \/ (NoBoot /\ UtilInit)
MCNext == \/ fate # "none" /\ Next /\ UNCHANGED utilVars
          \/ UtilNext /\ UNCHANGED vars
MCSpec == MCInit /\ [][MCNext]_<<vars, utilVars>> /\ Fairness
=============================================================================
