------------------------------- MODULE MCUtil -------------------------------
(* The calls that the run of MCBoot makes of Util: texts of up to twice the buffer, and every *)
(* operand of a string function in a memory of MEM bytes.                                     *)
EXTENDS Util, SequencesExt

CONSTANT MEM

\* A plain text, a conversion, a plain text, and a second conversion.
Plain == {<<>>, <<"a">>, <<"a", "b">>, <<"a", "b", "d", "l">>}
Ints == {<<<<"%", c>>, v>> : c \in {"d", "x", "p"},
    v \in {-128, -9, -8, -1, 0, 1, 3, 7, 8, 26, 127}}
Longs == {<<<<"%", "l", c>>, v>> : c \in {"d", "x"},
    v \in {-127, -81, -1, 0, 2, 3, 27, 80, 81, 127}}
Texts == {<<<<"%", "s">>, v>> : v \in Plain} \cup {<<<<"%", "c">>, "z">>}
Widths == {<<<<"%", "5", "l", "d">>, v>> : v \in {-3, 40}}
Pieces == Ints \cup Longs \cup Texts \cup Widths

MCCalls ==
    {[by |-> b, fmt |-> p \o x[1] \o q, args |-> <<x[2]>>] :
        b \in {"user", "kernel"}, p \in Plain, q \in Plain, x \in Pieces}
    \cup {[by |-> b, fmt |-> x[1] \o <<"a">> \o y[1], args |-> <<x[2], y[2]>>] :
        b \in {"user", "kernel"}, x \in Ints, y \in Longs}

\* Bytes that tell their addresses, with NULs in between.
Marked == {[a \in 0 .. MEM - 1 |-> IF a \in z THEN 0 ELSE a + 1] : z \in SUBSET (0 .. MEM - 1)}
Job(op, m, d, s, n) == [op |-> op, m |-> m, d |-> d, s |-> s, n |-> n]
Addr == 0 .. MEM - 1
NoNul == [a \in Addr |-> a + 1]

MCJobs == {j \in
    {Job(op, NoNul, d, s, n) : op \in {"memmove", "memcpy"}, d \in Addr, s \in Addr, n \in 0 .. MEM}
    \cup {Job("memset", NoNul, d, 0, n) : d \in Addr, n \in 0 .. MEM}
    \cup {Job("strlen", m, 0, s, 0) : m \in Marked, s \in Addr}
    \cup {Job("strcpy", m, d, s, 0) : m \in Marked, d \in Addr, s \in Addr}
    \cup {Job("safestrcpy", m, d, s, n) : m \in Marked, d \in Addr, s \in Addr, n \in 0 .. 4}
    \cup {Job("strcmp", m, 0, 4, 0) : m \in [0 .. 7 -> 0 .. 2]} : Legal(j)}
=============================================================================
