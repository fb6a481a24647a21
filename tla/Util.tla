-------------------------------- MODULE Util --------------------------------
(***************************************************************************)
(* Printing: vsnprintf() of util/snprintf.c, one step per character of the *)
(* format, and the way of an application's text to the console, which goes *)
(* through it twice: printu() (user/user_lib.c) formats into a buffer of   *)
(* SIZE bytes, sys_user_print() (kernel/syscall.c) hands that buffer to    *)
(* sprint() as a format, and vprintk() (spike_interface/spike_utils.c)     *)
(* writes what comes out.  The kernel's own messages take the second half. *)
(* Next to it, single calls of the functions of module Strings.            *)
(*                                                                         *)
(* A character is a string.  An int has INT hexadecimal digits and a long  *)
(* twice as many; the numerals have the bases DEC and HEX, at most 10.     *)
(***************************************************************************)
EXTENDS Strings

CONSTANTS Calls,     \* what is printed: [by, fmt, args], by "user" or "kernel"
          SIZE,      \* of the buffers of printu() and vprintk()
          INT, DEC, HEX,
          Jobs       \* the calls of string functions: [op, m, d, s, n]

ASSUME UtilAssumption == {SIZE, INT, DEC - 1, HEX - 1} \subseteq Nat \ {0}
ASSUME CallsAssumption == \A c \in Calls : {"by", "fmt", "args"} \subseteq DOMAIN c

\* What the caller of a string function sees to: the operands are in the memory, a string
\* ends there, and only memmove() is given operands that overlap.
Legal(j) ==
    LET m == j.m  d == j.d  s == j.s  n == j.n
        k == Length(m, s) + 1
    IN  /\ "fmt" \notin DOMAIN j
        /\ Max(DOMAIN m) \in Nat /\ m \in [0 .. Max(DOMAIN m) -> Nat] /\ {d, s, n} \subseteq Nat
        /\ \/ j.op = "memmove" /\ InMemory(m, d, n) /\ InMemory(m, s, n)
           \/ j.op = "memcpy" /\ InMemory(m, d, n) /\ InMemory(m, s, n) /\ Apart(d, s, n)
           \/ j.op = "memset" /\ InMemory(m, d, n)
           \/ j.op = "strlen" /\ s \in Strings(m)
           \/ j.op = "strcmp" /\ {d, s} \subseteq Strings(m)
           \/ j.op = "strcpy" /\ s \in Strings(m) /\ InMemory(m, d, k) /\ Apart(d, s, k)
           \/ /\ j.op = "safestrcpy" /\ s \in Strings(m)
              /\ InMemory(m, d, n) /\ Apart(d, s, Max({k, n}))

ASSUME JobsAssumption == \A j \in Jobs : Legal(j)

VARIABLES
    call,      \* the call of printu() or sprint(), or of a string function
    pass,      \* "user", "kernel" (where vsnprintf() runs), "string", "over"
    fmt, args, \* the format and the arguments not yet read
    out, pos,  \* the buffer, with the bytes behind it, and pos
    format, longarg,
    console,   \* what spike_file_write() got
    result     \* of the string function

utilVars == <<call, pass, fmt, args, out, pos, format, longarg, console, result>>

NUL == "NUL"
\* SIZE bytes, and two that are not the buffer's.
Buffer == [a \in 0 .. SIZE + 1 |-> "old"]

FormatInit ==
    /\ call \in Calls
    /\ pass = call.by
    /\ fmt = call.fmt /\ args = call.args
    /\ result = <<>>
StringInit ==
    /\ call \in Jobs
    /\ pass = "string"
    /\ fmt = <<>> /\ args = <<>> /\ result = <<>>

UtilInit ==
    /\ FormatInit \/ StringInit
    /\ out = Buffer /\ pos = 0 /\ format = FALSE /\ longarg = FALSE
    /\ console = <<>>

-----------------------------------------------------------------------------
(* vsnprintf(out, SIZE, fmt, args). *)

\* `if (++pos < n) out[pos - 1] = ...` for each character of text.
Put(text) == [a \in DOMAIN out |->
    IF a \in pos .. pos + Len(text) - 1 /\ a + 1 < SIZE THEN text[a - pos + 1] ELSE out[a]]

\* va_arg(vl, int) keeps the low half of the long in the argument's slot.
Arg == LET half == HEX ^ INT
           low == args[1] % half
       IN  IF longarg THEN args[1] ELSE IF 2 * low >= half THEN low - half ELSE low

Digit(d) == <<"0", "1", "2", "3", "4", "5", "6", "7", "8", "9">>[d + 1]

hexDigits(num, k) == [i \in 1 .. k |-> Digit((num \div HEX ^ (k - i)) % HEX)]

decDigits[num \in Nat] ==
    (IF num < DEC THEN <<>> ELSE decDigits[num \div DEC]) \o <<Digit(num % DEC)>>

\* What the conversion c prints.
Conversion(c) ==
    CASE c = "x" -> hexDigits(Arg, IF longarg THEN 2 * INT ELSE INT)
      [] c = "p" -> <<"0", "x">> \o hexDigits(args[1], 2 * INT)
      [] c = "d" -> IF Arg < 0 THEN <<"-">> \o decDigits[-Arg] ELSE decDigits[Arg]
      [] c = "s" -> args[1]
      [] c = "c" -> <<args[1]>>

vsnprintf_step ==
    LET c == Head(fmt)
    IN  /\ pass \in {"user", "kernel"} /\ fmt # <<>>
        /\ fmt' = Tail(fmt)
        /\ CASE format /\ c \in {"x", "p", "d", "s", "c"} ->
                  /\ out' = Put(Conversion(c)) /\ pos' = pos + Len(Conversion(c))
                  /\ args' = Tail(args)
                  /\ format' = FALSE /\ longarg' = FALSE
             [] format /\ c = "l" -> longarg' = TRUE /\ UNCHANGED <<out, pos, args, format>>
             [] format /\ c \notin {"x", "p", "d", "s", "c", "l"} ->
                  UNCHANGED <<out, pos, args, format, longarg>>
             [] ~format /\ c = "%" -> format' = TRUE /\ UNCHANGED <<out, pos, args, longarg>>
             [] OTHER -> /\ out' = Put(<<c>>) /\ pos' = pos + 1
                         /\ UNCHANGED <<args, format, longarg>>
        /\ UNCHANGED <<call, pass, console, result>>

\* Mutant: a text of exactly SIZE characters is taken to fit.
Closed_off == [out EXCEPT ![IF pos <= SIZE THEN pos ELSE SIZE - 1] = NUL]

\* The NUL at the end, in the buffer in any case.
Closed == [out EXCEPT ![IF pos < SIZE THEN pos ELSE SIZE - 1] = NUL]

\* The string that starts at the buffer.
Text(buf) == LET end == Min({a \in DOMAIN buf : buf[a] = NUL})
             IN  [i \in 1 .. end |-> buf[i - 1]]

\* printu() makes the system call, and sys_user_print() calls sprint() with the text
\* as its format and no arguments.
print ==
    /\ pass = "user" /\ fmt = <<>>
    /\ pass' = "kernel"
    /\ fmt' = Text(Closed) /\ args' = <<>>
    /\ out' = Buffer /\ pos' = 0 /\ format' = FALSE /\ longarg' = FALSE
    /\ UNCHANGED <<call, console, result>>

\* vprintk() writes pos bytes, or the whole buffer, its NUL included, if pos does not fit.
vprintk ==
    /\ pass = "kernel" /\ fmt = <<>>
    /\ pass' = "over"
    /\ out' = Closed
    /\ console' = [i \in 1 .. Min({pos, SIZE}) |-> Closed[i - 1]]
    /\ UNCHANGED <<call, fmt, args, pos, format, longarg, result>>

string_call ==
    /\ pass = "string"
    /\ pass' = "over"
    /\ result' = LET m == call.m  d == call.d  s == call.s  n == call.n
                 IN  CASE call.op = "memcpy" -> memcpy(m, d, s, n)
                       [] call.op = "memset" -> memset(m, d, s, n)
                       [] call.op = "memmove" -> memmove(m, d, s, n)
                       [] call.op = "strcpy" -> strcpy(m, d, s)
                       [] call.op = "safestrcpy" -> safestrcpy(m, d, s, n)
                       [] call.op = "strlen" -> <<strlen(m, s)>>
                       [] call.op = "strcmp" -> <<strcmp(m, d, s)>>
    /\ UNCHANGED <<call, fmt, args, out, pos, format, longarg, console>>

UtilNext == vsnprintf_step \/ print \/ vprintk \/ string_call
UtilSpec == UtilInit /\ [][UtilNext]_utilVars

-----------------------------------------------------------------------------
(* The references. *)

Numeral(num, base) ==
    LET k == Min({j \in 1 .. 4 * INT : num < base ^ j})
    IN  [i \in 1 .. k |-> Digit((num \div base ^ (k - i)) % base)]
AsInt(a) == CHOOSE v \in -(HEX ^ INT \div 2) .. (HEX ^ INT \div 2) - 1 : (a - v) % HEX ^ INT = 0
TwosComplement(a, k) == [i \in 1 .. k |-> Digit(((a % HEX ^ k) \div HEX ^ (k - i)) % HEX)]

Shown(c, a, long) ==
    LET v == IF long THEN a ELSE AsInt(a)
    IN  CASE c = "d" -> (IF v < 0 THEN <<"-">> ELSE <<>>) \o Numeral(IF v < 0 THEN -v ELSE v, DEC)
          [] c = "x" -> TwosComplement(a, IF long THEN 2 * INT ELSE INT)
          [] c = "p" -> <<"0", "x">> \o TwosComplement(a, 2 * INT)
          [] c = "s" -> a
          [] c = "c" -> <<a>>

\* All that a format of plain characters and conversions asks to print.  A flag or a
\* width, which vsnprintf() does not know, is skipped.
Full(f, a) ==
    LET from[i \in 1 .. Len(f) + 1, j \in 1 .. Len(a) + 1] ==
          IF i > Len(f) THEN <<>>
          ELSE IF f[i] # "%" THEN <<f[i]>> \o from[i + 1, j]
          ELSE LET k == Min({h \in i + 1 .. Len(f) : f[h] \in {"d", "x", "p", "s", "c"}})
                   long == \E h \in i + 1 .. k - 1 : f[h] = "l"
               IN  Shown(f[k], a[j], long) \o from[k + 1, j + 1]
    IN  from[1, 1]

Printing == "fmt" \in DOMAIN call

\* The console shows what was asked for, cut at the buffer and nowhere else: the text
\* of printu() survives both passes of vsnprintf() and both buffers, numbers with
\* their sign and width, and only what exceeds SIZE - 1 characters is missing; a
\* message of the kernel that is too long is cut at the same place and followed by the
\* buffer's NUL; and no store goes behind a buffer, at any length of the text.
PrintedAsAsked ==
    /\ \A a \in DOMAIN out : a >= SIZE => out[a] = "old"
    /\ (Printing /\ pass = "over") =>
         LET full == Full(call.fmt, call.args)
             cut == SubSeq(full, 1, Min({Len(full), SIZE - 1}))
         IN  console = IF call.by = "kernel" /\ Len(full) >= SIZE THEN Append(cut, NUL) ELSE cut

\* What the C name of a string function promises.
Promised(j, r) ==
    LET m == j.m  d == j.d  s == j.s  n == j.n
        length == Length(m, s)
        differ == {k \in 0 .. length : m[d + k] # m[s + k]}
    IN  CASE j.op \in {"memcpy", "memmove"} -> r = Move(m, d, s, n)
          [] j.op = "memset" -> r = Fill(m, d, s, n)
          [] j.op = "strcpy" -> r = Move(m, d, s, length + 1)
          [] j.op = "strlen" -> r = <<length>>
          [] j.op = "strcmp" ->
               r = <<IF differ = {} THEN 0 ELSE m[d + Min(differ)] - m[s + Min(differ)]>>
          [] j.op = "safestrcpy" ->
               LET k == Min({length, n - 1})
               IN  /\ \A a \in DOMAIN m \ (d .. d + n - 1) : r[a] = m[a]
                   /\ n > 0 => /\ \A a \in d .. d + k - 1 : r[a] = m[s + a - d]
                               /\ r[d + k] = 0

\* The string functions do what their C names promise, whatever the alignment, the
\* length and, for memmove(), the overlap of their operands, and change no byte
\* outside their destination: the word loops of memcpy() and memset() leave the right
\* rest to the byte loops, and safestrcpy() stays within n bytes and ends its copy.
StringsMatch == (~Printing /\ pass = "over") => Promised(call, result)
=============================================================================
