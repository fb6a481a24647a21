------------------------------ MODULE Strings -------------------------------
(***************************************************************************)
(* The memory and string functions of util/string.c, as functions of the   *)
(* memory m (a function from addresses to bytes), in the order the loops   *)
(* read and write: a word loop moves WORD bytes at a time.  after[k] is    *)
(* the memory after k rounds of a loop.                                    *)
(***************************************************************************)
EXTENDS Integers, Sequences, FiniteSetsExt

CONSTANTS WORD      \* sizeof(uintptr_t)

ASSUME StringsAssumption == WORD \in Nat \ {0}

\* One store of w bytes: all are read before any is written.
Move(m, d, s, w) == [a \in DOMAIN m |-> IF a \in d .. d + w - 1 THEN m[s + (a - d)] ELSE m[a]]
Fill(m, d, byte, w) == [a \in DOMAIN m |-> IF a \in d .. d + w - 1 THEN byte ELSE m[a]]

\* n rounds of `*d++ = *s++` and of `*d++ = byte`, by units of w bytes, and of `*--d = *--s`.
CopyUp(m, d, s, w, n) ==
    LET after[k \in 0 .. n] ==
          IF k = 0 THEN m ELSE Move(after[k - 1], d + (k - 1) * w, s + (k - 1) * w, w)
    IN  after[n]
FillUp(m, d, byte, w, n) ==
    LET after[k \in 0 .. n] == IF k = 0 THEN m ELSE Fill(after[k - 1], d + (k - 1) * w, byte, w)
    IN  after[n]
CopyDown(m, d, s, n) ==
    LET after[k \in 0 .. n] == IF k = 0 THEN m ELSE Move(after[k - 1], d + n - k, s + n - k, 1)
    IN  after[n]

\* The words a loop `while (d < dest + len - (WORD - 1))` moves.
Words(len) == Min({k \in 0 .. len : ~(k * WORD < len - (WORD - 1))})

memcpy(m, dest, src, len) ==
    LET words == IF dest % WORD = 0 /\ src % WORD = 0 THEN Words(len) ELSE 0
        done == words * WORD
    IN  CopyUp(CopyUp(m, dest, src, WORD, words), dest + done, src + done, 1, len - done)

memset(m, dest, byte, len) ==
    IF dest % WORD = 0 /\ len % WORD = 0 THEN FillUp(m, dest, byte, WORD, len \div WORD)
                                         ELSE FillUp(m, dest, byte, 1, len)

\* Mutant: the copy goes forward whenever the regions do not start at the same place.
memmove_forward(m, dst, src, n) == CopyUp(m, dst, src, 1, n)

memmove(m, dst, src, n) ==
    IF src < dst /\ src + n > dst THEN CopyDown(m, dst, src, n) ELSE CopyUp(m, dst, src, 1, n)

\* Operands of n bytes.
InMemory(m, a, n) == a .. a + n - 1 \subseteq DOMAIN m
Apart(d, s, n) == d + n <= s \/ s + n <= d

\* The addresses of the strings that end in m, and their lengths.
Strings(m) == {a \in DOMAIN m : \E z \in DOMAIN m : z >= a /\ m[z] = 0}
Length(m, s) == Min({k \in 0 .. Max(DOMAIN m) - s : m[s + k] = 0})

strlen(m, s) ==
    LET end[p \in Strings(m)] == IF m[p] # 0 THEN end[p + 1] ELSE p
    IN  end[s] - s

strcmp(m, s1, s2) ==
    LET from[k \in {k \in 0 .. Max(DOMAIN m) : {s1 + k, s2 + k} \subseteq Strings(m)}] ==
          IF m[s1 + k] # 0 /\ m[s1 + k] = m[s2 + k] THEN from[k + 1] ELSE m[s1 + k] - m[s2 + k]
    IN  from[0]

\* The k-th round of `*d++ = *s++` stores a 0.
StoresNul(m, d, s, k) ==
    {d + k - 1, s + k - 1} \subseteq DOMAIN m /\ CopyUp(m, d, s, 1, k)[d + k - 1] = 0

\* The loop ends with the round that stores a 0.
strcpy(m, dest, src) ==
    CopyUp(m, dest, src, 1, Min({k \in 1 .. Max(DOMAIN m) + 1 : StoresNul(m, dest, src, k)}))

\* The loop stores at most n - 1 bytes; the final 0 follows the last byte it stored.
safestrcpy(m, s, t, n) ==
    LET rounds == Min({k \in 0 .. n - 1 : k = n - 1 \/ (k > 0 /\ StoresNul(m, s, t, k))})
    IN  IF n <= 0 THEN m ELSE Fill(CopyUp(m, s, t, 1, rounds), s + rounds, 0, 1)
=============================================================================
