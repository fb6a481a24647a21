---------------------------- MODULE ListProofs ----------------------------
(***************************************************************************)
(* Proofs about the kernel's strings and its linked list: what it keeps in *)
(* memory one element after the other.                                     *)
(*                                                                         *)
(* For every memory, word size and operands, the loops of util/string.c    *)
(* (module Strings) leave in the memory what their C names promise.  For   *)
(* every size of the process pool, the list of kernel/sched.c (module      *)
(* ReadyQueue) is never broken and implements a first-in first-out queue.  *)
(***************************************************************************)
EXTENDS Util, ReadyQueue, TLAPS
INSTANCE WellFoundedInduction

\* Every non-empty set of naturals has a least element: induction, by the least
\* counterexample.
LEMMA Least ==
    ASSUME NEW T \in SUBSET Nat, T # {}
    PROVE  \E x \in T : \A y \in T : x <= y
<1> DEFINE R == OpToRel(<, Nat)
<1>1. IsWellFoundedOn(R, Nat)
  BY NatLessThanWellFounded, Zenon
<1>2. PICK x \in T : \A y \in T : ~(<<y, x>> \in R)
  <2> HIDE DEF R
  <2> QED BY <1>1, WFMin, Zenon
<1>3. \A y \in T : ~(y < x) BY <1>2, Zenon DEF OpToRel
<1> QED BY <1>3

\* Min is the least element.
LEMMA MinIs ==
    ASSUME NEW T \in SUBSET Nat, T # {}
    PROVE  Min(T) \in T /\ \A y \in T : Min(T) <= y
BY Least, Zenon DEF Min

-----------------------------------------------------------------------------
(* The copying loops. *)

\* The memory m has the bytes 0 .. top.
IsMemory(m, top) == m = [a \in 0 .. top |-> m[a]]

\* The n bytes at s are in the memory, and a copy to d that goes up does not overwrite them
\* before it has read them.
Upwards(top, d, s, n) == (n > 0 => s + n <= top + 1) /\ (s >= d \/ s + n <= d)

\* A copy of a bytes, then one of the next b bytes, going up: no byte is read after it was
\* overwritten.
LEMMA MoveMove ==
    ASSUME NEW top \in Nat, NEW m, IsMemory(m, top), NEW d \in Nat, NEW s \in Nat,
           NEW a \in Nat, NEW b \in Nat, Upwards(top, d, s, a + b)
    PROVE  Move(Move(m, d, s, a), d + a, s + a, b) = Move(m, d, s, a + b)
<1> DEFINE mm == Move(m, d, s, a)
<1>1. /\ DOMAIN mm = 0 .. top
      /\ \A x \in 0 .. top : mm[x] = IF x \in d .. d + a - 1 THEN m[s + (x - d)] ELSE m[x]
  BY Zenon DEF Move, IsMemory
<1> HIDE DEF mm
<1>2. Move(mm, d + a, s + a, b)
        = [x \in 0 .. top |->
             IF x \in d + a .. d + a + b - 1 THEN mm[s + a + (x - (d + a))] ELSE mm[x]]
  BY <1>1, Zenon DEF Move
<1>3. Move(m, d, s, a + b)
        = [x \in 0 .. top |-> IF x \in d .. d + (a + b) - 1 THEN m[s + (x - d)] ELSE m[x]]
  BY Zenon DEF Move, IsMemory
<1>4. ASSUME NEW x \in 0 .. top
      PROVE  (IF x \in d + a .. d + a + b - 1 THEN mm[s + a + (x - (d + a))] ELSE mm[x])
               = IF x \in d .. d + (a + b) - 1 THEN m[s + (x - d)] ELSE m[x]
  <2>1. CASE x \in d + a .. d + a + b - 1
    <3> DEFINE y == s + (x - d)
    <3>1. s + a + (x - (d + a)) = y /\ y \in 0 .. top /\ y \notin d .. d + a - 1
      BY <2>1 DEF Upwards
    <3> HIDE DEF y
    <3>2. mm[y] = m[y] BY <1>1, <3>1, Zenon
    <3> QED BY <2>1, <3>1, <3>2 DEF y
  <2>2. CASE x \notin d + a .. d + a + b - 1
    BY <1>1, <2>2, SMTT(30)
  <2> QED BY <2>1, <2>2, Zenon
<1> QED BY <1>2, <1>3, <1>4, Zenon DEF mm

\* A copy of nothing.
LEMMA MoveNone ==
    ASSUME NEW top \in Nat, NEW m, IsMemory(m, top), NEW d \in Nat, NEW s \in Nat
    PROVE  Move(m, d, s, 0) = m
<1>1. \A x \in 0 .. top : x \notin d .. d + 0 - 1 OBVIOUS
<1> QED BY <1>1, Zenon DEF Move, IsMemory

\* n rounds of a loop that goes up copy the n units.
LEMMA CopiesUp ==
    ASSUME NEW top \in Nat, NEW m, IsMemory(m, top), NEW d \in Nat, NEW s \in Nat,
           NEW w \in Nat, NEW n \in Nat, Upwards(top, d, s, n * w)
    PROVE  CopyUp(m, d, s, w, n) = Move(m, d, s, n * w)
<1> DEFINE F(f) == [k \in 0 .. n |->
                      IF k = 0 THEN m ELSE Move(f[k - 1], d + (k - 1) * w, s + (k - 1) * w, w)]
           W == [k \in 0 .. n |-> Move(m, d, s, k * w)]
<1>0. ASSUME NEW k \in 0 .. n, k # 0
      PROVE  Move(W[k - 1], d + (k - 1) * w, s + (k - 1) * w, w) = W[k]
  <2> DEFINE a == (k - 1) * w
  <2>1. /\ a \in Nat /\ n * w \in Nat /\ a + w = k * w /\ k * w <= n * w /\ k - 1 \in 0 .. n
    <3>1. n * w = k * w + (n - k) * w /\ (n - k) * w \in Nat BY Z3
    <3>2. a \in Nat /\ a + w = k * w BY <1>0, Z3
    <3> QED BY <1>0, <3>1, <3>2
  <2>2. W[k - 1] = Move(m, d, s, a) /\ W[k] = Move(m, d, s, a + w)
    BY <2>1, Zenon
  <2> HIDE DEF a, W
  <2>3. Upwards(top, d, s, a + w) BY <2>1 DEF Upwards
  <2>4. Move(Move(m, d, s, a), d + a, s + a, w) = Move(m, d, s, a + w)
    <3>1. a \in Nat BY <2>1, Zenon
    <3> QED BY <2>3, <3>1, MoveMove, SMTT(30)
  <2> QED BY <2>2, <2>4, Zenon DEF a
<1>1. W = F(W)
  <2>1. 0 * w = 0 OBVIOUS
  <2>2. Move(m, d, s, 0) = m BY MoveNone, Zenon
  <2>3. W[0] = m BY <2>1, <2>2
  <2> QED BY <1>0, <2>3, Zenon
<1> DEFINE f == CHOOSE g : g = F(g)
<1>2. f = F(f)
  <2> HIDE DEF W, F
  <2> QED BY <1>1, Zenon
<1>3. CopyUp(m, d, s, w, n) = f[n]
  BY Zenon DEF CopyUp
<1> HIDE DEF f
<1>4. f[n] = W[n]
  <2> DEFINE T == {k \in 0 .. n : f[k] # W[k]}
  <2> SUFFICES ASSUME T # {} PROVE FALSE OBVIOUS
  <2>1. PICK k \in T : \A y \in T : k <= y
    <3> HIDE DEF T
    <3>1. T \in SUBSET Nat BY DEF T
    <3> QED BY <3>1, Least, Zenon
  <2>2. k # 0
    BY <1>1, <1>2, Zenon
  <2>3. f[k - 1] = W[k - 1]
    <3>1. k - 1 \in 0 .. n /\ k - 1 \notin T BY <2>1, <2>2
    <3> HIDE DEF W
    <3> QED BY <3>1, Zenon
  <2>4. f[k] = Move(f[k - 1], d + (k - 1) * w, s + (k - 1) * w, w)
    BY <1>2, <2>2, Zenon
  <2> HIDE DEF W
  <2> QED BY <1>0, <2>1, <2>2, <2>3, <2>4, Zenon
<1> QED BY <1>3, <1>4

\* A copy of the a bytes after the first, then one of the first: going down, no byte is read
\* after it was overwritten.
LEMMA MoveDown ==
    ASSUME NEW top \in Nat, NEW m, IsMemory(m, top), NEW d \in Nat, NEW s \in Nat,
           NEW a \in Nat, s < d, s + a <= top
    PROVE  Move(Move(m, d + 1, s + 1, a), d, s, 1) = Move(m, d, s, a + 1)
<1> DEFINE mm == Move(m, d + 1, s + 1, a)
<1>1. /\ DOMAIN mm = 0 .. top
      /\ \A x \in 0 .. top :
           mm[x] = IF x \in d + 1 .. d + 1 + a - 1 THEN m[s + 1 + (x - (d + 1))] ELSE m[x]
  BY Zenon DEF Move, IsMemory
<1> HIDE DEF mm
<1>2. Move(mm, d, s, 1)
        = [x \in 0 .. top |-> IF x \in d .. d + 1 - 1 THEN mm[s + (x - d)] ELSE mm[x]]
  BY <1>1, Zenon DEF Move
<1>3. Move(m, d, s, a + 1)
        = [x \in 0 .. top |-> IF x \in d .. d + (a + 1) - 1 THEN m[s + (x - d)] ELSE m[x]]
  BY Zenon DEF Move, IsMemory
<1>4. ASSUME NEW x \in 0 .. top
      PROVE  (IF x \in d .. d + 1 - 1 THEN mm[s + (x - d)] ELSE mm[x])
               = IF x \in d .. d + (a + 1) - 1 THEN m[s + (x - d)] ELSE m[x]
  <2>1. CASE x = d
    <3>1. s + (x - d) = s /\ s \in 0 .. top /\ s \notin d + 1 .. d + 1 + a - 1
      BY <2>1
    <3>2. mm[s] = m[s] BY <1>1, <3>1, Zenon
    <3> QED BY <2>1, <3>1, <3>2
  <2>2. CASE x \in d + 1 .. d + 1 + a - 1
    <3>1. s + 1 + (x - (d + 1)) = s + (x - d) BY <2>2
    <3> QED BY <1>1, <2>2, <3>1
  <2>3. CASE x \notin d .. d + (a + 1) - 1
    BY <1>1, <2>3
  <2> QED BY <2>1, <2>2, <2>3
<1> QED BY <1>2, <1>3, <1>4, Zenon DEF mm

\* n rounds of the loop that goes down copy the n bytes.
LEMMA CopiesDown ==
    ASSUME NEW top \in Nat, NEW m, IsMemory(m, top), NEW d \in Nat, NEW s \in Nat,
           NEW n \in Nat, s < d, s + n <= top + 1
    PROVE  CopyDown(m, d, s, n) = Move(m, d, s, n)
<1> DEFINE F(f) == [k \in 0 .. n |->
                      IF k = 0 THEN m ELSE Move(f[k - 1], d + n - k, s + n - k, 1)]
           W == [k \in 0 .. n |-> Move(m, d + n - k, s + n - k, k)]
<1>0. ASSUME NEW k \in 0 .. n, k # 0
      PROVE  Move(W[k - 1], d + n - k, s + n - k, 1) = W[k]
  <2>1. PICK b : b = d + n - k BY Zenon
  <2>2. PICK c : c = s + n - k BY Zenon
  <2>3. PICK a : a = k - 1 BY Zenon
  <2>4. /\ a \in Nat /\ b \in Nat /\ c \in Nat /\ c < b /\ c + a <= top /\ k = a + 1
        /\ d + n - (k - 1) = b + 1 /\ s + n - (k - 1) = c + 1 /\ k - 1 \in 0 .. n
    BY <1>0, <2>1, <2>2, <2>3
  <2>5. W[k - 1] = Move(m, b + 1, c + 1, a) /\ W[k] = Move(m, b, c, a + 1)
    BY <2>1, <2>2, <2>3, <2>4, Zenon
  <2>6. Move(Move(m, b + 1, c + 1, a), b, c, 1) = Move(m, b, c, a + 1)
    BY <2>4, MoveDown
  <2> HIDE DEF W
  <2> QED BY <2>1, <2>2, <2>5, <2>6, Zenon
<1>1. W = F(W)
  <2>1. d + n - 0 \in Nat /\ s + n - 0 \in Nat OBVIOUS
  <2>2. Move(m, d + n - 0, s + n - 0, 0) = m BY <2>1, MoveNone, Zenon
  <2>3. W[0] = m BY <2>2
  <2> QED BY <1>0, <2>3, Zenon
<1> DEFINE f == CHOOSE g : g = F(g)
<1>2. f = F(f)
  <2> HIDE DEF W, F
  <2> QED BY <1>1, Zenon
<1>3. CopyDown(m, d, s, n) = f[n]
  BY Zenon DEF CopyDown
<1> HIDE DEF f
<1>4. f[n] = W[n]
  <2> DEFINE T == {k \in 0 .. n : f[k] # W[k]}
  <2> SUFFICES ASSUME T # {} PROVE FALSE OBVIOUS
  <2>1. PICK k \in T : \A y \in T : k <= y
    <3> HIDE DEF T
    <3>1. T \in SUBSET Nat BY DEF T
    <3> QED BY <3>1, Least, Zenon
  <2>2. k # 0
    BY <1>1, <1>2, Zenon
  <2>3. f[k - 1] = W[k - 1]
    <3>1. k - 1 \in 0 .. n /\ k - 1 \notin T BY <2>1, <2>2
    <3> HIDE DEF W
    <3> QED BY <3>1, Zenon
  <2>4. f[k] = Move(f[k - 1], d + n - k, s + n - k, 1)
    BY <1>2, <2>2, Zenon
  <2> HIDE DEF W
  <2> QED BY <1>0, <2>1, <2>2, <2>3, <2>4, Zenon
<1>5. W[n] = Move(m, d, s, n)
  <2>1. d + n - n = d /\ s + n - n = s OBVIOUS
  <2> QED BY <2>1
<1> QED BY <1>3, <1>4, <1>5, Zenon

\* Two stores of the same byte, one after the other.
LEMMA FillFill ==
    ASSUME NEW top \in Nat, NEW m, IsMemory(m, top), NEW d \in Nat, NEW c,
           NEW a \in Nat, NEW b \in Nat
    PROVE  Fill(Fill(m, d, c, a), d + a, c, b) = Fill(m, d, c, a + b)
<1> DEFINE mm == Fill(m, d, c, a)
<1>1. /\ DOMAIN mm = 0 .. top
      /\ \A x \in 0 .. top : mm[x] = IF x \in d .. d + a - 1 THEN c ELSE m[x]
  BY Zenon DEF Fill, IsMemory
<1> HIDE DEF mm
<1>2. Fill(mm, d + a, c, b)
        = [x \in 0 .. top |-> IF x \in d + a .. d + a + b - 1 THEN c ELSE mm[x]]
  BY <1>1, Zenon DEF Fill
<1>3. Fill(m, d, c, a + b) = [x \in 0 .. top |-> IF x \in d .. d + (a + b) - 1 THEN c ELSE m[x]]
  BY Zenon DEF Fill, IsMemory
<1>4. ASSUME NEW x \in 0 .. top
      PROVE  (IF x \in d + a .. d + a + b - 1 THEN c ELSE mm[x])
               = IF x \in d .. d + (a + b) - 1 THEN c ELSE m[x]
  BY <1>1
<1> QED BY <1>2, <1>3, <1>4, Zenon DEF mm

\* n rounds of a loop that stores a byte fill the n units.
LEMMA FillsUp ==
    ASSUME NEW top \in Nat, NEW m, IsMemory(m, top), NEW d \in Nat, NEW c,
           NEW w \in Nat, NEW n \in Nat
    PROVE  FillUp(m, d, c, w, n) = Fill(m, d, c, n * w)
<1> DEFINE F(f) == [k \in 0 .. n |->
                      IF k = 0 THEN m ELSE Fill(f[k - 1], d + (k - 1) * w, c, w)]
           W == [k \in 0 .. n |-> Fill(m, d, c, k * w)]
<1>0. ASSUME NEW k \in 0 .. n, k # 0
      PROVE  Fill(W[k - 1], d + (k - 1) * w, c, w) = W[k]
  <2> DEFINE a == (k - 1) * w
  <2>1. a \in Nat /\ a + w = k * w BY <1>0, Z3
  <2>2. W[k - 1] = Fill(m, d, c, a) /\ W[k] = Fill(m, d, c, a + w)
    BY <1>0, <2>1
  <2> HIDE DEF a, W
  <2>3. Fill(Fill(m, d, c, a), d + a, c, w) = Fill(m, d, c, a + w)
    <3>1. a \in Nat BY <2>1, Zenon
    <3> QED BY <3>1, FillFill
  <2> QED BY <2>2, <2>3, Zenon DEF a
<1>1. W = F(W)
  <2>1. 0 * w = 0 /\ \A x \in 0 .. top : x \notin d .. d + 0 - 1 OBVIOUS
  <2>2. Fill(m, d, c, 0) = m BY <2>1, Zenon DEF Fill, IsMemory
  <2>3. W[0] = m BY <2>1, <2>2
  <2> QED BY <1>0, <2>3, Zenon
<1> DEFINE f == CHOOSE g : g = F(g)
<1>2. f = F(f)
  <2> HIDE DEF W, F
  <2> QED BY <1>1, Zenon
<1>3. FillUp(m, d, c, w, n) = f[n]
  BY Zenon DEF FillUp
<1> HIDE DEF f
<1>4. f[n] = W[n]
  <2> DEFINE T == {k \in 0 .. n : f[k] # W[k]}
  <2> SUFFICES ASSUME T # {} PROVE FALSE OBVIOUS
  <2>1. PICK k \in T : \A y \in T : k <= y
    <3> HIDE DEF T
    <3>1. T \in SUBSET Nat BY DEF T
    <3> QED BY <3>1, Least, Zenon
  <2>2. k # 0
    BY <1>1, <1>2, Zenon
  <2>3. f[k - 1] = W[k - 1]
    <3>1. k - 1 \in 0 .. n /\ k - 1 \notin T BY <2>1, <2>2
    <3> HIDE DEF W
    <3> QED BY <3>1, Zenon
  <2>4. f[k] = Fill(f[k - 1], d + (k - 1) * w, c, w)
    BY <1>2, <2>2, Zenon
  <2> HIDE DEF W
  <2> QED BY <1>0, <2>1, <2>2, <2>3, <2>4, Zenon
<1> QED BY <1>3, <1>4

\* A copy is a memory of the same size.
LEMMA MoveMemory ==
    ASSUME NEW top \in Nat, NEW m, IsMemory(m, top), NEW d \in Nat, NEW s \in Nat, NEW n \in Nat
    PROVE  /\ IsMemory(Move(m, d, s, n), top) /\ DOMAIN m = 0 .. top
           /\ \A x \in 0 .. top :
                Move(m, d, s, n)[x] = IF x \in d .. d + n - 1 THEN m[s + (x - d)] ELSE m[x]
BY Zenon DEF IsMemory, Move

-----------------------------------------------------------------------------
(* memmove(), memcpy() and memset(). *)

\* memmove() goes down where the operands overlap and the destination is above.
LEMMA Memmove ==
    ASSUME NEW top \in Nat, NEW m, IsMemory(m, top), NEW d \in Nat, NEW s \in Nat,
           NEW n \in Nat, n > 0 => s + n <= top + 1
    PROVE  memmove(m, d, s, n) = Move(m, d, s, n)
<1>1. CASE s < d /\ s + n > d
  <2>1. CopyDown(m, d, s, n) = Move(m, d, s, n)
    <3>1. s < d /\ s + n <= top + 1 BY <1>1
    <3> QED BY <3>1, CopiesDown
  <2> QED BY <1>1, <2>1, Zenon DEF memmove
<1>2. CASE ~(s < d /\ s + n > d)
  <2>1. n * 1 = n /\ 1 \in Nat OBVIOUS
  <2>2. Upwards(top, d, s, n * 1) BY <1>2, <2>1 DEF Upwards
  <2>3. CopyUp(m, d, s, 1, n) = Move(m, d, s, n * 1) BY <2>1, <2>2, CopiesUp
  <2> QED BY <1>2, <2>1, <2>3, Zenon DEF memmove
<1> QED BY <1>1, <1>2, Zenon

\* The quotient of len by w.
LEMMA Quotient ==
    ASSUME NEW w \in Nat \ {0}, NEW len \in Nat
    PROVE  /\ len \div w \in Nat /\ (len \div w) * w <= len
           /\ len % w = 0 => (len \div w) * w = len
           /\ \A k \in Nat : k * w + w <= len <=> k < len \div w
<1> DEFINE q == len \div w
<1>1. q \in Nat /\ w * q <= len /\ len < w * (q + 1) /\ len = w * q + (len % w) BY Z3
<1> HIDE DEF q
<1>2. w * q = q * w BY <1>1, Z3
<1>3. ASSUME NEW k \in Nat PROVE k * w + w <= len <=> k < q
  <2>1. k * w + w = w * (k + 1) BY Z3
  <2>2. w * (k + 1) \in Nat /\ w * q \in Nat /\ w * (q + 1) \in Nat BY <1>1, Z3
  <2>3. ASSUME k < q PROVE w * (k + 1) <= w * q
    <3>1. k + 1 <= q BY <1>1, <2>3
    <3> QED BY <1>1, <3>1, Z3
  <2>4. ASSUME q <= k PROVE w * (q + 1) <= w * (k + 1)
    BY <1>1, <2>4, Z3
  <2>5. CASE k < q BY <1>1, <2>1, <2>2, <2>3, <2>5
  <2>6. CASE q <= k BY <1>1, <2>1, <2>2, <2>4, <2>6
  <2> QED BY <1>1, <2>5, <2>6
<1>4. len % w = 0 => q * w = len
  <2>1. q * w \in Int BY <1>1, Z3
  <2> QED BY <1>1, <1>2, <2>1
<1> QED BY <1>1, <1>2, <1>3, <1>4, Zenon DEF q

\* The words of the first loop of memcpy() fit.
LEMMA WordsFit ==
    ASSUME NEW len \in Nat
    PROVE  Words(len) \in Nat /\ Words(len) * WORD \in Nat /\ Words(len) * WORD <= len
<1> DEFINE q == len \div WORD
<1>1. WORD \in Nat \ {0} BY StringsAssumption, Zenon
<1>2. q \in Nat /\ q * WORD <= len /\ \A k \in Nat : k * WORD + WORD <= len <=> k < q
  BY <1>1, Quotient, Zenon
<1> HIDE DEF q
<1>3. \A k \in Nat : k * WORD \in Nat BY <1>1, Z3
<1>4. q <= len
  <2>1. q <= q * WORD BY <1>1, <1>2, Z3
  <2> QED BY <1>2, <1>3, <2>1
<1>5. {k \in 0 .. len : ~(k * WORD < len - (WORD - 1))} = q .. len
  <2>1. ASSUME NEW k \in Nat PROVE k * WORD < len - (WORD - 1) <=> k < q
    <3>1. k * WORD \in Nat /\ (k * WORD + WORD <= len <=> k < q) BY <1>2, <1>3, Zenon
    <3> QED BY <1>1, <3>1
  <2> QED BY <1>2, <1>4, <2>1
<1>6. Min(q .. len) = q
  <2>1. q .. len \in SUBSET Nat /\ q \in q .. len BY <1>2, <1>4
  <2>2. Min(q .. len) \in q .. len /\ Min(q .. len) <= q BY <2>1, MinIs, Zenon
  <2> QED BY <1>2, <2>2
<1> QED BY <1>2, <1>3, <1>5, <1>6, Zenon DEF Words

\* memcpy() by words and the rest by bytes.
LEMMA Memcpy ==
    ASSUME NEW top \in Nat, NEW m, IsMemory(m, top), NEW d \in Nat, NEW s \in Nat,
           NEW n \in Nat, n > 0 => s + n <= top + 1, Apart(d, s, n)
    PROVE  memcpy(m, d, s, n) = Move(m, d, s, n)
<1> DEFINE words == IF d % WORD = 0 /\ s % WORD = 0 THEN Words(n) ELSE 0
           done == words * WORD
           mm == CopyUp(m, d, s, WORD, words)
<1>1. WORD \in Nat BY StringsAssumption, Zenon
<1>2. words \in Nat /\ done \in Nat /\ done <= n
  <2>1. 0 * WORD = 0 BY <1>1
  <2> QED BY <2>1, WordsFit
<1>3. memcpy(m, d, s, n) = CopyUp(mm, d + done, s + done, 1, n - done)
  BY Zenon DEF memcpy
<1>4. mm = Move(m, d, s, done)
  <2>1. Upwards(top, d, s, done) BY <1>2 DEF Upwards, Apart
  <2> HIDE DEF words
  <2> QED BY <1>1, <1>2, <2>1, CopiesUp
<1> HIDE DEF words, done, mm
<1>5. PICK r : r = n - done BY Zenon
<1>6. r \in Nat /\ r * 1 = r /\ done + r = n /\ n - done = r BY <1>2, <1>5
<1>7. IsMemory(mm, top) BY <1>2, <1>4, MoveMemory, Zenon
<1>8. CopyUp(mm, d + done, s + done, 1, r) = Move(mm, d + done, s + done, r * 1)
  <2>1. Upwards(top, d + done, s + done, r * 1) BY <1>2, <1>6 DEF Upwards, Apart
  <2>2. d + done \in Nat /\ s + done \in Nat /\ 1 \in Nat BY <1>2
  <2> QED BY <1>6, <1>7, <2>1, <2>2, CopiesUp
<1>9. Move(Move(m, d, s, done), d + done, s + done, r) = Move(m, d, s, done + r)
  <2>1. Upwards(top, d, s, done + r) BY <1>2, <1>6 DEF Upwards, Apart
  <2> QED BY <1>2, <1>6, <2>1, MoveMove
<1> QED BY <1>3, <1>4, <1>6, <1>8, <1>9, Zenon

\* memset() by words or by bytes.
LEMMA Memset ==
    ASSUME NEW top \in Nat, NEW m, IsMemory(m, top), NEW d \in Nat, NEW c, NEW n \in Nat
    PROVE  memset(m, d, c, n) = Fill(m, d, c, n)
<1>1. WORD \in Nat \ {0} BY StringsAssumption, Zenon
<1>2. CASE d % WORD = 0 /\ n % WORD = 0
  <2>1. n \div WORD \in Nat /\ (n \div WORD) * WORD = n BY <1>1, <1>2, Quotient, Zenon
  <2>2. PICK k : k = n \div WORD BY Zenon
  <2>3. FillUp(m, d, c, WORD, k) = Fill(m, d, c, k * WORD) BY <1>1, <2>1, <2>2, FillsUp
  <2> QED BY <1>2, <2>1, <2>2, <2>3, Zenon DEF memset
<1>3. CASE ~(d % WORD = 0 /\ n % WORD = 0)
  <2>1. FillUp(m, d, c, 1, n) = Fill(m, d, c, n * 1) BY FillsUp
  <2>2. n * 1 = n OBVIOUS
  <2> QED BY <1>3, <2>1, <2>2, Zenon DEF memset
<1> QED BY <1>2, <1>3, Zenon

-----------------------------------------------------------------------------
(* The functions on strings. *)

\* A string that ends has the bytes of its length before the first NUL.
LEMMA LengthIs ==
    ASSUME NEW top \in Nat, NEW m, IsMemory(m, top), top = Max(DOMAIN m), NEW s \in Nat,
           s \in Strings(m)
    PROVE  /\ Length(m, s) \in Nat /\ s + Length(m, s) <= top /\ m[s + Length(m, s)] = 0
           /\ \A k \in Nat : k < Length(m, s) => m[s + k] # 0
<1> DEFINE K == {k \in 0 .. top - s : m[s + k] = 0}
<1>1. DOMAIN m = 0 .. top BY DEF IsMemory
<1>2. K \in SUBSET Nat OBVIOUS
<1>3. K # {}
  <2>1. PICK z \in 0 .. top : z >= s /\ m[z] = 0 BY <1>1, Zenon DEF Strings
  <2>2. z - s \in 0 .. top - s /\ s + (z - s) = z BY <2>1
  <2> QED BY <2>1, <2>2, Zenon
<1>4. Length(m, s) = Min(K) BY Zenon DEF Length
<1>5. Min(K) \in K /\ \A k \in K : Min(K) <= k
  <2> HIDE DEF K
  <2> QED BY <1>2, <1>3, MinIs, Zenon
<1>6. PICK l : l = Min(K) BY Zenon
<1>7. l \in 0 .. top - s /\ m[s + l] = 0 BY <1>5, <1>6, Zenon
<1>8. ASSUME NEW k \in Nat, k < l, m[s + k] = 0 PROVE FALSE
  <2>1. k \in K BY <1>7, <1>8
  <2> HIDE DEF K
  <2> QED BY <1>5, <1>6, <1>7, <1>8, <2>1
<1> HIDE DEF K
<1> QED BY <1>4, <1>6, <1>7, <1>8

\* The length is the distance to the first NUL.
LEMMA LengthOnly ==
    ASSUME NEW top \in Nat, NEW m, IsMemory(m, top), top = Max(DOMAIN m), NEW s \in Nat,
           NEW l \in Nat, s + l <= top, m[s + l] = 0, \A k \in Nat : k < l => m[s + k] # 0
    PROVE  s \in Strings(m) /\ Length(m, s) = l
<1>1. DOMAIN m = 0 .. top BY DEF IsMemory
<1>2. s \in Strings(m)
  <2>1. s + l \in 0 .. top /\ s + l >= s /\ s \in 0 .. top OBVIOUS
  <2> QED BY <1>1, <2>1, Zenon DEF Strings
<1>3. PICK j : j = Length(m, s) BY Zenon
<1>4. j \in Nat /\ m[s + j] = 0 /\ \A k \in Nat : k < j => m[s + k] # 0
  BY <1>2, <1>3, LengthIs, Zenon
<1>5. j = l BY <1>4
<1> QED BY <1>2, <1>3, <1>5, Zenon

\* A string that does not end here ends one byte further.
LEMMA NextByte ==
    ASSUME NEW top \in Nat, NEW m, IsMemory(m, top), top = Max(DOMAIN m), NEW s \in Nat,
           s \in Strings(m), m[s] # 0
    PROVE  s + 1 \in Strings(m) /\ Length(m, s) = Length(m, s + 1) + 1 /\ Length(m, s + 1) \in Nat
<1>1. PICK l : l = Length(m, s) BY Zenon
<1>2. l \in Nat /\ s + l <= top /\ m[s + l] = 0 /\ \A k \in Nat : k < l => m[s + k] # 0
  BY <1>1, LengthIs
<1>3. l # 0 BY <1>2
<1>4. PICK j : j = l - 1 BY Zenon
<1>5. j \in Nat /\ l = j + 1 BY <1>2, <1>3, <1>4
<1>6. s + 1 + j <= top /\ m[s + 1 + j] = 0
  <2>1. s + 1 + j = s + l BY <1>5
  <2> QED BY <1>2, <2>1, Zenon
<1>7. ASSUME NEW k \in Nat, k < j PROVE m[s + 1 + k] # 0
  <2>1. s + 1 + k = s + (k + 1) /\ k + 1 \in Nat /\ k + 1 < l BY <1>5, <1>7
  <2> QED BY <1>2, <2>1, Zenon
<1>8. s + 1 \in Nat OBVIOUS
<1>9. s + 1 \in Strings(m) /\ Length(m, s + 1) = j
  <2>1. PICK t : t = s + 1 BY Zenon
  <2>2. t \in Nat /\ t + j <= top /\ m[t + j] = 0 /\ \A k \in Nat : k < j => m[t + k] # 0
    BY <1>6, <1>7, <1>8, <2>1, Zenon
  <2>3. t \in Strings(m) /\ Length(m, t) = j
    BY <1>5, <2>2, LengthOnly, ZenonT(30)
  <2> QED BY <2>1, <2>3, Zenon
<1> QED BY <1>1, <1>5, <1>9, Zenon

\* strlen() counts the bytes of a string.
LEMMA Strlen ==
    ASSUME NEW top \in Nat, NEW m, IsMemory(m, top), top = Max(DOMAIN m), NEW s \in Nat,
           s \in Strings(m)
    PROVE  strlen(m, s) = Length(m, s)
<1> DEFINE F(f) == [at \in Strings(m) |-> IF m[at] # 0 THEN f[at + 1] ELSE at]
           W == [at \in Strings(m) |-> at + Length(m, at)]
<1>0. ASSUME NEW at \in Strings(m)
      PROVE  /\ at \in Nat /\ Length(m, at) \in Nat
             /\ m[at] = 0 => Length(m, at) = 0
             /\ m[at] # 0 => /\ at + 1 \in Strings(m) /\ Length(m, at) = Length(m, at + 1) + 1
                            /\ Length(m, at + 1) \in Nat
  <2>1. at \in Nat BY DEF Strings, IsMemory
  <2>2. Length(m, at) \in Nat /\ \A k \in Nat : k < Length(m, at) => m[at + k] # 0
    BY <2>1, LengthIs
  <2>3. at + 0 = at BY <2>1
  <2>4. m[at] = 0 => Length(m, at) = 0 BY <2>2, <2>3
  <2>5. CASE m[at] # 0
    BY <2>1, <2>2, <2>5, NextByte, Zenon
  <2> QED BY <2>1, <2>2, <2>4, <2>5, Zenon
<1>1. W = F(W)
  <2>1. ASSUME NEW at \in Strings(m) PROVE W[at] = IF m[at] # 0 THEN W[at + 1] ELSE at
    BY <1>0
  <2> QED BY <2>1, Zenon
<1> DEFINE f == CHOOSE g : g = F(g)
<1>2. f = F(f)
  <2> HIDE DEF W, F
  <2> QED BY <1>1, Zenon
<1>3. strlen(m, s) = f[s] - s
  BY Zenon DEF strlen
<1> HIDE DEF f
<1>4. f[s] = W[s]
  <2> DEFINE T == {l \in Nat : \E at \in Strings(m) : l = Length(m, at) /\ f[at] # W[at]}
  <2> SUFFICES ASSUME T # {} PROVE FALSE
    BY <1>0, Zenon
  <2>1. PICK l \in T : \A y \in T : l <= y
    <3> HIDE DEF T
    <3>1. T \in SUBSET Nat BY Zenon DEF T
    <3> QED BY <3>1, Least, Zenon
  <2>2. PICK at \in Strings(m) : l = Length(m, at) /\ f[at] # W[at] BY <2>1, Zenon
  <2>3. m[at] # 0
    BY <1>0, <1>2, <2>2
  <2>4. at + 1 \in Strings(m) /\ Length(m, at + 1) \in Nat /\ l = Length(m, at + 1) + 1
    BY <1>0, <2>2, <2>3, Zenon
  <2>5. f[at] = f[at + 1] /\ W[at] = W[at + 1]
    BY <1>1, <1>2, <2>3, Zenon
  <2> HIDE DEF W
  <2>6. Length(m, at + 1) \in T BY <2>2, <2>4, <2>5, Zenon
  <2> HIDE DEF T
  <2> QED BY <2>1, <2>4, <2>6
<1>5. Length(m, s) \in Nat BY <1>0, Zenon
<1>6. W[s] = s + Length(m, s) BY Zenon
<1> HIDE DEF W
<1>7. f[s] = s + Length(m, s) BY <1>4, <1>6, Zenon
<1>8. f[s] - s = Length(m, s) BY <1>5, <1>7
<1> QED BY <1>3, <1>8, Zenon

\* The k-th round of a copying loop stores the k-th byte of the string.
LEMMA RoundStores ==
    ASSUME NEW top \in Nat, NEW m, IsMemory(m, top), NEW d \in Nat, NEW s \in Nat,
           NEW k \in Nat, k > 0, d + k <= top + 1, Upwards(top, d, s, k)
    PROVE  /\ StoresNul(m, d, s, k) <=> m[s + k - 1] = 0
           /\ CopyUp(m, d, s, 1, k) = Move(m, d, s, k)
<1>1. k * 1 = k /\ 1 \in Nat OBVIOUS
<1>2. CopyUp(m, d, s, 1, k) = Move(m, d, s, k)
  <2>1. CopyUp(m, d, s, 1, k) = Move(m, d, s, k * 1) BY <1>1, CopiesUp
  <2> QED BY <1>1, <2>1, Zenon
<1>3. PICK x : x = d + k - 1 BY Zenon
<1>4. /\ x \in 0 .. top /\ x \in d .. d + k - 1 /\ s + (x - d) = s + k - 1
      /\ s + k - 1 \in 0 .. top
  BY <1>3 DEF Upwards
<1>5. Move(m, d, s, k)[x] = m[s + k - 1] /\ DOMAIN m = 0 .. top
  <2>1. /\ DOMAIN m = 0 .. top
        /\ \A y \in 0 .. top :
             Move(m, d, s, k)[y] = IF y \in d .. d + k - 1 THEN m[s + (y - d)] ELSE m[y]
    BY MoveMemory
  <2> QED BY <1>4, <2>1, Zenon
<1> QED BY <1>2, <1>3, <1>4, <1>5, Zenon DEF StoresNul

\* strcpy() copies a string and its NUL.
LEMMA Strcpy ==
    ASSUME NEW top \in Nat, NEW m, IsMemory(m, top), top = Max(DOMAIN m), NEW d \in Nat,
           NEW s \in Nat, s \in Strings(m), d + Length(m, s) + 1 <= top + 1,
           Apart(d, s, Length(m, s) + 1)
    PROVE  strcpy(m, d, s) = Move(m, d, s, Length(m, s) + 1)
<1>1. PICK l : l = Length(m, s) BY Zenon
<1>2. l \in Nat /\ s + l <= top /\ m[s + l] = 0 /\ \A k \in Nat : k < l => m[s + k] # 0
  BY <1>1, LengthIs
<1> DEFINE R == {k \in 1 .. top + 1 : StoresNul(m, d, s, k)}
<1>3. ASSUME NEW k \in 1 .. l + 1
      PROVE  /\ k \in R <=> m[s + k - 1] = 0
             /\ CopyUp(m, d, s, 1, k) = Move(m, d, s, k)
  <2>1. k \in Nat /\ k > 0 /\ d + k <= top + 1 /\ Upwards(top, d, s, k) /\ k \in 1 .. top + 1
    BY <1>1, <1>2 DEF Upwards, Apart
  <2> QED BY <2>1, RoundStores
<1>4. l + 1 \in R
  <2>1. l + 1 \in 1 .. l + 1 /\ s + (l + 1) - 1 = s + l BY <1>2
  <2> HIDE DEF R
  <2> QED BY <1>2, <1>3, <2>1, Zenon
<1>5. ASSUME NEW k \in R, k < l + 1 PROVE FALSE
  <2>1. k \in 1 .. l + 1 /\ k - 1 \in Nat /\ k - 1 < l /\ s + k - 1 = s + (k - 1) BY <1>2, <1>5
  <2> HIDE DEF R
  <2> QED BY <1>2, <1>3, <1>5, <2>1, Zenon
<1>6. Min(R) = l + 1
  <2>1. R \in SUBSET Nat OBVIOUS
  <2> HIDE DEF R
  <2>2. PICK q : q = Min(R) BY Zenon
  <2>3. q \in R /\ q \in Nat /\ q <= l + 1 BY <1>4, <2>1, <2>2, MinIs, Zenon
  <2>4. ~(q < l + 1) BY <1>5, <2>3, Zenon
  <2> QED BY <1>2, <2>2, <2>3, <2>4
<1>7. strcpy(m, d, s) = CopyUp(m, d, s, 1, Min(R)) BY Zenon DEF strcpy
<1> HIDE DEF R
<1>8. l + 1 \in 1 .. l + 1 BY <1>2
<1> QED BY <1>1, <1>3, <1>6, <1>7, <1>8, Zenon

\* The memory r is m with as much of the string at s, and a NUL, as n bytes at d take.
CutCopy(m, d, s, n, r) ==
    LET k == Min({Length(m, s), n - 1})
    IN  /\ \A a \in DOMAIN m \ (d .. d + n - 1) : r[a] = m[a]
        /\ \A a \in d .. d + k - 1 : r[a] = m[s + a - d]
        /\ r[d + k] = 0

\* safestrcpy() copies what fits in n - 1 bytes, ends it with a NUL, and writes no other byte.
LEMMA Safestrcpy ==
    ASSUME NEW top \in Nat, NEW m, IsMemory(m, top), top = Max(DOMAIN m), NEW d \in Nat,
           NEW s \in Nat, s \in Strings(m), NEW n \in Nat, n > 0, d + n <= top + 1,
           Apart(d, s, Length(m, s) + 1)
    PROVE  CutCopy(m, d, s, n, safestrcpy(m, d, s, n))
<1>1. PICK l : l = Length(m, s) BY Zenon
<1>2. l \in Nat /\ s + l <= top /\ m[s + l] = 0 /\ \A k \in Nat : k < l => m[s + k] # 0
  BY <1>1, LengthIs
<1> DEFINE R == {k \in 0 .. n - 1 : k = n - 1 \/ (k > 0 /\ StoresNul(m, d, s, k))}
<1>3. PICK q : q = Min(R) BY Zenon
<1>4. q \in R /\ \A k \in R : q <= k
  <2>1. R \in SUBSET Nat /\ n - 1 \in R OBVIOUS
  <2> HIDE DEF R
  <2> QED BY <1>3, <2>1, MinIs, Zenon
<1>5. ASSUME NEW k \in Nat, k > 0, k <= l + 1, k <= n - 1
      PROVE  /\ StoresNul(m, d, s, k) <=> m[s + k - 1] = 0
             /\ CopyUp(m, d, s, 1, k) = Move(m, d, s, k)
  <2>1. d + k <= top + 1 /\ Upwards(top, d, s, k)
    BY <1>1, <1>2, <1>5 DEF Upwards, Apart
  <2> QED BY <1>5, <2>1, RoundStores
<1>6. q \in Nat /\ q <= n - 1 /\ q <= l + 1 /\ (q = l + 1 \/ (q = n - 1 /\ q <= l))
  <2>1. q \in Nat /\ q <= n - 1 BY <1>4
  <2>2. CASE l + 1 <= n - 1
    <3>1. l + 1 \in R
      <4>1. s + (l + 1) - 1 = s + l /\ l + 1 \in Nat /\ l + 1 > 0 /\ l + 1 <= l + 1 BY <1>2
      <4>2. StoresNul(m, d, s, l + 1) BY <1>2, <1>5, <2>2, <4>1, Zenon
      <4> QED BY <2>2, <4>1, <4>2
    <3>2. q <= l + 1 BY <1>4, <3>1, Zenon
    <3>3. ASSUME q < l + 1 PROVE FALSE
      <4>1. q # n - 1 BY <1>2, <2>1, <2>2, <3>3
      <4>2. q > 0 /\ StoresNul(m, d, s, q) BY <1>4, <4>1, Zenon
      <4>3. m[s + q - 1] = 0 BY <1>5, <2>1, <3>2, <4>2, Zenon
      <4>4. q - 1 \in Nat /\ q - 1 < l /\ s + q - 1 = s + (q - 1) BY <1>2, <2>1, <3>3, <4>2
      <4> QED BY <1>2, <4>3, <4>4, Zenon
    <3>4. q = l + 1 BY <1>2, <2>1, <3>2, <3>3
    <3> QED BY <1>2, <2>1, <3>4
  <2>3. CASE l + 1 > n - 1
    <3>1. ASSUME q < n - 1 PROVE FALSE
      <4>1. q > 0 /\ StoresNul(m, d, s, q) BY <1>4, <2>1, <3>1
      <4>2. q <= l + 1 BY <1>2, <2>1, <2>3, <3>1
      <4>3. m[s + q - 1] = 0 BY <1>5, <2>1, <4>1, <4>2, Zenon
      <4>4. q - 1 \in Nat /\ q - 1 < l /\ s + q - 1 = s + (q - 1)
        BY <1>2, <2>1, <2>3, <3>1, <4>1
      <4> QED BY <1>2, <4>3, <4>4, Zenon
    <3> QED BY <1>2, <2>1, <2>3, <3>1
  <2> QED BY <1>2, <2>2, <2>3
<1> DEFINE mm == Move(m, d, s, q)
<1>7. CopyUp(m, d, s, 1, q) = mm
  <2>1. CASE q > 0 BY <1>5, <1>6, <2>1, Zenon
  <2>2. CASE q = 0
    <3>1. 0 * 1 = 0 /\ Upwards(top, d, s, 0 * 1) BY <1>2 DEF Upwards, Apart
    <3>2. CopyUp(m, d, s, 1, 0) = Move(m, d, s, 0 * 1) BY <3>1, CopiesUp
    <3> QED BY <2>2, <3>1, <3>2, Zenon
  <2> QED BY <1>6, <2>1, <2>2
<1>8. safestrcpy(m, d, s, n) = Fill(mm, d + q, 0, 1)
  <2>1. safestrcpy(m, d, s, n) = Fill(CopyUp(m, d, s, 1, Min(R)), d + Min(R), 0, 1)
    BY DEF safestrcpy
  <2> HIDE DEF R, mm
  <2> QED BY <1>3, <1>7, <2>1, Zenon
<1> HIDE DEF R
<1>9. /\ IsMemory(mm, top) /\ DOMAIN m = 0 .. top
      /\ \A x \in 0 .. top : mm[x] = IF x \in d .. d + q - 1 THEN m[s + (x - d)] ELSE m[x]
  BY <1>6, MoveMemory
<1> HIDE DEF mm
<1> DEFINE r == Fill(mm, d + q, 0, 1)
<1>10. \A x \in 0 .. top : r[x] = IF x \in d + q .. d + q + 1 - 1 THEN 0 ELSE mm[x]
  BY <1>9 DEF Fill, IsMemory
<1> HIDE DEF r
<1>11. ASSUME NEW a \in (0 .. top) \ (d .. d + n - 1) PROVE r[a] = m[a]
  <2>1. a \notin d + q .. d + q + 1 - 1 /\ a \notin d .. d + q - 1 BY <1>6
  <2> QED BY <1>9, <1>10, <2>1, Zenon
<1>12. PICK k : k = Min({l, n - 1}) BY Zenon
<1>13. k = IF l <= n - 1 THEN l ELSE n - 1
  <2>1. {l, n - 1} \in SUBSET Nat /\ {l, n - 1} # {} BY <1>2
  <2>2. Min({l, n - 1}) \in {l, n - 1} /\ \A y \in {l, n - 1} : Min({l, n - 1}) <= y
    BY <2>1, MinIs, Zenon
  <2> QED BY <1>2, <1>12, <2>2
<1>14. k \in Nat /\ k <= q /\ k <= n - 1 BY <1>2, <1>6, <1>13
<1>15. ASSUME NEW a \in d .. d + k - 1 PROVE r[a] = m[s + a - d]
  <2>1. a \in 0 .. top /\ a \notin d + q .. d + q + 1 - 1 /\ a \in d .. d + q - 1
    BY <1>6, <1>14
  <2> QED BY <1>9, <1>10, <2>1, Zenon
<1>16. r[d + k] = 0
  <2>0. d + k \in 0 .. top BY <1>14
  <2>1. CASE k = q
    <3>1. d + k \in d + q .. d + q + 1 - 1 BY <1>6, <2>1
    <3> QED BY <1>10, <2>0, <3>1, Zenon
  <2>2. CASE k # q
    <3>1. q = l + 1 /\ k = l BY <1>2, <1>6, <1>13, <1>14, <2>2
    <3>2. /\ d + k \notin d + q .. d + q + 1 - 1 /\ d + k \in d .. d + q - 1
          /\ s + ((d + k) - d) = s + l
      BY <1>2, <3>1
    <3> QED BY <1>2, <1>9, <1>10, <2>0, <3>2, Zenon
  <2> QED BY <2>1, <2>2, Zenon
<1>17. CutCopy(m, d, s, n, r)
  BY <1>1, <1>9, <1>11, <1>12, <1>15, <1>16, Zenon DEF CutCopy
<1> QED BY <1>8, <1>17, Zenon DEF r

\* The difference of the first bytes in which the strings at d and s differ.
Difference(m, d, s) ==
    LET differ == {k \in 0 .. Length(m, s) : m[d + k] # m[s + k]}
    IN  IF differ = {} THEN 0 ELSE m[d + Min(differ)] - m[s + Min(differ)]

\* strcmp() compares up to the first byte that differs or ends both strings.
LEMMA Strcmp ==
    ASSUME NEW top \in Nat, NEW m, IsMemory(m, top), top = Max(DOMAIN m), NEW d \in Nat,
           NEW s \in Nat, d \in Strings(m), s \in Strings(m),
           \A a \in 0 .. top : m[a] \in Nat
    PROVE  strcmp(m, d, s) = Difference(m, d, s)
<1> DEFINE K == {k \in 0 .. top : {d + k, s + k} \subseteq Strings(m)}
           On(k) == m[d + k] # 0 /\ m[d + k] = m[s + k]
           F(f) == [k \in K |-> IF On(k) THEN f[k + 1] ELSE m[d + k] - m[s + k]]
           Stops(k) == {j \in K : j >= k /\ ~On(j)}
           W == [k \in K |-> m[d + Min(Stops(k))] - m[s + Min(Stops(k))]]
<1>0. DOMAIN m = 0 .. top BY DEF IsMemory
<1>k. ASSUME NEW k \in K, On(k) PROVE k + 1 \in K
  <2>1. d + k \in Nat /\ s + k \in Nat /\ d + k \in Strings(m) /\ s + k \in Strings(m)
        /\ m[d + k] # 0 /\ m[s + k] # 0
    BY <1>k
  <2>2. d + k + 1 \in Strings(m) /\ s + k + 1 \in Strings(m)
    BY <2>1, NextByte, Zenon
  <2>3. d + k + 1 \in 0 .. top BY <1>0, <2>2, Zenon DEF Strings
  <2>4. d + (k + 1) = d + k + 1 /\ s + (k + 1) = s + k + 1 /\ k + 1 \in 0 .. top BY <2>3
  <2> QED BY <2>2, <2>4, Zenon
<1>s. ASSUME NEW k \in K PROVE Stops(k) \in SUBSET Nat /\ Stops(k) # {}
  <2>1. Stops(k) \in SUBSET Nat OBVIOUS
  <2> DEFINE T == {top - j : j \in {j \in K : j >= k /\ \A i \in K : i >= k /\ i < j => On(i)}}
  <2>2. T \in SUBSET Nat /\ top - k \in T BY <1>s
  <2>3. PICK t \in T : \A y \in T : t <= y
    <3> HIDE DEF T
    <3> QED BY <2>2, Least, Zenon
  <2>4. PICK j \in K : t = top - j /\ j >= k /\ \A i \in K : i >= k /\ i < j => On(i) BY <2>3, Zenon
  <2>5. ~On(j)
    <3> SUFFICES ASSUME On(j) PROVE FALSE BY Zenon
    <3>1. j + 1 \in K BY <1>k, <2>4, Zenon
    <3>2. j \in Nat /\ \A i \in K : i \in Nat /\ (i < j + 1 => i < j \/ i = j) OBVIOUS
    <3> HIDE DEF On
    <3>3. \A i \in K : i >= k /\ i < j + 1 => On(i) BY <2>4, <3>2, Zenon
    <3>4. top - (j + 1) \in T BY <2>4, <3>1, <3>2, <3>3
    <3> HIDE DEF T
    <3> QED BY <2>3, <2>4, <3>2, <3>4
  <2> QED BY <2>1, <2>4, <2>5, Zenon
<1>e. ASSUME NEW k \in K
      PROVE  Min(Stops(k)) \in Stops(k) /\ \A j \in Stops(k) : Min(Stops(k)) <= j
  <2> HIDE DEF Stops
  <2> QED BY <1>s, MinIs, Zenon
<1>w. ASSUME NEW k \in K PROVE W[k] = IF On(k) THEN W[k + 1] ELSE m[d + k] - m[s + k]
  <2>1. CASE On(k)
    <3>1. k + 1 \in K BY <1>k, <2>1, Zenon
    <3>2. Stops(k) = Stops(k + 1) BY <2>1
    <3> HIDE DEF Stops, On
    <3> QED BY <2>1, <3>1, <3>2, Zenon
  <2>2. CASE ~On(k)
    <3>1. k \in Stops(k) BY <2>2
    <3>2. Min(Stops(k)) = k
      <4>1. PICK e : e = Min(Stops(k)) BY Zenon
      <4>2. e \in Stops(k) /\ e <= k BY <1>e, <3>1, <4>1, Zenon
      <4> QED BY <4>1, <4>2
    <3> HIDE DEF Stops, On
    <3> QED BY <2>2, <3>2, Zenon
  <2> QED BY <2>1, <2>2, Zenon
<1>1. W = F(W)
  <2> HIDE DEF On, Stops, K
  <2> QED BY <1>w, Zenon
<1> DEFINE f == CHOOSE g : g = F(g)
<1>2. f = F(f)
  <2> HIDE DEF W, F
  <2> QED BY <1>1, Zenon
<1>3. strcmp(m, d, s) = f[0]
  BY Zenon DEF strcmp
<1> HIDE DEF f
<1>4. 0 \in K
  <2>1. d + 0 = d /\ s + 0 = s OBVIOUS
  <2> QED BY <2>1
<1>5. f[0] = W[0]
  <2> DEFINE T == {t \in Nat : \E k \in K : t = top - k /\ f[k] # W[k]}
  <2> SUFFICES ASSUME T # {} PROVE FALSE
    <3>1. top - 0 \in Nat OBVIOUS
    <3> HIDE DEF W
    <3> QED BY <1>4, <3>1, Zenon
  <2>1. PICK t \in T : \A y \in T : t <= y
    <3> HIDE DEF T
    <3>1. T \in SUBSET Nat BY Zenon DEF T
    <3> QED BY <3>1, Least, Zenon
  <2>2. PICK k \in K : t = top - k /\ f[k] # W[k] BY <2>1, Zenon
  <2> HIDE DEF W, On
  <2>3. On(k)
    BY <1>2, <1>w, <2>2, Zenon
  <2>4. k + 1 \in K /\ f[k] = f[k + 1] /\ W[k] = W[k + 1]
    BY <1>2, <1>k, <1>w, <2>3, Zenon
  <2>5. top - (k + 1) \in Nat /\ top - (k + 1) < top - k BY <2>4
  <2>6. top - (k + 1) \in T BY <2>2, <2>4, <2>5, Zenon
  <2> HIDE DEF T
  <2> QED BY <2>1, <2>2, <2>5, <2>6
<1>6. PICK e : e = Min(Stops(0)) BY Zenon
<1>7. strcmp(m, d, s) = m[d + e] - m[s + e]
  <2> HIDE DEF Stops, f
  <2> QED BY <1>3, <1>4, <1>5, <1>6, Zenon
<1>8. e \in K /\ ~On(e) /\ e \in Nat
  BY <1>4, <1>6, <1>e
<1>9. ASSUME NEW j \in Nat, j < e PROVE On(j)
  <2>1. d + e \in Strings(m) /\ s + e \in Strings(m) BY <1>8, Zenon
  <2>2. d + j \in Strings(m)
    <3>1. PICK z \in 0 .. top : z >= d + e /\ m[z] = 0 BY <1>0, <2>1, Zenon DEF Strings
    <3>2. d + j \in 0 .. top /\ z >= d + j BY <1>8, <1>9, <3>1
    <3> QED BY <1>0, <3>1, <3>2, Zenon DEF Strings
  <2>3. s + j \in Strings(m)
    <3>1. PICK z \in 0 .. top : z >= s + e /\ m[z] = 0 BY <1>0, <2>1, Zenon DEF Strings
    <3>2. s + j \in 0 .. top /\ z >= s + j BY <1>8, <1>9, <3>1
    <3> QED BY <1>0, <3>1, <3>2, Zenon DEF Strings
  <2>4. j \in K BY <1>8, <1>9, <2>2, <2>3
  <2>5. j \notin Stops(0)
    <3> HIDE DEF Stops
    <3> QED BY <1>4, <1>6, <1>8, <1>9, <1>e
  <2> QED BY <2>4, <2>5
<1>10. PICK l : l = Length(m, s) BY Zenon
<1>11. l \in Nat /\ s + l <= top /\ m[s + l] = 0 /\ \A k \in Nat : k < l => m[s + k] # 0
  BY <1>10, LengthIs
<1>12. e <= l
  <2>1. ~(l < e) BY <1>9, <1>11, Zenon
  <2> QED BY <1>8, <1>11, <2>1
<1>13. d + e \in 0 .. top /\ s + e \in 0 .. top BY <1>0, <1>8, Zenon DEF Strings
<1> DEFINE differ == {k \in 0 .. l : m[d + k] # m[s + k]}
<1>14. \A k \in differ : k \in Nat /\ k >= e
  BY <1>8, <1>9
<1>15. CASE m[d + e] # m[s + e]
  <2>1. e \in differ BY <1>8, <1>12, <1>15
  <2>2. Min(differ) = e
    <3>1. differ \in SUBSET Nat OBVIOUS
    <3> HIDE DEF differ
    <3>2. PICK q : q = Min(differ) BY Zenon
    <3>3. q \in differ /\ q <= e BY <2>1, <3>1, <3>2, MinIs, Zenon
    <3> QED BY <1>8, <1>14, <3>2, <3>3
  <2> HIDE DEF differ
  <2>3. (IF differ = {} THEN 0 ELSE m[d + Min(differ)] - m[s + Min(differ)]) = m[d + e] - m[s + e]
    BY <2>1, <2>2, Zenon
  <2> QED BY <1>7, <1>10, <2>3, Zenon DEF differ, Difference
<1>16. CASE m[d + e] = m[s + e]
  <2>1. m[s + e] = 0 BY <1>8, <1>16, Zenon
  <2>2. e = l BY <1>8, <1>11, <1>12, <2>1
  <2>3. ASSUME NEW k \in differ PROVE FALSE
    <3>1. k = e BY <1>8, <1>14, <2>2
    <3> QED BY <1>16, <3>1, Zenon
  <2>4. m[d + e] - m[s + e] = 0 BY <1>16, <2>1
  <2> HIDE DEF differ
  <2> QED BY <1>7, <1>10, <2>3, <2>4, Zenon DEF differ, Difference
<1> QED BY <1>15, <1>16, Zenon

-----------------------------------------------------------------------------
(* A call of a string function. *)

\* What a call returns is what its name promises.
LEMMA CallRight ==
    ASSUME NEW j \in Jobs, j = call, string_call
    PROVE  Promised(j, result')
<1> DEFINE m == j.m
           d == j.d
           s == j.s
           n == j.n
<1>1. Legal(j) BY JobsAssumption, Zenon
<1>2. PICK top : top = Max(DOMAIN m) BY Zenon
<1>3. /\ top \in Nat /\ m \in [0 .. top -> Nat] /\ d \in Nat /\ s \in Nat /\ n \in Nat
  BY <1>1, <1>2, Zenon DEF Legal
<1>4. IsMemory(m, top) /\ DOMAIN m = 0 .. top BY <1>3, Zenon DEF IsMemory
<1>5. ASSUME NEW a \in Nat, NEW k \in Nat, InMemory(m, a, k), k > 0 PROVE a + k <= top + 1
  <2>1. a + k - 1 \in a .. a + k - 1 BY <1>5
  <2> QED BY <1>3, <1>4, <1>5, <2>1 DEF InMemory
<1>6. /\ j.op = "memcpy" => result' = memcpy(m, d, s, n)
      /\ j.op = "memset" => result' = memset(m, d, s, n)
      /\ j.op = "memmove" => result' = memmove(m, d, s, n)
      /\ j.op = "strcpy" => result' = strcpy(m, d, s)
      /\ j.op = "safestrcpy" => result' = safestrcpy(m, d, s, n)
      /\ j.op = "strlen" => result' = <<strlen(m, s)>>
      /\ j.op = "strcmp" => result' = <<strcmp(m, d, s)>>
  BY Zenon DEF string_call
<1>7. /\ j.op = "memmove" => InMemory(m, s, n)
      /\ j.op = "memcpy" => InMemory(m, s, n) /\ Apart(d, s, n)
      /\ j.op \in {"strlen", "strcpy", "safestrcpy", "strcmp"} => s \in Strings(m)
      /\ j.op = "strcmp" => d \in Strings(m)
      /\ j.op = "strcpy" => InMemory(m, d, Length(m, s) + 1) /\ Apart(d, s, Length(m, s) + 1)
      /\ j.op = "safestrcpy" => /\ InMemory(m, d, n)
                                /\ Apart(d, s, Max({Length(m, s) + 1, n}))
      /\ j.op \in {"memmove", "memcpy", "memset", "strlen", "strcmp", "strcpy", "safestrcpy"}
  BY <1>1, Zenon DEF Legal
<1>8. CASE j.op = "memmove"
  <2>1. n > 0 => s + n <= top + 1 BY <1>3, <1>5, <1>7, <1>8, Zenon
  <2>2. memmove(m, d, s, n) = Move(m, d, s, n)
    <3> HIDE DEF m, d, s, n
    <3> QED BY <1>3, <1>4, <2>1, Memmove
  <2> QED BY <1>6, <1>8, <2>2, Zenon DEF Promised
<1>9. CASE j.op = "memcpy"
  <2>1. (n > 0 => s + n <= top + 1) /\ Apart(d, s, n) BY <1>3, <1>5, <1>7, <1>9, Zenon
  <2>2. memcpy(m, d, s, n) = Move(m, d, s, n)
    <3> HIDE DEF m, d, s, n
    <3> QED BY <1>3, <1>4, <2>1, Memcpy
  <2> QED BY <1>6, <1>9, <2>2, Zenon DEF Promised
<1>10. CASE j.op = "memset"
  <2>1. memset(m, d, s, n) = Fill(m, d, s, n)
    <3> HIDE DEF m, d, s, n
    <3> QED BY <1>3, <1>4, Memset, Zenon
  <2> QED BY <1>6, <1>10, <2>1, Zenon DEF Promised
<1>11. CASE j.op = "strlen"
  <2>1. strlen(m, s) = Length(m, s)
    <3>1. s \in Strings(m) BY <1>7, <1>11, Zenon
    <3> HIDE DEF m, s
    <3> QED BY <1>2, <1>3, <1>4, <3>1, Strlen, Zenon
  <2> QED BY <1>6, <1>11, <2>1, Zenon DEF Promised
<1>12. CASE j.op = "strcmp"
  <2>1. strcmp(m, d, s) = Difference(m, d, s)
    <3>1. s \in Strings(m) /\ d \in Strings(m) BY <1>7, <1>12, Zenon
    <3>2. \A a \in 0 .. top : m[a] \in Nat BY <1>3, Zenon
    <3> HIDE DEF m, d, s
    <3> QED BY <1>2, <1>3, <1>4, <3>1, <3>2, Strcmp
  <2> QED BY <1>6, <1>12, <2>1, Zenon DEF Promised, Difference
<1>13. CASE j.op = "strcpy"
  <2>1. s \in Strings(m) /\ Apart(d, s, Length(m, s) + 1) BY <1>7, <1>13, Zenon
  <2>2. d + Length(m, s) + 1 <= top + 1
    <3>1. Length(m, s) \in Nat
      <4> HIDE DEF m, s
      <4> QED BY <1>2, <1>3, <1>4, <2>1, LengthIs, Zenon
    <3>2. PICK k : k = Length(m, s) + 1 BY Zenon
    <3>3. k \in Nat /\ k > 0 BY <3>1, <3>2
    <3>4. d + k <= top + 1 BY <1>3, <1>5, <1>7, <1>13, <3>2, <3>3, Zenon
    <3> QED BY <1>3, <3>1, <3>2, <3>4
  <2>3. strcpy(m, d, s) = Move(m, d, s, Length(m, s) + 1)
    <3> HIDE DEF m, d, s
    <3> QED BY <1>2, <1>3, <1>4, <2>1, <2>2, Strcpy
  <2> QED BY <1>6, <1>13, <2>3, Zenon DEF Promised
<1>14. CASE j.op = "safestrcpy"
  <2> DEFINE r == safestrcpy(m, d, s, n)
  <2>1. s \in Strings(m) /\ Apart(d, s, Max({Length(m, s) + 1, n})) BY <1>7, <1>14, Zenon
  <2>2. Length(m, s) \in Nat
    <3> HIDE DEF m, s
    <3> QED BY <1>2, <1>3, <1>4, <2>1, LengthIs, Zenon
  <2>3. Apart(d, s, Length(m, s) + 1)
    <3>1. PICK l : l = Length(m, s) + 1 BY Zenon
    <3>2. PICK x : x = Max({l, n}) BY Zenon
    <3>3. l \in Nat /\ x \in Nat /\ l <= x
      <4>1. l \in Nat /\ n \in Nat BY <1>3, <2>2, <3>1
      <4>2. \E y \in {l, n} : \A z \in {l, n} : y >= z BY <4>1
      <4> QED BY <3>2, <4>1, <4>2, Zenon DEF Max
    <3>4. Apart(d, s, x) BY <2>1, <3>1, <3>2, Zenon
    <3>5. Apart(d, s, l) BY <1>3, <3>3, <3>4 DEF Apart
    <3> QED BY <3>1, <3>5, Zenon
  <2>4. CASE n > 0
    <3>1. d + n <= top + 1 BY <1>3, <1>5, <1>7, <1>14, <2>4, Zenon
    <3>2. CutCopy(m, d, s, n, r)
      <4> HIDE DEF m, d, s, n
      <4> QED BY <1>2, <1>3, <1>4, <2>1, <2>3, <2>4, <3>1, Safestrcpy, Zenon
    <3> QED BY <1>6, <1>14, <3>2 DEF Promised, CutCopy
  <2>5. CASE n = 0
    <3>1. r = m BY <2>5 DEF safestrcpy
    <3> QED BY <1>6, <1>14, <2>5, <3>1 DEF Promised
  <2> QED BY <1>3, <2>4, <2>5
<1> QED BY <1>7, <1>8, <1>9, <1>10, <1>11, <1>12, <1>13, <1>14, Zenon

\* The inductive invariant: a call of a string function that is over has the promised result.
CallInv ==
    ~Printing => /\ call \in Jobs /\ pass \in {"string", "over"}
                 /\ pass = "over" => Promised(call, result)

\* A call starts with its operands.
LEMMA CallInit == UtilInit => CallInv
BY CallsAssumption, Zenon DEF UtilInit, FormatInit, StringInit, CallInv, Printing

\* Every step keeps the calls.
LEMMA CallNext == CallInv /\ [UtilNext]_utilVars => CallInv'
<1> SUFFICES ASSUME CallInv, [UtilNext]_utilVars PROVE CallInv' BY Zenon
<1>1. CASE vsnprintf_step
  BY <1>1, Zenon DEF vsnprintf_step, CallInv, Printing
<1>2. CASE print
  BY <1>2, Zenon DEF print, CallInv, Printing
<1>3. CASE vprintk
  BY <1>3, Zenon DEF vprintk, CallInv, Printing
<1>4. CASE string_call
  <2> SUFFICES ASSUME ~Printing PROVE call' \in Jobs /\ pass' = "over" /\ Promised(call, result)'
    BY <1>4, Zenon DEF CallInv, Printing, string_call
  <2>1. call \in Jobs /\ call' = call /\ pass' = "over" BY <1>4, Zenon DEF CallInv, string_call
  <2>2. PICK j \in Jobs : j = call BY <2>1, Zenon
  <2>3. Promised(j, result') BY <1>4, <2>2, CallRight, Zenon
  <2> QED BY <2>1, <2>2, <2>3, Zenon
<1>5. CASE UNCHANGED utilVars
  BY <1>5, Zenon DEF utilVars, CallInv, Printing, Promised
<1> QED BY <1>1, <1>2, <1>3, <1>4, <1>5, Zenon DEF UtilNext

\* The string functions do what their C names promise, for every memory, word size, alignment,
\* length and, for memmove(), overlap.
THEOREM StringsRight == UtilSpec => []StringsMatch
<1>1. CallInv => StringsMatch BY Zenon DEF CallInv, StringsMatch
<1> QED BY <1>1, CallInit, CallNext, PTL DEF UtilSpec

-----------------------------------------------------------------------------
(* The ready list.  Its length is a cardinality. *)

INSTANCE FiniteSetTheorems

NoDup(s) == \A i, j \in DOMAIN s : s[i] = s[j] => i = j

\* What ListIntact says of the sequence s.
Intact(s) ==
    /\ IsList(s)
    /\ \A i \in DOMAIN s : status[s[i]] = READY
    /\ pc = "walk" =>
          \E k \in DOMAIN s : s[k] = p /\ \A j \in 1 .. k - 1 : s[j] # proc

\* The inductive invariant.
QueueInv == TypeOK /\ ListIntact

-----------------------------------------------------------------------------
(* Lists as sequences. *)

\* The bound on the length of the sequences in Lists excludes none: a sequence
\* without repetition is not longer than the process pool.
LEMMA ListsAreSeqs ==
    ASSUME NEW s
    PROVE  s \in Lists <=> s \in Seq(Procs) /\ NoDup(s)
<1>1. ASSUME s \in Lists PROVE s \in Seq(Procs) /\ NoDup(s)
  BY <1>1, NprocAssumption DEF Lists, NoDup
<1>2. ASSUME s \in Seq(Procs), NoDup(s) PROVE s \in Lists
  <2>1. Len(s) \in Nat /\ s \in [1 .. Len(s) -> Procs] /\ DOMAIN s = 1 .. Len(s)
    BY <1>2
  <2>2. Len(s) <= NPROC
    <3> SUFFICES ASSUME Len(s) > NPROC PROVE FALSE
      BY <2>1, NprocAssumption
    <3>1. /\ IsFiniteSet(1 .. Len(s)) /\ Cardinality(1 .. Len(s)) = Len(s)
          /\ IsFiniteSet(Procs) /\ Cardinality(Procs) = NPROC
      <4>1. ASSUME NEW a \in Int, NEW b \in Int, a <= b
            PROVE  IsFiniteSet(a .. b) /\ Cardinality(a .. b) = b - a + 1
        BY <4>1, FS_Interval
      <4>n. Len(s) \in Int /\ 1 <= Len(s) /\ Len(s) - 1 + 1 = Len(s)
        BY <2>1, NprocAssumption
      <4>2. IsFiniteSet(1 .. Len(s)) /\ Cardinality(1 .. Len(s)) = Len(s)
        BY <4>1, <4>n
      <4>3. IsFiniteSet(0 .. NPROC - 1) /\ Cardinality(0 .. NPROC - 1) = NPROC
        BY <4>1, NprocAssumption
      <4> QED BY <4>2, <4>3, Zenon DEF Procs
    <3>2. \E i, j \in 1 .. Len(s) : i # j /\ s[i] = s[j]
      BY <2>1, <3>1, FS_PigeonHole, NprocAssumption, SMTT(30)
    <3> QED BY <1>2, <2>1, <3>2, Zenon DEF NoDup
  <2>3. s \in UNION {[1 .. n -> Procs] : n \in 0 .. NPROC}
    <3>1. Len(s) \in 0 .. NPROC
      BY <2>1, <2>2, NprocAssumption
    <3> QED BY <2>1, <3>1, Zenon
  <2> QED BY <1>2, <2>3, Zenon DEF Lists, NoDup
<1> QED BY <1>1, <1>2, Zenon

\* A process is not a null pointer.
LEMMA ProcsNotNull == NULL \notin Procs /\ Procs \subseteq Int
BY NprocAssumption DEF NULL, Procs

\* Of two sequences that the pointers visit, each is a prefix of the other.
LEMMA ListPrefix ==
    ASSUME NEW s \in Lists, NEW t \in Lists, IsList(s), IsList(t)
    PROVE  \A i \in 1 .. Len(s) : i <= Len(t) /\ s[i] = t[i]
<1> DEFINE Bad == {i \in 1 .. Len(s) : ~(i <= Len(t) /\ s[i] = t[i])}
<1> SUFFICES ASSUME Bad # {} PROVE FALSE
  BY Zenon
<1>1. s \in Seq(Procs) /\ t \in Seq(Procs)
  BY ListsAreSeqs, Zenon
<1>2. PICK m \in Bad : \A n \in Bad : m <= n
  <2>1. Bad \subseteq Nat
    BY <1>1
  <2> QED BY <2>1, Least, Zenon
<1>3. m \in 1 .. Len(s) /\ ~(m <= Len(t) /\ s[m] = t[m]) /\ s # <<>>
  BY <1>1, <1>2
<1>4. t # <<>> /\ Len(t) >= 1 /\ t[1] = s[1]
  BY <1>1, <1>3, ProcsNotNull DEF IsList
<1>5. m - 1 \in 1 .. Len(s) /\ m - 1 \notin Bad
  BY <1>1, <1>2, <1>3, <1>4
<1>6. m - 1 <= Len(t) /\ s[m - 1] = t[m - 1]
  BY <1>5, Zenon
<1>7. queue_next[t[m - 1]] = s[m] /\ s[m] \in Procs
  BY <1>1, <1>3, <1>5, <1>6 DEF IsList
<1>8. m - 1 # Len(t)
  BY <1>4, <1>7, ProcsNotNull, Zenon DEF IsList
<1>9. m <= Len(t) /\ t[m] = s[m]
  BY <1>1, <1>4, <1>5, <1>6, <1>7, <1>8 DEF IsList
<1> QED BY <1>3, <1>9, Zenon

\* The pointers visit one sequence only, so ReadyList is that sequence.
LEMMA ListUnique ==
    ASSUME NEW s \in Lists, IsList(s)
    PROVE  ReadyList = s
<1>1. ASSUME NEW t \in Lists, IsList(t) PROVE t = s
  <2>1. s \in Seq(Procs) /\ t \in Seq(Procs)
    BY ListsAreSeqs, Zenon
  <2>2. \A i \in 1 .. Len(s) : i <= Len(t) /\ s[i] = t[i]
    BY <1>1, ListPrefix, Zenon
  <2>3. \A i \in 1 .. Len(t) : i <= Len(s) /\ t[i] = s[i]
    BY <1>1, ListPrefix, Zenon
  <2>4. Len(s) = Len(t)
    BY <2>1, <2>2, <2>3
  <2> QED BY <2>1, <2>2, <2>4
<1> QED BY <1>1, Zenon DEF ReadyList

\* The same, as a formula that holds in every state.
UniqueList == \A s \in Lists : IsList(s) => ReadyList = s

\* It does: no assumption on the pointers is needed.
LEMMA ListUniqueEverywhere == UniqueList
BY ListUnique, Zenon DEF UniqueList

-----------------------------------------------------------------------------
(* One step of the queue, seen as a step on sequences. *)

\* How a step may change the sequence s into t.
SeqStep(s, t) ==
    \/ t = s /\ UNCHANGED current
    \/ \E x \in Procs : /\ \A i \in DOMAIN s : s[i] # x
                        /\ t = Append(s, x)
                        /\ UNCHANGED current
    \/ s # <<>> /\ t = Tail(s) /\ current' = Head(s)

\* The pointers start as the empty list.
LEMMA InitIsList == Init => <<>> \in Lists /\ Intact(<<>>) /\ QueueInv
<1> SUFFICES ASSUME Init PROVE <<>> \in Lists /\ Intact(<<>>) /\ QueueInv
  BY Zenon
<1>1. <<>> \in Lists
  <2>1. <<>> \in Seq(Procs) /\ NoDup(<<>>)
    BY DEF NoDup
  <2> QED BY <2>1, ListsAreSeqs, Zenon
<1>2. Intact(<<>>)
  BY DEF Init, Intact, IsList
<1>3. ListIntact
  BY <1>1, <1>2, Zenon DEF ListIntact, Intact
<1>4. TypeOK
  BY Zenon DEF Init, TypeOK, Pointer, FREE
<1> QED BY <1>1, <1>2, <1>3, <1>4, Zenon DEF QueueInv, Init

\* Every step leaves a list, and changes it as SeqStep allows: one case per
\* action.
LEMMA StepKeepsList ==
    ASSUME TypeOK, [Next]_vars,
           NEW s \in Lists, Intact(s)
    PROVE  \E t \in Lists : Intact(t)' /\ SeqStep(s, t)
<1>t. /\ ready_queue_head \in Pointer /\ queue_next \in [Procs -> Pointer]
      /\ status \in [Procs -> {FREE, READY}]
  BY Zenon DEF TypeOK
<1>s. s \in Seq(Procs) /\ NoDup(s) /\ DOMAIN s = 1 .. Len(s) /\ Len(s) \in Nat
  BY ListsAreSeqs
<1>l. IsList(s) /\ \A i \in DOMAIN s : status[s[i]] = READY
  BY Zenon DEF Intact
<1>1. ASSUME NEW x \in Procs, insert_first(x)
      PROVE  \E t \in Lists : Intact(t)' /\ SeqStep(s, t)
  <2>1. s = <<>>
    BY <1>1, <1>s, <1>l, ProcsNotNull DEF insert_first, IsList
  <2>2. PICK t : t = <<x>>
    BY Zenon
  <2>3. t \in Seq(Procs) /\ Len(t) = 1 /\ t[1] = x /\ t # <<>> /\ DOMAIN t = 1 .. 1
    BY <2>2
  <2>4. t \in Lists
    BY <2>3, ListsAreSeqs DEF NoDup
  <2>5. Intact(t)'
    BY <1>1, <1>t, <2>3 DEF Intact, IsList, insert_first
  <2>6. SeqStep(s, t)
    <3>1. t = Append(s, x) /\ \A i \in DOMAIN s : s[i] # x
      BY <2>1, <2>2
    <3> QED BY <1>1, <3>1, Zenon DEF SeqStep, insert_first
  <2> QED BY <2>4, <2>5, <2>6, Zenon
<1>2. ASSUME NEW x \in Procs, insert_enter(x)
      PROVE  \E t \in Lists : Intact(t)' /\ SeqStep(s, t)
  <2>1. s # <<>> /\ s[1] = ready_queue_head /\ 1 \in DOMAIN s
    BY <1>2, <1>s, <1>l DEF insert_enter, IsList
  <2>2. Intact(s)'
    <3>1. IsList(s)' /\ (\A i \in DOMAIN s : status[s[i]] = READY)'
      BY <1>2, <1>l, Zenon DEF insert_enter, IsList
    <3>2. p' = s[1] /\ \A j \in 1 .. 1 - 1 : s[j] # proc'
      BY <1>2, <2>1 DEF insert_enter
    <3> QED BY <2>1, <3>1, <3>2, Zenon DEF Intact
  <2> QED BY <1>2, <2>2, Zenon DEF SeqStep, insert_enter
<1>3. CASE insert_found
  <2>1. Intact(s)'
    BY <1>3, <1>l, Zenon DEF insert_found, Intact, IsList
  <2> QED BY <1>3, <2>1, Zenon DEF SeqStep, insert_found
<1>w. ASSUME pc = "walk"
      PROVE  /\ proc \in Procs
             /\ \E k \in DOMAIN s : s[k] = p /\ \A j \in 1 .. k - 1 : s[j] # proc
  BY <1>w, Zenon DEF Intact, TypeOK
<1>4. CASE insert_advance
  <2>1. PICK k \in DOMAIN s : s[k] = p /\ \A j \in 1 .. k - 1 : s[j] # proc
    BY <1>4, <1>w, Zenon DEF insert_advance
  <2>2. p # proc /\ queue_next[p] # NULL /\ p' = queue_next[p]
        /\ UNCHANGED <<ready_queue_head, queue_next, status, current, pc, proc>>
    BY <1>4, Zenon DEF insert_advance
  <2>3. s # <<>> /\ k # Len(s)
    BY <1>s, <1>l, <2>1, <2>2 DEF IsList
  <2>4. k + 1 \in DOMAIN s /\ s[k + 1] = p'
    BY <1>s, <1>l, <2>1, <2>2, <2>3 DEF IsList
  <2>5. \A j \in 1 .. (k + 1) - 1 : s[j] # proc
    BY <1>s, <2>1, <2>2
  <2>6. IsList(s)' /\ (\A i \in DOMAIN s : status[s[i]] = READY)'
    BY <1>l, <2>2, Zenon DEF IsList
  <2>7. Intact(s)'
    BY <2>2, <2>4, <2>5, <2>6, Zenon DEF Intact
  <2> QED BY <2>2, <2>7, Zenon DEF SeqStep
<1>5. CASE insert_link
  <2>1. PICK k \in DOMAIN s : s[k] = p /\ \A j \in 1 .. k - 1 : s[j] # proc
    BY <1>5, <1>w, Zenon DEF insert_link
  <2>2. /\ p # proc /\ queue_next[p] = NULL /\ pc' = "idle" /\ proc \in Procs
        /\ queue_next' = [queue_next EXCEPT ![p] = proc, ![proc] = NULL]
        /\ status' = [status EXCEPT ![proc] = READY]
        /\ UNCHANGED <<ready_queue_head, current>>
    BY <1>5, <1>w, Zenon DEF insert_link
  <2>3. s # <<>> /\ k = Len(s)
    <3>1. s # <<>>
      BY <1>s, <2>1
    <3>2. k < Len(s) => queue_next[s[k]] \in Procs
      BY <1>s, <1>l, <2>1, <3>1 DEF IsList
    <3> QED BY <1>s, <2>1, <2>2, <3>1, <3>2, ProcsNotNull
  <2>4. \A i \in DOMAIN s : s[i] # proc /\ s[i] \in Procs
    BY <1>s, <2>1, <2>2, <2>3
  <2>5. PICK t : t = Append(s, proc)
    BY Zenon
  <2>6. /\ t \in Seq(Procs) /\ Len(t) = Len(s) + 1 /\ DOMAIN t = 1 .. Len(s) + 1
        /\ \A i \in 1 .. Len(s) : t[i] = s[i]
        /\ t[Len(s) + 1] = proc /\ t # <<>>
    BY <1>s, <2>2, <2>5
  <2>7. t \in Lists
    <3>1. NoDup(t)
      BY <1>s, <2>4, <2>6 DEF NoDup
    <3> QED BY <2>6, <3>1, ListsAreSeqs, Zenon
  <2>8. /\ queue_next'[s[Len(s)]] = proc /\ queue_next'[proc] = NULL
        /\ \A i \in 1 .. Len(s) - 1 : queue_next'[s[i]] = s[i + 1]
    <3>1. \A i \in 1 .. Len(s) - 1 : s[i] # p /\ s[i] # proc /\ s[i] \in Procs
      BY <1>s, <2>1, <2>3, <2>4 DEF NoDup
    <3>2. \A i \in 1 .. Len(s) - 1 : queue_next'[s[i]] = queue_next[s[i]]
      BY <1>t, <2>2, <3>1, Zenon
    <3>3. p \in Procs /\ p = s[Len(s)]
      BY <1>s, <2>1, <2>3
    <3>4. queue_next'[p] = proc /\ queue_next'[proc] = NULL
      BY <1>t, <2>2, <3>3, Zenon
    <3> QED BY <1>l, <2>3, <3>2, <3>3, <3>4, Zenon DEF IsList
  <2>9. IsList(t)'
    <3>1. ready_queue_head' = t[1]
      BY <1>s, <1>l, <2>2, <2>3, <2>6 DEF IsList
    <3>2. \A i \in 1 .. Len(t) - 1 : queue_next'[t[i]] = t[i + 1]
      <4> SUFFICES ASSUME NEW i \in 1 .. Len(t) - 1
                   PROVE  queue_next'[t[i]] = t[i + 1]
        BY Zenon
      <4>1. CASE i = Len(s)
        BY <1>s, <2>6, <2>8, <4>1
      <4>2. CASE i < Len(s)
        BY <1>s, <2>6, <2>8, <4>2
      <4>3. Len(t) - 1 = Len(s)
        BY <1>s, <2>6
      <4>4. i \in 1 .. Len(s)
        BY <4>3, Zenon
      <4>5. i = Len(s) \/ i < Len(s)
        <5>1. Len(s) \in Nat /\ i \in Int /\ i <= Len(s)
          BY <1>s, <4>4
        <5> QED BY <5>1
      <4> QED BY <4>1, <4>2, <4>5, Zenon
    <3>3. queue_next'[t[Len(t)]] = NULL
      BY <2>6, <2>8, Zenon
    <3> QED BY <2>6, <3>1, <3>2, <3>3, Zenon DEF IsList
  <2>10. \A i \in DOMAIN t : status'[t[i]] = READY
    BY <1>s, <1>t, <1>l, <2>2, <2>4, <2>6
  <2>11. Intact(t)'
    BY <2>2, <2>9, <2>10, Zenon DEF Intact
  <2>12. SeqStep(s, t)
    BY <2>2, <2>4, <2>5, Zenon DEF SeqStep
  <2> QED BY <2>7, <2>11, <2>12, Zenon
<1>6. CASE schedule
  <2>1. /\ pc' = "idle" /\ current' = ready_queue_head /\ ready_queue_head # NULL
        /\ ready_queue_head' = queue_next[ready_queue_head]
        /\ UNCHANGED <<queue_next, status>>
    BY <1>6, Zenon DEF schedule
  <2>2. s # <<>> /\ Head(s) = s[1] /\ s[1] = ready_queue_head
    BY <1>s, <1>l, <2>1 DEF IsList
  <2>3. PICK t : t = Tail(s)
    BY Zenon
  <2>4. /\ t \in Seq(Procs) /\ Len(t) = Len(s) - 1 /\ DOMAIN t = 1 .. Len(s) - 1
        /\ \A i \in 1 .. Len(s) - 1 : t[i] = s[i + 1]
    BY <1>s, <2>2, <2>3
  <2>5. t \in Lists
    <3>1. ASSUME NEW i \in DOMAIN t, NEW j \in DOMAIN t, t[i] = t[j]
          PROVE  i = j
      <4>1. /\ i \in Nat /\ j \in Nat
            /\ i + 1 \in DOMAIN s /\ j + 1 \in DOMAIN s
            /\ s[i + 1] = t[i] /\ s[j + 1] = t[j]
        BY <1>s, <2>2, <2>4
      <4>2. i + 1 = j + 1
        BY <1>s, <3>1, <4>1, Zenon DEF NoDup
      <4> QED BY <4>1, <4>2
    <3>2. NoDup(t)
      BY <3>1, Zenon DEF NoDup
    <3> QED BY <2>4, <3>2, ListsAreSeqs, Zenon
  <2>6. IsList(t)'
    <3>1. CASE Len(s) = 1
      <4>1. t = <<>>
        BY <2>4, <3>1
      <4>2. ready_queue_head' = NULL
        BY <1>l, <2>1, <2>2, <3>1, Zenon DEF IsList
      <4> QED BY <4>1, <4>2, Zenon DEF IsList
    <3>2. CASE Len(s) > 1
      <4>1. t # <<>> /\ t[1] = s[2] /\ t[Len(t)] = s[Len(s)]
        BY <1>s, <2>4, <3>2
      <4>2. ready_queue_head' = s[2]
        BY <1>s, <1>l, <2>1, <2>2, <3>2 DEF IsList
      <4>3. \A i \in 1 .. Len(t) - 1 : queue_next'[t[i]] = t[i + 1]
        BY <1>s, <1>l, <2>1, <2>2, <2>4 DEF IsList
      <4>4. queue_next'[t[Len(t)]] = NULL
        BY <1>l, <2>1, <2>2, <4>1, Zenon DEF IsList
      <4> QED BY <4>1, <4>2, <4>3, <4>4, Zenon DEF IsList
    <3> QED BY <1>s, <2>2, <3>1, <3>2
  <2>7. \A i \in DOMAIN t : status'[t[i]] = READY
    BY <1>s, <1>l, <2>1, <2>4, SMTT(30)
  <2>8. Intact(t)'
    BY <2>1, <2>6, <2>7, Zenon DEF Intact
  <2> QED BY <2>1, <2>2, <2>3, <2>5, <2>8, Zenon DEF SeqStep
<1>7. CASE UNCHANGED vars
  <2>1. Intact(s)'
    BY <1>7, <1>l, Zenon DEF vars, Intact, IsList
  <2> QED BY <1>7, <2>1, Zenon DEF SeqStep, vars
<1> QED BY <1>1, <1>2, <1>3, <1>4, <1>5, <1>6, <1>7, Zenon
        DEF Next, insert_to_ready_queue

-----------------------------------------------------------------------------
(* The theorems. *)

\* No action stores anything but a process or NULL in a pointer.
LEMMA TypeNext ==
    ASSUME TypeOK, [Next]_vars
    PROVE  TypeOK'
<1>p. Procs \subseteq Pointer /\ NULL \in Pointer
  BY Zenon DEF Pointer
<1>1. ASSUME NEW x \in Procs, insert_first(x)
      PROVE  TypeOK'
  BY <1>p, <1>1, Zenon DEF TypeOK, insert_first
<1>2. ASSUME NEW x \in Procs, insert_enter(x)
      PROVE  TypeOK'
  <2>1. p' \in Procs
    BY <1>2, Zenon DEF TypeOK, insert_enter, Pointer
  <2> QED BY <1>p, <1>2, <2>1, Zenon DEF TypeOK, insert_enter
<1>3. CASE insert_found
  BY <1>3, Zenon DEF TypeOK, insert_found
<1>4. CASE insert_advance
  <2>1. p' \in Procs
    BY <1>4, Zenon DEF insert_advance, TypeOK, Pointer
  <2> QED BY <1>p, <1>4, <2>1, Zenon DEF TypeOK, insert_advance
<1>5. CASE insert_link
  BY <1>p, <1>5, Zenon DEF TypeOK, insert_link
<1>6. CASE schedule
  <2>1. ready_queue_head \in Procs
    BY <1>6, Zenon DEF schedule, TypeOK, Pointer
  <2>2. queue_next[ready_queue_head] \in Pointer
    BY <2>1, Zenon DEF TypeOK
  <2> QED BY <1>6, <2>2, Zenon DEF TypeOK, schedule
<1>7. CASE UNCHANGED vars
  BY <1>7, Zenon DEF TypeOK, vars
<1> QED BY <1>1, <1>2, <1>3, <1>4, <1>5, <1>6, <1>7, Zenon DEF Next, insert_to_ready_queue

\* The inductive invariant.
THEOREM QueueInvariant == Spec => []QueueInv
<1>1. Init => QueueInv
  BY InitIsList, Zenon
<1>2. QueueInv /\ [Next]_vars => QueueInv'
  <2> SUFFICES ASSUME QueueInv, [Next]_vars PROVE QueueInv'
    BY Zenon
  <2>1. PICK s \in Lists : Intact(s)
    BY Zenon DEF QueueInv, ListIntact, Intact
  <2>2. PICK t \in Lists : Intact(t)'
    BY <2>1, StepKeepsList, Zenon DEF QueueInv
  <2>3. ListIntact'
    BY <2>2, Zenon DEF ListIntact, Intact
  <2> QED BY <2>3, TypeNext, Zenon DEF QueueInv
<1> QED BY <1>1, <1>2, PTL DEF Spec

\* The loop of insert_to_ready_queue() never follows a null pointer.
THEOREM QueueTypeCorrect == Spec => []TypeOK
<1>1. QueueInv => TypeOK
  BY Zenon DEF QueueInv
<1> QED BY <1>1, QueueInvariant, PTL

\* The linked list of sched.c is never broken, however many processes there
\* are and whatever the order of insertions and dispatches.
THEOREM ListAlwaysIntact == Spec => []ListIntact
<1>1. QueueInv => ListIntact
  BY Zenon DEF QueueInv
<1> QED BY <1>1, QueueInvariant, PTL

\* The linked list implements the first-in first-out queue of ReadyFifo.
THEOREM QueueIsFifo == Spec => ImplementsFifo
<1>1. Init => Fifo!Init
  BY InitIsList, ListUnique, Zenon DEF Fifo!Init, Intact
<1>2. QueueInv /\ [Next]_vars => [Fifo!Next]_<<ReadyList, current>>
  <2> SUFFICES ASSUME QueueInv, [Next]_vars
               PROVE  [Fifo!Next]_<<ReadyList, current>>
    BY Zenon
  <2>1. PICK s \in Lists : Intact(s)
    BY Zenon DEF QueueInv, ListIntact, Intact
  <2>2. PICK t \in Lists : Intact(t)' /\ SeqStep(s, t)
    BY <2>1, StepKeepsList, Zenon DEF QueueInv
  <2>3. ReadyList = s
    BY <2>1, ListUnique, Zenon DEF Intact
  <2>4. UniqueList'
    BY ListUniqueEverywhere, PTL
  <2>5. IsList(t)' /\ t \in Lists'
    BY <2>2, Zenon DEF Intact, Lists, Procs
  <2>6. ReadyList' = t
    BY <2>4, <2>5, Zenon DEF UniqueList
  <2> QED BY <2>2, <2>3, <2>6, Zenon
          DEF SeqStep, Fifo!Next, Fifo!Insert, Fifo!Dispatch
<1> QED BY <1>1, <1>2, QueueInvariant, PTL DEF Spec, ImplementsFifo, Fifo!Spec
=============================================================================
