---------------------------- MODULE MachineProofs ----------------------------
(***************************************************************************)
(* Proofs about the two parts of the kernel that talk to the machine: the  *)
(* host-target interface (module Htif) and the trap vectors (module Trap). *)
(*                                                                         *)
(* For any number of calls and of keys, syscalls return their own results, *)
(* commands and keys keep their order, and no assertion of                 *)
(* __check_fromhost() fails.  For any number of processes and any values   *)
(* in their registers, no register but t6 is lost, a trap finds its        *)
(* process, and no stale translation is used.                              *)
(***************************************************************************)
EXTENDS Htif, Trap, TLAPS

-----------------------------------------------------------------------------
(* The trap vectors. *)

\* What a register can hold.
Values == {User(n) : n \in Numbers} \cup {TrapframeOf(p) : p \in Procs}
              \cup {KstackOf(p) : p \in Procs} \cup {ITRFRAME, KERNEL}

TrapType ==
    /\ at \in {"user", "addi_t6", "sd", "csrr_t0", "sd_a0", "ld_kernel", "handler",
               "csrw_satp", "csrw_sscratch", "let_t6", "ld", "stopped"}
    /\ k \in 1 .. 5 /\ (at \notin {"sd", "ld", "stopped"} => k = 1)
    /\ regs \in [Regs -> Values] /\ sscratch \in Values
    /\ trapframe \in [Procs -> [regs : [Regs -> Values], kernel_sp : Values]]
    /\ context \in [Procs -> [Regs -> Values]]
    /\ live \subseteq Procs /\ current \in live

\* The registers in S agree with what process p left in them.
Agree(S, r, p) == \A x \in S : r[x] = context[p][x]

\* On the way in, the process's a0 is in sscratch and its other registers are still
\* there, until they have been stored.
SavingInv ==
    /\ at \in {"addi_t6", "sd"} => Agree({"ra", "sp", "t0"}, regs, current)
    /\ at \in {"addi_t6", "sd", "csrr_t0", "sd_a0", "ld_kernel"} => regs["a0"] = TrapframeOf(current)
    /\ at \in {"addi_t6", "sd", "csrr_t0"} => sscratch = context[current]["a0"]
    /\ at = "sd" => /\ k > 1 => Agree({"ra"}, trapframe[current].regs, current)
                    /\ k > 2 => Agree({"sp"}, trapframe[current].regs, current)
                    /\ k > 3 => Agree({"t0"}, trapframe[current].regs, current)
    /\ at \in {"csrr_t0", "sd_a0"} => Agree({"ra", "sp", "t0"}, trapframe[current].regs, current)
    /\ at = "sd_a0" => regs["t0"] = context[current]["a0"]
    /\ trapframe[current].kernel_sp = KstackOf(current)

\* On the way out, the trapframe has everything, and the registers what has been loaded.
RestoringInv ==
    /\ at \in {"ld_kernel", "handler", "csrw_satp", "csrw_sscratch", "let_t6", "ld"} =>
          Matches(trapframe[current].regs, current)
    /\ at \in {"csrw_satp", "csrw_sscratch", "let_t6"} => regs["a0"] = TrapframeOf(current)
    /\ at \in {"let_t6", "ld"} => sscratch = TrapframeOf(current)
    /\ at \in {"csrw_sscratch", "let_t6", "ld"} => tlb = {TableOf(current)}
    /\ at = "ld" => /\ k > 1 => Agree({"ra"}, regs, current)
                    /\ k > 2 => Agree({"sp"}, regs, current)
                    /\ k > 3 => Agree({"t0"}, regs, current)
                    /\ k > 4 => Agree({"a0"}, regs, current)

TrapInv ==
    TrapType /\ SavingInv /\ RestoringInv /\ ContextKept /\ EntryFindsProcess /\ TranslationsFresh

-----------------------------------------------------------------------------
\* The registers, in the order of the macros.
LEMMA RegFacts ==
    /\ Len(RegOrder) = 5 /\ Regs = {"ra", "sp", "t0", "a0", "t6"}
    /\ RegOrder[1] = "ra" /\ RegOrder[2] = "sp" /\ RegOrder[3] = "t0"
    /\ RegOrder[4] = "a0" /\ RegOrder[5] = "t6"
  <1>1. /\ RegOrder[1] = "ra" /\ RegOrder[2] = "sp" /\ RegOrder[3] = "t0"
        /\ RegOrder[4] = "a0" /\ RegOrder[5] = "t6"
    BY Zenon DEF RegOrder
  <1>2. Len(RegOrder) = 5 /\ DOMAIN RegOrder = 1 .. 5
    BY DEF RegOrder
  <1>3. \A i \in 1 .. 5 : i = 1 \/ i = 2 \/ i = 3 \/ i = 4 \/ i = 5
    OBVIOUS
  <1>4. Regs = {"ra", "sp", "t0", "a0", "t6"}
    BY <1>1, <1>2, <1>3 DEF Regs
  <1> QED BY <1>1, <1>2, <1>4, Zenon

\* The values the vectors and the kernel put in them.
LEMMA ValueFacts ==
    /\ \A n \in Numbers : User(n) \in Values
    /\ \A p \in Procs : TrapframeOf(p) \in Values /\ KstackOf(p) \in Values
    /\ ITRFRAME \in Values /\ KERNEL \in Values
  BY Zenon DEF Values

\* TrapInit establishes the invariant.
LEMMA TrapStart == TrapInit => TrapInv
<1> SUFFICES ASSUME TrapInit PROVE TrapInv
  BY Zenon
<1> USE TrapAssumption, RegFacts, ValueFacts
<1>1. TrapType
  BY DEF TrapInit, TrapType, Arguments
<1>2. SavingInv /\ RestoringInv
  BY Zenon DEF TrapInit, SavingInv, RestoringInv, Matches, Arguments
<1>3. ContextKept /\ EntryFindsProcess /\ TranslationsFresh
  BY Zenon DEF TrapInit, ContextKept, EntryFindsProcess, TranslationsFresh
<1> QED BY <1>1, <1>2, <1>3, Zenon DEF TrapInv

\* Every step preserves the invariant.
LEMMA TrapStep == TrapInv /\ [TrapNext]_trapVars => TrapInv'
<1> SUFFICES ASSUME TrapInv, [TrapNext]_trapVars PROVE TrapInv'
  BY Zenon
<1> USE TrapAssumption, RegFacts, ValueFacts DEF TrapInv
<1>1. CASE compute
  <2>1. TrapType'
    BY <1>1 DEF TrapType, compute
  <2>2. SavingInv'
    BY <1>1, Zenon DEF SavingInv, compute
  <2>3. RestoringInv'
    BY <1>1, Zenon DEF RestoringInv, compute
  <2>4. ContextKept'
    BY <1>1 DEF TrapType, Matches, ContextKept, compute
  <2>5. EntryFindsProcess'
    BY <1>1, Zenon DEF EntryFindsProcess, compute
  <2>6. TranslationsFresh'
    BY <1>1, Zenon DEF TranslationsFresh, compute
  <2> QED BY <2>1, <2>2, <2>3, <2>4, <2>5, <2>6, Zenon
<1>2. CASE csrrw_a0_sscratch
  <2>1. TrapType'
    BY <1>2, Zenon DEF TrapType, csrrw_a0_sscratch
  <2>2. SavingInv'
    BY <1>2, Zenon DEF TrapType, ContextKept, EntryFindsProcess, Matches, Agree, SavingInv,
       csrrw_a0_sscratch
  <2>3. RestoringInv'
    BY <1>2, SMTT(30) DEF RestoringInv, csrrw_a0_sscratch
  <2>4. ContextKept'
    BY <1>2, Zenon DEF Matches, ContextKept, csrrw_a0_sscratch
  <2>5. EntryFindsProcess'
    BY <1>2, Zenon DEF EntryFindsProcess, csrrw_a0_sscratch
  <2>6. TranslationsFresh'
    BY <1>2, Zenon DEF TranslationsFresh, csrrw_a0_sscratch
  <2> QED BY <2>1, <2>2, <2>3, <2>4, <2>5, <2>6, Zenon
<1>3. CASE addi_t6
  <2>1. TrapType'
    BY <1>3, Zenon DEF TrapType, addi_t6
  <2>2. SavingInv'
    BY <1>3 DEF TrapType, Agree, SavingInv, addi_t6
  <2>3. RestoringInv'
    BY <1>3, Zenon DEF RestoringInv, addi_t6
  <2>4. ContextKept'
    BY <1>3 DEF Matches, ContextKept, addi_t6
  <2>5. EntryFindsProcess'
    BY <1>3, Zenon DEF EntryFindsProcess, addi_t6
  <2>6. TranslationsFresh'
    BY <1>3, Zenon DEF TranslationsFresh, addi_t6
  <2> QED BY <2>1, <2>2, <2>3, <2>4, <2>5, <2>6, Zenon
<1>4. CASE store_all_registers
  <2>1. TrapType'
    <3>1. RegOrder[k] \in Regs /\ regs[RegOrder[k]] \in Values
      BY DEF TrapType
    <3>2. trapframe' \in [Procs -> [regs : [Regs -> Values], kernel_sp : Values]]
      BY <1>4, <3>1, SMTT(30) DEF TrapType, store_all_registers
    <3> QED BY <1>4, <3>2 DEF TrapType, store_all_registers, NextReg
  <2>2. SavingInv'
    BY <1>4 DEF TrapType, Agree, SavingInv, store_all_registers, NextReg
  <2>3. RestoringInv'
    BY <1>4, Zenon DEF RestoringInv, store_all_registers, NextReg
  <2>4. ContextKept'
    BY <1>4 DEF Matches, ContextKept, store_all_registers, NextReg
  <2>5. EntryFindsProcess'
    BY <1>4, Zenon DEF EntryFindsProcess, store_all_registers, NextReg
  <2>6. TranslationsFresh'
    BY <1>4, Zenon DEF TranslationsFresh, store_all_registers, NextReg
  <2> QED BY <2>1, <2>2, <2>3, <2>4, <2>5, <2>6, Zenon
<1>5. CASE csrr_t0
  <2>1. TrapType'
    BY <1>5, Zenon DEF TrapType, csrr_t0
  <2>2. SavingInv'
    BY <1>5, Zenon DEF TrapType, Agree, SavingInv, csrr_t0
  <2>3. RestoringInv'
    BY <1>5, SMTT(30) DEF RestoringInv, csrr_t0
  <2>4. ContextKept'
    BY <1>5, Zenon DEF Matches, ContextKept, csrr_t0
  <2>5. EntryFindsProcess'
    BY <1>5, Zenon DEF EntryFindsProcess, csrr_t0
  <2>6. TranslationsFresh'
    BY <1>5, Zenon DEF TranslationsFresh, csrr_t0
  <2> QED BY <2>1, <2>2, <2>3, <2>4, <2>5, <2>6, Zenon
<1>6. CASE sd_a0
  <2>1. TrapType'
    BY <1>6, SMTT(30) DEF TrapType, sd_a0
  <2>2. SavingInv'
    BY <1>6 DEF SavingInv, sd_a0
  <2>3. RestoringInv'
    BY <1>6 DEF TrapType, SavingInv, Matches, Agree, RestoringInv, sd_a0
  <2>4. ContextKept'
    BY <1>6 DEF Matches, ContextKept, sd_a0
  <2>5. EntryFindsProcess'
    BY <1>6, Zenon DEF EntryFindsProcess, sd_a0
  <2>6. TranslationsFresh'
    BY <1>6, Zenon DEF TranslationsFresh, sd_a0
  <2> QED BY <2>1, <2>2, <2>3, <2>4, <2>5, <2>6, Zenon
<1>7. CASE ld_kernel
  <2>1. TrapType'
    BY <1>7, Zenon DEF TrapType, ld_kernel
  <2>2. SavingInv'
    BY <1>7, SMTT(30) DEF SavingInv, ld_kernel
  <2>3. RestoringInv'
    BY <1>7, SMTT(30) DEF Matches, RestoringInv, ld_kernel
  <2>4. ContextKept'
    BY <1>7 DEF RestoringInv, Matches, ContextKept, ld_kernel
  <2>5. EntryFindsProcess'
    BY <1>7, Zenon DEF TrapType, SavingInv, EntryFindsProcess, ld_kernel
  <2>6. TranslationsFresh'
    BY <1>7, Zenon DEF TranslationsFresh, ld_kernel
  <2> QED BY <2>1, <2>2, <2>3, <2>4, <2>5, <2>6, Zenon
<1>8. CASE trap_handled
  <2>1. TrapType'
    BY <1>8, SMTT(30) DEF TrapType, trap_handled, switch_to, SetKernelSp, Arguments
  <2>2. SavingInv'
    BY <1>8 DEF TrapType, SavingInv, trap_handled, switch_to, SetKernelSp
  <2>3. RestoringInv'
    <3>1. PICK p \in live : switch_to(p)
      BY <1>8, Zenon DEF trap_handled
    <3>2. Matches(trapframe[p].regs, p)
      BY <1>8, Zenon DEF ContextKept, trap_handled
    <3>3. trapframe'[p].regs = trapframe[p].regs /\ p \in Procs /\ context' = context
      BY <1>8, <3>1 DEF TrapType, trap_handled, switch_to, SetKernelSp
    <3>4. at' = "csrw_satp" /\ current' = p /\ regs'["a0"] = TrapframeOf(p)
      BY <3>1, Zenon DEF switch_to, Arguments
    <3> QED BY <3>2, <3>3, <3>4, Zenon DEF RestoringInv, Matches
  <2>4. ContextKept'
    BY <1>8 DEF Matches, ContextKept, trap_handled, switch_to, SetKernelSp
  <2>5. EntryFindsProcess'
    BY <1>8, Zenon DEF EntryFindsProcess, trap_handled, switch_to
  <2>6. TranslationsFresh'
    BY <1>8, Zenon DEF TranslationsFresh, trap_handled, switch_to
  <2> QED BY <2>1, <2>2, <2>3, <2>4, <2>5, <2>6, Zenon
<1>9. CASE handle_syscall
  <2>1. TrapType'
    <3>1. PICK n \in Numbers :
             /\ trapframe' = [trapframe EXCEPT ![current].regs["a0"] = User(n),
                                               ![current].kernel_sp = KstackOf(current)]
             /\ context' = [context EXCEPT ![current]["a0"] = User(n)]
      BY <1>9, Zenon DEF handle_syscall
    <3>2. trapframe' \in [Procs -> [regs : [Regs -> Values], kernel_sp : Values]]
      <4> DEFINE T == [Procs -> [regs : [Regs -> Values], kernel_sp : Values]]
                 t == [trapframe EXCEPT ![current].regs["a0"] = User(n)]
      <4>1. trapframe' = [t EXCEPT ![current].kernel_sp = KstackOf(current)]
        BY <3>1, Zenon
      <4>2. t \in T /\ current \in Procs
        BY DEF TrapType
      <4> HIDE DEF t
      <4> QED BY <4>1, <4>2, Zenon
    <3>3. context' \in [Procs -> [Regs -> Values]]
      BY <3>1, Zenon DEF TrapType
    <3> QED BY <1>9, <3>2, <3>3, Zenon DEF TrapType, handle_syscall, Arguments
  <2>2. SavingInv'
    BY <1>9 DEF TrapType, SavingInv, handle_syscall
  <2>3. RestoringInv'
    BY <1>9 DEF TrapType, Matches, RestoringInv, handle_syscall, Arguments
  <2>4. ContextKept'
    BY <1>9 DEF TrapType, Matches, ContextKept, handle_syscall
  <2>5. EntryFindsProcess'
    BY <1>9, Zenon DEF EntryFindsProcess, handle_syscall
  <2>6. TranslationsFresh'
    BY <1>9, Zenon DEF TranslationsFresh, handle_syscall
  <2> QED BY <2>1, <2>2, <2>3, <2>4, <2>5, <2>6, Zenon
<1>10. CASE do_fork
  <2>1. TrapType'
    BY <1>10 DEF TrapType, do_fork
  <2>2. SavingInv'
    BY <1>10, Zenon DEF TrapType, SavingInv, do_fork
  <2>3. RestoringInv'
    BY <1>10 DEF TrapType, Matches, RestoringInv, do_fork
  <2>4. ContextKept'
    BY <1>10 DEF TrapType, Matches, ContextKept, do_fork
  <2>5. EntryFindsProcess'
    BY <1>10, Zenon DEF EntryFindsProcess, do_fork
  <2>6. TranslationsFresh'
    BY <1>10, Zenon DEF TranslationsFresh, do_fork
  <2> QED BY <2>1, <2>2, <2>3, <2>4, <2>5, <2>6, Zenon
<1>11. CASE csrw_satp
  <2>1. TrapType'
    BY <1>11, SMTT(30) DEF TrapType, csrw_satp
  <2>2. SavingInv'
    BY <1>11, SMTT(30) DEF SavingInv, csrw_satp
  <2>3. RestoringInv'
    BY <1>11, Zenon DEF Matches, RestoringInv, csrw_satp
  <2>4. ContextKept'
    BY <1>11 DEF Matches, ContextKept, csrw_satp
  <2>5. EntryFindsProcess'
    BY <1>11, Zenon DEF EntryFindsProcess, csrw_satp
  <2>6. TranslationsFresh'
    BY <1>11, Zenon DEF TranslationsFresh, csrw_satp
  <2> QED BY <2>1, <2>2, <2>3, <2>4, <2>5, <2>6, Zenon
<1>12. CASE csrw_sscratch
  <2>1. TrapType'
    BY <1>12, SMTT(30) DEF TrapType, csrw_sscratch
  <2>2. SavingInv'
    BY <1>12, SMTT(30) DEF SavingInv, csrw_sscratch
  <2>3. RestoringInv'
    BY <1>12, SMTT(30) DEF Matches, RestoringInv, csrw_sscratch
  <2>4. ContextKept'
    BY <1>12, ZenonT(60) DEF Matches, ContextKept, csrw_sscratch
  <2>5. EntryFindsProcess'
    BY <1>12, Zenon DEF EntryFindsProcess, csrw_sscratch
  <2>6. TranslationsFresh'
    BY <1>12, Zenon DEF TranslationsFresh, csrw_sscratch
  <2> QED BY <2>1, <2>2, <2>3, <2>4, <2>5, <2>6, Zenon
<1>13. CASE let_t6
  <2>1. TrapType'
    BY <1>13, Zenon DEF TrapType, let_t6
  <2>2. SavingInv'
    BY <1>13, Zenon DEF SavingInv, let_t6
  <2>3. RestoringInv'
    BY <1>13 DEF TrapType, Matches, RestoringInv, let_t6
  <2>4. ContextKept'
    BY <1>13 DEF Matches, ContextKept, let_t6
  <2>5. EntryFindsProcess'
    BY <1>13, Zenon DEF EntryFindsProcess, let_t6
  <2>6. TranslationsFresh'
    BY <1>13, Zenon DEF TranslationsFresh, let_t6
  <2> QED BY <2>1, <2>2, <2>3, <2>4, <2>5, <2>6, Zenon
<1>14. CASE restore_all_registers
  <2>1. TrapType'
    BY <1>14, SMTT(30) DEF TrapType, restore_all_registers, NextReg
  <2>2. SavingInv'
    BY <1>14, Zenon DEF SavingInv, restore_all_registers, NextReg
  <2>3. RestoringInv'
    BY <1>14, SMTT(30) DEF TrapType, Matches, Agree, RestoringInv, restore_all_registers, NextReg
  <2>4. ContextKept'
    BY <1>14, SMTT(60) DEF RestoringInv, Matches, Agree, ContextKept, restore_all_registers, NextReg
  <2>5. EntryFindsProcess'
    BY <1>14, Zenon DEF RestoringInv, EntryFindsProcess, restore_all_registers, NextReg
  <2>6. TranslationsFresh'
    BY <1>14, Zenon DEF RestoringInv, TranslationsFresh, restore_all_registers, NextReg
  <2> QED BY <2>1, <2>2, <2>3, <2>4, <2>5, <2>6, Zenon
<1>15. CASE mtrapvec
  <2>1. TrapType'
    BY <1>15, SMTT(30) DEF TrapType, mtrapvec
  <2>2. SavingInv'
    BY <1>15, SMTT(30) DEF Agree, SavingInv, mtrapvec
  <2>3. RestoringInv'
    BY <1>15, SMTT(30) DEF Matches, Agree, RestoringInv, mtrapvec
  <2>4. ContextKept'
    BY <1>15 DEF Matches, ContextKept, mtrapvec
  <2>5. EntryFindsProcess'
    BY <1>15 DEF EntryFindsProcess, mtrapvec
  <2>6. TranslationsFresh'
    BY <1>15, Zenon DEF TranslationsFresh, mtrapvec
  <2> QED BY <2>1, <2>2, <2>3, <2>4, <2>5, <2>6, Zenon
<1>16. CASE vector_faults
  <2>1. TrapType'
    BY <1>16, SMTT(30) DEF TrapType, vector_faults
  <2>2. SavingInv'
    BY <1>16, SMTT(30) DEF SavingInv, vector_faults
  <2>3. RestoringInv'
    BY <1>16, ZenonT(60) DEF RestoringInv, vector_faults
  <2>4. ContextKept'
    BY <1>16, ZenonT(60) DEF Matches, ContextKept, vector_faults
  <2>5. EntryFindsProcess'
    BY <1>16, Zenon DEF EntryFindsProcess, vector_faults
  <2>6. TranslationsFresh'
    BY <1>16, SMTT(30) DEF TranslationsFresh, vector_faults
  <2> QED BY <2>1, <2>2, <2>3, <2>4, <2>5, <2>6, Zenon
<1>17. CASE UNCHANGED trapVars
  BY <1>17, SMTT(60) DEF trapVars, TrapType, SavingInv, RestoringInv, ContextKept, EntryFindsProcess,
     TranslationsFresh, Matches, Agree
<1> QED BY <1>1, <1>2, <1>3, <1>4, <1>5, <1>6, <1>7, <1>8, <1>9, <1>10, <1>11, <1>12, <1>13,
   <1>14, <1>15, <1>16, <1>17, Zenon DEF TrapNext

\* The invariant holds in every state of every behaviour.
THEOREM TrapInvariant == TrapSpec => []TrapInv
<1>1. TrapInit => TrapInv
  BY TrapStart, Zenon
<1>2. TrapInv /\ [TrapNext]_trapVars => TrapInv'
  BY TrapStep, Zenon
<1> QED BY <1>1, <1>2, PTL DEF TrapSpec

-----------------------------------------------------------------------------
(* What it implies. *)

\* A process keeps its registers, t6 apart, through traps, switches and forks, with the
\* machine timer at any instruction of the vectors.
THEOREM ContextAlwaysKept == TrapSpec => []ContextKept
<1>1. TrapInv => ContextKept
  BY Zenon DEF TrapInv
<1> QED BY <1>1, TrapInvariant, PTL

\* smode_trap_vector finds the process it came from, and the handler runs on its kernel
\* stack.
THEOREM EntryIsSound == TrapSpec => []EntryFindsProcess
<1>1. TrapInv => EntryFindsProcess
  BY Zenon DEF TrapInv
<1> QED BY <1>1, TrapInvariant, PTL

\* The two flushes of the vectors are enough.
THEOREM TranslationsAreFresh == TrapSpec => []TranslationsFresh
<1>1. TrapInv => TranslationsFresh
  BY Zenon DEF TrapInv
<1> QED BY <1>1, TrapInvariant, PTL

-----------------------------------------------------------------------------
(* The host-target interface. *)

Messages == [dev : {0, 1}, cmd : {0, 1}, data : Nat]

\* What a sequence of responses holds.
HasKey(s) == \E i \in DOMAIN s : IsRead(s[i])
HasAnswer(s) == \E i \in DOMAIN s : IsSyscall(s[i])
OneKey(s) == \A i, j \in DOMAIN s : IsRead(s[i]) /\ IsRead(s[j]) => i = j
OneAnswer(s) == \A i, j \in DOMAIN s : IsSyscall(s[i]) /\ IsSyscall(s[j]) => i = j
KeysAre(s, n) == \A i \in DOMAIN s : IsRead(s[i]) => s[i].data = n

HtifType ==
    /\ pc \in {"idle", "set_tohost", "wait", "return", "exit", "poweroff"}
    /\ ending \in {"none", "exit", "poweroff"}
    /\ {call, tohost, fromhost} \subseteq Messages \cup {NONE}
    /\ calls \in Nat /\ reads \in Nat /\ htif_console_buf \in Nat /\ typed \in 0 .. MaxTyped
    /\ magic_mem \in [call : Nat, done : BOOLEAN]
    /\ responses \in Seq(Messages) /\ executed \in Seq(Messages) /\ sent \in Seq(Messages)
    /\ got \in Seq(Nat)

\* A syscall command or its answer is on the way only while the kernel waits for it, in
\* one place, and the answer only when the host is done; htif_poweroff() is reached
\* with tohost free.
AnswerInv ==
    /\ pc \in {"set_tohost", "wait", "return"} => call # NONE
    /\ pc \in {"wait", "return"} => IsSyscall(call)
    /\ (pc \in {"set_tohost", "wait", "return"} /\ IsSyscall(call)) => magic_mem.call = call.data
    /\ (IsSyscall(tohost) \/ IsSyscall(fromhost) \/ HasAnswer(responses)) =>
         pc \in {"wait", "poweroff"}
    /\ pc = "wait" =>
         /\ tohost = NONE \/ IsSyscall(tohost)
         /\ IsSyscall(tohost) => ~IsSyscall(fromhost) /\ ~HasAnswer(responses)
         /\ IsSyscall(fromhost) => ~HasAnswer(responses)
         /\ OneAnswer(responses)
         /\ (IsSyscall(fromhost) \/ HasAnswer(responses)) => magic_mem.done
    /\ pc = "return" => magic_mem.done /\ tohost = NONE
    /\ pc = "poweroff" => tohost \in {NONE, POWER}

\* The host is behind by the command in tohost and by no other.
OrderInv == sent = IF tohost = NONE THEN executed ELSE Append(executed, tohost)

\* There is one place for the next key: about to be asked for, asked for, owed by the
\* host, on the way, in fromhost, or in the buffer.
KeyInv ==
    /\ (pc = "set_tohost" /\ IsRead(call)) =>
         /\ ~IsRead(tohost) /\ reads = 0 /\ ~HasKey(responses) /\ ~IsRead(fromhost)
         /\ htif_console_buf = EMPTY
    /\ IsRead(tohost) => /\ reads = 0 /\ ~HasKey(responses) /\ ~IsRead(fromhost)
                         /\ htif_console_buf = EMPTY
    /\ reads <= 1
    /\ reads = 1 => ~HasKey(responses) /\ ~IsRead(fromhost) /\ htif_console_buf = EMPTY
    /\ HasKey(responses) => ~IsRead(fromhost) /\ htif_console_buf = EMPTY
    /\ OneKey(responses)
    /\ IsRead(fromhost) => htif_console_buf = EMPTY

\* The key in that place is the next one, until htif_poweroff() clears fromhost.
KeyOrderInv ==
    /\ got = [i \in 1 .. Len(got) |-> i]
    /\ pc # "poweroff" =>
         /\ HasKey(responses) => KeysAre(responses, typed) /\ typed = Len(got) + 1
         /\ IsRead(fromhost) => fromhost.data = typed /\ typed = Len(got) + 1
         /\ htif_console_buf \notin {UNUSED, EMPTY} =>
              htif_console_buf = Key(typed) /\ typed = Len(got) + 1
         /\ (~HasKey(responses) /\ ~IsRead(fromhost) /\ htif_console_buf \in {UNUSED, EMPTY}) =>
              typed = Len(got)

HtifInv == HtifType /\ AnswerInv /\ OrderInv /\ KeyInv /\ KeyOrderInv

-----------------------------------------------------------------------------
(* Messages and sequences of them. *)

\* The messages the kernel sends are messages, and NONE is none.
LEMMA MessageFacts ==
    /\ NONE \notin Messages /\ ~IsRead(NONE) /\ ~IsSyscall(NONE)
    /\ \A m \in Messages : IsRead(m) => ~IsSyscall(m)
    /\ \A n \in Nat : /\ Message(0, 0, n) \in Messages /\ IsSyscall(Message(0, 0, n))
                      /\ Message(1, 1, n) \in Messages /\ ~IsSyscall(Message(1, 1, n))
                      /\ ~IsRead(Message(1, 1, n)) /\ ~IsRead(Message(0, 0, n))
                      /\ Message(1, 0, n) \in Messages /\ IsRead(Message(1, 0, n))
                      /\ ~IsSyscall(Message(1, 0, n))
                      /\ Message(0, 0, n).data = n /\ Message(1, 0, n).data = n
    /\ EXIT \in Messages /\ IsSyscall(EXIT) /\ ~IsRead(EXIT)
    /\ POWER \in Messages /\ IsSyscall(POWER) /\ ~IsRead(POWER)
  BY HtifAssumption DEF NONE, Messages, Message, IsRead, IsSyscall, EXIT, POWER

\* What a response added at the end changes.
LEMMA AppendFacts ==
    ASSUME NEW s \in Seq(Messages), NEW m \in Messages
    PROVE  /\ Append(s, m) \in Seq(Messages)
           /\ HasKey(Append(s, m)) <=> HasKey(s) \/ IsRead(m)
           /\ HasAnswer(Append(s, m)) <=> HasAnswer(s) \/ IsSyscall(m)
           /\ OneKey(s) /\ ~(HasKey(s) /\ IsRead(m)) => OneKey(Append(s, m))
           /\ OneAnswer(s) /\ ~(HasAnswer(s) /\ IsSyscall(m)) => OneAnswer(Append(s, m))
           /\ \A n : KeysAre(s, n) /\ (IsRead(m) => m.data = n) => KeysAre(Append(s, m), n)
           /\ \A n : ~HasKey(s) /\ m.data = n => KeysAre(Append(s, m), n)
<1> DEFINE t == Append(s, m)
<1>1. /\ t \in Seq(Messages) /\ DOMAIN s = 1 .. Len(s) /\ DOMAIN t = 1 .. Len(s) + 1 /\ Len(s) \in Nat
      /\ t[Len(s) + 1] = m /\ \A i \in 1 .. Len(s) : t[i] = s[i]
  OBVIOUS
<1>2. \A i \in 1 .. Len(s) + 1 : i \in 1 .. Len(s) \/ i = Len(s) + 1
  BY <1>1
<1>3. \A i \in 1 .. Len(s) : i \in 1 .. Len(s) + 1
  BY <1>1
<1>4. Len(s) + 1 \in 1 .. Len(s) + 1
  BY <1>1
<1> HIDE DEF t
<1>5. (HasKey(t) <=> HasKey(s) \/ IsRead(m)) /\ (HasAnswer(t) <=> HasAnswer(s) \/ IsSyscall(m))
  BY <1>1, <1>2, <1>3, <1>4, Zenon DEF HasKey, HasAnswer
<1>6. OneKey(s) /\ ~(HasKey(s) /\ IsRead(m)) => OneKey(t)
  BY <1>1, <1>2, Zenon DEF HasKey, OneKey
<1>7. OneAnswer(s) /\ ~(HasAnswer(s) /\ IsSyscall(m)) => OneAnswer(t)
  BY <1>1, <1>2, Zenon DEF HasAnswer, OneAnswer
<1>8. \A n : KeysAre(s, n) /\ (IsRead(m) => m.data = n) => KeysAre(t, n)
  BY <1>1, <1>2, Zenon DEF KeysAre
<1>9. \A n : ~HasKey(s) /\ m.data = n => KeysAre(t, n)
  BY <1>1, <1>2, Zenon DEF KeysAre, HasKey
<1> QED BY <1>1, <1>5, <1>6, <1>7, <1>8, <1>9, Zenon DEF t

\* What the host's taking the first response changes.
LEMMA TailFacts ==
    ASSUME NEW s \in Seq(Messages), s # <<>>
    PROVE  /\ Head(s) \in Messages /\ Tail(s) \in Seq(Messages)
           /\ HasKey(s) <=> HasKey(Tail(s)) \/ IsRead(Head(s))
           /\ HasAnswer(s) <=> HasAnswer(Tail(s)) \/ IsSyscall(Head(s))
           /\ OneKey(s) => OneKey(Tail(s)) /\ ~(HasKey(Tail(s)) /\ IsRead(Head(s)))
           /\ OneAnswer(s) => OneAnswer(Tail(s)) /\ ~(HasAnswer(Tail(s)) /\ IsSyscall(Head(s)))
           /\ \A n : KeysAre(s, n) => KeysAre(Tail(s), n) /\ (IsRead(Head(s)) => Head(s).data = n)
<1> DEFINE t == Tail(s)
           h == Head(s)
<1>1. /\ t \in Seq(Messages) /\ DOMAIN s = 1 .. Len(s) /\ DOMAIN t = 1 .. Len(s) - 1
      /\ Len(s) \in Nat \ {0}
      /\ h = s[1] /\ \A i \in 1 .. Len(s) - 1 : t[i] = s[i + 1]
      /\ h \in Messages
  OBVIOUS
<1>2. /\ \A i \in 1 .. Len(s) : i = 1 \/ (i - 1 \in 1 .. Len(s) - 1 /\ s[i] = t[i - 1])
      /\ \A i \in 1 .. Len(s) - 1 : i + 1 \in 1 .. Len(s) /\ i + 1 # 1
      /\ 1 \in 1 .. Len(s)
      /\ \A i, j \in 1 .. Len(s) - 1 : i + 1 = j + 1 => i = j
  BY <1>1
<1> HIDE DEF t, h
<1>5. (HasKey(s) <=> HasKey(t) \/ IsRead(h)) /\ (HasAnswer(s) <=> HasAnswer(t) \/ IsSyscall(h))
  BY <1>1, <1>2, Zenon DEF HasKey, HasAnswer
<1>6. OneKey(s) => OneKey(t) /\ ~(HasKey(t) /\ IsRead(h))
  <2> SUFFICES ASSUME OneKey(s) PROVE OneKey(t) /\ ~(HasKey(t) /\ IsRead(h))
    BY Zenon
  <2>1. ASSUME NEW i \in 1 .. Len(s) - 1, NEW j \in 1 .. Len(s) - 1, IsRead(t[i]), IsRead(t[j])
        PROVE  i = j
    <3>1. IsRead(s[i + 1]) /\ IsRead(s[j + 1])
      BY <1>1, <2>1, Zenon
    <3> QED BY <1>1, <1>2, <3>1, Zenon DEF OneKey
  <2>2. ASSUME NEW i \in 1 .. Len(s) - 1, IsRead(t[i]), IsRead(h)
        PROVE  FALSE
    <3>1. IsRead(s[i + 1]) /\ IsRead(s[1])
      BY <1>1, <2>2, Zenon
    <3> QED BY <1>1, <1>2, <3>1, Zenon DEF OneKey
  <2> QED BY <1>1, <2>1, <2>2, Zenon DEF OneKey, HasKey
<1>7. OneAnswer(s) => OneAnswer(t) /\ ~(HasAnswer(t) /\ IsSyscall(h))
  <2> SUFFICES ASSUME OneAnswer(s) PROVE OneAnswer(t) /\ ~(HasAnswer(t) /\ IsSyscall(h))
    BY Zenon
  <2>1. ASSUME NEW i \in 1 .. Len(s) - 1, NEW j \in 1 .. Len(s) - 1, IsSyscall(t[i]), IsSyscall(t[j])
        PROVE  i = j
    <3>1. IsSyscall(s[i + 1]) /\ IsSyscall(s[j + 1])
      BY <1>1, <2>1, Zenon
    <3> QED BY <1>1, <1>2, <3>1, Zenon DEF OneAnswer
  <2>2. ASSUME NEW i \in 1 .. Len(s) - 1, IsSyscall(t[i]), IsSyscall(h)
        PROVE  FALSE
    <3>1. IsSyscall(s[i + 1]) /\ IsSyscall(s[1])
      BY <1>1, <2>2, Zenon
    <3> QED BY <1>1, <1>2, <3>1, Zenon DEF OneAnswer
  <2> QED BY <1>1, <2>1, <2>2, Zenon DEF OneAnswer, HasAnswer
<1>8. \A n : KeysAre(s, n) => KeysAre(t, n) /\ (IsRead(h) => h.data = n)
  BY <1>1, <1>2, SMTT(30) DEF KeysAre
<1> QED BY <1>1, <1>5, <1>6, <1>7, <1>8, Zenon DEF t, h

-----------------------------------------------------------------------------
(* The invariant. *)

\* Init establishes the invariant.
LEMMA HtifInit == Init => HtifInv
<1> SUFFICES ASSUME Init PROVE HtifInv
  BY Zenon
<1>1. HtifType
  BY HtifAssumption DEF Init, HtifType, UNUSED
<1>2. ~HasKey(responses) /\ ~HasAnswer(responses) /\ OneKey(responses) /\ Len(got) = 0
  BY DEF Init, HasKey, HasAnswer, OneKey
<1>3. AnswerInv /\ KeyInv
  BY <1>2, MessageFacts DEF Init, AnswerInv, KeyInv
<1>4. OrderInv
  BY Zenon DEF Init, OrderInv
<1>5. KeyOrderInv
  BY <1>2, MessageFacts DEF Init, KeyOrderInv
<1> QED BY <1>1, <1>3, <1>4, <1>5, Zenon DEF HtifInv

\* Every step preserves the invariant.
LEMMA HtifStep == HtifInv /\ [Next]_vars => HtifInv'
<1> SUFFICES ASSUME HtifInv, [Next]_vars PROVE HtifInv'
  BY Zenon
<1> USE HtifAssumption, MessageFacts DEF HtifInv
<1>f. /\ IsRead(fromhost) => fromhost \in Messages /\ ~IsSyscall(fromhost) /\ fromhost.data \in Nat
      /\ IsRead(tohost) => tohost \in Messages /\ ~IsSyscall(tohost)
      /\ CheckedBuf \in Nat
  <2>1. \A m \in Messages : m.data \in Nat
    BY Zenon DEF Messages
  <2> QED BY <2>1 DEF HtifType, CheckedBuf, Key
<1>k. ASSUME pc # "poweroff"
      PROVE  /\ CheckedBuf \notin {UNUSED, EMPTY} =>
                  /\ CheckedBuf = typed + 1 /\ typed = Len(got) + 1
                  /\ reads = 0 /\ ~IsRead(tohost) /\ ~HasKey(responses)
             /\ CheckedBuf \in {UNUSED, EMPTY} => ~IsRead(fromhost) /\ CheckedBuf = htif_console_buf
  <2>1. CASE IsRead(fromhost)
    <3>1. CheckedBuf = typed + 1 /\ typed = Len(got) + 1
      BY <1>k, <1>f, <2>1 DEF KeyOrderInv, CheckedBuf, Key
    <3>2. reads = 0 /\ ~IsRead(tohost) /\ ~HasKey(responses)
      BY <2>1 DEF HtifType, KeyInv
    <3>3. CheckedBuf \notin {UNUSED, EMPTY}
      BY <3>1 DEF HtifType, UNUSED, EMPTY
    <3> QED BY <3>1, <3>2, <3>3, Zenon
  <2>2. CASE ~IsRead(fromhost)
    <3>1. CheckedBuf = htif_console_buf
      BY <2>2, Zenon DEF CheckedBuf
    <3>2. ASSUME CheckedBuf \notin {UNUSED, EMPTY}
          PROVE  /\ CheckedBuf = typed + 1 /\ typed = Len(got) + 1
                 /\ reads = 0 /\ ~IsRead(tohost) /\ ~HasKey(responses)
      <4>1. htif_console_buf # EMPTY /\ reads # 1 /\ reads \in Nat /\ reads <= 1
        BY <3>1, <3>2, Zenon DEF HtifType, KeyInv
      <4>2. reads = 0 /\ ~IsRead(tohost) /\ ~HasKey(responses)
        BY <4>1, SMTT(30) DEF KeyInv
      <4>3. htif_console_buf = Key(typed) /\ typed = Len(got) + 1
        BY <1>k, <3>1, <3>2, Zenon DEF KeyOrderInv
      <4> QED BY <3>1, <4>2, <4>3 DEF Key
    <3> QED BY <2>2, <3>1, <3>2, Zenon
  <2> QED BY <2>1, <2>2, Zenon
<1>c. /\ IsRead(fromhost) => /\ ~(pc = "set_tohost" /\ IsRead(call)) /\ ~IsRead(tohost)
                             /\ reads = 0 /\ ~HasKey(responses)
      /\ ~IsRead(fromhost) => CheckedBuf = htif_console_buf
  BY DEF HtifType, KeyInv, CheckedBuf
<1>1. CASE frontend_syscall
  <2>1. HtifType'
    BY <1>1 DEF HtifType, frontend_syscall, Request, host
  <2>2. AnswerInv'
    BY <1>1 DEF HtifType, AnswerInv, frontend_syscall, Request, host
  <2>3. OrderInv'
    BY <1>1, Zenon DEF OrderInv, frontend_syscall, Request, host
  <2>4. KeyInv'
    BY <1>1 DEF HtifType, KeyInv, frontend_syscall, Request, host
  <2>5. KeyOrderInv'
    BY <1>1, Zenon DEF KeyOrderInv, frontend_syscall, Request, host
  <2> QED BY <2>1, <2>2, <2>3, <2>4, <2>5, Zenon
<1>2. ASSUME NEW how \in {"exit", "poweroff"}, stop(how)
      PROVE  HtifInv'
  <2>1. HtifType'
    BY <1>2 DEF HtifType, stop, Request, host
  <2>2. AnswerInv'
    BY <1>2 DEF HtifType, AnswerInv, stop, Request, host
  <2>3. OrderInv'
    BY <1>2, Zenon DEF OrderInv, stop, Request, host
  <2>4. KeyInv'
    BY <1>2 DEF HtifType, KeyInv, stop, Request, host
  <2>5. KeyOrderInv'
    BY <1>2, Zenon DEF KeyOrderInv, stop, Request, host
  <2> QED BY <2>1, <2>2, <2>3, <2>4, <2>5, Zenon
<1>3. CASE htif_console_putchar
  <2>1. HtifType'
    BY <1>3 DEF HtifType, htif_console_putchar, host
  <2>2. AnswerInv'
    BY <1>3 DEF HtifType, AnswerInv, htif_console_putchar, host
  <2>3. OrderInv'
    BY <1>3, Zenon DEF OrderInv, htif_console_putchar, host
  <2>4. KeyInv'
    BY <1>3 DEF HtifType, KeyInv, htif_console_putchar, host
  <2>5. KeyOrderInv'
    BY <1>3, Zenon DEF KeyOrderInv, htif_console_putchar, host
  <2> QED BY <2>1, <2>2, <2>3, <2>4, <2>5, Zenon
<1>4. CASE htif_console_getchar
  <2>0. /\ ~IsSyscall(fromhost)
        /\ CheckedBuf \notin {UNUSED, EMPTY} =>
             Append(got, CheckedBuf - 1) = Append(got, Len(got) + 1)
        /\ got = [i \in 1 .. Len(got) |-> i] =>
              Append(got, Len(got) + 1) = [i \in 1 .. Len(Append(got, Len(got) + 1)) |-> i]
        /\ Append(got, Len(got) + 1) \in Seq(Nat) /\ Len(Append(got, Len(got) + 1)) = Len(got) + 1
    BY <1>4, <1>k DEF HtifType, AnswerInv, htif_console_getchar
  <2>g. got' \in Seq(Nat) /\ EMPTY \in Nat
    <3>1. \/ got' = got
          \/ CheckedBuf \notin {UNUSED, EMPTY} /\ got' = Append(got, CheckedBuf - 1)
      BY <1>4, Zenon DEF htif_console_getchar
    <3>2. got \in Seq(Nat) /\ EMPTY \in Nat
      BY DEF HtifType, EMPTY
    <3> QED BY <2>0, <3>1, <3>2, Zenon
  <2>1. HtifType'
    BY <1>4, <2>0, <2>g DEF HtifType, htif_console_getchar, AfterCheck, host
  <2>2. AnswerInv'
    BY <1>4, <2>0, Zenon DEF AnswerInv, htif_console_getchar, AfterCheck, host
  <2>3. OrderInv'
    BY <1>4, Zenon DEF OrderInv, htif_console_getchar, host
  <2>4. KeyInv'
    BY <1>4, <1>k, <2>0 DEF HtifType, KeyInv, htif_console_getchar, AfterCheck, host
  <2>5. KeyOrderInv'
    BY <1>4, <1>k, <2>0, Zenon DEF KeyOrderInv, htif_console_getchar, host
  <2> QED BY <2>1, <2>2, <2>3, <2>4, <2>5, Zenon
<1>5. CASE set_tohost_wait
  <2>0. ~IsSyscall(fromhost)
    BY <1>5, Zenon DEF AnswerInv, set_tohost_wait
  <2>1. HtifType'
    BY <1>5, <1>f, <2>0, Zenon DEF HtifType, set_tohost_wait, AfterCheck, host
  <2>2. AnswerInv'
    BY <1>5, <2>0, Zenon DEF AnswerInv, set_tohost_wait, AfterCheck, host
  <2>3. OrderInv'
    BY <1>5, Zenon DEF OrderInv, set_tohost_wait, host
  <2>4. KeyInv'
    <3>1. CASE IsRead(fromhost)
      BY <1>5, <1>c, <2>0, <3>1, Zenon DEF KeyInv, set_tohost_wait, host
    <3>2. CASE ~IsRead(fromhost)
      BY <1>5, <1>c, <2>0, <3>2, Zenon DEF KeyInv, set_tohost_wait, host
    <3> QED BY <3>1, <3>2, Zenon
  <2>5. KeyOrderInv'
    <3>1. CASE IsRead(fromhost)
      <4>1. /\ CheckedBuf \notin {UNUSED, EMPTY} /\ CheckedBuf = Key(typed)
            /\ typed = Len(got) + 1 /\ ~HasKey(responses)
        BY <1>5, <1>k, <3>1 DEF Key, set_tohost_wait
      <4> QED BY <1>5, <4>1, Zenon DEF KeyOrderInv, set_tohost_wait, host
    <3>2. CASE ~IsRead(fromhost)
      BY <1>5, <1>c, <2>0, <3>2, SMTT(30) DEF KeyOrderInv, set_tohost_wait, host
    <3> QED BY <3>1, <3>2, SMTT(30)
  <2> QED BY <2>1, <2>2, <2>3, <2>4, <2>5, Zenon
<1>6. CASE set_tohost
  <2>0. /\ call \in Messages /\ (IsSyscall(call) => magic_mem.call = call.data)
        /\ (~HasAnswer(responses) => OneAnswer(responses))
    BY <1>6, Zenon DEF HasAnswer, OneAnswer, HtifType, AnswerInv, set_tohost
  <2>1. HtifType'
    BY <1>6, <2>0 DEF HtifType, set_tohost, Sends, host
  <2>2. AnswerInv'
    BY <1>6, <2>0, Zenon DEF AnswerInv, set_tohost, Sends, host
  <2>3. OrderInv'
    BY <1>6, <2>0, Zenon DEF OrderInv, set_tohost, Sends, host
  <2>4. KeyInv'
    BY <1>6, <2>0, Zenon DEF KeyInv, set_tohost, Sends, host
  <2>5. KeyOrderInv'
    BY <1>6, <2>0, Zenon DEF KeyOrderInv, set_tohost, Sends, host
  <2> QED BY <2>1, <2>2, <2>3, <2>4, <2>5, Zenon
<1>7. CASE response
  <2>0. IsSyscall(fromhost) /\ fromhost \in Messages /\ ~IsRead(fromhost)
    <3>1. IsSyscall(fromhost)
      BY <1>7, Zenon DEF response, AnswerInv, IsSyscall
    <3> QED BY <3>1, Zenon DEF HtifType
  <2>1. HtifType'
    BY <1>7, <2>0 DEF HtifType, response, host
  <2>2. AnswerInv'
    BY <1>7, <2>0, SMTT(30) DEF AnswerInv, response, host
  <2>3. OrderInv'
    BY <1>7, Zenon DEF OrderInv, response, host
  <2>4. KeyInv'
    BY <1>7, <2>0, Zenon DEF KeyInv, response, host
  <2>5. KeyOrderInv'
    BY <1>7, <2>0, Zenon DEF KeyOrderInv, response, host
  <2> QED BY <2>1, <2>2, <2>3, <2>4, <2>5, Zenon
<1>8. CASE response_of_console
  <2>0. ~IsSyscall(fromhost)
    BY <1>8, Zenon DEF response_of_console
  <2>1. HtifType'
    BY <1>8, <1>f, <2>0 DEF HtifType, response_of_console, host
  <2>2. AnswerInv'
    BY <1>8, <2>0, Zenon DEF AnswerInv, response_of_console, host
  <2>3. OrderInv'
    BY <1>8, Zenon DEF OrderInv, response_of_console, host
  <2>4. KeyInv'
    <3>1. CASE IsRead(fromhost)
      BY <1>8, <1>c, <2>0, <3>1, Zenon DEF KeyInv, response_of_console, host
    <3>2. CASE ~IsRead(fromhost)
      BY <1>8, <1>c, <2>0, <3>2, SMTT(30) DEF KeyInv, response_of_console, host
    <3> QED BY <3>1, <3>2, Zenon
  <2>5. KeyOrderInv'
    <3>1. CASE IsRead(fromhost)
      <4>1. /\ CheckedBuf \notin {UNUSED, EMPTY} /\ CheckedBuf = Key(typed)
            /\ typed = Len(got) + 1 /\ ~HasKey(responses)
        BY <1>8, <1>k, <3>1 DEF Key, response_of_console
      <4> QED BY <1>8, <4>1, Zenon DEF KeyOrderInv, response_of_console, host
    <3>2. CASE ~IsRead(fromhost)
      BY <1>8, <1>c, <2>0, <3>2, Zenon DEF KeyOrderInv, response_of_console, host
    <3> QED BY <3>1, <3>2, Zenon
  <2> QED BY <2>1, <2>2, <2>3, <2>4, <2>5, Zenon
<1>9. CASE syscall_returns
  <2>1. HtifType'
    BY <1>9, Zenon DEF HtifType, syscall_returns, host
  <2>2. AnswerInv'
    BY <1>9, Zenon DEF HtifType, AnswerInv, syscall_returns, host
  <2>3. OrderInv'
    BY <1>9, Zenon DEF OrderInv, syscall_returns, host
  <2>4. KeyInv'
    BY <1>9, Zenon DEF HtifType, KeyInv, syscall_returns, host
  <2>5. KeyOrderInv'
    BY <1>9, SMTT(30) DEF KeyOrderInv, syscall_returns, host
  <2> QED BY <2>1, <2>2, <2>3, <2>4, <2>5, Zenon
<1>10. CASE shutdown_exit
  <2>0. EXIT.data \in Nat
    BY SMTT(30) DEF EXIT, Message
  <2>1. HtifType'
    BY <1>10, <2>0 DEF HtifType, shutdown_exit, Request, host
  <2>2. AnswerInv'
    BY <1>10, <2>0, Zenon DEF AnswerInv, shutdown_exit, Request, host
  <2>3. OrderInv'
    BY <1>10, Zenon DEF OrderInv, shutdown_exit, Request, host
  <2>4. KeyInv'
    BY <1>10, <2>0, Zenon DEF KeyInv, shutdown_exit, Request, host
  <2>5. KeyOrderInv'
    BY <1>10, <2>0, Zenon DEF KeyOrderInv, shutdown_exit, Request, host
  <2> QED BY <2>1, <2>2, <2>3, <2>4, <2>5, Zenon
<1>11. CASE htif_poweroff
  <2>0. tohost \in {NONE, POWER} /\ POWER # NONE
    BY <1>11, Zenon DEF htif_poweroff, AnswerInv
  <2>1. HtifType'
    BY <1>11, <2>0, SMTT(30) DEF HtifType, htif_poweroff, host
  <2>2. AnswerInv'
    BY <1>11, <2>0, Zenon DEF AnswerInv, htif_poweroff
  <2>3. OrderInv'
    BY <1>11, <2>0, SMTT(30) DEF OrderInv, htif_poweroff, host
  <2>4. KeyInv'
    BY <1>11, <2>0, Zenon DEF KeyInv, htif_poweroff, host
  <2>5. KeyOrderInv'
    BY <1>11, <2>0, Zenon DEF KeyOrderInv, htif_poweroff
  <2> QED BY <2>1, <2>2, <2>3, <2>4, <2>5, Zenon
<1>12. CASE host_takes
  <2>t. /\ tohost \in Messages
        /\ tohost.dev = 1 /\ tohost.cmd = 1 => ~IsSyscall(tohost) /\ ~IsRead(tohost)
    BY <1>12, Zenon DEF HtifType, host_takes, IsRead, IsSyscall
  <2>0. /\ tohost \in Messages
        /\ magic_mem' \in [call : Nat, done : BOOLEAN] /\ magic_mem'.call = magic_mem.call
        /\ IsSyscall(tohost) => magic_mem'.done
        /\ magic_mem.done => magic_mem'.done
    BY <1>12, <2>t, ZenonT(60) DEF HtifType, host_takes
  <2>a. \A m \in Messages :
           /\ Append(responses, m) \in Seq(Messages)
           /\ HasKey(Append(responses, m)) <=> HasKey(responses) \/ IsRead(m)
           /\ HasAnswer(Append(responses, m)) <=> HasAnswer(responses) \/ IsSyscall(m)
           /\ OneKey(responses) /\ ~(HasKey(responses) /\ IsRead(m)) => OneKey(Append(responses, m))
           /\ OneAnswer(responses) /\ ~(HasAnswer(responses) /\ IsSyscall(m)) =>
                OneAnswer(Append(responses, m))
           /\ \A n : KeysAre(responses, n) /\ (IsRead(m) => m.data = n) =>
                KeysAre(Append(responses, m), n)
    BY AppendFacts, Zenon DEF HtifType
  <2>b. /\ responses' \in Seq(Messages)
        /\ HasKey(responses') <=> HasKey(responses)
        /\ HasAnswer(responses') <=> HasAnswer(responses) \/ IsSyscall(tohost)
        /\ OneKey(responses) => OneKey(responses')
        /\ OneAnswer(responses) /\ ~(HasAnswer(responses) /\ IsSyscall(tohost)) =>
             OneAnswer(responses')
        /\ \A n : KeysAre(responses, n) => KeysAre(responses', n)
    <3>1. CASE IsSyscall(tohost)
      <4>1. responses' = Append(responses, Message(0, 0, 1))
        BY <1>12, <2>t, <3>1, Zenon DEF host_takes
      <4> QED BY <2>a, <3>1, <4>1, Zenon
    <3>2. CASE ~IsSyscall(tohost)
      <4>1. responses' \in {responses, Append(responses, Message(1, 1, 0))}
        BY <1>12, <2>t, <3>2, Zenon DEF host_takes
      <4>2. CASE responses' = responses
        BY <3>2, <4>2, Zenon DEF HtifType
      <4>3. CASE responses' = Append(responses, Message(1, 1, 0))
        BY <2>a, <3>2, <4>3, Zenon
      <4> QED BY <4>1, <4>2, <4>3, Zenon
    <3> QED BY <3>1, <3>2, Zenon
  <2>1. HtifType'
    BY <1>12, <2>0, <2>b DEF HtifType, host_takes, kernel
  <2>2. AnswerInv'
    BY <1>12, <2>0, <2>b, Zenon DEF AnswerInv, host_takes, kernel
  <2>3. OrderInv'
    BY <1>12, <2>0, Zenon DEF OrderInv, host_takes, kernel
  <2>4. KeyInv'
    BY <1>12, <2>0, <2>b DEF KeyInv, host_takes, kernel
  <2>5. KeyOrderInv'
    BY <1>12, <2>0, <2>b, SMTT(30) DEF KeyOrderInv, host_takes, kernel
  <2> QED BY <2>1, <2>2, <2>3, <2>4, <2>5, Zenon
<1>13. CASE host_key
  <2> DEFINE m == Message(1, 0, typed + 1)
  <2>0. /\ m \in Messages /\ IsRead(m) /\ ~IsSyscall(m) /\ m.data = typed + 1
        /\ reads = 1 /\ ~HasKey(responses)
    BY <1>13, SMTT(30) DEF HtifType, KeyInv, host_key
  <2>a. /\ responses' = Append(responses, m) /\ responses' \in Seq(Messages)
        /\ HasKey(responses') /\ OneKey(responses')
        /\ HasAnswer(responses') <=> HasAnswer(responses)
        /\ OneAnswer(responses) => OneAnswer(responses')
        /\ KeysAre(responses', typed + 1)
    BY <1>13, <2>0, AppendFacts DEF HtifType, KeyInv, host_key
  <2> HIDE DEF m
  <2>1. HtifType'
    BY <1>13, <2>0, SMTT(30) DEF HtifType, host_key, kernel
  <2>2. AnswerInv'
    BY <1>13, <2>0, <2>a, Zenon DEF AnswerInv, host_key, kernel
  <2>3. OrderInv'
    BY <1>13, SMTT(30) DEF OrderInv, host_key, kernel
  <2>4. KeyInv'
    BY <1>13, <2>0, <2>a, SMTT(30) DEF KeyInv, host_key, kernel
  <2>5. KeyOrderInv'
    BY <1>13, <2>0, <2>a, SMTT(30) DEF KeyInv, KeyOrderInv, host_key, kernel
  <2> QED BY <2>1, <2>2, <2>3, <2>4, <2>5, Zenon
<1>14. CASE host_responds
  <2>0. /\ fromhost' \in Messages /\ responses' \in Seq(Messages)
        /\ HasKey(responses) <=> HasKey(responses') \/ IsRead(fromhost')
        /\ HasAnswer(responses) <=> HasAnswer(responses') \/ IsSyscall(fromhost')
        /\ OneKey(responses) => OneKey(responses') /\ ~(HasKey(responses') /\ IsRead(fromhost'))
        /\ OneAnswer(responses) =>
              OneAnswer(responses') /\ ~(HasAnswer(responses') /\ IsSyscall(fromhost'))
        /\ \A n : KeysAre(responses, n) =>
              KeysAre(responses', n) /\ (IsRead(fromhost') => fromhost'.data = n)
    BY <1>14, TailFacts, SMTT(30) DEF HtifType, host_responds
  <2>1. HtifType'
    BY <1>14, <2>0, SMTT(30) DEF HtifType, host_responds, kernel
  <2>2. AnswerInv'
    BY <1>14, <2>0, Zenon DEF AnswerInv, host_responds, kernel
  <2>3. OrderInv'
    BY <1>14, SMTT(30) DEF OrderInv, host_responds, kernel
  <2>4. KeyInv'
    BY <1>14, <2>0, SMTT(30) DEF KeyInv, host_responds, kernel
  <2>5. KeyOrderInv'
    BY <1>14, <2>0, Zenon DEF KeyOrderInv, host_responds, kernel
  <2> QED BY <2>1, <2>2, <2>3, <2>4, <2>5, Zenon
<1>15. CASE UNCHANGED vars
  <2>1. HtifType'
    BY <1>15, SMTT(30) DEF HtifType, vars, host, kernel
  <2>2. AnswerInv'
    BY <1>15, Zenon DEF AnswerInv, vars, host, kernel
  <2>3. OrderInv'
    BY <1>15, SMTT(30) DEF OrderInv, vars, host, kernel
  <2>4. KeyInv'
    BY <1>15, SMTT(30) DEF KeyInv, vars, host, kernel
  <2>5. KeyOrderInv'
    BY <1>15, SMTT(30) DEF KeyOrderInv, vars, host, kernel
  <2> QED BY <2>1, <2>2, <2>3, <2>4, <2>5, Zenon
<1> QED BY <1>1, <1>2, <1>3, <1>4, <1>5, <1>6, <1>7, <1>8, <1>9, <1>10, <1>11, <1>12, <1>13,
   <1>14, <1>15, Zenon DEF Next, KernelStep

\* The invariant holds in every state of every behaviour.
THEOREM HtifInvariant == Spec => []HtifInv
<1>1. Init => HtifInv
  BY HtifInit, Zenon
<1>2. HtifInv /\ [Next]_vars => HtifInv'
  BY HtifStep, Zenon
<1> QED BY <1>1, <1>2, PTL DEF Spec

-----------------------------------------------------------------------------
(* What it implies. *)

\* frontend_syscall() returns the result of its own call, however many calls are made
\* and keys typed and whatever the console sends in between.
THEOREM SyscallCorrect == Spec => []SyscallReturnsResult
<1>1. HtifInv => SyscallReturnsResult
  BY Zenon DEF HtifInv, AnswerInv, SyscallReturnsResult
<1> QED BY <1>1, HtifInvariant, PTL

\* No assertion of __check_fromhost() fails.
THEOREM AssertionsHold == Spec => []NoAssertionFails
<1>1. HtifInv => NoAssertionFails
  BY Zenon DEF HtifInv, HtifType, NoAssertionFails
<1> QED BY <1>1, HtifInvariant, PTL

\* The host carries out what the kernel sent, in that order and nothing twice.
THEOREM CommandOrder == Spec => []CommandsInOrder
<1>1. HtifInv => CommandsInOrder
  <2> SUFFICES ASSUME HtifInv PROVE CommandsInOrder
    BY Zenon
  <2>1. executed \in Seq(Messages) /\ Len(executed) \in Nat
        /\ executed = SubSeq(executed, 1, Len(executed))
    BY DEF HtifInv, HtifType
  <2>2. CASE tohost = NONE
    BY <2>1, <2>2 DEF HtifInv, OrderInv, CommandsInOrder
  <2>3. CASE tohost # NONE
    <3>1. sent = Append(executed, tohost) /\ tohost \in Messages
      BY <2>3, Zenon DEF HtifInv, HtifType, OrderInv
    <3>2. Len(sent) = Len(executed) + 1 /\ SubSeq(sent, 1, Len(executed)) = executed
      BY <2>1, <3>1
    <3> QED BY <2>1, <2>3, <3>2 DEF CommandsInOrder
  <2> QED BY <2>2, <2>3, Zenon
<1> QED BY <1>1, HtifInvariant, PTL

\* htif_console_getchar() returns the keys once each and in the order typed.
THEOREM KeyOrder == Spec => []KeysInOrder
<1>1. HtifInv => KeysInOrder
  BY Zenon DEF HtifInv, KeyInv, KeyOrderInv, KeysInOrder
<1> QED BY <1>1, HtifInvariant, PTL
=============================================================================
