-------------------------------- MODULE Trap --------------------------------
(***************************************************************************)
(* The assembly between the user and the kernel: smode_trap_vector and     *)
(* return_to_user (kernel/strap_vector.S) with the register macros of      *)
(* util/load_store.S, and mtrapvec (kernel/machine/mtrap_vector.S), which  *)
(* the machine timer can enter between any two instructions of the others. *)
(* One step per instruction that moves a register, one step for the C code *)
(* of a trap, and one for mtrapvec, during which no interrupt is taken.    *)
(*                                                                         *)
(* Five of the thirty-one registers are kept: ra for those the vectors     *)
(* only save and restore, and sp, t0, a0 and t6, which they use.  A value  *)
(* is tagged with what it is: a number of the application, a pointer to a  *)
(* trapframe, to a kernel stack or to g_itrframe, or the kernel's.         *)
(***************************************************************************)
EXTENDS Naturals, Sequences

CONSTANTS Procs, First, Numbers

ASSUME TrapAssumption == First \in Procs /\ 0 \in Numbers

VARIABLES
    at,         \* "user", "handler", "stopped", or the next instruction
    k,          \* the next register of a register macro
    regs,
    satp,       \* the page table in use: "user" or "kernel"
    tlb,        \* the tables the cached translations may come from
    sscratch,
    trapframe,  \* trapframe[p]: the saved registers, and kernel_sp
    current,
    live,
    context     \* history: what the registers of p hold as p sees it

trapVars == <<at, k, regs, satp, tlb, sscratch, trapframe, current, live, context>>

\* In the order of the macros: t6 is saved and restored last.
RegOrder == <<"ra", "sp", "t0", "a0", "t6">>
Regs == {RegOrder[i] : i \in DOMAIN RegOrder}

User(n) == <<"user", n>>
TrapframeOf(p) == <<"trapframe", p>>
KstackOf(p) == <<"kstack", p>>
ITRFRAME == <<"itrframe", 0>>
KERNEL == <<"kernel", 0>>
\* The page table of p.  The kernel's is KERNEL.
TableOf(p) == <<"table", p>>

-----------------------------------------------------------------------------
\* The registers when return_to_user(trapframe of p, satp) is called.
Arguments(p) == [r \in Regs |-> IF r = "a0" THEN TrapframeOf(p) ELSE KERNEL]

\* switch_to() for the first process: return_to_user() is about to run.
TrapInit ==
    /\ context = [p \in Procs |-> [r \in Regs |-> User(0)]]
    /\ trapframe = [p \in Procs |->
                       [regs |-> context[p],
                        kernel_sp |-> IF p = First THEN KstackOf(p) ELSE KERNEL]]
    /\ at = "csrw_satp"
    /\ k = 1
    /\ regs = Arguments(First)
    /\ satp = "kernel"
    /\ tlb = {KERNEL}
    /\ sscratch = KERNEL
    /\ current = First
    /\ live = {First}

\* The application computes.
compute ==
    /\ at = "user"
    /\ \E r \in Regs, n \in Numbers :
          /\ regs' = [regs EXCEPT ![r] = User(n)]
          /\ context' = [context EXCEPT ![current][r] = User(n)]
    /\ UNCHANGED <<at, k, satp, tlb, sscratch, trapframe, current, live>>

-----------------------------------------------------------------------------
(* smode_trap_vector. *)

\* A trap from user mode, and csrrw a0, sscratch, a0.
csrrw_a0_sscratch ==
    /\ at = "user"
    /\ regs' = [regs EXCEPT !["a0"] = sscratch]
    /\ sscratch' = regs["a0"]
    /\ at' = "addi_t6"
    /\ UNCHANGED <<k, satp, tlb, trapframe, current, live, context>>

addi_t6 ==
    /\ at = "addi_t6"
    /\ regs' = [regs EXCEPT !["t6"] = regs["a0"]]
    /\ at' = "sd"
    /\ UNCHANGED <<k, satp, tlb, sscratch, trapframe, current, live, context>>

\* The next register of a macro, or what follows the macro.
NextReg(done) ==
    /\ k' = IF k = Len(RegOrder) THEN 1 ELSE k + 1
    /\ at' = IF k = Len(RegOrder) THEN done ELSE at

\* One instruction of store_all_registers, which goes through t6.
store_all_registers ==
    /\ at = "sd"
    /\ regs["t6"] = TrapframeOf(current)
    /\ trapframe' = [trapframe EXCEPT ![current].regs[RegOrder[k]] = regs[RegOrder[k]]]
    /\ NextReg("csrr_t0")
    /\ UNCHANGED <<regs, satp, tlb, sscratch, current, live, context>>

csrr_t0 ==
    /\ at = "csrr_t0"
    /\ regs' = [regs EXCEPT !["t0"] = sscratch]
    /\ at' = "sd_a0"
    /\ UNCHANGED <<k, satp, tlb, sscratch, trapframe, current, live, context>>

\* Mutant: the a0 that points to the trapframe is saved for the user's.
sd_a0_skipped ==
    /\ at = "sd_a0"
    /\ regs["a0"] = TrapframeOf(current)
    /\ at' = "ld_kernel"
    /\ UNCHANGED <<k, regs, satp, tlb, sscratch, trapframe, current, live, context>>

\* sd t0, 72(a0): the user's a0.
sd_a0 ==
    /\ at = "sd_a0"
    /\ regs["a0"] = TrapframeOf(current)
    /\ trapframe' = [trapframe EXCEPT ![current].regs["a0"] = regs["t0"]]
    /\ at' = "ld_kernel"
    /\ UNCHANGED <<k, regs, satp, tlb, sscratch, current, live, context>>

\* The kernel stack, page table and handler, from the trapframe; sfence.vma follows
\* the write of satp.
ld_kernel ==
    /\ at = "ld_kernel"
    /\ regs["a0"] = TrapframeOf(current)
    /\ regs' = [regs EXCEPT !["sp"] = trapframe[current].kernel_sp, !["t0"] = KERNEL]
    /\ satp' = "kernel"
    /\ tlb' = {KERNEL}
    /\ at' = "handler"
    /\ UNCHANGED <<k, sscratch, trapframe, current, live, context>>

-----------------------------------------------------------------------------
(* smode_trap_handler and the C code below it. *)

\* Mutant: kernel_sp is left as it is, for a child that of its parent.
SetKernelSp_not(p) == UNCHANGED trapframe

SetKernelSp(p) == trapframe' = [trapframe EXCEPT ![p].kernel_sp = KstackOf(p)]

\* switch_to(p), up to the call of return_to_user().
switch_to(p) ==
    /\ SetKernelSp(p)
    /\ current' = p
    /\ regs' = Arguments(p)
    /\ at' = "csrw_satp"

\* A timer tick, a page fault, or a syscall that reschedules: the process goes
\* on, or the scheduler has chosen another one.
trap_handled ==
    /\ at = "handler"
    /\ \E p \in live : switch_to(p)
    /\ UNCHANGED <<k, satp, tlb, sscratch, live, context>>

\* handle_syscall() stores the result of a syscall, here before switch_to().
handle_syscall ==
    /\ at = "handler"
    /\ \E n \in Numbers :
          /\ trapframe' = [trapframe EXCEPT ![current].regs["a0"] = User(n),
                                            ![current].kernel_sp = KstackOf(current)]
          /\ context' = [context EXCEPT ![current]["a0"] = User(n)]
    /\ regs' = Arguments(current)
    /\ at' = "csrw_satp"
    /\ UNCHANGED <<k, satp, tlb, sscratch, current, live>>

\* do_fork() copies the whole trapframe, kernel_sp with it, and clears a0.
do_fork ==
    /\ at = "handler"
    /\ \E child \in Procs \ live :
          /\ trapframe' = [trapframe EXCEPT ![child] = trapframe[current],
                                            ![child].regs["a0"] = User(0)]
          /\ context' = [context EXCEPT ![child] = [context[current] EXCEPT !["a0"] = User(0)]]
          /\ live' = live \cup {child}
    /\ UNCHANGED <<at, k, regs, satp, tlb, sscratch, current>>

-----------------------------------------------------------------------------
(* return_to_user. *)

\* Mutant: no sfence.vma.
csrw_satp_unfenced ==
    /\ at = "csrw_satp"
    /\ satp' = "user"
    /\ tlb' = tlb \cup {TableOf(current)}
    /\ at' = "csrw_sscratch"
    /\ UNCHANGED <<k, regs, sscratch, trapframe, current, live, context>>

\* csrw satp, a1 and sfence.vma: from here on translations are cached again.
csrw_satp ==
    /\ at = "csrw_satp"
    /\ satp' = "user"
    /\ tlb' = {TableOf(current)}
    /\ at' = "csrw_sscratch"
    /\ UNCHANGED <<k, regs, sscratch, trapframe, current, live, context>>

csrw_sscratch ==
    /\ at = "csrw_sscratch"
    /\ sscratch' = regs["a0"]
    /\ at' = "let_t6"
    /\ UNCHANGED <<k, regs, satp, tlb, trapframe, current, live, context>>

let_t6 ==
    /\ at = "let_t6"
    /\ regs' = [regs EXCEPT !["t6"] = regs["a0"]]
    /\ at' = "ld"
    /\ UNCHANGED <<k, satp, tlb, sscratch, trapframe, current, live, context>>

\* One instruction of restore_all_registers; sret follows the last.
restore_all_registers ==
    /\ at = "ld"
    /\ regs["t6"] = TrapframeOf(current)
    /\ regs' = [regs EXCEPT ![RegOrder[k]] = trapframe[current].regs[RegOrder[k]]]
    /\ NextReg("user")
    /\ UNCHANGED <<satp, tlb, sscratch, trapframe, current, live, context>>

-----------------------------------------------------------------------------
(* The machine timer. *)

\* mtrapvec saves every register in g_itrframe and restores them, but before it
\* saves t6 it makes t6 point there: t6 comes back as &g_itrframe.
mtrapvec ==
    /\ at # "stopped"
    /\ regs' = [regs EXCEPT !["t6"] = ITRFRAME]
    /\ UNCHANGED <<at, k, satp, tlb, sscratch, trapframe, current, live, context>>

\* Under a user page table g_itrframe is not mapped, so an access through t6
\* faults in S-mode.  The trap enters smode_trap_vector again, and
\* smode_trap_handler() panics: "usertrap: not from user mode".
vector_faults ==
    /\ at \in {"sd", "ld"}
    /\ regs["t6"] = ITRFRAME
    /\ at' = "stopped"
    /\ UNCHANGED <<k, regs, satp, tlb, sscratch, trapframe, current, live, context>>

TrapNext ==
    \/ compute
    \/ csrrw_a0_sscratch
    \/ addi_t6
    \/ store_all_registers
    \/ csrr_t0
    \/ sd_a0
    \/ ld_kernel
    \/ trap_handled
    \/ handle_syscall
    \/ do_fork
    \/ csrw_satp
    \/ csrw_sscratch
    \/ let_t6
    \/ restore_all_registers
    \/ mtrapvec
    \/ vector_faults

TrapSpec == TrapInit /\ [][TrapNext]_trapVars

-----------------------------------------------------------------------------
(* Properties. *)

\* The registers r of a process, t6 apart, are its own.
Matches(r, p) == \A x \in Regs \ {"t6"} : r[x] = context[p][x]

\* A process has, whenever it runs, what it left in its registers, and while it
\* does not run its trapframe has it: through traps, switches and forks, and
\* with the machine timer at any instruction of the vectors.  (t6 is not
\* kept: both vectors overwrite it before they save it.)
ContextKept ==
    /\ at = "user" => Matches(regs, current)
    /\ at = "handler" => Matches(trapframe[current].regs, current)
    /\ \A p \in live \ {current} : Matches(trapframe[p].regs, p)

\* A trap finds the process it came from: "sscratch points to the trapframe of
\* current process before entering smode_trap_vector" (strap_vector.S:12), or the
\* first instruction of the vector loses both; and smode_trap_handler() runs on the
\* kernel stack of the current process under the kernel's page table; a forked
\* child, whose trapframe starts as a copy, never gets its parent's stack.
EntryFindsProcess ==
    /\ at = "user" => sscratch = TrapframeOf(current)
    /\ at = "handler" => regs["sp"] = KstackOf(current) /\ satp = "kernel"

\* No stale translation is used.  All page tables share one address space number and
\* nothing but the two vectors flushes, so a running process must have no
\* translation cached from another table, and none of its own from before a trap:
\* the kernel may have unmapped the page (user_vm_unmap()).  In the handler no user
\* translation is left.
TranslationsFresh ==
    /\ at = "user" => tlb = {TableOf(current)}
    /\ at = "handler" => tlb = {KERNEL}

-----------------------------------------------------------------------------
(* What the repository says, and does not hold. *)

\* smode_trap_handler(): "make sure we are in User mode before entering the
\* trap handling" (strap.c:91), or it panics.
TrapsFromUserMode == at # "stopped"
=============================================================================
