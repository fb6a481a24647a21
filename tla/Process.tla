------------------------------ MODULE Process ------------------------------
(***************************************************************************)
(* Processes, the scheduler and the process syscalls of the PKE kernel.    *)
(*                                                                         *)
(* The kernel runs on one hart.  A trap enters S-mode with interrupts off  *)
(* and no path turns them on before the sret at the end of switch_to, so   *)
(* a handler runs to its end undisturbed: one action per handler.  The     *)
(* only thing that happens in between is the M-mode timer, which just sets *)
(* a pending bit.  switch_to ends in return_to_user, which restores the    *)
(* USER registers and executes sret: schedule() never returns to its       *)
(* caller, and whatever the source writes after a call of schedule() is    *)
(* not executed.                                                           *)
(***************************************************************************)
EXTENDS Integers, Sequences

CONSTANTS
    NPROC,          \* size of the process pool procs[]
    TIME_SLICE_LEN  \* ticks charged to a process before it is preempted

ASSUME NprocAssumption == NPROC \in Nat \ {0}
ASSUME SliceAssumption == TIME_SLICE_LEN \in Nat

VARIABLES
    status,         \* procs[p].status
    parent,         \* procs[p].parent, or NULL
    tick_count,     \* procs[p].tick_count
    a0,             \* procs[p].trapframe->regs.a0
    current,        \* the process a trap is charged to, or NULL
    queue,          \* the list that starts at ready_queue_head
    ssip,           \* the SSIP bit of sip: a tick waits for S-mode
    machine,        \* what the hart is doing
    sysno,          \* history: the last syscall each process has made
    ran             \* history: ticks handled since current was dispatched

vars == <<status, parent, tick_count, a0, current, queue, ssip, machine,
          sysno, ran>>

-----------------------------------------------------------------------------
Procs == 0 .. NPROC - 1     \* a process is its index in procs[], its pid
NULL == -1

FREE    == "FREE"
READY   == "READY"
RUNNING == "RUNNING"
BLOCKED == "BLOCKED"
ZOMBIE  == "ZOMBIE"
Status  == {FREE, READY, RUNNING, BLOCKED, ZOMBIE}

SYS_user_print == 64
SYS_user_exit  == 65
SYS_user_fork  == 68
SYS_user_yield == 69
SYS_user_wait  == 70
Sysno == {NULL, SYS_user_print, SYS_user_exit, SYS_user_fork,
          SYS_user_yield, SYS_user_wait}

\* The ways the machine stops for good: shutdown(0), the two panics and the
\* failed assertion of schedule() and of alloc_process().
Stopped == {"shutdown", "no_free_process", "unfinished", "not_ready"}
Machine == {"boot", "user"} \cup Stopped

Queued == {queue[i] : i \in DOMAIN queue}

-----------------------------------------------------------------------------
(* The scheduler. *)

InList(p, q) == \E i \in DOMAIN q : q[i] = p

\* Mutant: p goes to the front of the queue.
insert_at_head(p, q) == IF InList(p, q) THEN q ELSE <<p>> \o q

\* insert_to_ready_queue(p): to the END of the queue, unless p is already there.
insert_to_ready_queue(p, q) == IF InList(p, q) THEN q ELSE Append(q, p)

AllDone(st) == \A p \in Procs : st[p] \in {FREE, ZOMBIE}

\* schedule(), called with ready queue q and process states st.  The line
\* meant to mark the process as running, "current->status == RUNNING;", is a
\* comparison: no state changes.
schedule(q, st) ==
    /\ status' = st
    /\ \/ /\ q = <<>>
          /\ machine' = IF AllDone(st) THEN "shutdown" ELSE "unfinished"
          /\ queue' = q
          /\ UNCHANGED <<current, ran>>
       \/ /\ q # <<>>
          /\ current' = Head(q)
          /\ ran' = 0
          /\ \/ /\ st[Head(q)] = READY
                /\ machine' = "user"
                /\ queue' = Tail(q)
             \/ /\ st[Head(q)] # READY
                /\ machine' = "not_ready"
                /\ queue' = q

\* Mutant: the current process is not put back into the queue.
Requeue_lost == schedule(queue, [status EXCEPT ![current] = READY])

\* The current process gives up the hart and stays runnable.
Requeue ==
    schedule(insert_to_ready_queue(current, queue),
             [status EXCEPT ![current] = READY])

-----------------------------------------------------------------------------
(* The process pool. *)

\* Mutant: the slot of a process that exited is taken for free.
IsFirstFree_reuse(p) ==
    /\ status[p] \in {FREE, ZOMBIE}
    /\ \A r \in Procs : r < p => status[r] \notin {FREE, ZOMBIE}

IsFirstFree(p) ==
    /\ status[p] = FREE
    /\ \A r \in Procs : r < p => status[r] # FREE

PoolExhausted == \A p \in Procs : status[p] # FREE

Children(p) == {c \in Procs : parent[c] = p}

-----------------------------------------------------------------------------
Init ==
    /\ status = [p \in Procs |-> FREE]
    /\ parent = [p \in Procs |-> NULL]
    /\ tick_count = [p \in Procs |-> 0]
    /\ a0 = [p \in Procs |-> 0]
    /\ current = NULL
    /\ queue = <<>>
    /\ ssip = FALSE
    /\ machine = "boot"
    /\ sysno = [p \in Procs |-> NULL]
    /\ ran = 0

\* s_start(), from init_proc_pool() on: the application becomes the first
\* process and is dispatched.
s_start ==
    /\ machine = "boot"
    /\ \E p \in Procs :
          /\ IsFirstFree(p)
          /\ schedule(insert_to_ready_queue(p, queue),
                      [status EXCEPT ![p] = READY])
    /\ UNCHANGED <<parent, tick_count, a0, ssip, sysno>>

\* handle_timer() in M-mode passes the tick on to S-mode.  The bit cannot be
\* set twice: a tick that comes before the last one was handled is lost.
handle_timer ==
    /\ machine \in {"boot", "user"}
    /\ ssip' = TRUE
    /\ UNCHANGED <<status, parent, tick_count, a0, current, queue, machine,
                   sysno, ran>>

\* Mutant: tick_count is not set back to 0 when the slice is used up.
SliceEnds_no_reset ==
    /\ tick_count[current] + 1 > TIME_SLICE_LEN
    /\ tick_count' = [tick_count EXCEPT ![current] = @ + 1]
    /\ Requeue

\* Mutant: a process whose slice is used up is ended as if it had exited.
SliceEnds_frees ==
    /\ tick_count[current] + 1 > TIME_SLICE_LEN
    /\ tick_count' = [tick_count EXCEPT ![current] = 0]
    /\ schedule(queue, [status EXCEPT ![current] = ZOMBIE])

SliceEnds ==
    /\ tick_count[current] + 1 > TIME_SLICE_LEN
    /\ tick_count' = [tick_count EXCEPT ![current] = 0]
    /\ Requeue

\* Mutant: the tick is compared with the limit but not counted.
SliceGoesOn_no_count ==
    /\ tick_count[current] + 1 <= TIME_SLICE_LEN
    /\ ran' = ran + 1
    /\ UNCHANGED <<status, tick_count, current, queue, machine>>

SliceGoesOn ==
    /\ tick_count[current] + 1 <= TIME_SLICE_LEN
    /\ tick_count' = [tick_count EXCEPT ![current] = @ + 1]
    /\ ran' = ran + 1
    /\ UNCHANGED <<status, current, queue, machine>>

\* The S-mode side of a tick: handle_mtimer_trap(), then rrsched().
rrsched ==
    /\ machine = "user"
    /\ ssip
    /\ ssip' = FALSE
    /\ SliceEnds \/ SliceGoesOn
    /\ UNCHANGED <<parent, a0, sysno>>

\* An ecall saves the user registers in the trapframe of the current process,
\* a0 with the syscall number in it.  handle_syscall overwrites a0 with the
\* result of do_syscall when do_syscall returns, and only then.
Ecall(n, result) ==
    /\ machine = "user"
    /\ a0' = [a0 EXCEPT ![current] = result]
    /\ sysno' = [sysno EXCEPT ![current] = n]

sys_user_print ==
    /\ Ecall(SYS_user_print, 0)
    /\ UNCHANGED <<status, parent, tick_count, current, queue, ssip, machine,
                   ran>>

\* Mutant: exit() without free_process().
exit_stays_ready ==
    /\ Ecall(SYS_user_exit, SYS_user_exit)
    /\ schedule(queue, status)
    /\ UNCHANGED <<parent, tick_count, ssip>>

\* Mutant: exit() gives the slot back at once.
exit_to_free ==
    /\ Ecall(SYS_user_exit, SYS_user_exit)
    /\ schedule(queue, [status EXCEPT ![current] = FREE])
    /\ UNCHANGED <<parent, tick_count, ssip>>

\* sys_user_exit(): free_process() leaves the slot a ZOMBIE for good.
sys_user_exit ==
    /\ Ecall(SYS_user_exit, SYS_user_exit)
    /\ schedule(queue, [status EXCEPT ![current] = ZOMBIE])
    /\ UNCHANGED <<parent, tick_count, ssip>>

\* Mutant: the result of yield() is stored in the process switched to.
yield_result_misplaced ==
    /\ machine = "user"
    /\ Requeue
    /\ a0' = [a0 EXCEPT ![current'] = 0]
    /\ sysno' = [sysno EXCEPT ![current] = SYS_user_yield]
    /\ UNCHANGED <<parent, tick_count, ssip>>

sys_user_yield ==
    /\ Ecall(SYS_user_yield, SYS_user_yield)
    /\ Requeue
    /\ UNCHANGED <<parent, tick_count, ssip>>

\* Mutant: a0 of the child is left as copied from the parent.
ForkResults_not_cleared(child) ==
    a0' = [a0 EXCEPT ![current] = child, ![child] = SYS_user_fork]

\* The parent gets the pid of the child; the child's copy of the trapframe
\* has a0 = 0.
ForkResults(child) == a0' = [a0 EXCEPT ![current] = child, ![child] = 0]

\* sys_user_fork() when a process structure is left: do_fork().
sys_user_fork ==
    /\ machine = "user"
    /\ \E child \in Procs :
          /\ IsFirstFree(child)
          /\ ForkResults(child)
          /\ status' = [status EXCEPT ![child] = READY]
          /\ parent' = [parent EXCEPT ![child] = current]
          /\ sysno' = [sysno EXCEPT ![current] = SYS_user_fork,
                                    ![child] = SYS_user_fork]
          /\ queue' = insert_to_ready_queue(child, queue)
    /\ UNCHANGED <<tick_count, current, ssip, machine, ran>>

\* alloc_process() panics when no process structure is FREE.
fork_panics ==
    /\ PoolExhausted
    /\ Ecall(SYS_user_fork, SYS_user_fork)
    /\ machine' = "no_free_process"
    /\ UNCHANGED <<status, parent, tick_count, current, queue, ssip, ran>>

\* sys_user_wait() of a process without a child.
wait_no_child ==
    /\ Children(current) = {}
    /\ Ecall(SYS_user_wait, -1)
    /\ UNCHANGED <<status, parent, tick_count, current, queue, ssip, machine,
                   ran>>

\* sys_user_wait() of a process that has, or ever had, a child: wait() puts
\* the caller at the end of the queue and calls schedule().  The loop that
\* looks for a ZOMBIE child comes after that call, and so does every use of
\* the argument: neither has an effect.
wait_for_child ==
    /\ Children(current) # {}
    /\ Ecall(SYS_user_wait, SYS_user_wait)
    /\ Requeue
    /\ UNCHANGED <<parent, tick_count, ssip>>

\* shutdown() asks the host to exit and spins.
shutdown ==
    /\ machine \in Stopped
    /\ UNCHANGED vars

Next ==
    \/ s_start
    \/ handle_timer
    \/ rrsched
    \/ sys_user_print
    \/ sys_user_exit
    \/ sys_user_yield
    \/ sys_user_fork
    \/ fork_panics
    \/ wait_no_child
    \/ wait_for_child
    \/ shutdown

Spec == Init /\ [][Next]_vars

\* mtimecmp is rearmed at every tick, and a pending SSIP is taken as soon as
\* the hart is in U-mode: the timer is fair, the application need not be.
FairSpec == Spec /\ WF_vars(s_start) /\ WF_vars(handle_timer) /\ WF_vars(rrsched)
-----------------------------------------------------------------------------
(* Properties. *)

\* Type invariant; tick_count, which rrsched() compares after the increment,
\* never stays above TIME_SLICE_LEN.
TypeOK ==
    /\ status \in [Procs -> Status]
    /\ parent \in [Procs -> Procs \cup {NULL}]
    /\ tick_count \in [Procs -> 0 .. TIME_SLICE_LEN]
    /\ a0 \in [Procs -> Int]
    /\ current \in Procs \cup {NULL}
    /\ queue \in Seq(Procs)
    /\ ssip \in BOOLEAN
    /\ machine \in Machine
    /\ sysno \in [Procs -> Sysno]
    /\ ran \in 0 .. TIME_SLICE_LEN

\* Whenever an application runs, every READY process is in exactly one place:
\* it is the current one, or it is in the ready queue, once.  Nothing else is
\* in the queue.  No call of insert_to_ready_queue() and schedule() may lose,
\* duplicate or revive a process.
ReadyAccounted ==
    machine = "user" =>
        /\ current \notin Queued
        /\ {p \in Procs : status[p] = READY} = Queued \cup {current}
        /\ \A i, j \in DOMAIN queue : queue[i] = queue[j] => i = j

\* schedule() never reaches its panic ("we should let system wait for
\* unfinished processes") and never fails its assertion that the head of the
\* queue is READY.
SchedulerNeverPanics == machine \notin {"unfinished", "not_ready"}

\* The machine shuts down only after every process that was ever created has
\* called exit() itself: no process is forgotten, none is ended by another.
ShutdownAfterExits ==
    machine = "shutdown" =>
        \A p \in Procs : status[p] # FREE => sysno[p] = SYS_user_exit

\* What fork() returned tells the parent from the child, however late the two
\* are scheduled: 0 is seen only by a process that was forked, any other value
\* is a child of the caller.  (pid 0 exists, so a child with pid 0 would make
\* its parent believe that it is the child.)
ForkTellsParentFromChild ==
    machine = "user" =>
        \A p \in Procs :
            sysno[p] = SYS_user_fork =>
                IF a0[p] = 0 THEN parent[p] # NULL
                             ELSE a0[p] \in Procs /\ parent[a0[p]] = p

\* The parent links form a tree of processes that exist, rooted at process 0:
\* do_fork() never makes a process its own ancestor.
FamilyTree ==
    \A c \in Procs :
        parent[c] # NULL =>
            /\ parent[c] < c
            /\ status[c] # FREE
            /\ status[parent[c]] # FREE

\* A process that exited stays a ZOMBIE for ever: its slot is not reused, and
\* neither its saved context nor its parent changes any more.
ZombieIsFinal ==
    [][\A p \in Procs :
          status[p] = ZOMBIE => /\ status'[p] = ZOMBIE
                                /\ a0'[p] = a0[p]
                                /\ parent'[p] = parent[p]]_vars

\* A trap leaves the saved context of every process alone but that of the
\* process it interrupted and of a child being created: in particular the
\* result of a syscall that switches processes is not delivered to the
\* process switched to.
ContextIsPrivate ==
    [][\A p \in Procs : a0'[p] # a0[p] => p = current \/ status[p] = FREE]_vars

\* No process keeps the hart for more than TIME_SLICE_LEN ticks in a row
\* without a pass through schedule(), whatever it and the others did before.
SliceBounded == machine = "user" => ran <= tick_count[current]

\* Round robin: a process in the ready queue is eventually dispatched, unless
\* the machine stops first.  No process need co-operate.
NoStarvation ==
    \A p \in Procs : p \in Queued ~> (current = p \/ machine \in Stopped)

=============================================================================
