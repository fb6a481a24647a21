------------------------------ MODULE AppWait ------------------------------
(***************************************************************************)
(* The application user/app_wait.c running on the kernel of Process: a     *)
(* process forks a child, the child forks a grandchild, and each parent    *)
(* calls wait() before it prints.  A program point is a line of main().    *)
(***************************************************************************)
EXTENDS Process

VARIABLES
    pc,         \* the line of main() each process is about to execute
    printed     \* the processes that have printed, in that order

appvars == <<pc, printed>>

AppInit ==
    /\ Init
    /\ pc = [p \in Procs |-> 14]
    /\ printed = <<>>

-----------------------------------------------------------------------------
At(line) == machine = "user" /\ pc[current] = line
Goto(line) == pc' = [pc EXCEPT ![current] = line]

\* Parent and child both go on after the call; a fork() that panics does not.
Fork(line, next) ==
    /\ At(line)
    /\ \/ sys_user_fork /\ pc' = [pc EXCEPT ![current] = next, ![a0'[current]] = next]
       \/ fork_panics /\ UNCHANGED pc
    /\ UNCHANGED printed

\* if (pid == 0) ... else ...
IfChild(line, child, other) ==
    /\ At(line)
    /\ Goto(IF a0[current] = 0 THEN child ELSE other)
    /\ UNCHANGED <<vars, printed>>

Wait(line, next) ==
    /\ At(line)
    /\ wait_no_child \/ wait_for_child
    /\ Goto(next)
    /\ UNCHANGED printed

Printu(line, next) ==
    /\ At(line)
    /\ sys_user_print
    /\ Goto(next)
    /\ printed' = Append(printed, current)

Exit(line) ==
    /\ At(line)
    /\ sys_user_exit
    /\ UNCHANGED appvars

main ==
    \/ Fork(14, 15)
    \/ IfChild(15, 17, 26)
    \/ Fork(17, 18)
    \/ IfChild(18, 20, 22)
    \/ Printu(20, 29)
    \/ Wait(22, 23)
    \/ Printu(23, 29)
    \/ Wait(26, 27)
    \/ Printu(27, 29)
    \/ Exit(29)

Kernel ==
    /\ s_start \/ handle_timer \/ rrsched \/ shutdown
    /\ UNCHANGED appvars

AppNext == main \/ Kernel

AppSpec ==
    /\ AppInit
    /\ [][AppNext]_<<vars, appvars>>
    /\ WF_<<vars, appvars>>(Kernel /\ s_start)
    /\ WF_<<vars, appvars>>(main)

-----------------------------------------------------------------------------
(* Properties. *)

\* The branch a process takes after fork() is that of its place in the family,
\* whichever of the two is scheduled first and however often the timer strikes
\* in between: the parent branch is taken by the first process, the child
\* branch by its child, the grandchild branch by the child of that one.
BranchMatchesFamily ==
    \A p \in Procs :
        status[p] = READY =>
            /\ pc[p] \in {26, 27} => parent[p] = NULL
            /\ pc[p] \in {17, 22, 23} => parent[p] = 0
            /\ pc[p] = 20 => parent[p] # NULL /\ parent[parent[p]] = 0

\* The application ends: the machine is shut down, and each of the three
\* processes has printed its line exactly once.
AllThreePrint ==
    <>[](/\ machine = "shutdown"
         /\ Len(printed) = 3
         /\ {printed[i] : i \in DOMAIN printed} = {0, 1, 2})

\* app_wait.c: "every process waits for its own child exit then prints."
PrintsAfterChild ==
    \A i \in DOMAIN printed :
        \A c \in Children(printed[i]) : status[c] = ZOMBIE
=============================================================================
