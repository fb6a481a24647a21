----------------------------- MODULE ReadyFifo -----------------------------
(***************************************************************************)
(* What the ready queue of kernel/sched.c promises to the rest of the      *)
(* kernel: a first-in first-out queue in which no process occurs twice.    *)
(***************************************************************************)
EXTENDS Sequences

CONSTANT Proc

VARIABLES
    queue,      \* the processes that wait for the hart, the next one first
    current     \* the process that was taken out last

Init == queue = <<>>

\* A process is appended unless it is already waiting.
Insert(p) ==
    /\ \A i \in DOMAIN queue : queue[i] # p
    /\ queue' = Append(queue, p)
    /\ UNCHANGED current

Dispatch ==
    /\ queue # <<>>
    /\ current' = Head(queue)
    /\ queue' = Tail(queue)

Next == Dispatch \/ \E p \in Proc : Insert(p)

Spec == Init /\ [][Next]_<<queue, current>>
=============================================================================
