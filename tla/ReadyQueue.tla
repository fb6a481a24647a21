----------------------------- MODULE ReadyQueue ----------------------------
(***************************************************************************)
(* The ready queue of kernel/sched.c, at the level of its pointers: the    *)
(* singly linked list that starts at ready_queue_head and goes on through  *)
(* the queue_next fields of the process structures.  One step per pass of  *)
(* the loop in insert_to_ready_queue(), which runs with interrupts off.    *)
(* The callers are free: any process may be inserted, in the queue or not, *)
(* and the queue_next of a process outside the queue keeps the value it    *)
(* had when schedule() took the process out.                               *)
(***************************************************************************)
EXTENDS Integers, Sequences

CONSTANT NPROC

ASSUME NprocAssumption == NPROC \in Nat \ {0}

VARIABLES
    ready_queue_head,
    queue_next,         \* procs[p].queue_next
    status,             \* procs[p].status
    current,
    pc,                 \* "idle", or "walk" inside insert_to_ready_queue()
    proc,               \* its argument
    p                   \* its loop variable

vars == <<ready_queue_head, queue_next, status, current, pc, proc, p>>

Procs == 0 .. NPROC - 1
NULL == -1
Pointer == Procs \cup {NULL}

FREE  == "FREE"
READY == "READY"

-----------------------------------------------------------------------------
Init ==
    /\ ready_queue_head = NULL
    /\ queue_next = [x \in Procs |-> NULL]
    /\ status = [x \in Procs |-> FREE]
    /\ current = NULL
    /\ pc = "idle"
    /\ proc = NULL
    /\ p = NULL

\* insert_to_ready_queue(x) when the queue is empty.
insert_first(x) ==
    /\ pc = "idle"
    /\ ready_queue_head = NULL
    /\ status' = [status EXCEPT ![x] = READY]
    /\ queue_next' = [queue_next EXCEPT ![x] = NULL]
    /\ ready_queue_head' = x
    /\ UNCHANGED <<current, pc, proc, p>>

\* Mutant: the loop is entered with an empty queue as well.
insert_enter_empty(x) ==
    /\ pc = "idle"
    /\ pc' = "walk"
    /\ proc' = x
    /\ p' = ready_queue_head
    /\ UNCHANGED <<ready_queue_head, queue_next, status, current>>

\* insert_to_ready_queue(x) when it is not: the loop starts at the head.
insert_enter(x) ==
    /\ pc = "idle"
    /\ ready_queue_head # NULL
    /\ pc' = "walk"
    /\ proc' = x
    /\ p' = ready_queue_head
    /\ UNCHANGED <<ready_queue_head, queue_next, status, current>>

\* The process is in the queue already: return.
insert_found ==
    /\ pc = "walk"
    /\ p = proc
    /\ pc' = "idle"
    /\ UNCHANGED <<ready_queue_head, queue_next, status, current, proc, p>>

insert_advance ==
    /\ pc = "walk"
    /\ p # proc
    /\ queue_next[p] # NULL
    /\ p' = queue_next[p]
    /\ UNCHANGED <<ready_queue_head, queue_next, status, current, pc, proc>>

\* Mutant: the process keeps the queue_next it had when it was taken out.
insert_link_stale ==
    /\ pc = "walk"
    /\ p # proc
    /\ queue_next[p] = NULL
    /\ queue_next' = [queue_next EXCEPT ![p] = proc]
    /\ status' = [status EXCEPT ![proc] = READY]
    /\ pc' = "idle"
    /\ UNCHANGED <<ready_queue_head, current, proc, p>>

\* Mutant: the process is linked in front of the list.
insert_link_front ==
    /\ pc = "walk"
    /\ p # proc
    /\ queue_next[p] = NULL
    /\ queue_next' = [queue_next EXCEPT ![proc] = ready_queue_head]
    /\ ready_queue_head' = proc
    /\ status' = [status EXCEPT ![proc] = READY]
    /\ pc' = "idle"
    /\ UNCHANGED <<current, proc, p>>

\* Mutant: the process is not marked READY.
insert_link_unmarked ==
    /\ pc = "walk"
    /\ p # proc
    /\ queue_next[p] = NULL
    /\ queue_next' = [queue_next EXCEPT ![p] = proc, ![proc] = NULL]
    /\ pc' = "idle"
    /\ UNCHANGED <<ready_queue_head, status, current, proc, p>>

\* p is the last element of the queue: link the process behind it.
insert_link ==
    /\ pc = "walk"
    /\ p # proc
    /\ queue_next[p] = NULL
    /\ queue_next' = [queue_next EXCEPT ![p] = proc, ![proc] = NULL]
    /\ status' = [status EXCEPT ![proc] = READY]
    /\ pc' = "idle"
    /\ UNCHANGED <<ready_queue_head, current, proc, p>>

\* schedule() takes the head out.  Its queue_next is left as it is.
schedule ==
    /\ pc = "idle"
    /\ ready_queue_head # NULL
    /\ current' = ready_queue_head
    /\ ready_queue_head' = queue_next[ready_queue_head]
    /\ UNCHANGED <<queue_next, status, pc, proc, p>>

insert_to_ready_queue ==
    \/ \E x \in Procs : insert_first(x) \/ insert_enter(x)
    \/ insert_found
    \/ insert_advance
    \/ insert_link

Next == insert_to_ready_queue \/ schedule

\* The kernel does nothing else until insert_to_ready_queue() has returned.
Spec ==
    /\ Init
    /\ [][Next]_vars
    /\ WF_vars(insert_found \/ insert_advance \/ insert_link)

-----------------------------------------------------------------------------
(* The list as a sequence. *)

\* The sequences that a list of distinct processes can be.
Lists == {s \in UNION {[1 .. n -> Procs] : n \in 0 .. NPROC} :
            \A i, j \in DOMAIN s : s[i] = s[j] => i = j}

\* The pointers, followed from the head to NULL, visit s.
IsList(s) ==
    \/ s = <<>> /\ ready_queue_head = NULL
    \/ /\ s # <<>>
       /\ ready_queue_head = s[1]
       /\ \A i \in 1 .. Len(s) - 1 : queue_next[s[i]] = s[i + 1]
       /\ queue_next[s[Len(s)]] = NULL

ReadyList == CHOOSE s \in Lists : IsList(s)

-----------------------------------------------------------------------------
(* Properties. *)

\* Type invariant.  While the loop runs, its argument and its loop variable are
\* processes: the p->queue_next it reads is never that of a null pointer.
TypeOK ==
    /\ ready_queue_head \in Pointer
    /\ queue_next \in [Procs -> Pointer]
    /\ status \in [Procs -> {FREE, READY}]
    /\ current \in Pointer
    /\ pc \in {"idle", "walk"}
    /\ proc \in Pointer
    /\ p \in Pointer
    /\ pc = "walk" => proc \in Procs /\ p \in Procs

\* The list is never broken: it ends, no process is in it twice, and every
\* process in it is READY, as the assertion in schedule() wants the head to
\* be.  The loop variable of insert_to_ready_queue() is always in the list,
\* and the process to insert is not among those the loop has passed.
ListIntact ==
    \E s \in Lists :
        /\ IsList(s)
        /\ \A i \in DOMAIN s : status[s[i]] = READY
        /\ pc = "walk" =>
              \E k \in DOMAIN s : s[k] = p /\ \A j \in 1 .. k - 1 : s[j] # proc

\* The pointers implement the first-in first-out queue of ReadyFifo: a call
\* of insert_to_ready_queue() is one Insert, at the moment it links the
\* process, or nothing if the process is in the queue; schedule() takes out
\* the process that waits longest.
Fifo == INSTANCE ReadyFifo WITH Proc <- Procs, queue <- ReadyList
ImplementsFifo == Fifo!Spec

\* insert_to_ready_queue() returns: a list with a cycle would keep the hart in
\* its loop for ever, with interrupts off.
InsertReturns == pc = "walk" ~> pc = "idle"

=============================================================================
