------------------------------ MODULE MCMemory ------------------------------
(* Instances of Memory for TLC.                                            *)
EXTENDS Memory

\* Pages for three processes and few to spare, and fewer, so that each handler finds
\* the free list empty at each of its allocations.
MCMachines == {[pages |-> n, mallocs |-> 1] : n \in (3 .. 38) \cup {44}}
                \cup {[pages |-> n, mallocs |-> 3] : n \in 24 .. 29}
MCDataMachines == {[pages |-> 46, mallocs |-> 1]}
MCFreeMachines == {[pages |-> 30, mallocs |-> 1]}
=============================================================================
