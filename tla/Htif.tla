-------------------------------- MODULE Htif --------------------------------
(***************************************************************************)
(* The Host-Target InterFace: the kernel side of spike_interface/          *)
(* spike_htif.c and frontend_syscall() of spike_utils.c, and the host      *)
(* (Spike), which runs concurrently and talks to it through the two words  *)
(* tohost and fromhost and the block magic_mem.                            *)
(*                                                                         *)
(* A write of the kernel to a shared word is one step.  A read of fromhost *)
(* and the store that clears it are one step: the host writes fromhost     *)
(* only while it is 0.  The host is external; it is modelled as the kernel *)
(* uses it.  It may delay a command and a response, and it answers a       *)
(* console read only when a key has been typed.                            *)
(***************************************************************************)
EXTENDS Naturals, Sequences

CONSTANTS MaxCalls,   \* bound: calls of the interface in one behaviour
          MaxTyped    \* bound: keys typed

ASSUME HtifAssumption == MaxCalls \in Nat /\ MaxTyped \in Nat

VARIABLES
    pc,                 \* where the kernel is in the interface
    call,               \* the command being sent: [dev, cmd, data]
    calls,              \* calls made
    tohost, fromhost,   \* NONE, or a command or response
    magic_mem,          \* magic_mem[0]: the request, then its result
    htif_console_buf,   \* UNUSED, EMPTY, or the key that has come
    ending,             \* "none", or how the machine is being stopped: "exit", "poweroff"
    lock,               \* the spinlock of frontend_syscall()
    htif_lock,
    responses,          \* host: what it will write to fromhost
    reads,              \* host: console reads to be answered
    typed,              \* host: keys typed
    halted,             \* host: Spike has ended the simulation
    executed,           \* host, history: the commands it has carried out
    sent,               \* history: the commands the kernel has issued
    got                 \* history: the keys htif_console_getchar() returned

kernel == <<pc, call, calls, htif_console_buf, ending, lock, htif_lock, sent, got>>
host == <<responses, reads, typed, halted, executed>>
vars == <<kernel, host, tohost, fromhost, magic_mem>>

NONE == [dev |-> 9, cmd |-> 9, data |-> 0]
Message(d, c, x) == [dev |-> d, cmd |-> c, data |-> x]

\* The values of htif_console_buf: 0 as linked, -1 (EMPTY here) when nothing
\* has come, or 1 + the key.
UNUSED == 0
EMPTY == MaxTyped + 2
Key(n) == 1 + n

\* The block at magic_mem for the exit syscall, and tohost = 1, which has the exit bit.
EXIT == Message(0, 0, MaxCalls + 1)
POWER == Message(0, 0, 0)

IsSyscall(m) == m.dev = 0 /\ m.cmd = 0
IsRead(m) == m.dev = 1 /\ m.cmd = 0

Init ==
    /\ pc = "idle"
    /\ call = NONE
    /\ calls = 0
    /\ tohost = NONE
    /\ fromhost = NONE
    /\ magic_mem = [call |-> 0, done |-> FALSE]
    /\ htif_console_buf = UNUSED
    /\ ending = "none" /\ halted = FALSE
    /\ lock = FALSE
    /\ htif_lock = FALSE
    /\ responses = <<>>
    /\ reads = 0
    /\ typed = 0
    /\ executed = <<>>
    /\ sent = <<>>
    /\ got = <<>>

-----------------------------------------------------------------------------
(* The kernel. *)

\* With one hart the swap of spinlock_trylock() succeeds once the lock was read free.
spinlock_lock(l) == ~l /\ l' = TRUE
spinlock_unlock(l) == l' = FALSE

\* frontend_syscall() has taken its lock and filled magic_mem; htif_syscall()
\* takes htif_lock.
Request(m) ==
    /\ spinlock_lock(lock)
    /\ spinlock_lock(htif_lock)
    /\ magic_mem' = [call |-> m.data, done |-> FALSE]
    /\ call' = m
    /\ pc' = "set_tohost"
    /\ UNCHANGED <<tohost, fromhost, htif_console_buf, sent, got, host>>

frontend_syscall ==
    /\ pc = "idle"
    /\ calls < MaxCalls
    /\ calls' = calls + 1
    /\ Request(Message(0, 0, calls + 1))
    /\ UNCHANGED ending

\* shutdown() and poweroff() both begin with a message.
stop(how) ==
    /\ pc = "idle"
    /\ calls < MaxCalls
    /\ calls' = calls + 1
    /\ Request(Message(0, 0, calls + 1))
    /\ ending' = how

\* shutdown(): the exit syscall, which does not return.
shutdown_exit ==
    /\ pc = "exit"
    /\ Request(EXIT)
    /\ UNCHANGED <<calls, ending>>

\* htif_poweroff(): one round of the loop that clears fromhost and stores to tohost
\* whatever it holds.
htif_poweroff ==
    /\ pc = "poweroff"
    /\ fromhost' = NONE
    /\ tohost' = POWER
    /\ sent' = IF tohost = POWER THEN sent ELSE Append(sent, POWER)
    /\ UNCHANGED <<pc, call, calls, htif_console_buf, ending, lock, htif_lock, got, host, magic_mem>>

htif_console_putchar ==
    /\ pc = "idle"
    /\ calls < MaxCalls
    /\ spinlock_lock(htif_lock)
    /\ calls' = calls + 1
    /\ call' = Message(1, 1, calls + 1)
    /\ pc' = "set_tohost"
    /\ UNCHANGED <<tohost, fromhost, magic_mem, htif_console_buf, ending, lock, sent, got, host>>

\* __check_fromhost() takes what the console has written, if anything.  The
\* assertion that it was the console fails for the response to a syscall.
CheckedBuf == IF IsRead(fromhost) THEN Key(fromhost.data) ELSE htif_console_buf
AfterCheck(next) == IF IsSyscall(fromhost) THEN "assert" ELSE next

\* Mutant: a key is asked for whether or not the last one has come.
getchar_asks_always ==
    /\ pc = "idle"
    /\ calls < MaxCalls
    /\ ~htif_lock
    /\ fromhost' = NONE
    /\ calls' = calls + 1
    /\ got' = IF CheckedBuf \in {UNUSED, EMPTY} THEN got ELSE Append(got, CheckedBuf - 1)
    /\ htif_console_buf' = EMPTY
    /\ htif_lock' = TRUE
    /\ call' = Message(1, 0, 0)
    /\ pc' = AfterCheck("set_tohost")
    /\ UNCHANGED <<ending, lock, sent, host, tohost, magic_mem>>

\* htif_console_getchar(): with the buffer not empty, return what it holds (-1
\* at the first call) and ask the host for the next key.
htif_console_getchar ==
    /\ pc = "idle"
    /\ calls < MaxCalls
    /\ ~htif_lock
    /\ fromhost' = NONE
    /\ calls' = calls + 1
    /\ htif_console_buf' = EMPTY
    /\ IF CheckedBuf = EMPTY
       THEN /\ pc' = AfterCheck("idle")
            /\ UNCHANGED <<call, htif_lock, got>>
       ELSE /\ got' = IF CheckedBuf = UNUSED THEN got ELSE Append(got, CheckedBuf - 1)
            /\ htif_lock' = TRUE
            /\ call' = Message(1, 0, 0)
            /\ pc' = AfterCheck("set_tohost")
    /\ UNCHANGED <<ending, lock, sent, host, tohost, magic_mem>>

\* __set_tohost(): the loop while tohost is in use.
set_tohost_wait ==
    /\ pc = "set_tohost"
    /\ tohost # NONE
    /\ fromhost # NONE
    /\ fromhost' = NONE
    /\ htif_console_buf' = CheckedBuf
    /\ pc' = AfterCheck("set_tohost")
    /\ UNCHANGED <<call, calls, ending, lock, htif_lock, sent, got, host, tohost, magic_mem>>

Sends(m) ==
    /\ tohost' = m
    /\ sent' = Append(sent, m)
    /\ pc' = IF IsSyscall(m) THEN "wait" ELSE "idle"
    /\ htif_lock' = IsSyscall(m)

\* Mutant: tohost is written without waiting for the host to have read it.
set_tohost_blind ==
    /\ pc = "set_tohost"
    /\ Sends(call)
    /\ UNCHANGED <<call, calls, htif_console_buf, ending, lock, got, host, fromhost, magic_mem>>

\* __set_tohost(): send the command.  The console functions return.
set_tohost ==
    /\ pc = "set_tohost"
    /\ tohost = NONE
    /\ Sends(call)
    /\ UNCHANGED <<call, calls, htif_console_buf, ending, lock, got, host, fromhost, magic_mem>>

\* Mutant: any response ends the wait.
response_any ==
    /\ pc = "wait"
    /\ fromhost # NONE
    /\ fromhost' = NONE
    /\ spinlock_unlock(htif_lock)
    /\ pc' = "return"
    /\ UNCHANGED <<call, calls, htif_console_buf, ending, lock, sent, got, host, tohost, magic_mem>>

\* Mutant: the response stays in fromhost.
response_not_cleared ==
    /\ pc = "wait"
    /\ IsSyscall(fromhost)
    /\ spinlock_unlock(htif_lock)
    /\ pc' = "return"
    /\ UNCHANGED <<call, calls, htif_console_buf, ending, lock, sent, got, host, tohost, fromhost,
                   magic_mem>>

\* do_tohost_fromhost(): the response to the syscall.
response ==
    /\ pc = "wait"
    /\ fromhost.dev = call.dev
    /\ fromhost.cmd = call.cmd
    /\ fromhost' = NONE
    /\ spinlock_unlock(htif_lock)
    /\ pc' = "return"
    /\ UNCHANGED <<call, calls, htif_console_buf, ending, lock, sent, got, host, tohost, magic_mem>>

\* Mutant: a response of another device is left where it is.
response_of_console_ignored ==
    /\ pc = "wait"
    /\ fromhost # NONE
    /\ ~IsSyscall(fromhost)
    /\ UNCHANGED vars

\* do_tohost_fromhost(): a response of the console comes first.
response_of_console ==
    /\ pc = "wait"
    /\ fromhost # NONE
    /\ ~IsSyscall(fromhost)
    /\ fromhost' = NONE
    /\ htif_console_buf' = CheckedBuf
    /\ UNCHANGED <<pc, call, calls, ending, lock, htif_lock, sent, got, host, tohost, magic_mem>>

\* frontend_syscall() reads the result from magic_mem[0] and unlocks; what the caller
\* does next is to go on, or to stop the machine.
syscall_returns ==
    /\ pc = "return"
    /\ spinlock_unlock(lock)
    /\ pc' = IF ending = "none" THEN "idle" ELSE ending
    /\ UNCHANGED <<call, calls, htif_console_buf, ending, htif_lock, sent, got, host,
                   tohost, fromhost, magic_mem>>

-----------------------------------------------------------------------------
(* The host (external). *)

\* It reads tohost and clears it.  A syscall works on magic_mem; a console
\* write may be acknowledged or not.
host_takes ==
    /\ ~halted /\ tohost # NONE
    /\ tohost' = NONE
    /\ halted' = (tohost \in {EXIT, POWER})
    /\ executed' = Append(executed, tohost)
    /\ \/ /\ IsSyscall(tohost)
          /\ magic_mem' = [magic_mem EXCEPT !.done = TRUE]
          /\ responses' = Append(responses, Message(0, 0, 1))
          /\ UNCHANGED reads
       \/ /\ IsRead(tohost)
          /\ reads' = reads + 1
          /\ UNCHANGED <<responses, magic_mem>>
       \/ /\ tohost.dev = 1 /\ tohost.cmd = 1
          /\ responses' \in {responses, Append(responses, Message(1, 1, 0))}
          /\ UNCHANGED <<reads, magic_mem>>
    /\ UNCHANGED <<kernel, fromhost, typed>>

host_key ==
    /\ ~halted /\ reads > 0
    /\ typed < MaxTyped
    /\ typed' = typed + 1
    /\ reads' = reads - 1
    /\ responses' = Append(responses, Message(1, 0, typed + 1))
    /\ UNCHANGED <<kernel, halted, executed, tohost, fromhost, magic_mem>>

host_responds ==
    /\ ~halted /\ responses # <<>>
    /\ fromhost = NONE
    /\ fromhost' = Head(responses)
    /\ responses' = Tail(responses)
    /\ UNCHANGED <<kernel, reads, typed, halted, executed, tohost, magic_mem>>

-----------------------------------------------------------------------------
KernelStep ==
    \/ set_tohost_wait
    \/ set_tohost
    \/ response
    \/ response_of_console
    \/ syscall_returns
    \/ shutdown_exit
    \/ htif_poweroff

\* The hart stops with the simulation.
Next ==
    \/ frontend_syscall
    \/ \E how \in {"exit", "poweroff"} : stop(how)
    \/ htif_console_putchar
    \/ htif_console_getchar
    \/ ~halted /\ KernelStep
    \/ host_takes
    \/ host_key
    \/ host_responds

Spec == Init /\ [][Next]_vars

\* The hart goes on executing a call, and Spike serves tohost and fromhost in
\* its main loop.  Nobody need ever type a key.
FairSpec ==
    /\ Spec
    /\ WF_vars(~halted /\ KernelStep)
    /\ WF_vars(host_takes)
    /\ WF_vars(host_responds)

-----------------------------------------------------------------------------
(* Properties. *)

\* frontend_syscall() returns only when the host has carried out this very
\* call: whatever the console sends in between, magic_mem[0] is its result.
SyscallReturnsResult ==
    pc = "return" => magic_mem.done /\ IsSyscall(call) /\ magic_mem.call = call.data

\* The host carries out every command once and in the order of the calls, and
\* lags behind by one command at most.
CommandsInOrder ==
    /\ Len(sent) <= Len(executed) + 1
    /\ executed = SubSeq(sent, 1, Len(executed))
    /\ Len(sent) > Len(executed) <=> tohost # NONE

\* The assertions of __check_fromhost() hold: the kernel never meets the
\* response to a syscall while it waits to send another command.  A failing
\* assertion could not even be reported: it prints through the same locks.
NoAssertionFails == pc # "assert"

\* Keys reach the callers of htif_console_getchar() once each and in the order
\* typed, although any call of the interface may take them out of fromhost; the host
\* never owes two keys, of which the buffer could hold only one.
KeysInOrder == got = [i \in 1 .. Len(got) |-> i] /\ reads <= 1

\* Every call of the interface returns, or stops the machine if it is meant to: the
\* loops of __set_tohost() and of do_tohost_fromhost() end, also when a key arrives
\* before the response, and after shutdown() or poweroff() the host ends the
\* simulation, although both then loop for ever.
CallsReturn == pc # "idle" ~> (halted \/ (pc = "idle" /\ ending = "none"))
=============================================================================
