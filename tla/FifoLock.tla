------------------------------ MODULE FifoLock ------------------------------
(***************************************************************************)
(* What a ticket lock promises its callers, with no tickets in it: callers *)
(* are granted the lock one at a time, in the order in which they asked.   *)
(* kernel/spinlock.h, line 5: "Provides fair FIFO ordering".               *)
(***************************************************************************)
EXTENDS Naturals, Sequences

CONSTANTS
    Callers,    \* who may ask for the lock
    NoCaller    \* not one of them: nobody

VARIABLES
    line,   \* the callers that have asked and not yet released, oldest first
    holder  \* the caller that has been granted the lock

fifoVars == <<line, holder>>

FifoInit == line = <<>> /\ holder = NoCaller

Ask(x) ==
    /\ \A i \in DOMAIN line : line[i] # x
    /\ line' = Append(line, x)
    /\ UNCHANGED holder

Grant ==
    /\ holder = NoCaller
    /\ line # <<>>
    /\ holder' = Head(line)
    /\ UNCHANGED line

Release ==
    /\ holder # NoCaller
    /\ holder' = NoCaller
    /\ line' = Tail(line)

FifoNext == Grant \/ Release \/ \E x \in Callers : Ask(x)

FifoSpec == FifoInit /\ [][FifoNext]_fifoVars
=============================================================================
