----------------------------- MODULE TicketLock -----------------------------
(***************************************************************************)
(* The ticket spinlock of kernel/spinlock.h, instruction by instruction,   *)
(* as the IRQ-saving callers use it (sched_lock, mm_lock, wq_lock).        *)
(*                                                                         *)
(* Every CPU has a thread context, which calls spin_lock_irqsave and       *)
(* spin_unlock_irqrestore, and the CPUs of HandlerCPUs also have an IRQ    *)
(* context whose handler takes the same lock (CPU 0: timer_handler ->      *)
(* wq_tick -> wq_lock).  An IRQ is taken only while DAIF.I is clear; the   *)
(* thread of that CPU then stands still until the handler returns.         *)
(*                                                                         *)
(* The u32 counters wrap at TicketModulus.  Memory is sequentially         *)
(* consistent; the exclusive monitor and the WFE event register are those  *)
(* of the architecture.  A register is reset to 0 where it is dead, so     *)
(* that states do not differ in values no instruction will read.           *)
(***************************************************************************)
EXTENDS Naturals, FiniteSets, Sequences

CONSTANTS
    CPUs,           \* the online CPUs
    HandlerCPUs,    \* the CPUs whose interrupt handler takes this lock
    TicketModulus   \* number of values of a u32 ticket: 2^32 in the code

ASSUME CPUsAssumption == IsFiniteSet(CPUs) /\ HandlerCPUs \subseteq CPUs

ASSUME ModulusAssumption ==
    /\ TicketModulus \in Nat
    /\ Cardinality(CPUs) < TicketModulus

Contexts == (CPUs \X {"thread"}) \cup (HandlerCPUs \X {"irq"})

Cpu(x) == x[1]
IsIrq(x) == x[2] = "irq"

Tickets == 0 .. TicketModulus - 1

\* u32 increment, and the distance from a to b going up and wrapping.
Successor(t) == IF t + 1 = TicketModulus THEN 0 ELSE t + 1
Distance(a, b) == IF a <= b THEN b - a ELSE b + TicketModulus - a

VARIABLES
    owner,      \* lock->owner, the ticket being served
    next,       \* lock->next, the next ticket to hand out
    insn,       \* the instruction each context is at
    ticket,     \* the ticket each context holds in a register
    reg,        \* the value of owner an unlocking context has loaded
    flags,      \* the DAIF value spin_lock_irqsave returned to each context
    masked,     \* DAIF.I of each CPU: TRUE when interrupts are masked
    monitor,    \* the exclusive monitor of each CPU is set on the lock
    event       \* the event register of each CPU, read by WFE

vars == <<owner, next, insn, reg, ticket, flags, masked, monitor, event>>

Steps == {"out", "ldaxr", "stlxr", "spin", "wfe", "critical", "store", "sev"}

\* Where a context holds a ticket that has not been retired.
Queued == {"spin", "wfe", "critical", "store"}
Holding == {"critical", "store"}

TypeOK ==
    /\ owner \in Tickets
    /\ next \in Tickets
    /\ insn \in [Contexts -> Steps]
    /\ reg \in [Contexts -> Tickets]
    /\ ticket \in [Contexts -> Tickets]
    /\ flags \in [Contexts -> BOOLEAN]
    /\ masked \in [CPUs -> BOOLEAN]
    /\ monitor \in [CPUs -> BOOLEAN]
    /\ event \in [CPUs -> BOOLEAN]

\* SPINLOCK_INIT / spin_init, with every CPU outside the lock.  A caller may have
\* IRQs masked already: boot code before irq_init, or a system call.
Init ==
    /\ owner = 0
    /\ next = 0
    /\ insn = [x \in Contexts |-> "out"]
    /\ reg = [x \in Contexts |-> 0]
    /\ ticket = [x \in Contexts |-> 0]
    /\ flags = [x \in Contexts |-> FALSE]
    /\ masked \in [CPUs -> BOOLEAN]
    /\ monitor = [c \in CPUs |-> FALSE]
    /\ event = [c \in CPUs |-> FALSE]
-----------------------------------------------------------------------------
\* A context executes unless it is a thread whose CPU is in its handler.
Executing(x) ==
    \/ IsIrq(x)
    \/ \A y \in Contexts : Cpu(y) = Cpu(x) /\ IsIrq(y) => insn[y] = "out"

\* The architecture clears the monitors of the other CPUs when the granule
\* they watch is written; owner and next lie in the same granule.
MonitorsAfterStore(c) == [d \in CPUs |-> monitor[d] /\ d = c]

\* Mutant: the thread takes the lock with interrupts enabled.
MaskIrqForgotten(x) ==
    /\ ~IsIrq(x)
    /\ insn[x] = "out"
    /\ insn' = [insn EXCEPT ![x] = "ldaxr"]
    /\ UNCHANGED <<owner, next, reg, ticket, flags, masked, monitor, event>>

\* spin_lock_irqsave by a thread: mrs daif; msr daifset, #2.
MaskIrq(x) ==
    /\ ~IsIrq(x)
    /\ insn[x] = "out"
    /\ flags' = [flags EXCEPT ![x] = masked[Cpu(x)]]
    /\ masked' = [masked EXCEPT ![Cpu(x)] = TRUE]
    /\ insn' = [insn EXCEPT ![x] = "ldaxr"]
    /\ UNCHANGED <<owner, next, reg, ticket, monitor, event>>

\* An interrupt is taken where DAIF.I is clear; exception entry masks IRQs, and
\* the handler's own spin_lock_irqsave saves that masked DAIF.
TakeIrq(x) ==
    /\ IsIrq(x)
    /\ insn[x] = "out"
    /\ ~masked[Cpu(x)]
    /\ masked' = [masked EXCEPT ![Cpu(x)] = TRUE]
    /\ flags' = [flags EXCEPT ![x] = TRUE]
    /\ insn' = [insn EXCEPT ![x] = "ldaxr"]
    /\ UNCHANGED <<owner, next, reg, ticket, monitor, event>>

\* 1: ldaxr -- load next into the ticket register and arm the exclusive monitor.
Ldaxr(x) ==
    /\ insn[x] = "ldaxr"
    /\ ticket' = [ticket EXCEPT ![x] = next]
    /\ monitor' = [monitor EXCEPT ![Cpu(x)] = TRUE]
    /\ insn' = [insn EXCEPT ![x] = "stlxr"]
    /\ UNCHANGED <<owner, next, reg, flags, masked, event>>

\* Mutant: a plain store in the place of the store-exclusive.
StlxrPlainStore(x) ==
    /\ insn[x] = "stlxr"
    /\ next' = Successor(ticket[x])
    /\ monitor' = [d \in CPUs |-> FALSE]
    /\ insn' = [insn EXCEPT ![x] = "spin"]
    /\ UNCHANGED <<owner, reg, ticket, flags, masked, event>>

\* add; stlxr succeeds -- next is advanced past the loaded ticket, which is ours.
Stlxr(x) ==
    /\ insn[x] = "stlxr"
    /\ monitor[Cpu(x)]
    /\ next' = Successor(ticket[x])
    /\ monitor' = [d \in CPUs |-> FALSE]
    /\ insn' = [insn EXCEPT ![x] = "spin"]
    /\ UNCHANGED <<owner, reg, ticket, flags, masked, event>>

\* stlxr fails -- always when the monitor was cleared, and the architecture lets
\* it fail for other reasons too; cbnz w3, 1b.
StlxrFails(x) ==
    /\ insn[x] = "stlxr"
    /\ monitor' = [monitor EXCEPT ![Cpu(x)] = FALSE]
    /\ ticket' = [ticket EXCEPT ![x] = 0]
    /\ insn' = [insn EXCEPT ![x] = "ldaxr"]
    /\ UNCHANGED <<owner, next, reg, flags, masked, event>>

\* Mutant: while (owner < ticket), which forgets that tickets wrap.
LoadOwnerOrdered(x) ==
    /\ insn[x] = "spin"
    /\ insn' = [insn EXCEPT ![x] = IF owner >= ticket[x] THEN "critical" ELSE "wfe"]
    /\ UNCHANGED <<owner, next, reg, ticket, flags, masked, monitor, event>>

\* while (load_acquire(owner) != ticket) -- our turn, or wait for an event.
LoadOwner(x) ==
    /\ insn[x] = "spin"
    /\ insn' = [insn EXCEPT ![x] = IF owner = ticket[x] THEN "critical" ELSE "wfe"]
    /\ UNCHANGED <<owner, next, reg, ticket, flags, masked, monitor, event>>

\* wfe -- completes when the event register is set, and clears it.
Wfe(x) ==
    /\ insn[x] = "wfe"
    /\ event[Cpu(x)]
    /\ event' = [event EXCEPT ![Cpu(x)] = FALSE]
    /\ insn' = [insn EXCEPT ![x] = "spin"]
    /\ UNCHANGED <<owner, next, reg, ticket, flags, masked, monitor>>

\* spin_unlock: load lock->owner ...
UnlockLoad(x) ==
    /\ insn[x] = "critical"
    /\ reg' = [reg EXCEPT ![x] = owner]
    /\ insn' = [insn EXCEPT ![x] = "store"]
    /\ UNCHANGED <<owner, next, ticket, flags, masked, monitor, event>>

\* ... and store it incremented, with release semantics.
UnlockStore(x) ==
    /\ insn[x] = "store"
    /\ owner' = Successor(reg[x])
    /\ monitor' = MonitorsAfterStore(Cpu(x))
    /\ reg' = [reg EXCEPT ![x] = 0]
    /\ ticket' = [ticket EXCEPT ![x] = 0]
    /\ insn' = [insn EXCEPT ![x] = "sev"]
    /\ UNCHANGED <<next, flags, masked, event>>

\* Mutant: no sev after the store.
SevForgotten(x) ==
    /\ insn[x] = "sev"
    /\ masked' = [masked EXCEPT ![Cpu(x)] = IF IsIrq(x) THEN FALSE ELSE flags[x]]
    /\ monitor' = [monitor EXCEPT ![Cpu(x)] = @ /\ ~IsIrq(x)]
    /\ flags' = [flags EXCEPT ![x] = FALSE]
    /\ insn' = [insn EXCEPT ![x] = "out"]
    /\ UNCHANGED <<owner, next, reg, ticket, event>>

\* sev; then spin_unlock_irqrestore writes DAIF back, and a handler returns
\* (eret clears the monitor and restores the DAIF of the thread, which was clear
\* or the interrupt would not have been taken).
Sev(x) ==
    /\ insn[x] = "sev"
    /\ event' = [d \in CPUs |-> TRUE]
    /\ masked' = [masked EXCEPT ![Cpu(x)] = IF IsIrq(x) THEN FALSE ELSE flags[x]]
    /\ monitor' = [monitor EXCEPT ![Cpu(x)] = @ /\ ~IsIrq(x)]
    /\ flags' = [flags EXCEPT ![x] = FALSE]
    /\ insn' = [insn EXCEPT ![x] = "out"]
    /\ UNCHANGED <<owner, next, reg, ticket>>

Step(x) ==
    /\ Executing(x)
    /\ \/ MaskIrq(x)
       \/ TakeIrq(x)
       \/ Ldaxr(x)
       \/ Stlxr(x)
       \/ StlxrFails(x)
       \/ LoadOwner(x)
       \/ Wfe(x)
       \/ UnlockLoad(x)
       \/ UnlockStore(x)
       \/ Sev(x)

Next == \E x \in Contexts : Step(x)

Spec == Init /\ [][Next]_vars

\* A CPU that is not asleep in WFE keeps executing, and no critical section of
\* the kernel loops for ever.  Nothing makes a CPU call spin_lock, an interrupt
\* arrive, or a store-exclusive succeed.
Fairness ==
    \A x \in Contexts :
        WF_vars(/\ Executing(x)
                /\ \/ LoadOwner(x) \/ Wfe(x)
                   \/ UnlockLoad(x) \/ UnlockStore(x) \/ Sev(x))

FairSpec == Spec /\ Fairness
-----------------------------------------------------------------------------
(* MutualExclusion: at most one context, over all CPUs and their interrupt   *)
(* handlers, is between spin_lock_irqsave and the store of spin_unlock.      *)
MutualExclusion ==
    \A x, y \in Contexts :
        insn[x] \in Holding /\ insn[y] \in Holding => x = y

(* NoSelfDeadlock: a handler never queues for the lock behind the very thread  *)
(* it has interrupted, which could then never run to release it.  This is what *)
(* masking IRQs before taking the lock is for (spinlock.h:52-53).              *)
NoSelfDeadlock ==
    \A x, y \in Contexts :
        /\ Cpu(x) = Cpu(y)
        /\ IsIrq(x) /\ ~IsIrq(y)
        /\ insn[x] # "out"
        => insn[y] = "out"

-----------------------------------------------------------------------------
(* The inductive invariant behind MutualExclusion and NoSelfDeadlock.          *)

\* Interrupts are masked wherever a context is inside the lock's code, so that
\* the contexts of one CPU never are there together.
MaskedInside == \A x \in Contexts : insn[x] # "out" => masked[Cpu(x)]

OnePerCpu ==
    \A x, y \in Contexts :
        insn[x] # "out" /\ insn[y] # "out" /\ Cpu(x) = Cpu(y) => x = y

\* While the monitor stays set nobody has written next since the ldaxr.
ExclusiveLoad ==
    \A x \in Contexts : insn[x] = "stlxr" /\ monitor[Cpu(x)] => ticket[x] = next

\* The tickets in use are distinct and are exactly the ones from owner up to,
\* but not including, next; the holder's is owner.
IsQueued(x) == x \in Contexts /\ insn[x] \in Queued
Span == Distance(owner, next)
Offset(x) == Distance(owner, ticket[x])

TicketsInSpan == \A x \in Contexts : IsQueued(x) => Offset(x) < Span

TicketsDistinct ==
    \A x, y \in Contexts :
        IsQueued(x) /\ IsQueued(y) /\ ticket[x] = ticket[y] => x = y

SpanCovered ==
    \A d \in 0 .. Span - 1 : \E x \in Contexts : IsQueued(x) /\ Offset(x) = d

HolderServed ==
    \A x \in Contexts :
        /\ insn[x] \in Holding => ticket[x] = owner
        /\ insn[x] = "store" => reg[x] = owner

IInv ==
    /\ TypeOK
    /\ MaskedInside
    /\ OnePerCpu
    /\ ExclusiveLoad
    /\ TicketsInSpan
    /\ TicketsDistinct
    /\ SpanCovered
    /\ HolderServed
-----------------------------------------------------------------------------
\* The refinement mapping: contexts in the order of their outstanding tickets.
TicketLine ==
    LET Waiters == {x \in Contexts : insn[x] \in Queued}
    IN  [i \in 1 .. Cardinality(Waiters) |->
            CHOOSE x \in Waiters : Offset(x) = i - 1]

Holder ==
    IF \E x \in Contexts : insn[x] \in Holding
    THEN CHOOSE x \in Contexts : insn[x] \in Holding ELSE <<>>

Fifo == INSTANCE FifoLock WITH Callers <- Contexts, NoCaller <- <<>>,
                               line <- TicketLine, holder <- Holder

(* FairFifo: the lock implements FifoLock, that is, contexts enter their     *)
(* critical sections one at a time and exactly in the order in which their   *)
(* store-exclusive took a ticket, across the wrap-around of the counters.    *)
FairFifo == Fifo!FifoSpec

(* TicketServed: a context that has taken a ticket is eventually granted the *)
(* lock, so no SEV is lost between the load of owner and the WFE.            *)
TicketServed ==
    \A x \in Contexts : insn[x] = "spin" ~> insn[x] = "critical"
=============================================================================
