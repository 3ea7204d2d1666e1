------------------------------- MODULE Futex -------------------------------
(***************************************************************************)
(* Tasks that block through kernel/futex.c and kernel/sleep.c, on the wait *)
(* queues of module WaitQueue, scheduled round-robin on CPUs that are also *)
(* interrupted by the timer.  The locked parts of each function are steps; *)
(* futex_lock is released around every call into the wait queues, and the  *)
(* timer interrupt comes between any two steps.                            *)
(*                                                                         *)
(* schedule() is one step here, context switch included: module Sched      *)
(* takes it apart and shows this is right on one CPU.                      *)
(***************************************************************************)
EXTENDS WaitQueue

CONSTANTS
    TaskCPUs,       \* the CPUs that run tasks; CPU 0 has the tick
    FUTEX_MAX,      \* slots of ftable: 16 in the code
    Addrs,          \* addresses of futex words
    Values,         \* what the words can hold
    Timeouts,       \* ticks passed to futex_wait_timeout and sleep_ticks
    Millis,         \* what sleep_ms is called with
    Counts          \* what futex_wake is called with

Slots == 0 .. FUTEX_MAX - 1
SleepQueue == FUTEX_MAX         \* sleep_wq
EventQueue == FUTEX_MAX + 1     \* a queue of a kernel client of waitqueue.h

ASSUME FutexMaxAssumption == FUTEX_MAX \in Nat
ASSUME QueuesAssumption == Queues = Slots \cup {SleepQueue, EventQueue}
ASSUME CallsAssumption == None \notin Addrs /\ Timeouts \subseteq Nat /\ Millis \subseteq Nat

VARIABLES
    on,         \* the task each CPU executes, or None when it idles
    pc,         \* where each task is in its current call
    frame,      \* the local variables of that call
    ftable,     \* ftable[]: addr and active (the wait queue is head[slot])
    word,       \* the u32 at each address
    futex_lock  \* the task that holds it across two steps, or None

futexVars == <<wqVars, on, pc, frame, ftable, word, futex_lock>>

\* Locals: slot, addr, expected and ticks of a wait; slot, count and woken of a
\* wake.  One is for the properties only: owed holds the tasks that were waiting
\* on addr when this wake began and have not been woken since.
NoFrame == [slot |-> NoQueue, addr |-> None, expected |-> 0, ticks |-> NoTimeout,
            count |-> 0, woken |-> 0, owed |-> {}]

FutexInit ==
    /\ state = [t \in Tasks |-> "READY"]
    /\ WqInit
    /\ on = [c \in TaskCPUs |-> None]
    /\ pc = [t \in Tasks |-> "user"]
    /\ frame = [t \in Tasks |-> NoFrame]
    /\ ftable = [s \in Slots |-> [addr |-> None, active |-> FALSE]]
    /\ word \in [Addrs -> Values]
    /\ futex_lock = None

Executes(t) == \E c \in TaskCPUs : on[c] = t
At(t, place) == Executes(t) /\ pc[t] = place
Goto(t, place) == pc' = [pc EXCEPT ![t] = place]
Return(t) == pc' = [pc EXCEPT ![t] = "user"] /\ frame' = [frame EXCEPT ![t] = NoFrame]

\* The frames after the tasks of woken have left their waits.
Settle(f, woken) == [t \in Tasks |-> [f[t] EXCEPT !.owed = @ \ woken]]

\* The tasks that have passed the last check of the word at a and now wait.
WaitingOn(a) ==
    {t \in Tasks : /\ frame[t].addr = a
                   /\ \/ pc[t] = "wait"
                      \/ pc[t] \in {"schedule", "waited"} /\ state[t] = "BLOCKED"}
-----------------------------------------------------------------------------
\* find_slot without create, and the slot that create would take.
FindSlot(a) ==
    LET match == {s \in Slots : ftable[s].active /\ ftable[s].addr = a}
    IN  IF match = {} THEN Nil ELSE CHOOSE s \in match : \A r \in match : s <= r

FreeSlot ==
    LET free == {s \in Slots : ~ftable[s].active}
    IN  IF free = {} THEN Nil ELSE CHOOSE s \in free : \A r \in free : s <= r

\* Mutant: the slot is given up while others still wait on it.
MaybeFreeSlotAlways(s) ==
    ftable' = [ftable EXCEPT ![s] = [addr |-> None, active |-> FALSE]]

\* maybe_free_slot: deactivate the slot when its queue is empty.  The address of
\* an inactive slot is never read.
MaybeFreeSlot(s) ==
    ftable' = IF head[s] = Nil
              THEN [ftable EXCEPT ![s] = [addr |-> None, active |-> FALSE]]
              ELSE ftable

\* futex_wait / futex_wait_timeout: take futex_lock, check the word, find or make
\* a slot.
FutexWait(t, a, expected, ticks) ==
    LET slot == IF FindSlot(a) # Nil THEN FindSlot(a) ELSE FreeSlot
    IN  /\ At(t, "user")
        /\ futex_lock = None
        /\ word[a] = expected
        /\ slot # Nil
        /\ ftable' = [ftable EXCEPT ![slot] = [addr |-> a, active |-> TRUE]]
        /\ head' = IF FindSlot(a) = Nil THEN [head EXCEPT ![slot] = Nil] ELSE head
        /\ frame' = [frame EXCEPT ![t] = [NoFrame EXCEPT !.slot = slot, !.addr = a,
                                             !.expected = expected, !.ticks = ticks]]
        /\ futex_lock' = t
        /\ Goto(t, "recheck")
        /\ UNCHANGED <<state, reason, pool, ticked, on, word>>

\* "Re-check after finding slot"; release futex_lock.
FutexRecheck(t) ==
    /\ At(t, "recheck")
    /\ futex_lock' = None
    /\ IF word[frame[t].addr] # frame[t].expected
       THEN MaybeFreeSlot(frame[t].slot) /\ Return(t)
       ELSE UNCHANGED <<ftable, frame>> /\ Goto(t, "wait")
    /\ UNCHANGED <<wqVars, on, word>>

\* wq_wait or wq_wait_timeout, to the call of schedule(); with the pool exhausted
\* the wait returns at once.
Wait(t) ==
    /\ At(t, "wait")
    /\ WqWait(t, frame[t].slot,
              IF frame[t].ticks = NoTimeout THEN NoTimeout ELSE Deadline(frame[t].ticks))
    /\ Goto(t, IF PoolAlloc = Nil THEN "waited" ELSE "schedule")
    /\ UNCHANGED <<on, frame, ftable, word, futex_lock>>

\* wq_wait_timeout has returned wakeup_reason, which is dead until the next wait.
\* The end of futex_wait, once the task runs again, of sleep_ticks and of a plain wait.
Waited(t) ==
    /\ At(t, "waited")
    /\ IF frame[t].slot \in Slots
       THEN futex_lock = None /\ MaybeFreeSlot(frame[t].slot)
       ELSE UNCHANGED ftable
    /\ reason' = [reason EXCEPT ![t] = 0]
    /\ Return(t)
    /\ UNCHANGED <<state, pool, head, ticked, on, word, futex_lock>>

\* futex_wake: find the slot under futex_lock.
FutexWake(t, a, count) ==
    /\ At(t, "user")
    /\ futex_lock = None
    /\ FindSlot(a) # Nil
    /\ frame' = [frame EXCEPT ![t] = [NoFrame EXCEPT !.slot = FindSlot(a), !.addr = a,
                                         !.count = count, !.owed = WaitingOn(a)]]
    /\ Goto(t, "wakeloop")
    /\ UNCHANGED <<wqVars, on, ftable, word, futex_lock>>

\* Mutant: the loop ends as soon as one task was woken.
WakeLoopOnce(t) ==
    /\ At(t, "wakeloop")
    /\ Goto(t, IF frame[t].woken = 0 /\ head[frame[t].slot] # Nil
               THEN "wakeone" ELSE "wakedone")
    /\ UNCHANGED <<wqVars, on, frame, ftable, word, futex_lock>>

\* while (woken < count && head >= 0): no lock is held while head is read.
WakeLoop(t) ==
    /\ At(t, "wakeloop")
    /\ Goto(t, IF frame[t].woken < frame[t].count /\ head[frame[t].slot] # Nil
               THEN "wakeone" ELSE "wakedone")
    /\ UNCHANGED <<wqVars, on, frame, ftable, word, futex_lock>>

\* wq_wake_one(&ftable[slot].wq); woken++.
WakeOne(t) ==
    LET slot == frame[t].slot
    IN  /\ At(t, "wakeone")
        /\ WqWakeOne(slot)
        /\ frame' = Settle([frame EXCEPT ![t].woken = @ + 1], Woken(slot))
        /\ Goto(t, "wakeloop")
        /\ UNCHANGED <<on, ftable, word, futex_lock>>

\* The end of futex_wake: give up the slot if nobody waits, return woken.
WakeDone(t) ==
    /\ At(t, "wakedone")
    /\ futex_lock = None
    /\ MaybeFreeSlot(frame[t].slot)
    /\ Return(t)
    /\ UNCHANGED <<wqVars, on, word, futex_lock>>

\* sleep_ticks: wq_wait_timeout on sleep_wq.
SleepTicks(t, ticks) ==
    /\ At(t, "user")
    /\ ticks > 0
    /\ frame' = [frame EXCEPT ![t] = [NoFrame EXCEPT !.slot = SleepQueue, !.ticks = ticks]]
    /\ Goto(t, "wait")
    /\ UNCHANGED <<wqVars, on, ftable, word, futex_lock>>

\* sleep_ms: whole ticks of 10 ms, at least one.
MsToTicks(ms) == IF ms \div 10 = 0 THEN 1 ELSE ms \div 10

SleepMs(t, ms) == SleepTicks(t, MsToTicks(ms))

\* A kernel client calls wq_wait, and another wq_wake_all.
EventWait(t) ==
    /\ At(t, "user")
    /\ frame' = [frame EXCEPT ![t] = [NoFrame EXCEPT !.slot = EventQueue]]
    /\ Goto(t, "wait")
    /\ UNCHANGED <<wqVars, on, ftable, word, futex_lock>>

EventWakeAll(t) ==
    /\ At(t, "user")
    /\ WqWakeAll(EventQueue)
    /\ UNCHANGED <<on, pc, frame, ftable, word, futex_lock>>

\* sched_yield.
Yield(t) ==
    /\ At(t, "user")
    /\ Goto(t, "schedule")
    /\ UNCHANGED <<wqVars, on, frame, ftable, word, futex_lock>>

\* A task writes a futex word, which takes no lock.
Store(t, a, v) ==
    /\ At(t, "user")
    /\ word' = [word EXCEPT ![a] = v]
    /\ UNCHANGED <<wqVars, on, pc, frame, ftable, futex_lock>>

\* schedule(), by a task that yields or blocks or by the idle loop.
Schedule(c) ==
    LET cur == on[c]
        next == NextReady(state, cur)
    IN  /\ IF cur = None THEN next # None ELSE pc[cur] = "schedule"
        /\ state' = Dispatch(state, cur)
        /\ on' = [on EXCEPT ![c] = next]
        /\ pc' = [t \in Tasks |->
                    IF t # cur THEN pc[t]
                    ELSE IF frame[t] = NoFrame THEN "user" ELSE "waited"]
        /\ UNCHANGED <<reason, pool, head, ticked, frame, ftable, word, futex_lock>>

\* The timer interrupt of CPU 0.  It may come between any two steps.
Tick ==
    /\ WqTick
    /\ frame' = Settle(frame, TimedOut)
    /\ UNCHANGED <<on, pc, ftable, word, futex_lock>>

Proceed(t) ==
    \/ FutexRecheck(t) \/ Wait(t) \/ Waited(t)
    \/ WakeLoop(t) \/ WakeOne(t) \/ WakeDone(t)

\* Calls that may give up the CPU, and calls that return to the same task.
Suspend(t) ==
    \/ Yield(t)
    \/ EventWait(t)
    \/ \E n \in Timeouts : SleepTicks(t, n)
    \/ \E ms \in Millis : SleepMs(t, ms)
    \/ \E a \in Addrs, v \in Values, n \in Timeouts \cup {NoTimeout} :
          FutexWait(t, a, v, n)

Continue(t) ==
    \/ \E a \in Addrs, n \in Counts : FutexWake(t, a, n)
    \/ \E a \in Addrs, v \in Values : Store(t, a, v)
    \/ EventWakeAll(t)

FutexNext ==
    \/ \E t \in Tasks : Proceed(t) \/ Suspend(t) \/ Continue(t)
    \/ \E c \in TaskCPUs : Schedule(c)
    \/ Tick

FutexSpec == FutexInit /\ [][FutexNext]_futexVars
-----------------------------------------------------------------------------
(* WaiterFindable: whoever is blocked in futex_wait on an address is in the  *)
(* queue of the one active slot of that address, where futex_wake will look, *)
(* however often slots were given up and taken again in between.             *)
WaiterFindable ==
    \A t \in Tasks :
        frame[t].addr # None /\ pc[t] \in {"schedule", "waited"}
                             /\ state[t] = "BLOCKED"
        => /\ FindSlot(frame[t].addr) = frame[t].slot
           /\ \E i \in Chain(pool, head[frame[t].slot]) : pool[i].task = t

(* CheckAndBlockAtomic: when futex_wake stops because the queue is empty,    *)
(* nobody is still waiting who had already checked the word when the wake    *)
(* began: the check and the blocking are one atomic step to a waker          *)
(* (futex.c:4-5).                                                            *)
CheckAndBlockAtomic ==
    \A t \in Tasks :
        pc[t] = "wakedone" /\ frame[t].woken < frame[t].count => frame[t].owed = {}

(* OnTime: a task that blocked with a timeout, in a sleep or in             *)
(* futex_wait_timeout, has a deadline that lies ahead and no further than it *)
(* asked for: the tick that reaches the deadline always releases it, from    *)
(* wherever it stands in its queue, so no timed wait outlives its timeout.   *)
OnTime ==
    \A i \in Entries :
        LET ticks == frame[pool[i].task].ticks
        IN  pool[i].in_use /\ ticks # NoTimeout =>
                pool[i].left \in 1 .. ticks
=============================================================================
