----------------------------- MODULE WaitQueue -----------------------------
(***************************************************************************)
(* The wait queues of kernel/waitqueue.c: a static pool of entries linked  *)
(* into one list per queue, the tasks blocked on them, and the tick of     *)
(* CPU 0 that expires timeouts.  The operators here are the bodies of the  *)
(* wq_ functions between taking and releasing wq_lock, which is always     *)
(* taken with interrupts masked; module Futex calls them.                  *)
(*                                                                         *)
(* Time is relative: an entry keeps the ticks left until timeout_tick      *)
(* instead of the absolute tick, and tick_count is kept only as far as     *)
(* "no tick yet", because timeout_tick = 0 means "no timeout".             *)
(***************************************************************************)
EXTENDS RoundRobin

CONSTANTS
    WQ_POOL_SIZE,   \* entries of wq_pool: 64 in the code
    Queues          \* the wait_queue structs of the kernel

ASSUME PoolAssumption == WQ_POOL_SIZE \in Nat \ {0}

Entries == 0 .. WQ_POOL_SIZE - 1
Nil == -1               \* end of list, or no entry
NoTimeout == -1
NoQueue == -1

VARIABLES
    state,      \* tasks[].state
    reason,     \* tasks[].wakeup_reason: 0, or -1 for a timeout
    pool,       \* wq_pool
    head,       \* wait_queue.head of each queue
    ticked      \* tick_count > 0

wqVars == <<state, reason, pool, head, ticked>>

FreeEntry == [task |-> 0, left |-> NoTimeout, next |-> Nil, in_use |-> FALSE,
              owner |-> NoQueue]

\* wq_pool_init and wq_init.
WqInit ==
    /\ reason = [t \in Tasks |-> 0]
    /\ pool = [i \in Entries |-> FreeEntry]
    /\ head = [q \in Queues |-> Nil]
    /\ ticked = FALSE

\* pool_alloc: the first free entry.
PoolAlloc ==
    LET free == {i \in Entries : ~pool[i].in_use}
    IN  IF free = {} THEN Nil ELSE CHOOSE i \in free : \A j \in free : i <= j

\* What is met when following the links of p from i on, past the entries of through: the
\* least set with i in it and, for each of these entries, the one it links to.
Met(p, i, through) ==
    {j \in Entries \cup {Nil} :
        \A S \in SUBSET (Entries \cup {Nil}) :
            i \in S /\ (\A k \in S \cap through : p[k].next \in S) => j \in S}

\* The entries of the list that begins with i.
Chain(p, i) == Met(p, i, Entries) \ {Nil}

\* queue_append: link entry i behind the last one of queue q.
QueueAppend(p, h, q, i) ==
    IF h[q] = Nil
    THEN [pool |-> [p EXCEPT ![i].next = Nil], head |-> [h EXCEPT ![q] = i]]
    ELSE LET last == CHOOSE j \in Chain(p, h[q]) : p[j].next = Nil
         IN  [pool |-> [p EXCEPT ![i].next = Nil, ![last].next = i], head |-> h]

\* Mutant: entries stay linked.
UnlinkNothing(i, gone) == i

\* queue_remove of every entry of gone: what a link to entry i becomes, namely a
\* link to the first entry from there on that stays.
Unlink(i, gone) == CHOOSE j \in Met(pool, i, gone) : j \notin gone

\* pool_free.  It leaves the link as it is; queue_append resets it.  A dead field
\* of a free entry is reset here, so that states do not differ in it.
PoolFree(p, i) == [p EXCEPT ![i] = FreeEntry]

-----------------------------------------------------------------------------
\* timeout_tick = timer_get_ticks() + ticks, where 0 stands for "none".
Deadline(ticks) == IF ticks = 0 /\ ~ticked THEN NoTimeout ELSE ticks

\* wq_wait and wq_wait_timeout up to the call of schedule(): task t queues
\* itself on q and is BLOCKED.  When the pool is exhausted nothing happens.
WqWait(t, q, left) ==
    LET idx == PoolAlloc
        entry == [task |-> t, left |-> left, next |-> Nil, in_use |-> TRUE,
                  owner |-> q]
        linked == QueueAppend([pool EXCEPT ![idx] = entry], head, q, idx)
    IN  /\ IF idx = Nil THEN UNCHANGED <<state, reason, pool, head>>
           ELSE /\ pool' = linked.pool
                /\ head' = linked.head
                /\ reason' = [reason EXCEPT ![t] = 0]
                /\ state' = [state EXCEPT ![t] = "BLOCKED"]
        /\ UNCHANGED ticked

\* The task that wq_wake_one would make READY, if any.
Woken(q) ==
    IF head[q] = Nil THEN {}
    ELSE {t \in Tasks : t = pool[head[q]].task /\ state[t] = "BLOCKED"}

\* wq_wake_one: unlink the first entry of q and make its task READY.
WqWakeOne(q) ==
    /\ IF head[q] = Nil THEN UNCHANGED <<state, reason, pool, head>>
       ELSE /\ head' = [head EXCEPT ![q] = pool[head[q]].next]
            /\ pool' = PoolFree(pool, head[q])
            /\ state' = [t \in Tasks |-> IF t \in Woken(q) THEN "READY" ELSE state[t]]
            /\ reason' = [t \in Tasks |-> IF t \in Woken(q) THEN 0 ELSE reason[t]]
    /\ UNCHANGED ticked

\* wq_wake_all: the same for every entry of q.
WqWakeAll(q) ==
    LET gone == Chain(pool, head[q])
        woken == {t \in Tasks : state[t] = "BLOCKED" /\ \E i \in gone : pool[i].task = t}
    IN  /\ head' = [head EXCEPT ![q] = Nil]
        /\ pool' = [i \in Entries |-> IF i \in gone THEN FreeEntry ELSE pool[i]]
        /\ state' = [t \in Tasks |-> IF t \in woken THEN "READY" ELSE state[t]]
        /\ reason' = [t \in Tasks |-> IF t \in woken THEN 0 ELSE reason[t]]
        /\ UNCHANGED ticked

\* Mutant: only the first entry of a queue is looked at.
ExpiringHeads ==
    {i \in Entries : pool[i].in_use /\ pool[i].left \in {0, 1}
                        /\ head[pool[i].owner] = i}

\* The entries whose timeout_tick the next value of tick_count reaches.
Expiring == {i \in Entries : pool[i].in_use /\ pool[i].left \in {0, 1}}

\* The tasks that expiry makes READY.
TimedOut ==
    {t \in Tasks : state[t] = "BLOCKED" /\ \E i \in Expiring : pool[i].task = t}

\* timer_handler on CPU 0: tick_count++, and wq_tick over the whole pool.
WqTick ==
    /\ ticked' = TRUE
    /\ pool' = [i \in Entries |->
                   IF i \in Expiring THEN FreeEntry
                   ELSE [pool[i] EXCEPT !.next = Unlink(@, Expiring),
                                        !.left = IF @ > 0 THEN @ - 1 ELSE @]]
    /\ head' = [q \in Queues |-> Unlink(head[q], Expiring)]
    /\ state' = [t \in Tasks |-> IF t \in TimedOut THEN "READY" ELSE state[t]]
    /\ reason' = [t \in Tasks |-> IF t \in TimedOut THEN -1 ELSE reason[t]]
-----------------------------------------------------------------------------
(* QueuesWellFormed: following the links from a queue's head meets exactly   *)
(* the entries in use that name this queue as their owner (no entry lost,    *)
(* shared between queues or left dangling), and the tasks on the queues are  *)
(* exactly the BLOCKED ones, each of them once: with as many pool entries as *)
(* tasks, the "pool exhausted" exit of wq_wait is therefore never taken.     *)
QueuesWellFormed ==
    /\ \A q \in Queues :
          Chain(pool, head[q]) = {i \in Entries : pool[i].in_use /\ pool[i].owner = q}
    /\ \A t \in Tasks :
          Cardinality({i \in Entries : pool[i].in_use /\ pool[i].task = t})
             = IF state[t] = "BLOCKED" THEN 1 ELSE 0
=============================================================================
