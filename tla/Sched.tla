------------------------------- MODULE Sched -------------------------------
(***************************************************************************)
(* The SMP scheduler and the life of a task: boot (kernel/main.c, smp.c),  *)
(* task_create and task_exit_handler (task.c), schedule, sched_yield and   *)
(* sched_start (sched.c), context_switch (vectors.S), and the interrupts   *)
(* that reach them (timer.c, irq.c).                                       *)
(*                                                                         *)
(* The locked part of schedule() is one step: sched_lock is a TicketLock.  *)
(* The lock is released before context_switch, so saving the old context   *)
(* and loading the new one are steps of their own.  Blocking and waking    *)
(* are the state changes that the wait queues and IPC make: they take      *)
(* other locks, or none, so they interleave with every step of a CPU.      *)
(*                                                                         *)
(* The wfe of sched_start never sleeps: the sev of the spin_unlock inside  *)
(* the schedule() just made has set this CPU's own event register.         *)
(***************************************************************************)
EXTENDS RoundRobin

CONSTANTS
    CPUs,       \* CPU numbers smp_init tries, 0 being the boot CPU
    Startable,  \* the secondaries that PSCI agrees to start: none with -smp 1
    BootTasks,  \* how many task_create calls kernel_main makes: 3 in the code
    FRAME_TICKS \* ticks the GUI lets a frame last at least: 3 in the code

ASSUME CPUsAssumption ==
    /\ CPUs \subseteq Nat /\ 0 \in CPUs
    /\ Startable \subseteq CPUs \ {0}
ASSUME BootAssumption == BootTasks \in 0 .. MAX_TASKS
ASSUME FrameAssumption == FRAME_TICKS \in Nat \ {0}

Scratch == -2   \* percpu.dead_ctx, where the context of a dead task goes

VARIABLES
    state,      \* tasks[].state
    num_tasks,  \* task.c's count of live tasks
    saved,      \* tasks[].ctx is where the task last left a CPU
    current,    \* percpu[].current_task_id
    resched,    \* percpu[].reschedule_needed
    at,         \* what each CPU is executing
    stack,      \* whose stack it executes on: a task's, or None for idle
    switch,     \* the context_switch under way: old and new context
    ttbr0,      \* whose page tables TTBR0_EL1 points to
    loaded,     \* num_tasks as loaded by the num_tasks-- of an exiting task
    boot,       \* kernel_main's progress: calls to task_create, then CPUs
    gui,        \* the GUI task, the last one created: None if that failed
    frame       \* tick_count - last_frame in gui_main, FRAME_TICKS standing for
                \* more too; None until gui_main has read the clock

vars == <<state, num_tasks, saved, current, resched, at, stack, switch, ttbr0,
          loaded, boot, gui, frame>>

Places == {"off", "boot", "idle", "halt", "run", "exit", "schedule", "save", "load"}

NoSwitch == [old |-> None, new |-> None]

TypeOK ==
    /\ state \in [Tasks -> TaskStates]
    /\ num_tasks \in 0 .. MAX_TASKS
    /\ saved \in [Tasks -> BOOLEAN]
    /\ current \in [CPUs -> Tasks \cup {None}]
    /\ resched \in [CPUs -> BOOLEAN]
    /\ at \in [CPUs -> Places]
    /\ stack \in [CPUs -> Tasks \cup {None}]
    /\ switch \in [CPUs -> [old : Tasks \cup {None, Scratch},
                            new : Tasks \cup {None}]]
    /\ ttbr0 \in [CPUs -> Tasks \cup {None}]
    /\ loaded \in [CPUs -> 0 .. MAX_TASKS]
    /\ boot \in Nat
    /\ gui \in Tasks \cup {None}
    /\ frame \in 0 .. FRAME_TICKS \cup {None}

\* task_init: every slot DEAD, no CPU has a current task.  Only CPU 0 runs.
Init ==
    /\ state = [t \in Tasks |-> "DEAD"]
    /\ num_tasks = 0
    /\ saved = [t \in Tasks |-> FALSE]
    /\ current = [c \in CPUs |-> None]
    /\ resched = [c \in CPUs |-> FALSE]
    /\ at = [c \in CPUs |-> IF c = 0 THEN "boot" ELSE "off"]
    /\ stack = [c \in CPUs |-> None]
    /\ switch = [c \in CPUs |-> NoSwitch]
    /\ ttbr0 = [c \in CPUs |-> None]
    /\ loaded = [c \in CPUs |-> 0]
    /\ boot = 0
    /\ gui = None
    /\ frame = None
-----------------------------------------------------------------------------
\* kernel_main: task_create.  It takes the first DEAD slot; when vm_create or
\* pages_alloc fails it undoes what it did and the slot stays DEAD.
TaskCreate ==
    /\ at[0] = "boot" /\ boot < BootTasks
    /\ boot' = boot + 1
    /\ \/ \E id \in Tasks :
             /\ state[id] = "DEAD"
             /\ \A u \in Tasks : state[u] = "DEAD" => id <= u
             /\ state' = [state EXCEPT ![id] = "READY"]
             /\ saved' = [saved EXCEPT ![id] = TRUE]
             /\ num_tasks' = num_tasks + 1
             /\ gui' = IF boot = BootTasks - 1 THEN id ELSE gui
       \/ UNCHANGED <<state, saved, num_tasks, gui>>
    /\ UNCHANGED <<current, resched, at, stack, switch, ttbr0, loaded, frame>>

\* smp_init: CPU_ON for the next secondary, which enters secondary_main and then
\* sched_start; without a stack, or when PSCI refuses, it stays off.
SmpBoot ==
    LET c == boot - BootTasks + 1
    IN  /\ at[0] = "boot" /\ boot >= BootTasks
        /\ c \in CPUs
        /\ boot' = boot + 1
        /\ \E stack_ok \in BOOLEAN :
              at' = [at EXCEPT ![c] =
                        IF stack_ok /\ c \in Startable THEN "idle" ELSE "off"]
        /\ UNCHANGED <<state, num_tasks, saved, current, resched, stack,
                       switch, ttbr0, loaded, gui, frame>>

\* The end of kernel_main: CPU 0 calls sched_start.
SchedStart ==
    /\ at[0] = "boot" /\ boot >= BootTasks
    /\ boot - BootTasks + 1 \notin CPUs
    /\ at' = [at EXCEPT ![0] = "idle"]
    /\ UNCHANGED <<state, num_tasks, saved, current, resched, stack, switch,
                   ttbr0, loaded, boot, gui, frame>>

\* The loop of sched_start: halt for good when no task is left, else schedule().
IdleLoop(c) ==
    /\ at[c] = "idle"
    /\ at' = [at EXCEPT ![c] = IF num_tasks = 0 THEN "halt" ELSE "schedule"]
    /\ UNCHANGED <<state, num_tasks, saved, current, resched, stack, switch,
                   ttbr0, loaded, boot, gui, frame>>
-----------------------------------------------------------------------------
\* schedule() up to context_switch.  A CPU with nothing else to run goes back to
\* its idle context; when the scan comes back to the current task, which was woken
\* before it got here, that task just goes on; the context of a task that has
\* died goes to the scratch one.
Schedule(c) ==
    LET cur == current[c]
        next == NextReady(state, cur)
        old == IF cur # None /\ state[cur] = "DEAD" THEN Scratch ELSE cur
    IN  /\ at[c] = "schedule"
        /\ state' = Dispatch(state, cur)
        /\ current' = [current EXCEPT ![c] = next]
        /\ IF next = cur
           THEN /\ at' = [at EXCEPT ![c] = IF cur = None THEN "idle" ELSE "run"]
                /\ UNCHANGED switch
           ELSE /\ at' = [at EXCEPT ![c] = "save"]
                /\ switch' = [switch EXCEPT ![c] = [old |-> old, new |-> next]]
        /\ UNCHANGED <<num_tasks, saved, resched, stack, ttbr0, loaded, boot,
                       gui, frame>>

\* Mutant: the registers are not saved on the way to the idle loop.
SaveNotToIdle(c) ==
    /\ at[c] = "save"
    /\ saved' = [t \in Tasks |-> saved[t] \/ (t = switch[c].old /\ switch[c].new # None)]
    /\ ttbr0' = [ttbr0 EXCEPT ![c] =
                     IF switch[c].new = None THEN @ ELSE switch[c].new]
    /\ at' = [at EXCEPT ![c] = "load"]
    /\ UNCHANGED <<state, num_tasks, current, resched, stack, switch, loaded,
                   boot, gui, frame>>

\* Mutant: TTBR0_EL1 is left alone.
SaveKeepTtbr0(c) ==
    /\ at[c] = "save"
    /\ saved' = [t \in Tasks |-> saved[t] \/ t = switch[c].old]
    /\ at' = [at EXCEPT ![c] = "load"]
    /\ UNCHANGED <<state, num_tasks, current, resched, stack, switch, loaded,
                   ttbr0, boot, gui, frame>>

\* context_switch: store the registers in the old context, switch TTBR0 unless
\* the value passed is 0, as it is for idle ...
Save(c) ==
    /\ at[c] = "save"
    /\ saved' = [t \in Tasks |-> saved[t] \/ t = switch[c].old]
    /\ ttbr0' = [ttbr0 EXCEPT ![c] =
                     IF switch[c].new = None THEN @ ELSE switch[c].new]
    /\ at' = [at EXCEPT ![c] = "load"]
    /\ UNCHANGED <<state, num_tasks, current, resched, stack, switch, loaded,
                   boot, gui, frame>>

\* ... and continue from the new one, in the task or in the loop of sched_start.
Load(c) ==
    /\ at[c] = "load"
    /\ stack' = [stack EXCEPT ![c] = switch[c].new]
    /\ saved' = [t \in Tasks |-> saved[t] /\ t # switch[c].new]
    /\ at' = [at EXCEPT ![c] = IF switch[c].new = None THEN "idle" ELSE "run"]
    /\ switch' = [switch EXCEPT ![c] = NoSwitch]
    /\ UNCHANGED <<state, num_tasks, current, resched, ttbr0, loaded, boot,
                   gui, frame>>
-----------------------------------------------------------------------------
\* sched_yield by the task on c.
SchedYield(c) ==
    /\ at[c] = "run"
    /\ resched' = [resched EXCEPT ![c] = FALSE]
    /\ at' = [at EXCEPT ![c] = "schedule"]
    /\ UNCHANGED <<state, num_tasks, saved, current, stack, switch, ttbr0, loaded,
                   boot, gui, frame>>

\* Any task yields when it likes, but the GUI ...
Yield(c) == current[c] # gui /\ SchedYield(c)

\* ... which first sets itself up, gui_main as far as its loop ...
GuiStart(c) ==
    /\ at[c] = "run" /\ current[c] = gui /\ frame = None
    /\ frame' = 0
    /\ UNCHANGED <<state, num_tasks, saved, current, resched, at, stack, switch,
                   ttbr0, loaded, boot, gui>>

\* Mutant: the frame's start is not stored, so every later frame is late too.
WaitFrameNotStored(c) ==
    /\ at[c] = "run" /\ current[c] = gui /\ frame # None
    /\ \/ frame = FRAME_TICKS /\ UNCHANGED vars
       \/ frame < FRAME_TICKS /\ SchedYield(c)

\* ... and then yields only in wait_frame, until the frame has lasted FRAME_TICKS,
\* and not at all if it already has when the GUI comes there: nobody reads
\* reschedule_needed.
WaitFrame(c) ==
    /\ at[c] = "run" /\ current[c] = gui /\ frame # None
    /\ \/ /\ frame = FRAME_TICKS
          /\ frame' = 0
          /\ UNCHANGED <<state, num_tasks, saved, current, resched, at, stack,
                         switch, ttbr0, loaded, boot, gui>>
       \/ frame < FRAME_TICKS /\ SchedYield(c)

\* The task on c blocks itself (wq_wait, ipc_send, ipc_recv): it is BLOCKED and
\* can be woken before it reaches schedule().  The GUI makes no such call.
Block(c) ==
    /\ at[c] = "run" /\ current[c] # gui
    /\ state' = [state EXCEPT ![current[c]] = "BLOCKED"]
    /\ at' = [at EXCEPT ![c] = "schedule"]
    /\ UNCHANGED <<num_tasks, saved, current, resched, stack, switch, ttbr0,
                   loaded, boot, gui, frame>>

\* The task on c wakes t (wq_wake_one, ipc_send, ipc_recv).
Wake(c, t) ==
    /\ at[c] = "run"
    /\ state[t] = "BLOCKED"
    /\ state' = [state EXCEPT ![t] = "READY"]
    /\ resched' = [d \in CPUs |-> resched[d] \/ (d # c /\ at[d] # "off")]
    /\ UNCHANGED <<num_tasks, saved, current, at, stack, switch, ttbr0,
                   loaded, boot, gui, frame>>

\* task_exit_handler, when the entry function returns: the state is DEAD before
\* num_tasks-- has loaded ...  gui_main returns only from before its loop.
Exit(c) ==
    /\ at[c] = "run"
    /\ current[c] = gui => frame = None
    /\ state' = [state EXCEPT ![current[c]] = "DEAD"]
    /\ loaded' = [loaded EXCEPT ![c] = num_tasks]
    /\ at' = [at EXCEPT ![c] = "exit"]
    /\ UNCHANGED <<num_tasks, saved, current, resched, stack, switch, ttbr0,
                   boot, gui, frame>>

\* Mutant: the count is not written back.
ExitCountForgotten(c) ==
    /\ at[c] = "exit"
    /\ loaded' = [loaded EXCEPT ![c] = 0]
    /\ at' = [at EXCEPT ![c] = "schedule"]
    /\ UNCHANGED <<state, saved, current, resched, stack, switch, ttbr0,
                   boot, num_tasks, gui, frame>>

\* Mutant: an exit is counted twice, here and in a task_destroy.
ExitCountTwice(c) ==
    /\ at[c] = "exit"
    /\ num_tasks' = loaded[c] - 2
    /\ loaded' = [loaded EXCEPT ![c] = 0]
    /\ at' = [at EXCEPT ![c] = "schedule"]
    /\ UNCHANGED <<state, saved, current, resched, stack, switch, ttbr0,
                   boot, gui, frame>>

\* ... and stored the count; then schedule(), for ever.
ExitCount(c) ==
    /\ at[c] = "exit"
    /\ num_tasks' = loaded[c] - 1
    /\ loaded' = [loaded EXCEPT ![c] = 0]
    /\ at' = [at EXCEPT ![c] = "schedule"]
    /\ UNCHANGED <<state, saved, current, resched, stack, switch, ttbr0,
                   boot, gui, frame>>

\* timer_handler: on CPU 0 tick_count grows and wq_tick wakes the sleepers whose
\* time has come, and every CPU sets its own reschedule flag.  Nothing else
\* happens: irq_handle returns to whatever was interrupted.
Tick(c) ==
    /\ at[c] # "off"
    /\ frame' = IF c = 0 /\ frame \in 0 .. FRAME_TICKS - 1 THEN frame + 1 ELSE frame
    /\ \E expired \in SUBSET {t \in Tasks : state[t] = "BLOCKED"} :
          /\ c # 0 => expired = {}
          /\ state' = [t \in Tasks |-> IF t \in expired THEN "READY" ELSE state[t]]
    /\ resched' = [resched EXCEPT ![c] = TRUE]
    /\ UNCHANGED <<num_tasks, saved, current, at, stack, switch, ttbr0, loaded, boot,
                   gui>>

Boot == TaskCreate \/ SmpBoot \/ SchedStart

Kernel(c) == IdleLoop(c) \/ Schedule(c) \/ Save(c) \/ Load(c) \/ ExitCount(c)

\* The next call the task on c makes, or the GUI's next round of its loop.
Goes(c) == Yield(c) \/ GuiStart(c) \/ WaitFrame(c) \/ Block(c) \/ Exit(c)

Task(c) == Goes(c) \/ \E t \in Tasks : Wake(c, t)

Next == Boot \/ \E c \in CPUs : Kernel(c) \/ Task(c) \/ Tick(c)

Spec == Init /\ [][Next]_vars

\* CPUs keep executing and their timers keep firing; nothing is said of tasks.
KernelFairness ==
    /\ WF_vars(Boot)
    /\ \A c \in CPUs : WF_vars(Kernel(c)) /\ WF_vars(Tick(c))

\* Between two calls into the kernel a task runs a finite stretch of code: the
\* boot tasks other than the GUI end after a few, and the GUI's loop always comes
\* to wait_frame.  Whether the GUI gives up the CPU there is not said.
TasksGoOn == \A c \in CPUs : WF_vars(Goes(c))

FairSpec == Spec /\ KernelFairness /\ TasksGoOn

\* The GUI does not fall behind for ever: of the frames it draws, some again and
\* again take less than FRAME_TICKS.  Nothing in the code sees to that.
KeepsUp == \A c \in CPUs : SF_vars(frame < FRAME_TICKS /\ WaitFrame(c))
-----------------------------------------------------------------------------
(* RunningIffCurrent: a task marked RUNNING is the current task of some CPU, *)
(* so no task can be left RUNNING with nobody to run it (schedule() never    *)
(* picks such a task again), and a CPU executing task code is executing its  *)
(* own current task, marked RUNNING.                                         *)
RunningIffCurrent ==
    /\ \A t \in Tasks : state[t] = "RUNNING" => \E c \in CPUs : current[c] = t
    /\ \A c \in CPUs : at[c] = "run" => /\ state[current[c]] = "RUNNING"
                                        /\ stack[c] = current[c]

(* ResumesWhereItLeft: context_switch never restores a task context that is  *)
(* out of date, i.e. one the task has run on from without having saved it    *)
(* again; and nobody is executing on the stack it is about to take.          *)
ResumesWhereItLeft ==
    \A c \in CPUs :
        at[c] = "load" /\ switch[c].new # None =>
            /\ saved[switch[c].new]
            /\ \A d \in CPUs \ {c} : stack[d] # switch[c].new

(* OwnAddressSpace: a task executes under its own page tables, although the  *)
(* idle loop keeps whatever TTBR0 the last task had and schedule() may       *)
(* return to the same task without a switch.                                 *)
OwnAddressSpace ==
    \A c \in CPUs : at[c] = "run" => ttbr0[c] = current[c]

(* HaltsOnlyWhenDone: the scheduler halts a CPU for good only when no task   *)
(* is left to run, although num_tasks is kept apart from the task states.    *)
HaltsOnlyWhenDone ==
    \A c \in CPUs : at[c] = "halt" => \A t \in Tasks : state[t] = "DEAD"

(* ReadyRuns: a task made READY, by its creation, by a yield, by a wake-up   *)
(* or by a timeout, eventually gets a CPU, as long as the GUI draws its      *)
(* frames fast enough to have to wait for the next one: the timer does not   *)
(* preempt, and a GUI that is always late keeps the CPU.                     *)
ReadyRuns ==
    KeepsUp => \A t \in Tasks : state[t] = "READY" ~> state[t] = "RUNNING"

(* EndsHalted: once every task is dead the boot CPU comes to rest in the     *)
(* halt loop of sched_start instead of scheduling for ever.                  *)
EndsHalted ==
    (at[0] # "boot" /\ \A t \in Tasks : state[t] = "DEAD") ~> at[0] = "halt"

-----------------------------------------------------------------------------
\* The inductive invariant of a machine whose secondaries stay off, for
\* Sched_proofs.
OthersOff ==
    \A c \in CPUs \ {0} : at[c] = "off" /\ current[c] = None /\ stack[c] = None

\* Where CPU 0 is says how its current task, its stack and its page tables go
\* together.
InKernelCode ==
    /\ at[0] \in {"boot", "idle", "halt"} => current[0] = None /\ stack[0] = None
    /\ at[0] = "schedule" => stack[0] = current[0]
    /\ at[0] \in {"run", "exit"} => current[0] \in Tasks /\ stack[0] = current[0]
    /\ at[0] = "run" => state[current[0]] = "RUNNING"
    /\ at[0] = "exit" => state[current[0]] = "DEAD"
    /\ at[0] # "off"

\* ... and, during a context switch, what is being switched.
InSwitch ==
    at[0] \in {"save", "load"} =>
        /\ switch[0].new = current[0]
        /\ switch[0].new # stack[0]
        /\ switch[0].new # None => state[switch[0].new] = "RUNNING"
        /\ \/ switch[0].old = stack[0]
           \/ /\ switch[0].old = Scratch
              /\ stack[0] \in Tasks /\ state[stack[0]] = "DEAD"

OnlyCurrentRuns == \A t \in Tasks : state[t] = "RUNNING" => current[0] = t

\* A live task that is not on the CPU has its registers in its context.
ContextsSaved ==
    \A t \in Tasks :
        state[t] # "DEAD" /\ (t # stack[0] \/ at[0] = "load") => saved[t]

TablesInPlace ==
    at[0] \notin {"off", "boot", "save"} /\ current[0] # None => ttbr0[0] = current[0]

\* The tasks num_tasks counts: an exiting one is DEAD before it is counted out.
Counted == {t \in Tasks : state[t] # "DEAD" \/ (at[0] = "exit" /\ t = current[0])}

CountRight ==
    /\ num_tasks = Cardinality(Counted)
    /\ at[0] = "exit" => loaded[0] = num_tasks

OneCpuInv ==
    /\ TypeOK
    /\ OthersOff
    /\ InKernelCode
    /\ InSwitch
    /\ OnlyCurrentRuns
    /\ ContextsSaved
    /\ TablesInPlace
    /\ CountRight
    /\ HaltsOnlyWhenDone
-----------------------------------------------------------------------------
(* NoOtherCpuPicksIt: from the moment schedule() has marked the next task     *)
(* RUNNING and released the lock until context_switch is done, no other CPU's *)
(* schedule() picks that task up (comment at sched.c:89-90).                  *)
NoOtherCpuPicksIt ==
    [][\A c, d \in CPUs :
          /\ c # d
          /\ at[c] \in {"save", "load"} /\ switch[c].new # None
          /\ at[d] = "schedule" /\ at'[d] # "schedule"
          => current'[d] # switch[c].new]_vars

=============================================================================
