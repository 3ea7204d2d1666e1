----------------------------- MODULE RoundRobin -----------------------------
(***************************************************************************)
(* The task table and the scan of schedule() (kernel/task.h, sched.c), as  *)
(* operators on the function from task slots to task states.               *)
(***************************************************************************)
EXTENDS Integers, FiniteSets

CONSTANT MAX_TASKS      \* slots of tasks[]: 32 in the code

ASSUME MaxTasksAssumption == MAX_TASKS \in Nat \ {0}

Tasks == 0 .. MAX_TASKS - 1
None == -1              \* "no task": current_task_id of an idle CPU

TaskStates == {"DEAD", "READY", "RUNNING", "BLOCKED"}

\* Mutant: the scan stops one slot early and never comes back to cur.
NextReadyShort(state, cur) ==
    LET start == IF cur >= 0 THEN cur ELSE 0
        Slot(i) == (start + i) % MAX_TASKS
        hits == {i \in 1 .. MAX_TASKS - 1 : state[Slot(i)] = "READY"}
    IN  IF hits = {} THEN None
        ELSE Slot(CHOOSE i \in hits : \A j \in hits : i <= j)

\* The first READY task after cur, cur itself coming last.
NextReady(state, cur) ==
    LET start == IF cur >= 0 THEN cur ELSE 0
        Slot(i) == (start + i) % MAX_TASKS
        hits == {i \in 1 .. MAX_TASKS : state[Slot(i)] = "READY"}
    IN  IF hits = {} THEN None
        ELSE Slot(CHOOSE i \in hits : \A j \in hits : i <= j)

\* if (old_task->state == TASK_RUNNING) old_task->state = TASK_READY;
Preempt(state, cur) ==
    [t \in Tasks |-> IF t = cur /\ state[t] = "RUNNING" THEN "READY" ELSE state[t]]

\* Mutant: the old task is left RUNNING.
DispatchLeaveRunning(state, cur) ==
    LET next == NextReady(state, cur)
    IN  [t \in Tasks |-> IF t = next THEN "RUNNING" ELSE state[t]]

\* The effect of a whole schedule() on the task states: the scan comes first,
\* then the current task gives up the CPU and the chosen one, if any, gets it.
Dispatch(state, cur) ==
    LET next == NextReady(state, cur)
    IN  [t \in Tasks |-> IF t = next THEN "RUNNING" ELSE Preempt(state, cur)[t]]
=============================================================================
