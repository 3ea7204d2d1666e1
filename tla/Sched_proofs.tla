---------------------------- MODULE Sched_proofs ----------------------------
(***************************************************************************)
(* Proofs about the scheduler for every number of task slots and every     *)
(* number of boot tasks, on a machine whose secondary CPUs stay off (PSCI  *)
(* refuses to start them, or there are none).  With two CPUs the           *)
(* properties do not hold: see the run sched_smp.                          *)
(***************************************************************************)
EXTENDS Sched, FiniteSetTheorems, TLAPS

-----------------------------------------------------------------------------
(* The scan and what schedule() does to the task states.                     *)

(* The numbers that stand for no task are not slots of the table. *)
LEMMA NotSlots == None \notin Tasks /\ Scratch \notin Tasks /\ Scratch # None
  BY MaxTasksAssumption DEF Tasks, None, Scratch

(* A nonempty set of naturals has a least element. *)
LEMMA LeastNatural ==
    ASSUME NEW S, S \subseteq Nat, S # {}
    PROVE  \E i \in S : \A j \in S : i <= j
<1>1. PICK i \in S : \A j \in S : ~ (<<j, i>> \in OpToRel(<, Nat))
  BY NatLessThanWellFounded, WFMin
<1>2. \A j \in S : ~ (j < i)
  BY <1>1 DEF OpToRel
<1> QED
  BY <1>2

(* The scan of schedule() returns a READY task or none. *)
LEMMA NextReadyFacts ==
    ASSUME NEW st \in [Tasks -> TaskStates], NEW cur \in Tasks \cup {None}
    PROVE  \/ NextReady(st, cur) = None
           \/ /\ NextReady(st, cur) \in Tasks
              /\ st[NextReady(st, cur)] = "READY"
<1> DEFINE start == IF cur >= 0 THEN cur ELSE 0
           Slot(i) == (start + i) % MAX_TASKS
           hits == {i \in 1 .. MAX_TASKS : st[Slot(i)] = "READY"}
           k == CHOOSE i \in hits : \A j \in hits : i <= j
<1>1. CASE hits = {}
  BY <1>1 DEF NextReady
<1>2. CASE hits # {}
  <2>1. hits \subseteq Nat
    BY MaxTasksAssumption
  <2>2. \E i \in hits : \A j \in hits : i <= j
    <3> HIDE DEF hits
    <3> QED
      BY <1>2, <2>1, LeastNatural
  <2>3. k \in hits
    <3> HIDE DEF hits
    <3> QED
      BY <2>2
  <2>4. k \in 1 .. MAX_TASKS /\ st[Slot(k)] = "READY"
    <3> HIDE DEF k, Slot
    <3> QED
      BY <2>3
  <2>5. start \in Nat
    BY MaxTasksAssumption DEF Tasks, None
  <2>6. Slot(k) \in Tasks
    <3> HIDE DEF k, start
    <3> QED
      BY <2>4, <2>5, MaxTasksAssumption DEF Tasks
  <2>7. NextReady(st, cur) = Slot(k)
    BY <1>2 DEF NextReady
  <2> QED
    BY <2>4, <2>6, <2>7
<1> QED
  BY <1>1, <1>2

(* schedule() marks exactly the task it picked RUNNING, provided that only   *)
(* the current one was, and neither kills nor revives a task.                *)
LEMMA DispatchFacts ==
    ASSUME NEW st \in [Tasks -> TaskStates], NEW cur \in Tasks \cup {None},
           \A t \in Tasks : st[t] = "RUNNING" => cur = t
    PROVE  /\ NextReady(st, cur) \in Tasks \cup {None}
           /\ Dispatch(st, cur) \in [Tasks -> TaskStates]
           /\ \A t \in Tasks : /\ Dispatch(st, cur)[t] = "RUNNING" <=> NextReady(st, cur) = t
                               /\ Dispatch(st, cur)[t] = "DEAD" <=> st[t] = "DEAD"
<1> DEFINE next == NextReady(st, cur)
<1>1. \/ next = None
      \/ next \in Tasks /\ st[next] = "READY"
  BY NextReadyFacts
<1>2. Dispatch(st, cur) =
         [t \in Tasks |-> IF t = next THEN "RUNNING"
                          ELSE IF t = cur /\ st[t] = "RUNNING" THEN "READY" ELSE st[t]]
  BY DEF Dispatch, Preempt
<1> HIDE DEF next
<1>3. next \in Tasks \cup {None}
  BY <1>1
<1>4. Dispatch(st, cur) \in [Tasks -> TaskStates]
  BY <1>2 DEF TaskStates
<1>5. ASSUME NEW t \in Tasks
      PROVE  /\ Dispatch(st, cur)[t] = "RUNNING" <=> next = t
             /\ Dispatch(st, cur)[t] = "DEAD" <=> st[t] = "DEAD"
  BY <1>1, <1>2, NotSlots DEF TaskStates
<1> QED
  BY <1>3, <1>4, <1>5 DEF next

(* The tasks that num_tasks counts can be counted, and fit the table. *)
LEMMA CountedFinite ==
    ASSUME NEW S \in SUBSET Tasks
    PROVE  /\ IsFiniteSet(S)
           /\ Cardinality(S) \in 0 .. MAX_TASKS
<1>1. IsFiniteSet(Tasks) /\ Cardinality(Tasks) = MAX_TASKS
  <2>1. 0 \in Int /\ MAX_TASKS - 1 \in Int /\ ~ (0 > MAX_TASKS - 1)
    BY MaxTasksAssumption
  <2>2. IsFiniteSet(0 .. MAX_TASKS - 1) /\ Cardinality(0 .. MAX_TASKS - 1) = (MAX_TASKS - 1) - 0 + 1
    BY <2>1, FS_Interval
  <2> QED
    BY <2>2, MaxTasksAssumption DEF Tasks
<1>2. IsFiniteSet(S) /\ Cardinality(S) <= MAX_TASKS
  BY <1>1, FS_Subset
<1>3. Cardinality(S) \in Nat
  BY <1>2, FS_CardinalityType
<1> QED
  BY <1>2, <1>3, MaxTasksAssumption

-----------------------------------------------------------------------------
(* Every step keeps the invariant.                                           *)

(* Nothing happens on a CPU that is off, so every step is one of CPU 0. *)
LEMMA OnlyBootCpu ==
    ASSUME OneCpuInv, NEW c \in CPUs, Kernel(c) \/ Task(c) \/ Tick(c)
    PROVE  c = 0
<1>1. at[c] # "off"
  BY DEF Kernel, Task, Tick, IdleLoop, Schedule, Save, Load, ExitCount, Yield,
         SchedYield, GuiStart, WaitFrame, Goes, Block, Exit, Wake
<1> QED
  BY <1>1 DEF OneCpuInv, OthersOff

(* The initial state satisfies the invariant. *)
LEMMA InitInv == Init => OneCpuInv
<1> SUFFICES ASSUME Init PROVE OneCpuInv
  OBVIOUS
<1> USE CPUsAssumption
<1>1. TypeOK
  BY MaxTasksAssumption DEF Init, TypeOK, TaskStates, Places, NoSwitch
<1>2. OthersOff /\ InKernelCode /\ InSwitch /\ OnlyCurrentRuns /\ ContextsSaved
      /\ TablesInPlace /\ HaltsOnlyWhenDone
  BY DEF Init, OthersOff, InKernelCode, InSwitch, OnlyCurrentRuns, ContextsSaved,
         TablesInPlace, HaltsOnlyWhenDone
<1>3. Counted = {}
  BY DEF Init, Counted
<1>4. CountRight
  BY <1>3, FS_EmptySet DEF Init, CountRight
<1> QED
  BY <1>1, <1>2, <1>4 DEF OneCpuInv

(* task_create keeps the invariant: the new task is counted, and its context *)
(* is filled in before it can be picked.                                     *)
LEMMA TaskCreateStep ==
    ASSUME OneCpuInv, TaskCreate
    PROVE  OneCpuInv'
<1> USE CPUsAssumption DEF OneCpuInv
<1>0. at[0] = "boot" /\ current[0] = None /\ stack[0] = None
      /\ boot' = boot + 1
      /\ UNCHANGED <<current, resched, at, stack, switch, ttbr0, loaded, frame>>
  BY DEF TaskCreate, InKernelCode
<1>1. CASE UNCHANGED <<state, saved, num_tasks, gui>>
  <2>1. TypeOK'
    BY <1>0, <1>1 DEF TypeOK
  <2>2. Counted' = Counted
    BY <1>0, <1>1 DEF Counted
  <2>3. CountRight'
    BY <1>0, <1>1, <2>2 DEF CountRight
  <2> QED
    BY <1>0, <1>1, <2>1, <2>3 DEF OthersOff, InKernelCode, InSwitch, OnlyCurrentRuns,
       ContextsSaved, TablesInPlace, HaltsOnlyWhenDone
<1>2. ASSUME NEW id \in Tasks, state[id] = "DEAD",
             state' = [state EXCEPT ![id] = "READY"],
             saved' = [saved EXCEPT ![id] = TRUE],
             num_tasks' = num_tasks + 1,
             gui' \in Tasks \cup {None}
      PROVE  OneCpuInv'
  <2>1. Counted' = Counted \cup {id} /\ id \notin Counted
    BY <1>0, <1>2 DEF Counted, TypeOK
  <2>2. Counted \in SUBSET Tasks /\ Counted' \in SUBSET Tasks
    BY DEF Counted
  <2>3. Cardinality(Counted \cup {id}) = Cardinality(Counted) + 1
    BY <2>1, <2>2, CountedFinite, FS_AddElement
  <2>4. CountRight'
    BY <1>0, <1>2, <2>1, <2>3 DEF CountRight
  <2>5. num_tasks' \in 0 .. MAX_TASKS
    BY <2>4, <2>2, CountedFinite DEF CountRight
  <2>6. TypeOK'
    BY <1>0, <1>2, <2>5 DEF TypeOK, TaskStates
  <2>7. OthersOff' /\ InKernelCode' /\ InSwitch' /\ TablesInPlace'
    BY <1>0 DEF OthersOff, InKernelCode, InSwitch, TablesInPlace
  <2>8. OnlyCurrentRuns' /\ ContextsSaved' /\ HaltsOnlyWhenDone'
    BY <1>0, <1>2 DEF TypeOK, OthersOff, OnlyCurrentRuns, ContextsSaved,
       HaltsOnlyWhenDone
  <2> QED
    BY <2>4, <2>6, <2>7, <2>8
<1>3. TypeOK
  OBVIOUS
<1>4. gui' \in Tasks \cup {None}
  BY <1>3 DEF TaskCreate, TypeOK
<1> QED
  BY <1>1, <1>2, <1>4 DEF TaskCreate

(* smp_init keeps the invariant when PSCI starts no secondary. *)
LEMMA SmpBootStep ==
    ASSUME Startable = {}, OneCpuInv, SmpBoot
    PROVE  OneCpuInv'
<1> USE CPUsAssumption DEF OneCpuInv
<1> DEFINE c == boot - BootTasks + 1
<1>1. c \in CPUs /\ c # 0 /\ at' = [at EXCEPT ![c] = "off"] /\ boot' \in Nat
      /\ UNCHANGED <<state, num_tasks, saved, current, resched, stack,
                     switch, ttbr0, loaded, gui, frame>>
  BY BootAssumption DEF SmpBoot, TypeOK
<1> HIDE DEF c
<1>2. at' = at
  BY <1>1 DEF TypeOK, OthersOff
<1>3. Counted' = Counted
  BY <1>1, <1>2 DEF Counted
<1>4. TypeOK' /\ CountRight'
  BY <1>1, <1>2, <1>3 DEF TypeOK, CountRight
<1> QED
  BY <1>1, <1>2, <1>4 DEF OthersOff, InKernelCode, InSwitch, OnlyCurrentRuns,
     ContextsSaved, TablesInPlace, HaltsOnlyWhenDone

(* Entering sched_start keeps the invariant. *)
LEMMA SchedStartStep ==
    ASSUME OneCpuInv, SchedStart
    PROVE  OneCpuInv'
<1> USE CPUsAssumption DEF OneCpuInv
<1>1. at[0] = "boot" /\ at' = [at EXCEPT ![0] = "idle"]
      /\ current[0] = None /\ stack[0] = None
      /\ UNCHANGED <<state, num_tasks, saved, current, resched, stack,
                     switch, ttbr0, loaded, boot, gui, frame>>
  BY DEF SchedStart, InKernelCode
<1>2. Counted' = Counted
  BY <1>1 DEF Counted, TypeOK
<1>3. TypeOK' /\ CountRight'
  BY <1>1, <1>2 DEF TypeOK, CountRight, Places
<1> QED
  BY <1>1, <1>3 DEF TypeOK, OthersOff, InKernelCode, InSwitch, OnlyCurrentRuns,
     ContextsSaved, TablesInPlace, HaltsOnlyWhenDone

(* The idle loop keeps the invariant: a zero count means that no task is     *)
(* left, because the count is exact when no task is exiting.                 *)
LEMMA IdleLoopStep ==
    ASSUME OneCpuInv, IdleLoop(0)
    PROVE  OneCpuInv'
<1> USE CPUsAssumption DEF OneCpuInv
<1>1. at[0] = "idle" /\ current[0] = None /\ stack[0] = None
      /\ at' = [at EXCEPT ![0] = IF num_tasks = 0 THEN "halt" ELSE "schedule"]
      /\ UNCHANGED <<state, num_tasks, saved, current, resched, stack,
                     switch, ttbr0, loaded, boot, gui, frame>>
  BY DEF IdleLoop, InKernelCode
<1>2. Counted' = Counted
  BY <1>1 DEF Counted, TypeOK
<1>3. TypeOK' /\ CountRight'
  BY <1>1, <1>2 DEF TypeOK, CountRight, Places
<1>4. OthersOff' /\ InKernelCode' /\ InSwitch' /\ OnlyCurrentRuns' /\ ContextsSaved'
      /\ TablesInPlace'
  BY <1>1 DEF TypeOK, OthersOff, InKernelCode, InSwitch, OnlyCurrentRuns,
     ContextsSaved, TablesInPlace
<1>5. HaltsOnlyWhenDone'
  <2>1. CASE num_tasks = 0
    <3>1. Counted \in SUBSET Tasks
      BY DEF Counted
    <3>2. Counted = {}
      BY <2>1, <3>1, CountedFinite, FS_EmptySet DEF CountRight
    <3>3. \A t \in Tasks : state[t] = "DEAD"
      BY <3>2 DEF Counted
    <3> QED
      BY <1>1, <3>3 DEF HaltsOnlyWhenDone
  <2>2. CASE num_tasks # 0
    BY <1>1, <2>2 DEF HaltsOnlyWhenDone, TypeOK, OthersOff
  <2> QED
    BY <2>1, <2>2
<1> QED
  BY <1>3, <1>4, <1>5

(* schedule() keeps the invariant: whatever the scan finds, one task at most *)
(* is RUNNING afterwards, the current one, and the switch is from the stack  *)
(* the CPU is on to that task.                                               *)
LEMMA ScheduleStep ==
    ASSUME OneCpuInv, Schedule(0)
    PROVE  OneCpuInv'
<1> USE CPUsAssumption DEF OneCpuInv
<1> DEFINE cur == current[0]
           next == NextReady(state, cur)
           old == IF cur # None /\ state[cur] = "DEAD" THEN Scratch ELSE cur
<1>1. /\ at[0] = "schedule"
      /\ state' = Dispatch(state, cur)
      /\ current' = [current EXCEPT ![0] = next]
      /\ UNCHANGED <<num_tasks, saved, resched, stack, ttbr0, loaded, boot,
                     gui, frame>>
  BY DEF Schedule
<1>2. /\ cur \in Tasks \cup {None} /\ stack[0] = cur
      /\ cur # None => ttbr0[0] = cur
      /\ \A t \in Tasks : state[t] = "RUNNING" => cur = t
  BY <1>1 DEF TypeOK, InKernelCode, OnlyCurrentRuns, TablesInPlace
<1>3. /\ next \in Tasks \cup {None}
      /\ state' \in [Tasks -> TaskStates]
      /\ \A t \in Tasks : /\ state'[t] = "RUNNING" <=> next = t
                          /\ state'[t] = "DEAD" <=> state[t] = "DEAD"
  BY <1>1, <1>2, DispatchFacts DEF TypeOK
<1>4. \/ /\ next = cur
         /\ at' = [at EXCEPT ![0] = IF cur = None THEN "idle" ELSE "run"]
         /\ switch' = switch
      \/ /\ next # cur
         /\ at' = [at EXCEPT ![0] = "save"]
         /\ switch' = [switch EXCEPT ![0] = [old |-> old, new |-> next]]
  BY DEF Schedule
<1> HIDE DEF next
<1>5. TypeOK'
  BY <1>1, <1>2, <1>3, <1>4 DEF TypeOK, Places
<1>6. at'[0] \in {"idle", "run", "save"} /\ current'[0] = next
  BY <1>1, <1>4 DEF TypeOK
<1>7. OthersOff' /\ HaltsOnlyWhenDone'
  BY <1>1, <1>4, <1>6 DEF OthersOff, HaltsOnlyWhenDone, TypeOK
<1>8. InKernelCode'
  BY <1>1, <1>2, <1>3, <1>4, <1>6, NotSlots DEF InKernelCode, TypeOK
<1>9. InSwitch'
  BY <1>1, <1>2, <1>3, <1>4, <1>6, NotSlots DEF InSwitch, TypeOK
<1>10. OnlyCurrentRuns' /\ ContextsSaved'
  BY <1>1, <1>2, <1>3, <1>6 DEF OnlyCurrentRuns, ContextsSaved
<1>11. TablesInPlace'
  BY <1>1, <1>2, <1>4, <1>6 DEF TablesInPlace, TypeOK
<1>12. CountRight'
  <2>1. Counted' = Counted
    BY <1>1, <1>3, <1>6 DEF Counted
  <2> QED
    BY <1>1, <1>6, <2>1 DEF CountRight
<1> QED
  BY <1>5, <1>7, <1>8, <1>9, <1>10, <1>11, <1>12

(* Storing the registers keeps the invariant: what the switch leaves is the  *)
(* stack the CPU is on, unless its task is dead.                             *)
LEMMA SaveStep ==
    ASSUME OneCpuInv, Save(0)
    PROVE  OneCpuInv'
<1> USE CPUsAssumption DEF OneCpuInv
<1>1. /\ at[0] = "save"
      /\ saved' = [t \in Tasks |-> saved[t] \/ t = switch[0].old]
      /\ ttbr0' = [ttbr0 EXCEPT ![0] = IF switch[0].new = None THEN @ ELSE switch[0].new]
      /\ at' = [at EXCEPT ![0] = "load"]
      /\ UNCHANGED <<state, num_tasks, current, resched, stack, switch,
                     loaded, boot, gui, frame>>
  BY DEF Save
<1>2. TypeOK'
  BY <1>1 DEF TypeOK, Places
<1>3. at'[0] = "load"
  BY <1>1 DEF TypeOK
<1>4. OthersOff' /\ HaltsOnlyWhenDone'
  BY <1>1 DEF TypeOK, OthersOff, HaltsOnlyWhenDone
<1>5. InKernelCode' /\ InSwitch' /\ OnlyCurrentRuns'
  BY <1>1, <1>3 DEF InKernelCode, InSwitch, OnlyCurrentRuns
<1>6. ContextsSaved'
  <2> SUFFICES ASSUME NEW t \in Tasks, state[t] # "DEAD" PROVE saved[t] \/ t = switch[0].old
    BY <1>1 DEF ContextsSaved
  <2>1. CASE t # stack[0]
    BY <1>1, <2>1 DEF ContextsSaved
  <2>2. CASE t = stack[0]
    BY <1>1, <2>2 DEF InSwitch
  <2> QED
    BY <2>1, <2>2
<1>7. TablesInPlace'
  BY <1>1 DEF InSwitch, TablesInPlace, TypeOK
<1>8. CountRight'
  <2>1. Counted' = Counted
    BY <1>1, <1>3 DEF Counted
  <2> QED
    BY <1>1, <1>3, <2>1 DEF CountRight
<1> QED
  BY <1>2, <1>4, <1>5, <1>6, <1>7, <1>8

(* Loading the registers keeps the invariant: the context that becomes stale *)
(* is that of the task now on the CPU.                                       *)
LEMMA LoadStep ==
    ASSUME OneCpuInv, Load(0)
    PROVE  OneCpuInv'
<1> USE CPUsAssumption DEF OneCpuInv
<1>1. /\ at[0] = "load"
      /\ stack' = [stack EXCEPT ![0] = switch[0].new]
      /\ saved' = [t \in Tasks |-> saved[t] /\ t # switch[0].new]
      /\ at' = [at EXCEPT ![0] = IF switch[0].new = None THEN "idle" ELSE "run"]
      /\ switch' = [switch EXCEPT ![0] = NoSwitch]
      /\ UNCHANGED <<state, num_tasks, current, resched, ttbr0, loaded, boot,
                     gui, frame>>
  BY DEF Load
<1>2. TypeOK'
  BY <1>1 DEF TypeOK, Places, NoSwitch
<1>3. /\ stack'[0] = current[0] /\ switch[0].new = current[0]
      /\ current[0] \in Tasks \cup {None}
      /\ at'[0] = IF current[0] = None THEN "idle" ELSE "run"
      /\ current[0] # None => state[current[0]] = "RUNNING"
  BY <1>1 DEF TypeOK, InSwitch
<1>4. OthersOff' /\ HaltsOnlyWhenDone'
  BY <1>1 DEF TypeOK, OthersOff, HaltsOnlyWhenDone
<1>5. InKernelCode' /\ InSwitch' /\ OnlyCurrentRuns' /\ TablesInPlace'
  BY <1>1, <1>3 DEF InKernelCode, InSwitch, OnlyCurrentRuns, TablesInPlace
<1>6. ContextsSaved'
  <2> SUFFICES ASSUME NEW t \in Tasks, state[t] # "DEAD", t # current[0]
               PROVE  saved'[t]
    BY <1>1, <1>3 DEF ContextsSaved
  <2>1. saved[t]
    BY <1>1 DEF ContextsSaved
  <2> QED
    BY <1>1, <1>3, <2>1
<1>7. CountRight'
  <2>1. Counted' = Counted
    BY <1>1, <1>3 DEF Counted
  <2> QED
    BY <1>1, <1>3, <2>1 DEF CountRight
<1> QED
  BY <1>2, <1>4, <1>5, <1>6, <1>7

(* The end of task_exit_handler keeps the invariant: the task that died is   *)
(* counted out once.                                                         *)
LEMMA ExitCountStep ==
    ASSUME OneCpuInv, ExitCount(0)
    PROVE  OneCpuInv'
<1> USE CPUsAssumption DEF OneCpuInv
<1>1. /\ at[0] = "exit"
      /\ num_tasks' = loaded[0] - 1
      /\ loaded' = [loaded EXCEPT ![0] = 0]
      /\ at' = [at EXCEPT ![0] = "schedule"]
      /\ UNCHANGED <<state, saved, current, resched, stack, switch, ttbr0,
                     boot, gui, frame>>
  BY DEF ExitCount
<1>2. at'[0] = "schedule"
  BY <1>1 DEF TypeOK
<1>3. CountRight'
  <2>1. current[0] \in Counted /\ Counted' = Counted \ {current[0]}
    BY <1>1, <1>2 DEF Counted, InKernelCode
  <2>2. Counted \in SUBSET Tasks
    BY DEF Counted
  <2>3. Cardinality(Counted \ {current[0]}) = Cardinality(Counted) - 1
    BY <2>1, <2>2, CountedFinite, FS_RemoveElement
  <2> QED
    BY <1>1, <1>2, <2>1, <2>3 DEF CountRight
<1>4. num_tasks' \in 0 .. MAX_TASKS
  <2>1. Counted' \in SUBSET Tasks
    BY DEF Counted
  <2> QED
    BY <1>3, <2>1, CountedFinite DEF CountRight
<1>5. TypeOK'
  BY <1>1, <1>4, MaxTasksAssumption DEF TypeOK, Places
<1>6. OthersOff' /\ HaltsOnlyWhenDone'
  BY <1>1 DEF TypeOK, OthersOff, HaltsOnlyWhenDone
<1>7. InKernelCode' /\ InSwitch' /\ OnlyCurrentRuns' /\ ContextsSaved' /\ TablesInPlace'
  BY <1>1, <1>2 DEF InKernelCode, InSwitch, OnlyCurrentRuns, ContextsSaved, TablesInPlace
<1> QED
  BY <1>3, <1>5, <1>6, <1>7

(* sched_yield keeps the invariant. *)
LEMMA YieldStep ==
    ASSUME OneCpuInv, SchedYield(0)
    PROVE  OneCpuInv'
<1> USE CPUsAssumption DEF OneCpuInv
<1>1. /\ at[0] = "run"
      /\ resched' = [resched EXCEPT ![0] = FALSE]
      /\ at' = [at EXCEPT ![0] = "schedule"]
      /\ UNCHANGED <<state, num_tasks, saved, current, stack, switch, ttbr0,
                     loaded, boot, gui, frame>>
  BY DEF SchedYield
<1>2. at'[0] = "schedule"
  BY <1>1 DEF TypeOK
<1>3. Counted' = Counted
  BY <1>1, <1>2 DEF Counted
<1>4. TypeOK' /\ CountRight'
  BY <1>1, <1>2, <1>3 DEF TypeOK, Places, CountRight
<1>5. OthersOff' /\ HaltsOnlyWhenDone'
  BY <1>1 DEF TypeOK, OthersOff, HaltsOnlyWhenDone
<1> QED
  BY <1>1, <1>2, <1>4, <1>5 DEF InKernelCode, InSwitch, OnlyCurrentRuns, ContextsSaved,
     TablesInPlace

(* The GUI's own rounds keep the invariant: the frame's start is all they    *)
(* change, unless they yield.                                                *)
LEMMA GuiStep ==
    ASSUME OneCpuInv, GuiStart(0) \/ WaitFrame(0)
    PROVE  OneCpuInv'
<1>1. CASE SchedYield(0)
  BY <1>1, YieldStep
<1>2. ASSUME frame' = 0,
             UNCHANGED <<state, num_tasks, saved, current, resched, at, stack,
                         switch, ttbr0, loaded, boot, gui>>
      PROVE  OneCpuInv'
  <2>1. TypeOK'
    BY <1>2, FrameAssumption DEF OneCpuInv, TypeOK
  <2> QED
    BY <1>2, <2>1 DEF OneCpuInv, OthersOff, InKernelCode, InSwitch, OnlyCurrentRuns,
       ContextsSaved, TablesInPlace, Counted, CountRight, HaltsOnlyWhenDone
<1> QED
  BY <1>1, <1>2 DEF GuiStart, WaitFrame

(* Blocking keeps the invariant: the task is no longer RUNNING, but still on *)
(* the CPU.                                                                  *)
LEMMA BlockStep ==
    ASSUME OneCpuInv, Block(0)
    PROVE  OneCpuInv'
<1> USE CPUsAssumption DEF OneCpuInv
<1>1. /\ at[0] = "run"
      /\ state' = [state EXCEPT ![current[0]] = "BLOCKED"]
      /\ at' = [at EXCEPT ![0] = "schedule"]
      /\ current[0] \in Tasks /\ stack[0] = current[0] /\ state[current[0]] = "RUNNING"
      /\ UNCHANGED <<num_tasks, saved, current, resched, stack, switch,
                     ttbr0, loaded, boot, gui, frame>>
  BY DEF Block, InKernelCode
<1>2. at'[0] = "schedule"
  BY <1>1 DEF TypeOK
<1>3. TypeOK'
  BY <1>1 DEF TypeOK, Places, TaskStates
<1>4. OthersOff' /\ HaltsOnlyWhenDone'
  BY <1>1 DEF TypeOK, OthersOff, HaltsOnlyWhenDone
<1>5. InKernelCode' /\ InSwitch' /\ TablesInPlace'
  BY <1>1, <1>2 DEF InKernelCode, InSwitch, TablesInPlace
<1>6. OnlyCurrentRuns' /\ ContextsSaved'
  BY <1>1, <1>2 DEF OnlyCurrentRuns, ContextsSaved, TypeOK
<1>7. CountRight'
  <2>1. Counted' = Counted
    BY <1>1, <1>2 DEF Counted, TypeOK
  <2> QED
    BY <1>1, <1>2, <2>1 DEF CountRight
<1> QED
  BY <1>3, <1>4, <1>5, <1>6, <1>7

(* Dying keeps the invariant: the task is DEAD and still counted. *)
LEMMA ExitStep ==
    ASSUME OneCpuInv, Exit(0)
    PROVE  OneCpuInv'
<1> USE CPUsAssumption DEF OneCpuInv
<1>1. /\ at[0] = "run"
      /\ state' = [state EXCEPT ![current[0]] = "DEAD"]
      /\ loaded' = [loaded EXCEPT ![0] = num_tasks]
      /\ at' = [at EXCEPT ![0] = "exit"]
      /\ current[0] \in Tasks /\ stack[0] = current[0] /\ state[current[0]] = "RUNNING"
      /\ UNCHANGED <<num_tasks, saved, current, resched, stack, switch,
                     ttbr0, boot, gui, frame>>
  BY DEF Exit, InKernelCode
<1>2. at'[0] = "exit" /\ loaded'[0] = num_tasks
  BY <1>1 DEF TypeOK
<1>3. TypeOK'
  BY <1>1 DEF TypeOK, Places, TaskStates
<1>4. OthersOff' /\ HaltsOnlyWhenDone'
  BY <1>1 DEF TypeOK, OthersOff, HaltsOnlyWhenDone
<1>5. InKernelCode' /\ InSwitch' /\ TablesInPlace'
  BY <1>1, <1>2 DEF InKernelCode, InSwitch, TablesInPlace, TypeOK
<1>6. OnlyCurrentRuns' /\ ContextsSaved'
  BY <1>1, <1>2 DEF OnlyCurrentRuns, ContextsSaved, TypeOK
<1>7. CountRight'
  <2>1. Counted' = Counted
    BY <1>1, <1>2 DEF Counted, TypeOK
  <2> QED
    BY <1>1, <1>2, <2>1 DEF CountRight
<1> QED
  BY <1>3, <1>4, <1>5, <1>6, <1>7

(* Making blocked tasks READY, which is all that a wake-up or a timer tick   *)
(* does to the tasks, keeps the invariant.                                   *)
LEMMA ReadyingStep ==
    ASSUME OneCpuInv,
           NEW woken \in SUBSET {t \in Tasks : state[t] = "BLOCKED"},
           state' = [t \in Tasks |-> IF t \in woken THEN "READY" ELSE state[t]],
           resched' \in [CPUs -> BOOLEAN],
           frame' \in 0 .. FRAME_TICKS \cup {None},
           UNCHANGED <<num_tasks, saved, current, at, stack, switch, ttbr0, loaded, boot,
                       gui>>
    PROVE  OneCpuInv'
<1> USE CPUsAssumption DEF OneCpuInv
<1>1. TypeOK'
  BY DEF TypeOK, TaskStates
<1>2. \A t \in Tasks : /\ state'[t] = "RUNNING" <=> state[t] = "RUNNING"
                       /\ state'[t] = "DEAD" <=> state[t] = "DEAD"
  OBVIOUS
<1>3. OthersOff' /\ HaltsOnlyWhenDone' /\ TablesInPlace'
  BY <1>2 DEF OthersOff, HaltsOnlyWhenDone, TablesInPlace
<1>4. InKernelCode' /\ OnlyCurrentRuns' /\ ContextsSaved'
  BY <1>2 DEF InKernelCode, OnlyCurrentRuns, ContextsSaved
<1>5. InSwitch'
  BY <1>2 DEF InSwitch, TypeOK
<1>6. CountRight'
  <2>1. Counted' = Counted
    BY <1>2 DEF Counted
  <2> QED
    BY <2>1 DEF CountRight
<1> QED
  BY <1>1, <1>3, <1>4, <1>5, <1>6

(* A wake-up keeps the invariant. *)
LEMMA WakeStep ==
    ASSUME OneCpuInv, NEW t \in Tasks, Wake(0, t)
    PROVE  OneCpuInv'
<1>1. {t} \in SUBSET {u \in Tasks : state[u] = "BLOCKED"}
  BY DEF Wake
<1>2. state' = [u \in Tasks |-> IF u \in {t} THEN "READY" ELSE state[u]]
  BY DEF Wake, OneCpuInv, TypeOK
<1>3. resched' \in [CPUs -> BOOLEAN]
  BY DEF Wake
<1>4. UNCHANGED <<num_tasks, saved, current, at, stack, switch, ttbr0, loaded, boot, gui>>
      /\ frame' \in 0 .. FRAME_TICKS \cup {None}
  BY DEF Wake, OneCpuInv, TypeOK
<1> QED
  BY <1>1, <1>2, <1>3, <1>4, ReadyingStep

(* A timer tick keeps the invariant. *)
LEMMA TickStep ==
    ASSUME OneCpuInv, Tick(0)
    PROVE  OneCpuInv'
<1>1. PICK expired \in SUBSET {u \in Tasks : state[u] = "BLOCKED"} :
           state' = [u \in Tasks |-> IF u \in expired THEN "READY" ELSE state[u]]
  BY DEF Tick
<1>2. resched' \in [CPUs -> BOOLEAN]
  BY DEF Tick, OneCpuInv, TypeOK
<1>3. UNCHANGED <<num_tasks, saved, current, at, stack, switch, ttbr0, loaded, boot, gui>>
  BY DEF Tick
<1>4. frame' \in 0 .. FRAME_TICKS \cup {None}
  BY FrameAssumption, CPUsAssumption DEF Tick, OneCpuInv, TypeOK, None
<1> QED
  BY <1>1, <1>2, <1>3, <1>4, ReadyingStep

(* A stuttering step keeps the invariant. *)
LEMMA StutterStep ==
    ASSUME OneCpuInv, UNCHANGED vars
    PROVE  OneCpuInv'
  BY DEF OneCpuInv, vars, TypeOK, OthersOff, InKernelCode, InSwitch, OnlyCurrentRuns,
     ContextsSaved, TablesInPlace, Counted, CountRight, HaltsOnlyWhenDone

-----------------------------------------------------------------------------
(* What follows, when no secondary CPU starts.                               *)

(* OneCpuInv is an invariant of the scheduler on one CPU: the current task,  *)
(* the stack, the page tables and the context being switched agree at every  *)
(* place of boot, schedule() and context_switch, and num_tasks is exact.     *)
THEOREM OneCpuInvariant ==
    ASSUME Startable = {}
    PROVE  Spec => []OneCpuInv
<1>1. OneCpuInv /\ [Next]_vars => OneCpuInv'
  <2> SUFFICES ASSUME OneCpuInv, [Next]_vars PROVE OneCpuInv'
    OBVIOUS
  <2>1. CASE Boot
    BY <2>1, TaskCreateStep, SmpBootStep, SchedStartStep DEF Boot
  <2>2. ASSUME NEW c \in CPUs, Kernel(c) \/ Task(c) \/ Tick(c)
        PROVE  OneCpuInv'
    <3>1. Kernel(0) \/ Task(0) \/ Tick(0)
      BY <2>2, OnlyBootCpu
    <3>2. CASE Kernel(0)
      BY <3>2, IdleLoopStep, ScheduleStep, SaveStep, LoadStep, ExitCountStep DEF Kernel
    <3>3. CASE Task(0)
      BY <3>3, YieldStep, GuiStep, BlockStep, ExitStep, WakeStep
         DEF Task, Goes, Yield
    <3> QED
      BY <3>1, <3>2, <3>3, TickStep
  <2>3. CASE UNCHANGED vars
    BY <2>3, StutterStep
  <2> QED
    BY <2>1, <2>2, <2>3 DEF Next
<1> QED
  BY <1>1, InitInv, PTL DEF Spec

(* On one CPU a task is RUNNING exactly when it is the CPU's current task,   *)
(* so no task is stranded RUNNING with nobody to run it.                     *)
THEOREM OneCpuRunsItsCurrent ==
    ASSUME Startable = {}
    PROVE  Spec => []RunningIffCurrent
<1>1. OneCpuInv => RunningIffCurrent
  BY CPUsAssumption
     DEF OneCpuInv, OthersOff, InKernelCode, OnlyCurrentRuns, RunningIffCurrent
<1> QED
  BY <1>1, OneCpuInvariant, PTL

(* On one CPU context_switch only ever restores a context that its task      *)
(* saved when it last left the CPU.                                          *)
THEOREM OneCpuResumes ==
    ASSUME Startable = {}
    PROVE  Spec => []ResumesWhereItLeft
<1>1. OneCpuInv => ResumesWhereItLeft
  <2> SUFFICES ASSUME OneCpuInv, NEW c \in CPUs, at[c] = "load", switch[c].new # None
               PROVE  /\ saved[switch[c].new]
                      /\ \A d \in CPUs \ {c} : stack[d] # switch[c].new
    BY DEF ResumesWhereItLeft
  <2>1. c = 0
    BY DEF OneCpuInv, OthersOff
  <2>2. switch[0].new \in Tasks /\ state[switch[0].new] = "RUNNING"
    BY <2>1, CPUsAssumption DEF OneCpuInv, InSwitch, TypeOK
  <2>3. saved[switch[0].new]
    BY <2>1, <2>2 DEF OneCpuInv, ContextsSaved
  <2>4. \A d \in CPUs \ {0} : stack[d] # switch[0].new
    BY <2>1 DEF OneCpuInv, OthersOff
  <2> QED
    BY <2>1, <2>3, <2>4
<1> QED
  BY <1>1, OneCpuInvariant, PTL

(* On one CPU a task executes under its own page tables only. *)
THEOREM OneCpuOwnTables ==
    ASSUME Startable = {}
    PROVE  Spec => []OwnAddressSpace
<1>1. OneCpuInv => OwnAddressSpace
  <2> SUFFICES ASSUME OneCpuInv, NEW c \in CPUs, at[c] = "run"
               PROVE  ttbr0[c] = current[c]
    BY DEF OwnAddressSpace
  <2>1. c = 0
    BY DEF OneCpuInv, OthersOff
  <2>2. current[0] # None
    BY <2>1, NotSlots DEF OneCpuInv, InKernelCode
  <2> QED
    BY <2>1, <2>2 DEF OneCpuInv, TablesInPlace
<1> QED
  BY <1>1, OneCpuInvariant, PTL

(* On one CPU the scheduler halts for good only when every task is dead: the *)
(* count it tests agrees with the task table whenever it is tested.          *)
THEOREM OneCpuHalts ==
    ASSUME Startable = {}
    PROVE  Spec => []HaltsOnlyWhenDone
<1>1. OneCpuInv => HaltsOnlyWhenDone
  BY DEF OneCpuInv
<1> QED
  BY <1>1, OneCpuInvariant, PTL
=============================================================================
