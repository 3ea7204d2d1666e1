# A TLA+ verification project for the Dragoon kernel

Dragoon (`src/`) is an ARM64 microkernel with SMP scheduling, ticket
spinlocks, wait queues, futexes, IPC, capabilities, per-task address spaces, virtio
input, a windowed desktop and a few games.  This directory holds TLA+ models of it,
the TLC configurations that check them on small instances and TLAPS proofs that hold
for every instance.  `PROJECT.json` ties every definition to the source lines it
models, every property to a mutation of the code that breaks it, and lists what the
checks found.

    tlc -workers 2 -config Sched.cfg Sched      # one of the runs below
    tlapm Sync_proofs.tla                       # the proofs: likewise every other *_proofs.tla

## The system: inventory

| Component | State | Operations | Interaction and hard behaviour | Correct when |
|---|---|---|---|---|
| Ticket spinlock (`spinlock.h`) | `owner`, `next`, DAIF, event register | lock, unlock, IRQ-saving forms | every CPU and, for `wq_lock`, the timer handler of CPU 0; wrap-around, lost WFE wake-ups, a handler that interrupts a holder | exclusive, FIFO, every ticket served, no deadlock with one's own handler |
| Scheduler (`sched.c`, `percpu.h`, `vectors.S`) | task states, per-CPU current task, contexts, TTBR0 | `schedule`, `sched_yield`, `sched_start`, `context_switch` | called by tasks and idle loops of all CPUs, lock released before the switch; no preemption | RUNNING iff on a CPU, contexts restored as saved, nobody starves while the GUI keeps up with its frames |
| Tasks (`task.c`) | `tasks[]`, `num_tasks` | create, exit, destroy | exit races with the idle loops that read `num_tasks` | the machine halts exactly when all tasks are dead |
| Boot and SMP (`main.c`, `smp.c`, `boot.S`) | CPUs online | `kernel_main`, `smp_init`, `secondary_main` | secondaries schedule while CPU 0 still boots | |
| Timer, IRQ, IPI (`timer.c`, `irq.c`) | handler table, interrupts enabled, timers set, `tick_count`, `reschedule_needed` | register, enable, disable, acknowledge, handle, re-arm | interrupts every CPU between any two instructions; registration races the device | no interrupt without a handler, every timer goes on ticking, timeouts expire in time |
| Wait queues (`waitqueue.c`) | `wq_pool`, list heads | wait, wait with timeout, wake one, wake all, tick | task states shared with the scheduler; timeouts race wake-ups | lists well formed, blocked tasks are on exactly one of them, the pool suffices |
| Futex, sleep (`futex.c`, `sleep.c`) | `ftable` | wait, wait with timeout, wake; sleep | lock released between the check and the block; slots reused | no lost wake-up, waiters findable, sleeps end on time |
| IPC (`ipc.c`) | `endpoints[]` | create, destroy, send, recv | no lock; one pending message per endpoint | nothing lost, nothing repeated, everybody woken |
| System calls (`syscall.c`) | none of its own | dispatch | IRQs masked on entry; no `svc` in the repository | |
| Capabilities (`cap.c`) | capability pool, `cap_lock` | alloc, destroy, lookup | all CPUs; lookup takes no lock | no slot handed out twice, what is looked up is what was put there |
| Memory (`mm.c`, `vm.c`, kmalloc in `linux/compat.c`) | page bitmap, `used_pages`, ASID bitmap, page tables, slab page | alloc and free of pages, address spaces, kmalloc/kfree | partial failure in `task_create` and `mm_map_page` | no page owned twice, counts right, distinct ASIDs |
| Virtio, input (`virtio.c`, `virtio_input.c`, `input.c`) | rings shared with the device, key ring, pointer | init, poll, push, pop | the device writes concurrently; rings fill up | events in order, buffers never owned twice |
| Desktop (`wm.c`, `gui.c`) | windows, z-order, focus, drag | create, destroy, click, drag, key | a window can be destroyed while dragged or focused | focus and z-order name live windows |
| Games (`games/*.c`) | snake and food, board and piece, ball and bricks, player | init, key, tick, the rays | any number of keys between two ticks; indices computed from positions | the snake is a path, pieces fit and land, rows are cleared exactly, the ball comes back, columns stay in the buffer |
| Linux layer (`linux/`, `drivers/hello`) | device and driver tables | register, probe, `request_irq`, `free_irq` | devices interrupt while a driver is set up; tables fill up | each matching pair probed once |
| Console, drawing (`uart.c`, `printf.c`, `fb.c`, `gpu.c`, `font.c`) | pixels, characters | output | | not modelled: pure output |

## Modules

* **TicketLock** – `spinlock.h`, one action per instruction that touches shared state
  (`ldaxr`, `stlxr` succeeding or failing, the load of `owner`, `wfe`, the load and the
  store of `spin_unlock`, `sev`).  Each CPU has a thread context; the CPUs of
  `HandlerCPUs` also have an interrupt context that takes the same lock.  DAIF.I, the
  exclusive monitor and the event register are variables.  Tickets wrap at
  `TicketModulus` (2^32 in the code).  Memory is sequentially consistent.
* **FifoLock** – what a lock promises: callers are granted it one at a time, in the
  order in which they asked.  TicketLock implements it (`FairFifo`) with the line of
  callers sorted by ticket as refinement mapping.
* **Sync_proofs** – the proofs about TicketLock, and about WaitQueue and Futex on one CPU.
* **RoundRobin** – the task table and the scan of `schedule()`, as operators shared by
  the modules below.
* **Sched** – boot, task creation and exit, `schedule()`, `context_switch` and the
  timer.  `at[c]` is where a CPU is; `stack[c]` whose stack it runs on; `saved[t]` says
  whether `tasks[t].ctx` is up to date.  The locked part of `schedule()` is one action,
  saving and loading are two more, because the lock is released before
  `context_switch`.  The state is BLOCKED before `schedule()` is reached, so wake-ups
  come in between.  Tasks yield, block and exit when they like, but for the GUI (`gui`),
  which yields only in `wait_frame`: `frame` is the time since its frame began, in ticks of
  CPU 0, `FRAME_TICKS` standing for anything longer.
* **Sched_proofs** – the proofs about Sched on one CPU.
* **Services_proofs**, **IPC_proofs**, **Games_proofs**, **Desktop_proofs**,
  **VirtioInput_proofs**, **Memory_proofs** – the proofs about the modules they are named
  after, which are described below.
* **WaitQueue** – the linked lists in the static pool; each operator is the locked body
  of a `wq_` function.  A loop along the links is the least set of entries closed under
  them (`Met`).  Time is relative: an entry keeps the ticks left.
* **Futex** – tasks that call futex, sleep and wait-queue functions.  Actions end where
  the code releases a lock, and the timer interrupt may come between any two.
  `schedule()` is one step (Sched shows that this is right on one CPU).
* **IPC** – endpoints on one CPU.  `Next` allows any use of the calls; `RpcNext`
  restricts tasks to remote procedure calls, a request followed by its reply.
* **Memory** – the page bitmap, `used_pages`, ASIDs, page tables, task resources and the
  kmalloc slab.  Each allocation is a step, so that other CPUs allocate and free in
  the middle of `task_create`, of a table walk and, between the stack and the address
  space, of `task_destroy`.  `pt` holds the descriptors of pages
  used as tables; `Translate` is what the hardware reads out of them.  Kernel tables are
  pages 0 and 1; page numbers and virtual page numbers stand for addresses, and
  `Index` takes them apart by division as the code does by shifts.
* **WindowManager** – `wm.c`, as operators on the record of its static variables, with
  the screen and the rectangles of the source.  Buffers are counted, pixels left out.
* **Desktop** – `gui_main`'s loop on top of it: the mouse part of an iteration is one
  action (`Press`, `NoPress`), each key another, and `FrameEnd` starts the next
  iteration.  The terminal is its cursor row and the length of its input line; the
  games keep no state that the desktop reads.  `MCDesktop` names the mouse positions.
* **Virtq** – a virtqueue: the operators of the driver and, marked external, of the
  device, on the memory they share.
* **VirtioInput** – identification of the devices, the event buffers, the handlers, the
  key ring and the UART decoder.  The device completes buffers between any two steps of
  the GUI task, which handles an event and resubmits its buffer in two steps.
  A device without a name is identified by an uninitialised buffer
  (`virtio_input.c:311`): `Names` takes either outcome.  `MCVirtioInput` names the
  machines and the events.
* **Snake**, **Tetris**, **Breakout**, **Raycaster** – one game each, as operators on the
  record of its static variables: `_init`, `_key`, `_tick`, with the helpers of the
  source.  A tick for which the interval is not yet over does nothing and is left out.
  The random numbers are any numbers: food falls on any cell `place_food` may accept, or
  stays where it is when 1000 attempts fail; any piece comes next.  A snake is the
  sequence of its cells, a board the set of its taken cells; scores and colours are left
  out where nothing depends on them.  Fixed-point arithmetic is kept: Breakout's shifts
  round down and its division towards zero, and Raycaster casts its rays with the sine
  table, the 16.16 products and the cut to 32 bits of the source.
* **Games** – the desktop's dispatch (`app_init`, `app_key`, `app_tick`): one game at a time
  is open, any keys come between two ticks, and ESC closes it.  For the
  raycaster, which has the most positions, `MaxChanges` bounds how often the player
  changes from one key to another.
* **Caps** – the capability pool, as operators on its static variables.
* **Platform** – the platform devices and drivers of the Linux layer, likewise.
* **Services** – boot as far as interrupts go, interrupts and IPIs on all CPUs, the Linux
  server and capability calls.  `irq[c]` says whether a CPU is in an interrupt and, from
  the acknowledgement on, in which.  What the interrupt controller and the timers do is
  external: SGIs and PPIs exist once for each CPU, all other interrupts go to CPU 0, as
  `irq_init` routes them, and of several pending ones, all of the same priority, the one
  with the lowest number is given.  `server` is where the Linux server has got to; any CPU
  may dispatch it (`StartServer`) and it keeps that CPU until it exits, while the interrupts
  of devices arrive at CPU 0: at the CPU that is in `request_irq`, or at another.
  `MCServices` names the boards: the one of the repository, and one with more devices and
  drivers than its tables hold, a device without a memory resource, an empty initcall and a
  driver that uses an interrupt.

## Runs

| Run | Checks | Bounds |
|---|---|---|
| `ticketlock` | `MutualExclusion`, `NoSelfDeadlock`, refinement `FairFifo`, liveness `TicketServed` | 3 CPUs, one with a handler, tickets modulo 4: the smallest modulus the lock tolerates, so that it wraps constantly |
| `sched` | `RunningIffCurrent`, `ResumesWhereItLeft`, `OwnAddressSpace`, `HaltsOnlyWhenDone`, liveness `ReadyRuns`, `EndsHalted` | 3 boot tasks, as in `kernel_main`, 4 slots, a secondary that PSCI refuses; frames of 3 ticks, as in `gui.c` |
| `futex` | `QueuesWellFormed`, `WaiterFindable`, `CheckAndBlockAtomic`, `OnTime` | 3 tasks, 3 pool entries, 2 addresses for one slot (so slots change hands), timeouts of 1 and 2 ticks, one of them of 5 ms, which `sleep_ms` rounds up |
| `ipc` | `NothingLost`, `InOrderOnce`, `NobodyForgotten`, liveness `CallAnswered` | a client, a server, a bystander, 3 messages each way, one destroy |
| `memory` | `Exclusive` (of pages and of ASIDs), `BitmapExact`, action property `MapIsLocal` | 8 pages, 2 of them the kernel's; 2 tasks with 2-page stacks exhaust memory; 2 ASIDs and the fall-back; tables of 2 entries, four addresses in three subtrees, one behind a kernel block |
| `desktop` | `ZOrderExact` (with the focus), `BuffersOwned` (with the apps), `DragOnlyWhileHeld`, `TitleOnScreen`, action property `ClickHitsWhatIsSeen` | 2 of the 5 apps and 3 slots; 8 mouse positions that reach the start button, the menu, the taskbar and the title bars and close buttons of both windows; a terminal of 3 rows, so it scrolls |
| `input` | `BuffersConserved`, `EventsIntact`, `RingIsFifo` | queues of 1 and 2 buffers, indices modulo 4, a ring of 3 slots, so all of them wrap and fill; machines with one device, with both, with a device without a name or a queue |
| `games` | `SnakeIsPath`, `FoodMovesOffSnake`, `ClearsExactly`, `PieceFits`, `ColumnsPainted`, liveness `PieceLands`, `BallComesBack` | snake on 4 x 3 cells, so that it soon meets itself; tetris on 4 x 5 with the I and the O piece, enough for clears of one to four rows, adjacent and not, and for pieces locked above the top; breakout with 2 x 2 bricks and 2 lives, so that games are won and lost; the raycaster on its own map with its own table, in steps of 12 instead of 3 angles, five rays over the field of view |
| `services` | `IrqHandled`, `ProbedOnce`, `CapsExact`, liveness `TimerKeepsTicking` | 2 CPUs, the server on either, one device interrupt, one reschedule interrupt, 2 capability slots, tables of 2 for 3 devices and 3 drivers |
| `sched_smp` | violates `NoOtherCpuPicksIt` | 2 CPUs, 2 tasks |
| `futex_smp` | violates `CheckAndBlockAtomic` | 2 CPUs |
| `ipc_lost` | violates `NothingLost` | 1 sender, 1 receiver |

The violations are disagreements between the code and what it says of itself:

1. *sched.c:89-90* says that no other CPU picks up a task between the unlock and the
   end of `context_switch` because it is already RUNNING.  On two CPUs it can have been
   requeued in the meantime: a task that leaves a CPU is READY before its
   registers are saved.  The properties of run `sched` are therefore claimed for one CPU
   only; on two, resuming from a stale context is possible.
2. *futex.c:4-5* promises an atomic check and block.  It is atomic on one CPU (run
   `futex`), because nothing preempts a task there, and not on two.
3. *ipc.c:4-5* promises synchronous message passing, but `ipc_send` returns before a
   woken receiver has taken the message, and a second send overwrites it.  Under the
   call-and-reply discipline of run `ipc` this cannot happen.

Other things the models show about the code, for which there is no run:

* The repository's README promises timer preemption, but `reschedule_needed` is set and
  never read, so tasks run until they yield, block or exit.  The GUI need not: `wait_frame`
  (*gui.c:424*) returns without `sched_yield` when the frame has taken `FRAME_TICKS` or
  more, and that is the only yield of its loop.  A GUI that is late with every frame keeps
  its CPU for ever; on one CPU nobody else runs then.  Without its hypothesis `KeepsUp`,
  `ReadyRuns` fails in run `sched` with just that.
* *gui.c:513* says that an iteration without a new press lets the window manager
  handle dragging.  A press the menu takes never reaches `wm_handle_mouse`, so
  one iteration later, with the button still held, it is a new click there and
  raises, focuses or drags the window under the menu.
* *raycaster.c:182* divides in 64 bits and keeps 32.  When the wall is nearer than
  2 * `scr_h` units (of 65536 to a cell) the quotient no longer fits: `line_height` may
  come out negative, `draw_start` beyond the height of the window, and the loops at 194
  and 200 write rows outside the buffer.  The player gets there: twelve steps back from
  the start, then turning.  `ColumnsPainted` is stated for the columns whose wall is
  further away; for the others the model has the same rows as the code.
* *breakout.c:115*: a ball slower than one pixel a tick, after a hit near the middle of
  the paddle, is still within the wall one tick after it was put there, and is negated
  again: it slides along the wall.  The vertical speed is always two pixels, which is why
  `BallComesBack` holds.
* *snake.c:131*: `place_food` runs before the new head is stored, so the new food can come
  up under the new head, where the snake was just fed; the next time the head comes there
  the snake grows.  `FoodMovesOffSnake` allows that cell and no other of the snake.

## Fairness

* TicketLock: weak fairness of the steps a context takes once it has its ticket: a CPU
  that is not asleep in WFE keeps executing, and no critical section loops for ever.
  Nothing makes a CPU call `spin_lock`, an interrupt arrive or an exclusive store succeed.
* Sched: weak fairness of each CPU's kernel steps and of its timer, and `TasksGoOn`: a
  task that executes comes to its next call, the GUI to its next `wait_frame`, because
  between two calls each runs a finite stretch of code.  Nothing is said of whether the GUI
  yields there.  `ReadyRuns` therefore has a hypothesis, `KeepsUp`, in place of a fairness
  condition: again and again a frame is drawn in less than `FRAME_TICKS`.  That depends on
  how fast the machine draws, and no code sees to it.  The other two boot tasks end after at
  most three yields.  `EndsHalted` does not need the hypothesis.
* Games: weak fairness of `AppTick`, and nothing about keys: `gui_main` ticks every open app
  in every frame.
* Services: weak fairness of each timer and of each CPU's interrupt entry, acknowledgement
  and handling; nothing of tasks or devices.
* IPC: the CPU keeps executing, and a client or server that gets the CPU again and
  again makes its next call.

## Proofs

`Sync_proofs` proves `TypeOK`, `MutualExclusion` and `NoSelfDeadlock` for every
finite set of CPUs, every set of handlers and every `TicketModulus` greater than
the number of CPUs (assumptions `CPUsAssumption` and `ModulusAssumption`).
Mutual exclusion alone is not inductive.  `IInv` adds that interrupts are masked on a
CPU with a context inside the lock code (`MaskedInside`), so at most one context per CPU
is there (`OnePerCpu`); that a set monitor means the ticket register still
equals `next` (`ExclusiveLoad`); and that the outstanding tickets are distinct, lie in the
cyclic interval from `owner` to `next`, and fill it (`TicketsInSpan`,
`TicketsDistinct`, `SpanCovered`).  The interval can never wrap onto itself because there
are fewer contexts with a ticket than ticket values: that is where
`OnePerCpu` and the assumption on the modulus meet.  The lemmas on `Distance`
do the modular arithmetic once; each action has a step of its own.

`Sched_proofs` proves `RunningIffCurrent`, `ResumesWhereItLeft`, `OwnAddressSpace` and
`HaltsOnlyWhenDone` for every `MAX_TASKS`, every number of boot tasks and every set of
CPUs of which no secondary starts (`Startable = {}`, a hypothesis of each theorem; with
a second CPU run `sched_smp` is the counterexample).  The inductive invariant is
`OneCpuInv`: the secondaries stay off (`OthersOff`); where CPU 0 is says how its current
task, its stack and the switch under way go together (`InKernelCode`, `InSwitch`); only
the current task is RUNNING (`OnlyCurrentRuns`); every live task that is off the CPU has
its registers saved (`ContextsSaved`); the page tables follow the current task except
between `schedule()` and `context_switch` (`TablesInPlace`); and `num_tasks` is the number
of live tasks, an exiting one included until it is counted out (`CountRight`), which is
what makes the test `num_tasks == 0` of the idle loop safe.  The lemma `DispatchFacts`
says once what the scan of `schedule()` does to the task states; every action has a lemma
of its own.

`Sync_proofs` also proves the refinement `FairFifo` (`ImplementsFifo`).  The line of
callers is a function of the tickets; the lemmas on it say that the ticket taken by a
store-exclusive appends one context, that the increment of `owner` drops the first, and
that no other instruction moves anybody.  Each instruction is then an `Ask`, a
`Grant`, a `Release` or a stutter.  `SpanCovered` is what makes the line a sequence: no
number between `owner` and `next` is missing.

The last part of `Sync_proofs` is about wait queues, futexes and sleeps: `QueuesWellFormed`,
`WaiterFindable`, `CheckAndBlockAtomic` and `OnTime`, for every number of tasks, pool entries,
slots, addresses and timeouts, with interrupts between any two steps.  The hypothesis is
`OneTaskCpu`; on two CPUs run `futex_smp` is the counterexample.  In `FutexInv`, only the
current task is inside a call (`OnlyCurrentInside`), which is why nobody else moves while the
lock is free between the check and the block; a task is BLOCKED as long as it has an
entry, and has one (`OneEntryEach`); a slot somebody relies on keeps its address, and no two
active slots have the same (`SlotsKept`); whoever a wake still owes is blocked on its
address (`OwedWait`); and there is a ranking of the entries along which the links of each queue
lead through its members and no others (`InLists`).  The ranking takes the place of
induction along a list: what is met along the links is the least closed set, and its first
missing element contradicts that.  `OnTime` adds `TimedInv` and excludes a timeout of zero
(`PositiveTimeouts`), whose deadline is the present tick.

`Services_proofs` proves three invariants for every set of CPUs, every set of boards and all
table sizes.
* `IrqHandled`, from `IrqInv`: an interrupt is enabled only when its handler is in the table
  (`EnabledHandled`).  That is inductive only with the order of boot: nothing is enabled or
  acknowledged before `irq_init` clears the table (`BeforeIrqInit`), the timer's and the
  IPI's handlers stay from their registration on (`Registered`), and `request_irq` is between
  its two steps only for a driver that has an interrupt (`Requesting`).
* `CapsExact`, from `CapsInv`: a CPU is inside `cap_alloc` exactly when it holds `cap_lock`
  (`LockHolder`), and the slot it has found is still free (`FoundIsFree`).
* `ProbedOnce`, from `ServerInv`: the pairs probed are those of equal names that the nested
  loops have passed (`ProbesSoFar`), and the driver being registered is the last of the table
  (`ServerLoop`).

`IPC_proofs` proves `NothingLost`, `InOrderOnce` and `NobodyForgotten` for every number of
task slots, endpoints, calls and destroyed endpoints, under the hypothesis `OneEach`: one
client, one server, and room for both endpoints in the table.  With two clients on an
endpoint, or without waiting for the answer, a message can be overwritten (`ipc_lost`).
In `RpcInv`, endpoints name only the two tasks in their roles (`Roles`, `InCall`); whoever is
blocked on an inactive endpoint was there when it was destroyed (`OrphansKnown`); requests
sent, requests received, answers sent and answers received are each at most one apart
(`InStep`), which is why a pending message is the last one sent (`Numbered`) and why a
send never finds one pending.

`Games_proofs` proves `SnakeIsPath`, `FoodMovesOffSnake`, `PieceFits`, `ClearsExactly` and
`ColumnsPainted` for every grid, board and screen the assumptions of the games admit,
whatever is typed and whatever the random numbers.  `clear_lines` is a loop that stays at a row after removing
it.  Induction being out of reach, its loop invariant (rows below are not full, rows
removed are those that were) is proved for all iterations by least counterexample: an
iteration at which it failed first would contradict the step (`LoopInvariant`).  The loop of
`cast_rays` is treated the same way: a ray that has not met a wall after `n` steps has crossed
`n` grid lines without turning back and is in an open cell (`RayOK`), so with the border
walled it cannot make 64.  That the player always stands in an open cell is
`RaycasterInv`.  Neither needs the values of the sines; that the rows of a column are
written once is a bound on the quotient (`HeightFits`).

`Desktop_proofs` proves all five properties of run `desktop` for every number of window
slots, every set of apps and of mouse positions.  `DeskInv` holds between two actions:
`z` lists the visible windows once each (`Lists`), the last has the focus and no other
(`TopFocused`), at most one window is dragged and then the button was down (`WmBase`), the
mouse holds it inside its width (`Reachable`), and apps and windows correspond one to one.  Inside `wm_handle_mouse` and `wm_destroy_window` the focus is not right for a moment;
hence the split of the invariant into `WmBase`, which every operator keeps, and `TopFocused`.

`VirtioInput_proofs` proves `BuffersConserved`, `EventsIntact` and `RingIsFifo` for every
queue size, every ring size and whatever the devices send.  `InputAssumption` requires the
modulus of the indices to be a multiple of each queue size: sizes are powers of two and
indices have 16 bits.  Otherwise an index that wraps would skip ring entries.
`InputInv` says that the rings go round in step with the descriptors, entry `i` of
both holding `i` (`RingsInStep`), which buffers the driver holds back while it handles one
(`Held`), and that buffers completed and not handled hold the events sent (`Kept`).  The
lemmas before it do the arithmetic of two moduli.

`Memory_proofs` proves `Exclusive` and `BitmapExact` for every number of pages, tasks,
ASIDs and table entries, whatever sizes and addresses are asked for.  `MemInv` says that the
tables under each root, a task's or the kernel's, are trees, whose levels are disjoint sets
of pages (`Trees`); that each page has a kind, marked or not, and an owner of that kind,
so that sharing the kernel's tables does not count as owning them (`Owned`); what a
`task_create` or a table walk under way holds, so that others may allocate and free in
between (`CreateOK`, `WalkOK`); that objects of a page do not overlap and that the current
slab page is never without one (`ObjectsOK`); and that live ASIDs other than the
fall-back 0 are distinct (`AsidsDistinct`).  Each action is then shown to be a transfer: it gives
a kind to unmarked pages, or takes it from pages it frees.

`MapIsLocal` rests on `MapInv`: besides `MemInv`, no table in use is linked twice except the
kernel's, which all roots share (`OneLink`), and a walk under way stands where the hardware
would be at that level (`WalkPath`).  Two addresses that reach the same descriptor then
have the same indices, and four indices determine an address (`IndicesTell`), because
addresses have 48 bits: with `T0SZ = 16` (*mm.c:246*) four levels use them all, which the
assumption on `Vaddrs` says.  Every other action changes no table in use (`Untouched`), or
builds one that nobody reads yet (`Anew`).

All theorems of `Memory_proofs` have the hypothesis `KfreeSmall = FALSE`, which is so in the
repository: no driver frees a small object.  If one did, `kfree` of the first object of a
slab page would free the page under the others (*compat.c:84*).

Only model-checked is liveness, which is outside the prover's reach: `TicketServed`,
`ReadyRuns`, `EndsHalted`, `CallAnswered`, `PieceLands`, `BallComesBack` and
`TimerKeepsTicking`.

Every other property of the passing runs is stated by a theorem.

The desktop and input models state no fairness: users and devices may stop at any time.

## Not modelled

* Weak memory.  `spin_unlock` has no barrier between the store of `owner` and `sev`
  (*spinlock.h:48*) and `virtq_pop_used` none between the index and the element
  (*virtio.c:343*); the models are sequentially consistent.
* The TLB: `vm_destroy` frees an ASID without invalidation (*vm.c:99*); `task_destroy`
  has no caller.
* The system calls other than those on capabilities.  Nothing in the repository executes
  `svc`.  `SYS_EXIT` would mark a task DEAD without counting it out of `num_tasks`
  (*syscall.c:83*), and `context_switch` does not save DAIF (*vectors.S:168*).
* Two table walks at once: `mm_map_page` takes no lock (*mm.c:308*) and has no caller.
* `task_destroy` of a task that still executes or maps pages: it does not look (*task.c:144*),
  nor does it have a caller; `Whole` puts the duty on one.  Between the end of `vm_destroy`
  and the store of DEAD nothing else reads what it has freed, so they are one step.
* IPC on two CPUs: it takes no lock (*ipc.c:66*).
* An interrupt number beyond the table: `request_irq` would enable it without a handler
  (`MAX_IRQ`); `ServicesAssumption` excludes it.  No driver of the repository has one.
* `cap_lookup` between the marking of a slot and its filling (*cap.c:66*): it takes no
  lock and may return a slot with the old contents.  `CapsExact` is about the moments at
  which nobody is inside `cap_alloc`.
* Drawing, console output, GIC, GPU and virtio register programming, the early boot code,
  and the stand-alone loops of the games (`snake_run` and so on), which nothing calls.
* What a device does with events that find no buffer, and clicks that begin and end
  between two polls of the mouse, are lost before the code sees them.

## Plan

1. (done) TicketLock with FifoLock and the proofs, Sched, WaitQueue and Futex, IPC.
2. (done) Memory: page allocator, address spaces, ASIDs, `task_create`'s failure paths,
   kmalloc/kfree.
3. (done) Virtio queues and input, with the devices as concurrent processes; the desktop.
4. (done) The games; interrupts, capabilities and driver matching.
5. (done) Proofs: the one-CPU invariants of Sched; the refinement `FairFifo`; interrupts,
   capabilities and driver matching; call-and-reply IPC; the snake and tetris; the window
   manager; the virtqueues and the key ring; the ownership of pages.
6. (done) Proofs: wait queues, futexes and sleeps on one CPU; `MapIsLocal`; the raycaster.
7. Open: the system calls other than those on capabilities and two table walks at once, once
   something in the repository makes them.
