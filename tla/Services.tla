------------------------------ MODULE Services ------------------------------
(***************************************************************************)
(* Interrupts (irq.c, timer.c, smp.c), the Linux layer that runs as the    *)
(* first task, and capability calls, on all CPUs.  Interrupts come between *)
(* any two steps of a CPU that has them unmasked.                          *)
(*                                                                         *)
(* The interrupt controller and the timers are external: a line is a pair  *)
(* of a CPU and an interrupt number; numbers below 32 exist once for each  *)
(* CPU, the others are routed to CPU 0.  A line stays pending until it is  *)
(* acknowledged.  Of several, the lowest number is given, as all have the  *)
(* same priority.                                                          *)
(***************************************************************************)
EXTENDS Caps, Platform, FiniteSets

CONSTANTS
    CPUs,       \* 0 is the one that boots
    Boards,     \* machines: records of the devices and the initcalls there are
    SPIs,       \* interrupts of devices
    MaxIpis     \* how many reschedule interrupts are sent

IPI_RESCHEDULE == 0
TIMER_IRQ == 27
Irqs == {IPI_RESCHEDULE, TIMER_IRQ} \cup SPIs
NoInterrupt == -1
Entered == -2

\* irq_register checks irq < MAX_IRQ and irq_enable does not: drivers keep to the table.
MAX_IRQ == 256

ASSUME ServicesAssumption ==
    /\ 0 \in CPUs /\ CPUs \subseteq Nat /\ SPIs \subseteq 32 .. MAX_IRQ - 1 /\ MaxIpis \in Nat
    /\ \A b \in Boards : b.devices \in Seq(Devices) /\ b.initcalls \in Seq(Drivers(SPIs))

VARIABLES
    at,         \* where each CPU's own code is
    irq,        \* its interrupt: none, entered but not yet acknowledged, or the number
    unmasked,   \* CPUs with DAIF.I clear outside the handler
    handlers,   \* the interrupts with an entry in irq_handlers
    enabled,    \* lines enabled in the distributor
    pending,    \* and pending there
    armed,      \* CPUs whose timer counts
    ipis,       \* reschedule interrupts sent
    board,      \* the machine
    plat,       \* the tables of the Linux layer
    server,     \* where its server's task is, on whatever CPU executes it
    k, i,       \* its loop variables
    caps,       \* the capability pool
    found,      \* the slot a CPU in cap_alloc has found
    granted     \* what was created and not destroyed, as slots and types

intr == <<irq, unmasked, handlers, enabled, pending, armed, ipis>>
linux == <<board, plat, server, k, i>>
capv == <<caps, found, granted>>
vars == <<at, irq, unmasked, handlers, enabled, pending, armed, ipis, board, plat, server,
          k, i, caps, found, granted>>

Line(c, n) == IF n < 32 THEN <<c, n>> ELSE <<0, n>>

Init ==
    /\ at = [c \in CPUs |-> IF c = 0 THEN "irq_init" ELSE "off"]
    /\ irq = [c \in CPUs |-> NoInterrupt] /\ unmasked = {}
    /\ handlers = {} /\ enabled = {} /\ pending = {} /\ armed = {} /\ ipis = 0
    /\ board \in Boards /\ plat = platform_empty
    /\ server = "ready" /\ k = 1 /\ i = 1
    /\ caps = cap_init /\ found = [c \in CPUs |-> 0] /\ granted = {}

\* A CPU executes its own code, not a handler.
Runs(c, where) == at[c] = where /\ irq[c] = NoInterrupt
Goto(c, where) == at' = [at EXCEPT ![c] = where]
-----------------------------------------------------------------------------
(* Boot.                                                                     *)

\* irq_init, during which nothing else runs and interrupts are masked.
IrqInit ==
    /\ Runs(0, "irq_init") /\ Goto(0, "timer_init")
    /\ handlers' = {IPI_RESCHEDULE}
    /\ enabled' = {<<0, IPI_RESCHEDULE>>}
    /\ pending' = {}
    /\ unmasked' = {0}
    /\ UNCHANGED <<irq, armed, ipis>> /\ UNCHANGED linux /\ UNCHANGED capv

\* timer_init registers the handler, then enables the interrupt and starts the timer.
TimerRegister ==
    /\ Runs(0, "timer_init") /\ Goto(0, "timer_enable")
    /\ handlers' = handlers \cup {TIMER_IRQ}
    /\ UNCHANGED <<irq, unmasked, enabled, pending, armed, ipis>>
    /\ UNCHANGED linux /\ UNCHANGED capv

TimerEnable ==
    /\ Runs(0, "timer_enable") /\ Goto(0, "smp_init")
    /\ enabled' = enabled \cup {<<0, TIMER_IRQ>>}
    /\ armed' = armed \cup {0}
    /\ UNCHANGED <<irq, unmasked, handlers, pending, ipis>>
    /\ UNCHANGED linux /\ UNCHANGED capv

\* smp_init: PSCI starts any of the other CPUs or refuses them; then CPU 0 schedules.
SmpInit ==
    /\ Runs(0, "smp_init")
    /\ \E on \in SUBSET (CPUs \ {0}) :
        at' = [c \in CPUs |-> IF c = 0 THEN "task" ELSE IF c \in on THEN "secondary" ELSE "off"]
    /\ UNCHANGED intr /\ UNCHANGED linux /\ UNCHANGED capv

\* secondary_main: timer_init_secondary, the reschedule interrupt, and interrupts on.
SecondaryMain(c) ==
    /\ Runs(c, "secondary") /\ Goto(c, "task")
    /\ enabled' = enabled \cup {<<c, TIMER_IRQ>>, <<c, IPI_RESCHEDULE>>}
    /\ armed' = armed \cup {c}
    /\ unmasked' = unmasked \cup {c}
    /\ UNCHANGED <<irq, handlers, pending, ipis>> /\ UNCHANGED linux /\ UNCHANGED capv
-----------------------------------------------------------------------------
(* Interrupts.                                                               *)

\* External: the timer of a CPU reaches its value.
TimerFires(c) ==
    /\ c \in armed
    /\ armed' = armed \ {c}
    /\ pending' = pending \cup {<<c, TIMER_IRQ>>}
    /\ UNCHANGED <<at, irq, unmasked, handlers, enabled, ipis>>
    /\ UNCHANGED linux /\ UNCHANGED capv

\* External: a device raises its interrupt.
DeviceRaises(n) ==
    /\ at[0] # "irq_init"
    /\ pending' = pending \cup {Line(0, n)}
    /\ UNCHANGED <<at, irq, unmasked, handlers, enabled, armed, ipis>>
    /\ UNCHANGED linux /\ UNCHANGED capv

\* smp_send_reschedule, from a task that wakes another: all other CPUs, started or not.
SendReschedule(c) ==
    /\ Runs(c, "task") /\ ipis < MaxIpis
    /\ ipis' = ipis + 1
    /\ pending' = pending \cup {<<o, IPI_RESCHEDULE>> : o \in CPUs \ {c}}
    /\ UNCHANGED <<at, irq, unmasked, handlers, enabled, armed>>
    /\ UNCHANGED linux /\ UNCHANGED capv

Deliverable(c) == {n \in Irqs : Line(c, n) \in pending \cap enabled /\ Line(c, n)[1] = c}

\* The CPU takes the exception, which masks interrupts.
Entry(c) ==
    /\ irq[c] = NoInterrupt /\ c \in unmasked /\ Deliverable(c) # {}
    /\ irq' = [irq EXCEPT ![c] = Entered]
    /\ UNCHANGED <<at, unmasked, handlers, enabled, pending, armed, ipis>>
    /\ UNCHANGED linux /\ UNCHANGED capv

\* irq_handle reads the acknowledge register.  It is a spurious interrupt if the line was
\* disabled meanwhile.
Acknowledge(c) ==
    /\ irq[c] = Entered
    /\ IF Deliverable(c) = {}
       THEN irq' = [irq EXCEPT ![c] = NoInterrupt] /\ UNCHANGED pending
       ELSE LET n == CHOOSE n \in Deliverable(c) : \A m \in Deliverable(c) : n <= m
            IN  irq' = [irq EXCEPT ![c] = n] /\ pending' = pending \ {<<c, n>>}
    /\ UNCHANGED <<at, unmasked, handlers, enabled, armed, ipis>>
    /\ UNCHANGED linux /\ UNCHANGED capv

\* Mutant: timer_handler does not set the timer again.
RearmedNot(c) == armed

\* timer_handler sets the timer again; the other handlers do not touch it.
Rearmed(c) ==
    IF irq[c] = TIMER_IRQ /\ TIMER_IRQ \in handlers THEN armed \cup {c} ELSE armed

\* The rest of irq_handle: the handler, if there is one, and the end of the interrupt.
Handle(c) ==
    /\ irq[c] \in Irqs
    /\ armed' = Rearmed(c)
    /\ irq' = [irq EXCEPT ![c] = NoInterrupt]
    /\ UNCHANGED <<at, unmasked, handlers, enabled, pending, ipis>>
    /\ UNCHANGED linux /\ UNCHANGED capv

\* free_irq, by a driver: the interrupt is disabled and its handler stays.
FreeIrq(c, n) ==
    /\ Runs(c, "task") /\ n \in handlers \cap SPIs
    /\ enabled' = enabled \ {Line(c, n)}
    /\ UNCHANGED <<at, irq, unmasked, handlers, pending, armed, ipis>>
    /\ UNCHANGED linux /\ UNCHANGED capv
-----------------------------------------------------------------------------
(* linux_compat_server, the task that kernel_main creates first.  schedule()  *)
(* on any CPU may pick it, and it keeps that CPU until it exits.             *)

StartServer(c) ==
    /\ Runs(c, "task") /\ server = "ready"
    /\ server' = "devices" /\ Goto(c, "server")
    /\ UNCHANGED <<board, plat, k, i>> /\ UNCHANGED intr /\ UNCHANGED capv

Serves(c, where) == Runs(c, "server") /\ server = where

\* The devices of the board are registered one after the other.
RegisterDevice(c) ==
    /\ Serves(c, "devices")
    /\ IF k <= Len(board.devices)
       THEN /\ plat' = compat_register_platform_device(plat, board.devices[k])
            /\ k' = k + 1 /\ UNCHANGED server
       ELSE k' = 1 /\ server' = "initcalls" /\ UNCHANGED plat
    /\ UNCHANGED <<at, board, i>> /\ UNCHANGED intr /\ UNCHANGED capv

\* The next entry of the initcall section; at the end the server's task exits.
Initcall(c) ==
    /\ Serves(c, "initcalls")
    /\ IF k > Len(board.initcalls)
       THEN server' = "done" /\ Goto(c, "task") /\ UNCHANGED <<plat, k, i>>
       ELSE IF board.initcalls[k] = NoDriver \/ DriversFull(plat)
       THEN k' = k + 1 /\ UNCHANGED <<at, server, plat, i>>
       ELSE /\ plat' = [plat EXCEPT !.drivers = Append(@, board.initcalls[k])]
            /\ i' = FirstDevice
            /\ server' = "match" /\ UNCHANGED <<at, k>>
    /\ UNCHANGED board /\ UNCHANGED intr /\ UNCHANGED capv

Registering == board.initcalls[k]

\* platform_driver_register's loop: the driver is probed with a device that matches.
MatchDevice(c) ==
    /\ Serves(c, "match")
    /\ IF i > Len(plat.devices)
       THEN k' = k + 1 /\ server' = "initcalls" /\ UNCHANGED <<plat, i>>
       ELSE IF ~Matches(plat, i, Registering)
       THEN i' = i + 1 /\ UNCHANGED <<server, plat, k>>
       ELSE \E alloc_ok \in BOOLEAN :
            LET after == Probed(plat, Len(plat.drivers), i, alloc_ok)
            IN  /\ plat' = after
                /\ IF Registering.irq # NoIrq /\ <<Len(plat.drivers), i>> \in after.drvdata
                   THEN server' = "request" /\ UNCHANGED <<k, i>>
                   ELSE i' = i + 1 /\ UNCHANGED <<server, k>>
    /\ UNCHANGED <<at, board>> /\ UNCHANGED intr /\ UNCHANGED capv

\* Mutant: request_irq enables the interrupt first.
RequestEnableFirst(n) == enabled' = enabled \cup {Line(0, n)} /\ UNCHANGED handlers

\* request_irq: irq_register ...
RequestRegister(n) == handlers' = handlers \cup {n} /\ UNCHANGED enabled

RequestIrq(c) ==
    /\ Serves(c, "request") /\ server' = "request_enable"
    /\ RequestRegister(Registering.irq)
    /\ UNCHANGED <<at, irq, unmasked, pending, armed, ipis, board, plat, k, i>>
    /\ UNCHANGED capv

\* ... then irq_enable.
RequestEnable(c) ==
    /\ Serves(c, "request_enable") /\ server' = "match"
    /\ enabled' = enabled \cup {Line(c, Registering.irq)}
    /\ i' = i + 1
    /\ UNCHANGED <<at, irq, unmasked, handlers, pending, armed, ipis, board, plat, k>>
    /\ UNCHANGED capv

Server(c) ==
    StartServer(c) \/ RegisterDevice(c) \/ Initcall(c) \/ MatchDevice(c) \/ RequestIrq(c)
    \/ RequestEnable(c)
-----------------------------------------------------------------------------
(* Capability calls, by any task.                                            *)

\* cap_alloc up to the slot it finds, or its failure.
CapAllocScan(c) ==
    /\ Runs(c, "task") /\ LockForScan(caps, c)
    /\ IF FreeSlots(caps) = {} THEN UNCHANGED <<at, caps, found>>
       ELSE /\ caps' = [caps EXCEPT !.lock = c]
            /\ found' = [found EXCEPT ![c] = FirstFree(caps)]
            /\ Goto(c, "cap_alloc")
    /\ UNCHANGED granted /\ UNCHANGED intr /\ UNCHANGED linux

\* The rest of cap_alloc, for SYS_CAP_CREATE or one of the cap_create functions.
CapAllocFill(c) ==
    /\ Runs(c, "cap_alloc") /\ Goto(c, "task")
    /\ \E type \in SysCapTypes :
        /\ caps' = CapFill(caps, found[c], type)
        /\ granted' = granted \cup {<<found[c], type>>}
    /\ found' = [found EXCEPT ![c] = 0]
    /\ UNCHANGED intr /\ UNCHANGED linux

\* cap_destroy, as SYS_CAP_DESTROY calls it: any task, any id.
CapDestroy(c) ==
    /\ Runs(c, "task") /\ caps.lock = Free
    /\ \E s \in CapSlots :
        /\ caps' = CapDrop(caps, s)
        /\ granted' = {g \in granted : g[1] # s}
    /\ UNCHANGED <<at, found>> /\ UNCHANGED intr /\ UNCHANGED linux
-----------------------------------------------------------------------------
Next ==
    \/ IrqInit \/ TimerRegister \/ TimerEnable \/ SmpInit
    \/ \E n \in SPIs : DeviceRaises(n)
    \/ \E c \in CPUs :
        \/ SecondaryMain(c) \/ Server(c)
        \/ TimerFires(c) \/ SendReschedule(c)
        \/ Entry(c) \/ Acknowledge(c) \/ Handle(c)
        \/ \E n \in SPIs : FreeIrq(c, n)
        \/ CapAllocScan(c) \/ CapAllocFill(c) \/ CapDestroy(c)

\* Timers count and CPUs execute; nothing makes a task do anything.
Fairness ==
    \A c \in CPUs :
        WF_vars(TimerFires(c)) /\ WF_vars(Entry(c)) /\ WF_vars(Acknowledge(c)) /\ WF_vars(Handle(c))

Spec == Init /\ [][Next]_vars /\ Fairness
-----------------------------------------------------------------------------
\* No CPU ever acknowledges an interrupt without a handler: irq_handle would end it, and a
\* device that still asserts it would interrupt again for ever.  Handlers are registered
\* before their interrupt is enabled, and by CPU 0 before another CPU enables its own.
IrqHandled == \A c \in CPUs : irq[c] \in Irqs => irq[c] \in handlers

\* On every CPU that is up, the timer interrupt comes again and again, whatever devices and
\* other CPUs send: timer_handler sets the timer anew each time.
Online(c) == at[c] \notin {"off", "secondary", "irq_init", "timer_init", "timer_enable"}
TimerKeepsTicking == \A c \in CPUs : Online(c) ~> irq[c] = TIMER_IRQ

\* When the server is done, every driver in the table was probed with every device in the
\* table that has its name, exactly once, and with no other; only then it has its data.
ProbedOnce ==
    server = "done" =>
        /\ plat.probes = {p \in (1 .. Len(plat.drivers)) \X (1 .. Len(plat.devices)) :
                            plat.drivers[p[1]].name = plat.devices[p[2]].name}
        /\ ~plat.again
        /\ plat.drvdata \subseteq plat.probes

\* While nobody is inside cap_alloc or cap_destroy, the slots in use are those that were
\* handed out and not destroyed since, cap_lookup finds in each what was put there, and
\* each has one reference: no id is handed out twice.
CapsExact ==
    caps.lock = Free =>
        /\ {<<s, cap_lookup(caps, s)>> : s \in caps.used} = granted
        /\ \A s \in CapSlots : caps.pool[s].refcount = IF s \in caps.used THEN 1 ELSE 0

=============================================================================
