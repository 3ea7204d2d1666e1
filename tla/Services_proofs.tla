--------------------------- MODULE Services_proofs ---------------------------
(***************************************************************************)
(* Proofs about interrupts, the Linux server and the capability pool, for  *)
(* every set of CPUs, every board and every size of the tables.            *)
(***************************************************************************)
EXTENDS Services, FiniteSetTheorems, TLAPS

Places == {"irq_init", "timer_init", "timer_enable", "smp_init", "off", "secondary", "task",
           "cap_alloc", "server"}
ServerPlaces == {"ready", "devices", "initcalls", "match", "request", "request_enable", "done"}
Early == {"irq_init", "timer_init", "timer_enable", "smp_init"}

\* Where the CPUs are: until CPU 0 starts the others, they are off, and none of them ever
\* runs the boot code.  The Linux server starts on any CPU, but not before boot is over.
PlacesOK ==
    /\ at \in [CPUs -> Places] /\ server \in ServerPlaces
    /\ at[0] \notin {"off", "secondary"}
    /\ \A c \in CPUs \ {0} : at[c] \in {"off", "secondary", "task", "cap_alloc", "server"}
    /\ at[0] \in Early => server = "ready" /\ \A c \in CPUs \ {0} : at[c] = "off"

\* A handler is in the table before anything can cause its interrupt.
InterruptsTyped ==
    /\ irq \in [CPUs -> Irqs \cup {NoInterrupt, Entered}]
    /\ enabled \subseteq CPUs \X Irqs
    /\ board \in Boards
BeforeIrqInit == at[0] = "irq_init" => enabled = {} /\ \A c \in CPUs : irq[c] = NoInterrupt
Registered ==
    /\ at[0] # "irq_init" => IPI_RESCHEDULE \in handlers
    /\ at[0] \notin {"irq_init", "timer_init"} => TIMER_IRQ \in handlers
    /\ server = "request_enable" => Registering.irq \in handlers
EnabledHandled == \A l \in enabled : l[2] \in handlers

\* A driver whose interrupt is being requested has one.
Requesting ==
    /\ server \in {"match", "request", "request_enable"} => k \in 1 .. Len(board.initcalls)
    /\ server \in {"request", "request_enable"} => Registering.irq # NoIrq
    /\ k \in Nat \ {0}

IrqInv ==
    PlacesOK /\ InterruptsTyped /\ BeforeIrqInit /\ Requesting /\ Registered /\ EnabledHandled
    /\ IrqHandled

\* The capability pool.  A CPU is inside cap_alloc if and only if it holds cap_lock, and
\* then the slot it has found is still free.
PoolTyped ==
    /\ caps \in [used : SUBSET CapSlots, lock : CPUs \cup {Free},
                 pool : [CapSlots -> [type : SysCapTypes \cup {"NONE"}, refcount : {0, 1}]]]
    /\ found \in [CPUs -> CapSlots]
LockHolder == \A c \in CPUs : at[c] = "cap_alloc" <=> caps.lock = c
FoundIsFree == \A c \in CPUs : at[c] = "cap_alloc" => found[c] \notin caps.used
PoolExact ==
    /\ granted = {<<s, caps.pool[s].type>> : s \in caps.used}
    /\ \A s \in CapSlots : caps.pool[s].refcount = IF s \in caps.used THEN 1 ELSE 0

CapsInv == PlacesOK /\ PoolTyped /\ LockHolder /\ FoundIsFree /\ PoolExact

\* The server.  The pairs probed are those of equal name among the drivers registered
\* before the current one, and of it with the devices the loop has passed.
ServerTyped ==
    /\ board \in Boards /\ k \in Nat \ {0} /\ i \in Nat \ {0}
    /\ plat \in [devices : Seq(Devices), drivers : Seq(Drivers(SPIs)),
                 probes : SUBSET (Nat \X Nat), again : BOOLEAN, drvdata : SUBSET (Nat \X Nat)]
Matching == server \in {"match", "request", "request_enable"}
Passed(p) ==
    \/ ~Matching
    \/ p[1] < Len(plat.drivers) \/ p[2] < i
    \/ server # "match" /\ p[2] = i
Pairs == {p \in (1 .. Len(plat.drivers)) \X (1 .. Len(plat.devices)) :
            plat.drivers[p[1]].name = plat.devices[p[2]].name}
ProbesSoFar ==
    /\ plat.probes = {p \in Pairs : Passed(p)}
    /\ ~plat.again
    /\ plat.drvdata \subseteq plat.probes
ServerLoop ==
    /\ server \in {"ready", "devices"} => plat.drivers = <<>>
    /\ Matching => /\ k \in 1 .. Len(board.initcalls)
                   /\ plat.drivers # <<>>
                   /\ plat.drivers[Len(plat.drivers)] = Registering
    /\ server \in {"request", "request_enable"} => i \in 1 .. Len(plat.devices)

ServerInv == PlacesOK /\ ServerTyped /\ ServerLoop /\ ProbesSoFar
-----------------------------------------------------------------------------
(* Where the CPUs are.                                                       *)

(* A nonempty set of naturals has a least element. *)
LEMMA LeastNatural ==
    ASSUME NEW S, S \subseteq Nat, S # {}
    PROVE  \E m \in S : \A j \in S : m <= j
<1>1. PICK m \in S : \A j \in S : ~ (<<j, m>> \in OpToRel(<, Nat))
  BY NatLessThanWellFounded, WFMin
<1>2. \A j \in S : ~ (j < m)
  BY <1>1 DEF OpToRel
<1> QED
  BY <1>2

(* The places that steps go to, and from which. *)
LEMMA PlacesStep ==
    ASSUME PlacesOK, [Next]_vars
    PROVE  PlacesOK'
<1> USE ServicesAssumption DEF PlacesOK, Places, ServerPlaces, Early
<1>1. CASE UNCHANGED <<at, server>>
  BY <1>1
<1>2. CASE IrqInit \/ TimerRegister \/ TimerEnable \/ SmpInit
  BY <1>2 DEF IrqInit, TimerRegister, TimerEnable, SmpInit, Runs, Goto, linux
<1>3. ASSUME NEW c \in CPUs, Server(c) PROVE PlacesOK'
  BY <1>3 DEF Server, StartServer, RegisterDevice, Initcall, MatchDevice, RequestIrq,
              RequestEnable, Serves, Runs, Goto
<1>4. ASSUME NEW c \in CPUs, SecondaryMain(c) \/ CapAllocScan(c) \/ CapAllocFill(c)
      PROVE  PlacesOK'
  BY <1>4 DEF SecondaryMain, CapAllocScan, CapAllocFill, Runs, Goto, linux
<1> QED
  BY <1>1, <1>2, <1>3, <1>4
  DEF Next, vars, DeviceRaises, TimerFires, SendReschedule, Entry, Acknowledge, Handle, FreeIrq,
      CapDestroy, linux

-----------------------------------------------------------------------------
(* Interrupts.                                                               *)

(* A line carries the number of its interrupt and belongs to a CPU. *)
LEMMA LineFacts ==
    ASSUME NEW c \in CPUs, NEW n \in Irqs
    PROVE  Line(c, n) \in CPUs \X Irqs /\ Line(c, n)[2] = n
  BY ServicesAssumption DEF Line

(* Interrupt numbers are naturals, the marks for no number are not. *)
LEMMA IrqNumbers == Irqs \subseteq Nat /\ NoInterrupt \notin Irqs /\ Entered \notin Irqs
  BY ServicesAssumption DEF Irqs, NoInterrupt, Entered, IPI_RESCHEDULE, TIMER_IRQ, MAX_IRQ

(* Initially nothing is enabled and no CPU is in a handler. *)
LEMMA InitIrq == Init => IrqInv
<1> SUFFICES ASSUME Init PROVE IrqInv
  OBVIOUS
<1> USE ServicesAssumption DEF Init
<1>1. PlacesOK
  BY DEF PlacesOK, Places, ServerPlaces, Early
<1>2. InterruptsTyped /\ BeforeIrqInit /\ EnabledHandled
  BY DEF InterruptsTyped, BeforeIrqInit, EnabledHandled
<1>3. Requesting /\ Registered
  BY DEF Requesting, Registered
<1>4. IrqHandled
  BY IrqNumbers DEF IrqHandled
<1> QED
  BY <1>1, <1>2, <1>3, <1>4 DEF IrqInv

(* Boot: irq_init clears the table while no CPU is in an interrupt, and each *)
(* handler is in the table before its interrupt is enabled.                  *)
LEMMA BootIrqStep ==
    ASSUME IrqInv, IrqInit \/ TimerRegister \/ TimerEnable \/ SmpInit
    PROVE  IrqInv'
<1> USE ServicesAssumption DEF IrqInv
<1>1. PlacesOK'
  BY PlacesStep DEF Next
<1>2. InterruptsTyped' /\ BeforeIrqInit' /\ Requesting'
  BY DEF IrqInit, TimerRegister, TimerEnable, SmpInit, Runs, Goto, intr, linux, PlacesOK,
         InterruptsTyped, BeforeIrqInit, Requesting, Irqs, Registering
<1>3. Registered' /\ EnabledHandled'
  BY DEF IrqInit, TimerRegister, TimerEnable, SmpInit, Runs, Goto, intr, linux, PlacesOK, Early,
         InterruptsTyped, Registered, EnabledHandled
<1>4. IrqHandled'
  BY IrqNumbers DEF IrqInit, TimerRegister, TimerEnable, SmpInit, Runs, Goto, intr,
         BeforeIrqInit, IrqHandled
<1> QED
  BY <1>1, <1>2, <1>3, <1>4

(* A secondary CPU enables its own lines of interrupts that CPU 0 has        *)
(* registered before it started the others.                                  *)
LEMMA SecondaryIrqStep ==
    ASSUME IrqInv, NEW c \in CPUs, SecondaryMain(c)
    PROVE  IrqInv'
<1> USE ServicesAssumption DEF IrqInv
<1>1. /\ at[c] = "secondary" /\ at' = [at EXCEPT ![c] = "task"]
      /\ enabled' = enabled \cup {<<c, TIMER_IRQ>>, <<c, IPI_RESCHEDULE>>}
      /\ UNCHANGED <<irq, handlers, board, server, k>>
  BY DEF SecondaryMain, Runs, Goto, linux
<1>2. c # 0 /\ at[0] \notin Early /\ at'[0] = at[0]
  BY <1>1 DEF PlacesOK
<1>3. PlacesOK'
  BY PlacesStep DEF Next
<1>4. InterruptsTyped' /\ BeforeIrqInit' /\ Requesting' /\ Registered' /\ IrqHandled'
  BY <1>1, <1>2 DEF InterruptsTyped, BeforeIrqInit, Requesting, Registered, IrqHandled, Irqs,
                    Registering, Early
<1>5. EnabledHandled'
  BY <1>1, <1>2 DEF EnabledHandled, Registered, Early
<1> QED
  BY <1>3, <1>4, <1>5

(* The number that the acknowledge register returns is that of an enabled    *)
(* line of the CPU.                                                          *)
LEMMA AcknowledgeIrqStep ==
    ASSUME IrqInv, NEW c \in CPUs, Acknowledge(c)
    PROVE  IrqInv'
<1> USE ServicesAssumption DEF IrqInv
<1> DEFINE D == Deliverable(c)
           n == CHOOSE m \in D : \A j \in D : m <= j
<1>1. UNCHANGED <<at, handlers, enabled, board, server, k>> /\ irq[c] = Entered
  BY DEF Acknowledge, linux
<1>2. PlacesOK' /\ Requesting' /\ Registered' /\ EnabledHandled'
  BY <1>1 DEF PlacesOK, Requesting, Registered, EnabledHandled, Registering
<1>3. \A m \in D : m \in Irqs /\ m \in handlers
  BY LineFacts DEF Deliverable, EnabledHandled
<1>4. \/ irq' = [irq EXCEPT ![c] = NoInterrupt]
      \/ D # {} /\ irq' = [irq EXCEPT ![c] = n]
  BY DEF Acknowledge
<1>5. D # {} => n \in D
  <2>1. D \subseteq Nat
    BY <1>3, IrqNumbers
  <2> HIDE DEF D
  <2>2. D # {} => \E m \in D : \A j \in D : m <= j
    BY <2>1, LeastNatural
  <2> QED
    BY <2>2
<1> HIDE DEF n
<1>6. irq[c] # NoInterrupt /\ at[0] # "irq_init"
  BY <1>1 DEF BeforeIrqInit, NoInterrupt, Entered
<1>7. InterruptsTyped' /\ BeforeIrqInit'
  BY <1>1, <1>3, <1>4, <1>5, <1>6 DEF InterruptsTyped, BeforeIrqInit
<1>8. NoInterrupt \notin Irqs
  BY IrqNumbers
<1>9. IrqHandled'
  BY <1>1, <1>3, <1>4, <1>5, <1>8 DEF IrqHandled, InterruptsTyped
<1> QED
  BY <1>2, <1>7, <1>9

(* Entering an interrupt and leaving its handler. *)
LEMMA EntryIrqStep ==
    ASSUME IrqInv, NEW c \in CPUs, Entry(c) \/ Handle(c)
    PROVE  IrqInv'
<1> USE ServicesAssumption DEF IrqInv
<1>1. UNCHANGED <<at, handlers, enabled, board, server, k>>
  BY DEF Entry, Handle, linux
<1>2. \/ irq' = [irq EXCEPT ![c] = Entered] /\ Deliverable(c) # {}
      \/ irq' = [irq EXCEPT ![c] = NoInterrupt]
  BY DEF Entry, Handle
<1>3. NoInterrupt \notin Irqs /\ Entered \notin Irqs
  BY IrqNumbers
<1>4. PlacesOK' /\ Requesting' /\ Registered' /\ EnabledHandled'
  BY <1>1 DEF PlacesOK, Requesting, Registered, EnabledHandled, Registering
<1>5. InterruptsTyped' /\ IrqHandled'
  BY <1>1, <1>2, <1>3 DEF InterruptsTyped, IrqHandled
<1>6. BeforeIrqInit'
  <2>1. CASE enabled = {}
    <3>1. Deliverable(c) = {}
      BY <2>1 DEF Deliverable
    <3> QED
      BY <1>1, <1>2, <3>1 DEF BeforeIrqInit, InterruptsTyped
  <2>2. CASE enabled # {}
    BY <1>1, <2>2 DEF BeforeIrqInit
  <2> QED
    BY <2>1, <2>2
<1> QED
  BY <1>4, <1>5, <1>6

(* The Linux server: request_irq puts the handler in the table before it     *)
(* enables the line.                                                         *)
LEMMA ServerIrqStep ==
    ASSUME IrqInv, NEW c \in CPUs, Server(c)
    PROVE  IrqInv'
<1> USE ServicesAssumption DEF IrqInv
<1>1. PlacesOK'
  BY PlacesStep DEF Next
<1>2. at[0] # "irq_init" /\ at'[0] # "irq_init" /\ at'[0] # "timer_init"
  BY DEF PlacesOK, Early, Server, StartServer, RegisterDevice, Initcall, MatchDevice,
         RequestIrq, RequestEnable, Serves, Runs, Goto
<1>3. at[0] # "timer_init"
  BY DEF PlacesOK, Early, Server, StartServer, RegisterDevice, Initcall, MatchDevice,
         RequestIrq, RequestEnable, Serves, Runs
<1>4. CASE StartServer(c)
  <2>1. /\ UNCHANGED <<irq, handlers, enabled, board, k>>
        /\ server' = "devices"
    BY <1>4 DEF StartServer, intr
  <2> QED
    BY <1>1, <1>2, <1>3, <2>1
    DEF InterruptsTyped, BeforeIrqInit, Requesting, Registered, EnabledHandled, IrqHandled
<1>5. CASE RegisterDevice(c)
  <2>1. /\ UNCHANGED <<irq, handlers, enabled, board>>
        /\ server = "devices" /\ server' \in {"devices", "initcalls"}
        /\ k' = k + 1 \/ k' = 1
    BY <1>5 DEF RegisterDevice, Serves, intr
  <2> QED
    BY <1>1, <1>2, <1>3, <2>1
    DEF InterruptsTyped, BeforeIrqInit, Requesting, Registered, EnabledHandled, IrqHandled
<1>6. CASE Initcall(c)
  <2>1. /\ UNCHANGED <<irq, handlers, enabled, board>>
        /\ server = "initcalls" /\ server' \in {"done", "initcalls", "match"}
        /\ k' = k + 1 \/ k' = k
        /\ server' = "match" => k' = k /\ k <= Len(board.initcalls)
    BY <1>6 DEF Initcall, Serves, intr, Requesting, InterruptsTyped
  <2>2. Len(board.initcalls) \in Nat
    BY DEF InterruptsTyped
  <2>3. Requesting'
    BY <2>1, <2>2 DEF Requesting
  <2> QED
    BY <1>1, <1>2, <1>3, <2>1, <2>3
    DEF InterruptsTyped, BeforeIrqInit, Registered, EnabledHandled, IrqHandled
<1>7. CASE MatchDevice(c)
  <2>1. /\ UNCHANGED <<irq, handlers, enabled, board>>
        /\ server = "match" /\ server' \in {"initcalls", "match", "request"}
        /\ k' = k + 1 \/ k' = k
        /\ server' # "initcalls" => k' = k
        /\ server' = "request" => Registering.irq # NoIrq
    BY <1>7 DEF MatchDevice, Serves, intr
  <2>2. Requesting'
    BY <2>1 DEF Requesting, Registering
  <2> QED
    BY <1>1, <1>2, <1>3, <2>1, <2>2
    DEF InterruptsTyped, BeforeIrqInit, Registered, EnabledHandled, IrqHandled
<1>8. CASE RequestIrq(c) \/ RequestEnable(c)
  <2> DEFINE n == Registering.irq
  <2>1. server \in {"request", "request_enable"}
    BY <1>8 DEF RequestIrq, RequestEnable, Serves
  <2>2. n \in SPIs
    <3>1. board.initcalls[k] \in Drivers(SPIs)
      BY <2>1 DEF Requesting, InterruptsTyped
    <3> QED
      BY <2>1, <3>1 DEF Requesting, Registering, Drivers
  <2>3. n \in Irqs /\ Line(c, n) \in CPUs \X Irqs /\ Line(c, n)[2] = n
    BY <2>2, LineFacts DEF Irqs
  <2>4. CASE RequestIrq(c)
    <3>1. /\ server = "request" /\ server' = "request_enable"
          /\ handlers' = handlers \cup {n}
          /\ UNCHANGED <<irq, enabled, board, k>>
      BY <2>4 DEF RequestIrq, RequestRegister, Serves
    <3> QED
      BY <1>1, <1>2, <1>3, <3>1 DEF InterruptsTyped, BeforeIrqInit, Registered, EnabledHandled,
                        IrqHandled, Requesting, Registering
  <2>5. CASE RequestEnable(c)
    <3>1. /\ server = "request_enable" /\ server' = "match"
          /\ enabled' = enabled \cup {Line(c, n)}
          /\ UNCHANGED <<irq, handlers, board, k>>
      BY <2>5 DEF RequestEnable, Serves
    <3>2. n \in handlers
      BY <3>1 DEF Registered
    <3> HIDE DEF n
    <3>3. InterruptsTyped' /\ EnabledHandled'
      BY <2>3, <3>1, <3>2 DEF InterruptsTyped, EnabledHandled
    <3> QED
      BY <1>1, <1>2, <1>3, <3>1, <3>3
      DEF BeforeIrqInit, Registered, IrqHandled, Requesting, Registering
  <2> QED
    BY <1>8, <2>4, <2>5
<1> QED
  BY <1>4, <1>5, <1>6, <1>7, <1>8 DEF Server

(* Everything else leaves the handlers alone and enables nothing. *)
LEMMA OtherIrqStep ==
    ASSUME IrqInv,
           \/ \E n \in SPIs : DeviceRaises(n)
           \/ \E c \in CPUs : \/ TimerFires(c) \/ SendReschedule(c)
                              \/ \E n \in SPIs : FreeIrq(c, n)
                              \/ CapAllocScan(c) \/ CapAllocFill(c) \/ CapDestroy(c)
           \/ UNCHANGED vars
    PROVE  IrqInv'
<1> USE DEF IrqInv
<1>1. PlacesOK'
  BY PlacesStep DEF Next
<1>2. UNCHANGED <<irq, handlers, board, server, k>> /\ enabled' \subseteq enabled
  BY DEF DeviceRaises, TimerFires, SendReschedule, FreeIrq, CapAllocScan, CapAllocFill,
         CapDestroy, intr, linux, vars
<1>3. at' = at \/ \E c \in CPUs : at[c] \in {"task", "cap_alloc"} /\
                    at' \in {[at EXCEPT ![c] = "task"], [at EXCEPT ![c] = "cap_alloc"]}
  BY DEF DeviceRaises, TimerFires, SendReschedule, FreeIrq, CapAllocScan, CapAllocFill,
         CapDestroy, Runs, Goto, vars
<1>4. at'[0] = at[0] \/ {at[0], at'[0]} \subseteq {"task", "cap_alloc"}
  BY <1>3, ServicesAssumption DEF PlacesOK
<1> QED
  BY <1>1, <1>2, <1>4 DEF InterruptsTyped, BeforeIrqInit, Requesting, Registered,
                          EnabledHandled, IrqHandled, Registering

(* Every step keeps the invariant of the interrupts. *)
LEMMA IrqStep ==
    ASSUME IrqInv, [Next]_vars
    PROVE  IrqInv'
  BY BootIrqStep, SecondaryIrqStep, AcknowledgeIrqStep, EntryIrqStep, ServerIrqStep,
     OtherIrqStep DEF Next

(* No interrupt is ever acknowledged without a handler, whatever devices,    *)
(* timers and other CPUs do, also while the Linux layer registers drivers:   *)
(* irq_handle always has a function to call.                                 *)
THEOREM InterruptsHandled == Spec => []IrqHandled
<1>1. IrqInv /\ [Next]_vars => IrqInv'
  BY IrqStep
<1>2. IrqInv => IrqHandled
  BY DEF IrqInv
<1> QED
  BY InitIrq, <1>1, <1>2, PTL DEF Spec

-----------------------------------------------------------------------------
(* Capabilities.                                                             *)

(* The scan of cap_alloc returns a free slot if there is one. *)
LEMMA FirstFreeFacts ==
    ASSUME NEW p, FreeSlots(p) # {}
    PROVE  FirstFree(p) \in CapSlots /\ FirstFree(p) \notin p.used
<1> DEFINE S == FreeSlots(p)
<1>1. S # {} /\ S \subseteq Nat
  BY CapsAssumption DEF FreeSlots, CapSlots
<1>2. \E m \in S : \A j \in S : m <= j
  <2> HIDE DEF S
  <2> QED
    BY <1>1, LeastNatural
<1>3. FirstFree(p) \in S
  <2>1. FirstFree(p) = CHOOSE m \in S : \A j \in S : m <= j
    BY DEF FirstFree
  <2> HIDE DEF S
  <2> QED
    BY <1>2, <2>1
<1> QED
  BY <1>3 DEF FreeSlots

(* Initially the pool is empty and nobody holds the lock. *)
LEMMA InitCaps == Init => CapsInv
<1> SUFFICES ASSUME Init PROVE CapsInv
  OBVIOUS
<1> USE ServicesAssumption, CapsAssumption DEF Init
<1>1. PlacesOK
  BY DEF PlacesOK, Places, ServerPlaces, Early
<1>2. PoolTyped
  BY DEF PoolTyped, cap_init, CapSlots
<1>3. LockHolder /\ FoundIsFree /\ PoolExact
  BY DEF LockHolder, FoundIsFree, PoolExact, cap_init, Free
<1> QED
  BY <1>1, <1>2, <1>3 DEF CapsInv

(* cap_alloc finds a free slot and keeps the lock. *)
LEMMA ScanStep ==
    ASSUME CapsInv, NEW c \in CPUs, CapAllocScan(c)
    PROVE  CapsInv'
<1> USE ServicesAssumption DEF CapsInv
<1>1. PlacesOK'
  BY PlacesStep DEF Next
<1>2. at[c] = "task" /\ caps.lock = Free /\ UNCHANGED granted
  BY DEF CapAllocScan, Runs, LockForScan
<1>3. CASE FreeSlots(caps) = {}
  BY <1>1, <1>2, <1>3 DEF CapAllocScan, PoolTyped, LockHolder, FoundIsFree, PoolExact
<1>4. CASE FreeSlots(caps) # {}
  <2> DEFINE s == FirstFree(caps)
  <2>1. s \in CapSlots /\ s \notin caps.used
    BY <1>4, FirstFreeFacts
  <2>2. /\ caps' = [caps EXCEPT !.lock = c]
        /\ found' = [found EXCEPT ![c] = s]
        /\ at' = [at EXCEPT ![c] = "cap_alloc"]
    BY <1>4 DEF CapAllocScan, Goto
  <2> HIDE DEF s
  <2>3. /\ caps'.used = caps.used /\ caps'.pool = caps.pool /\ caps'.lock = c
    BY <2>2 DEF PoolTyped
  <2>4. PoolTyped'
    BY <2>1, <2>2 DEF PoolTyped
  <2>5. \A d \in CPUs : at[d] # "cap_alloc"
    BY <1>2 DEF LockHolder, Free
  <2>6. LockHolder' /\ FoundIsFree'
    BY <2>1, <2>2, <2>3, <2>5 DEF LockHolder, FoundIsFree, PlacesOK, PoolTyped
  <2>7. PoolExact'
    BY <1>2, <2>3 DEF PoolExact
  <2> QED
    BY <1>1, <2>4, <2>6, <2>7
<1> QED
  BY <1>3, <1>4

(* cap_alloc fills the slot it found, which nobody can have taken since.     *)
LEMMA FillStep ==
    ASSUME CapsInv, NEW c \in CPUs, CapAllocFill(c)
    PROVE  CapsInv'
<1> USE ServicesAssumption DEF CapsInv
<1>1. PlacesOK'
  BY PlacesStep DEF Next
<1> DEFINE s == found[c]
<1>2. PICK type \in SysCapTypes :
        /\ caps' = CapFill(caps, s, type)
        /\ granted' = granted \cup {<<s, type>>}
  BY DEF CapAllocFill
<1>3. /\ at[c] = "cap_alloc" /\ at' = [at EXCEPT ![c] = "task"]
      /\ found' = [found EXCEPT ![c] = 0]
      /\ s \in CapSlots /\ s \notin caps.used
  BY DEF CapAllocFill, Runs, Goto, PoolTyped, FoundIsFree
<1> HIDE DEF s
<1>4. /\ caps'.used = caps.used \cup {s} /\ caps'.lock = Free
      /\ caps'.pool = [caps.pool EXCEPT ![s] = [type |-> type, refcount |-> 1]]
  BY <1>2, <1>3 DEF CapFill, PoolTyped
<1>5. PoolTyped'
  <2>1. caps' \in [used : SUBSET CapSlots, lock : CPUs \cup {Free},
                   pool : [CapSlots -> [type : SysCapTypes \cup {"NONE"}, refcount : {0, 1}]]]
    BY <1>2, <1>3 DEF CapFill, PoolTyped
  <2>2. 0 \in CapSlots
    BY CapsAssumption DEF CapSlots
  <2> QED
    BY <1>3, <2>1, <2>2 DEF PoolTyped
<1>6. LockHolder' /\ FoundIsFree'
  <2>1. \A d \in CPUs : at[d] = "cap_alloc" => d = c
    BY <1>3 DEF LockHolder
  <2>2. \A d \in CPUs : at'[d] # "cap_alloc"
    BY <1>3, <2>1 DEF PlacesOK
  <2> QED
    BY <1>4, <2>2 DEF LockHolder, FoundIsFree, Free
<1>7. PoolExact'
  <2>1. /\ caps'.pool[s] = [type |-> type, refcount |-> 1]
        /\ \A r \in CapSlots : r # s => caps'.pool[r] = caps.pool[r]
    BY <1>3, <1>4 DEF PoolTyped
  <2>2. caps.used \subseteq CapSlots
    BY DEF PoolTyped
  <2>3. granted' = {<<r, caps'.pool[r].type>> : r \in caps'.used}
    BY <1>2, <1>3, <1>4, <2>1, <2>2 DEF PoolExact
  <2> QED
    BY <1>3, <1>4, <2>1, <2>3 DEF PoolExact
<1> QED
  BY <1>1, <1>5, <1>6, <1>7

(* cap_destroy takes the only reference to a slot and frees it. *)
LEMMA DestroyStep ==
    ASSUME CapsInv, NEW c \in CPUs, CapDestroy(c)
    PROVE  CapsInv'
<1> USE ServicesAssumption DEF CapsInv
<1>1. UNCHANGED <<at, server, found>> /\ caps.lock = Free
  BY DEF CapDestroy, linux
<1>2. PICK s \in CapSlots :
        /\ caps' = CapDrop(caps, s)
        /\ granted' = {g \in granted : g[1] # s}
  BY DEF CapDestroy
<1>3. PlacesOK'
  BY <1>1 DEF PlacesOK
<1>4. CASE s \notin caps.used
  <2>1. caps' = caps
    BY <1>2, <1>4 DEF CapDrop
  <2>2. granted' = granted
    BY <1>2, <1>4 DEF PoolExact
  <2>3. PoolExact'
    BY <2>1, <2>2 DEF PoolExact
  <2> QED
    BY <1>1, <1>3, <2>1, <2>3 DEF PoolTyped, LockHolder, FoundIsFree
<1>5. CASE s \in caps.used
  <2>1. caps.pool[s].refcount = 1
    BY <1>5 DEF PoolExact
  <2>2. caps' = [caps EXCEPT !.used = @ \ {s}, !.pool[s] = [type |-> "NONE", refcount |-> 0]]
    BY <1>2, <1>5, <2>1 DEF CapDrop
  <2>3. /\ caps'.used = caps.used \ {s} /\ caps'.lock = Free
        /\ caps'.pool = [caps.pool EXCEPT ![s] = [type |-> "NONE", refcount |-> 0]]
    BY <1>1, <2>2 DEF PoolTyped
  <2>4. PoolTyped'
    BY <1>1, <2>2 DEF PoolTyped
  <2>5. LockHolder' /\ FoundIsFree'
    BY <1>1, <2>3 DEF LockHolder, FoundIsFree
  <2>6. /\ caps'.pool[s].refcount = 0
        /\ \A r \in CapSlots : r # s => caps'.pool[r] = caps.pool[r]
    BY <2>3 DEF PoolTyped
  <2>7. caps.used \subseteq CapSlots
    BY DEF PoolTyped
  <2>8. granted' = {<<r, caps'.pool[r].type>> : r \in caps'.used}
    BY <1>2, <2>3, <2>6, <2>7 DEF PoolExact
  <2>9. PoolExact'
    BY <2>3, <2>6, <2>8 DEF PoolExact
  <2> QED
    BY <1>3, <2>4, <2>5, <2>9
<1> QED
  BY <1>4, <1>5

(* No other step enters or leaves cap_alloc or touches the pool. *)
LEMMA OtherCapsStep ==
    ASSUME CapsInv, [Next]_vars, UNCHANGED capv
    PROVE  CapsInv'
<1> USE ServicesAssumption DEF CapsInv
<1>1. PlacesOK'
  BY PlacesStep
<1>2. CASE \E c \in CPUs : CapAllocScan(c) \/ CapAllocFill(c) \/ CapDestroy(c)
  BY <1>2, ScanStep, FillStep, DestroyStep
<1>3. CASE ~ \E c \in CPUs : CapAllocScan(c) \/ CapAllocFill(c) \/ CapDestroy(c)
  <2>1. \A c \in CPUs : at'[c] = "cap_alloc" <=> at[c] = "cap_alloc"
    BY <1>3 DEF Next, vars, PlacesOK, Early, IrqInit, TimerRegister, TimerEnable, SmpInit,
      Server, StartServer, RegisterDevice, Initcall, MatchDevice, RequestIrq, RequestEnable,
      Serves, SecondaryMain, DeviceRaises, TimerFires, SendReschedule, Entry, Acknowledge,
      Handle, FreeIrq, Runs, Goto
  <2>2. UNCHANGED <<caps, found, granted>>
    BY DEF capv
  <2> QED
    BY <1>1, <2>1, <2>2 DEF PoolTyped, LockHolder, FoundIsFree, PoolExact
<1> QED
  BY <1>2, <1>3

(* Whatever tasks on all CPUs create and destroy in any order, the slots in  *)
(* use are those handed out and not destroyed since, each with what was put  *)
(* there and one reference: cap_alloc never hands out a slot twice.          *)
THEOREM CapabilitiesExact == Spec => []CapsExact
<1>1. ASSUME CapsInv, [Next]_vars PROVE CapsInv'
  <2>1. CASE UNCHANGED capv
    BY <1>1, <2>1, OtherCapsStep
  <2>2. CASE \E c \in CPUs : CapAllocScan(c) \/ CapAllocFill(c) \/ CapDestroy(c)
    BY <1>1, <2>2, ScanStep, FillStep, DestroyStep
  <2>3. UNCHANGED capv \/ \E c \in CPUs : CapAllocScan(c) \/ CapAllocFill(c) \/ CapDestroy(c)
    BY <1>1 DEF Next, vars, capv, IrqInit, TimerRegister, TimerEnable, SmpInit,
      Server, StartServer, RegisterDevice, Initcall, MatchDevice, RequestIrq, RequestEnable,
      SecondaryMain, DeviceRaises, TimerFires, SendReschedule, Entry, Acknowledge, Handle,
      FreeIrq
  <2> QED
    BY <2>1, <2>2, <2>3
<1>2. CapsInv => CapsExact
  <2> SUFFICES ASSUME CapsInv PROVE CapsExact
    OBVIOUS
  <2>1. {<<s, cap_lookup(caps, s)>> : s \in caps.used} = {<<s, caps.pool[s].type>> : s \in caps.used}
    BY DEF cap_lookup
  <2> QED
    BY <2>1 DEF CapsInv, PoolExact, CapsExact
<1> QED
  BY InitCaps, <1>1, <1>2, PTL DEF Spec

-----------------------------------------------------------------------------
(* The Linux server.                                                         *)

(* Initially the tables are empty. *)
LEMMA InitServer == Init => ServerInv
<1> SUFFICES ASSUME Init PROVE ServerInv
  OBVIOUS
<1> USE ServicesAssumption DEF Init
<1>1. PlacesOK
  BY DEF PlacesOK, Places, ServerPlaces, Early
<1>2. ServerTyped
  BY DEF ServerTyped, platform_empty
<1>3. ServerLoop
  BY DEF ServerLoop, Matching, platform_empty
<1>4. Pairs = {}
  BY DEF Pairs, platform_empty
<1>5. ProbesSoFar
  BY <1>4 DEF ProbesSoFar, platform_empty
<1> QED
  BY <1>1, <1>2, <1>3, <1>5 DEF ServerInv

(* A step that leaves the server's data alone, and the server where it is,   *)
(* or which starts it, or moves it on within request_irq, keeps the          *)
(* invariant.                                                                *)
LEMMA OutsideServer ==
    ASSUME ServerInv, PlacesOK', UNCHANGED <<board, plat, k, i>>,
           \/ server' = server
           \/ {server, server'} \subseteq {"ready", "devices"}
           \/ {server, server'} \subseteq {"request", "request_enable"}
    PROVE  ServerInv'
<1> USE DEF ServerInv
<1>2. Matching' <=> Matching
  BY DEF Matching
<1>3. \A p : Passed(p)' <=> Passed(p)
  BY <1>2 DEF Passed, Matching
<1>4. Pairs' = Pairs
  BY DEF Pairs
<1>5. ProbesSoFar'
  BY <1>3, <1>4 DEF ProbesSoFar
<1>6. ServerTyped' /\ ServerLoop'
  BY <1>2 DEF ServerTyped, ServerLoop, Registering
<1> QED
  BY <1>5, <1>6

(* Registering devices comes before the first driver. *)
LEMMA RegisterDeviceStep ==
    ASSUME ServerInv, NEW c \in CPUs, RegisterDevice(c)
    PROVE  ServerInv'
<1> USE ServicesAssumption DEF ServerInv
<1>1. PlacesOK'
  BY PlacesStep DEF Next, Server
<1>2. /\ server = "devices" /\ plat.drivers = <<>>
      /\ UNCHANGED <<board, i>>
      /\ server' \in {"devices", "initcalls"}
  BY DEF RegisterDevice, Serves, ServerLoop
<1>3. /\ k' \in Nat \ {0}
      /\ \/ plat' = plat
         \/ \E d \in Devices : plat' = [plat EXCEPT !.devices = Append(@, d)]
  <2>1. CASE k <= Len(board.devices)
    <3>1. board.devices[k] \in Devices
      BY <2>1 DEF ServerTyped
    <3> QED
      BY <2>1, <3>1 DEF RegisterDevice, compat_register_platform_device, ServerTyped
  <2>2. CASE ~ (k <= Len(board.devices))
    BY <2>2 DEF RegisterDevice
  <2> QED
    BY <2>1, <2>2
<1>4. ServerTyped'
  <2>1. \A d \in Devices : Append(plat.devices, d) \in Seq(Devices)
    BY DEF ServerTyped
  <2>2. plat' \in [devices : Seq(Devices), drivers : Seq(Drivers(SPIs)),
                   probes : SUBSET (Nat \X Nat), again : BOOLEAN, drvdata : SUBSET (Nat \X Nat)]
    BY <1>3, <2>1 DEF ServerTyped
  <2> QED
    BY <1>2, <1>3, <2>2 DEF ServerTyped
<1>5. /\ plat'.drivers = <<>> /\ plat'.probes = plat.probes
      /\ plat'.again = plat.again /\ plat'.drvdata = plat.drvdata
  BY <1>2, <1>3 DEF ServerTyped
<1>6. ServerLoop'
  BY <1>2, <1>5 DEF ServerLoop, Matching
<1>7. Pairs = {} /\ Pairs' = {}
  BY <1>2, <1>5 DEF Pairs
<1>8. ProbesSoFar'
  BY <1>5, <1>7 DEF ProbesSoFar
<1> QED
  BY <1>1, <1>4, <1>6, <1>8

(* The next initcall: its driver is added to the table and no device has     *)
(* been compared with it yet.                                                *)
LEMMA InitcallStep ==
    ASSUME ServerInv, NEW c \in CPUs, Initcall(c)
    PROVE  ServerInv'
<1> USE ServicesAssumption DEF ServerInv
<1>1. PlacesOK'
  BY PlacesStep DEF Next, Server
<1>2. server = "initcalls" /\ UNCHANGED board
  BY DEF Initcall, Serves
<1>3. CASE UNCHANGED <<plat, i>> /\ server' \in {"initcalls", "done"} /\ k' \in {k, k + 1}
  <2>1. ~Matching /\ ~Matching'
    BY <1>2, <1>3 DEF Matching
  <2>2. Pairs' = Pairs
    BY <1>3 DEF Pairs
  <2>3. ProbesSoFar'
    BY <1>3, <2>1, <2>2 DEF ProbesSoFar, Passed
  <2> QED
    BY <1>1, <1>2, <1>3, <2>1, <2>3 DEF ServerTyped, ServerLoop, Matching
<1>4. CASE /\ k <= Len(board.initcalls)
           /\ plat' = [plat EXCEPT !.drivers = Append(@, board.initcalls[k])]
           /\ i' = 1 /\ k' = k /\ server' = "match"
  <2> DEFINE n == Len(plat.drivers)
             drv == board.initcalls[k]
  <2>1. n \in Nat /\ drv \in Drivers(SPIs)
    BY <1>4 DEF ServerTyped
  <2>2. /\ plat'.drivers = Append(plat.drivers, drv)
        /\ plat'.devices = plat.devices /\ plat'.probes = plat.probes
        /\ plat'.again = plat.again /\ plat'.drvdata = plat.drvdata
    BY <1>4 DEF ServerTyped
  <2>3. /\ Len(plat'.drivers) = n + 1 /\ plat'.drivers[n + 1] = drv
        /\ \A d \in 1 .. n : plat'.drivers[d] = plat.drivers[d]
    BY <2>1, <2>2 DEF ServerTyped
  <2>4. ServerTyped'
    <3>1. Append(plat.drivers, drv) \in Seq(Drivers(SPIs))
      BY <2>1 DEF ServerTyped
    <3>2. plat' \in [devices : Seq(Devices), drivers : Seq(Drivers(SPIs)),
                     probes : SUBSET (Nat \X Nat), again : BOOLEAN, drvdata : SUBSET (Nat \X Nat)]
      <4> HIDE DEF drv
      <4> QED
        BY <1>4, <3>1 DEF ServerTyped, drv
    <3>3. board' \in Boards /\ k' \in Nat \ {0} /\ i' \in Nat \ {0}
      BY <1>2, <1>4 DEF ServerTyped
    <3> QED
      BY <3>2, <3>3 DEF ServerTyped
  <2>5. ServerLoop'
    <3>1. Registering' = drv /\ plat'.drivers # <<>>
      BY <1>2, <1>4, <2>1, <2>2, <2>3 DEF Registering, ServerTyped
    <3>2. k' \in 1 .. Len(board'.initcalls)
      BY <1>2, <1>4 DEF ServerTyped
    <3> HIDE DEF n, drv
    <3>3. plat'.drivers[Len(plat'.drivers)] = Registering'
      BY <2>3, <3>1
    <3> QED
      BY <1>4, <3>1, <3>2, <3>3 DEF ServerLoop
  <2>6. plat.probes = Pairs
    BY <1>2 DEF ProbesSoFar, Passed, Matching
  <2>7. {p \in Pairs' : Passed(p)'} = Pairs
    <3> HIDE DEF n, drv
    <3>1. ASSUME NEW p \in Pairs' PROVE Passed(p)' <=> p[1] <= n
      BY <1>4, <2>1, <2>3, <3>1 DEF Pairs, Passed, Matching, ServerTyped
    <3>2. \A p : p \in Pairs <=> p \in Pairs' /\ p[1] <= n
      BY <2>1, <2>2, <2>3 DEF Pairs, n
    <3> QED
      BY <3>1, <3>2
  <2>8. ProbesSoFar'
    BY <2>2, <2>6, <2>7 DEF ProbesSoFar
  <2> QED
    BY <1>1, <2>4, <2>5, <2>8
<1>5. Len(board.initcalls) \in Nat /\ k \in Nat
  BY DEF ServerTyped
<1>6. CASE k > Len(board.initcalls) \/ board.initcalls[k] = NoDriver \/ DriversFull(plat)
  BY <1>2, <1>3, <1>6 DEF Initcall
<1>7. CASE ~ (k > Len(board.initcalls) \/ board.initcalls[k] = NoDriver \/ DriversFull(plat))
  BY <1>4, <1>5, <1>7 DEF Initcall, FirstDevice
<1> QED
  BY <1>6, <1>7

(* platform_driver_register compares the driver with one device: it is       *)
(* probed with it if the names are equal, and has not been before.           *)
LEMMA MatchDeviceStep ==
    ASSUME ServerInv, NEW c \in CPUs, MatchDevice(c)
    PROVE  ServerInv'
<1> USE ServicesAssumption DEF ServerInv
<1> DEFINE d == Len(plat.drivers)
<1>1. PlacesOK'
  BY PlacesStep DEF Next, Server
<1>2. /\ server = "match" /\ UNCHANGED board
      /\ k \in 1 .. Len(board.initcalls) /\ plat.drivers # <<>>
      /\ plat.drivers[d] = Registering
  BY DEF MatchDevice, Serves, ServerLoop, Matching
<1>3. d \in Nat \ {0} /\ Len(plat.devices) \in Nat /\ i \in Nat \ {0} /\ k \in Nat \ {0}
  BY <1>2 DEF ServerTyped
<1>4. plat.probes = {p \in Pairs : p[1] < d \/ p[2] < i}
  BY <1>2 DEF ProbesSoFar, Passed, Matching
<1>5. CASE i > Len(plat.devices)
  <2>1. UNCHANGED <<plat, i, board>> /\ server' = "initcalls" /\ k' = k + 1
    BY <1>2, <1>5 DEF MatchDevice
  <2>2. Pairs' = Pairs
    BY <2>1 DEF Pairs
  <2>3. plat.probes = Pairs
    BY <1>3, <1>4, <1>5 DEF Pairs
  <2>4. ProbesSoFar'
    BY <2>1, <2>2, <2>3 DEF ProbesSoFar, Passed, Matching
  <2> QED
    BY <1>1, <1>3, <2>1, <2>4 DEF ServerTyped, ServerLoop, Matching
<1>6. CASE i <= Len(plat.devices) /\ ~Matches(plat, i, Registering)
  <2>1. UNCHANGED <<plat, k, board, server>> /\ i' = i + 1
    BY <1>2, <1>3, <1>6 DEF MatchDevice
  <2>2. Pairs' = Pairs
    BY <2>1 DEF Pairs
  <2>3. \A p \in Pairs : p[1] < d \/ p[2] < i <=> p[1] < d \/ p[2] < i + 1
    BY <1>2, <1>3, <1>6 DEF Pairs, Matches
  <2>4. \A p : Passed(p)' <=> p[1] < d \/ p[2] < i + 1
    BY <1>2, <2>1 DEF Passed, Matching
  <2>5. ProbesSoFar'
    BY <1>4, <2>1, <2>2, <2>3, <2>4 DEF ProbesSoFar
  <2> QED
    BY <1>1, <1>2, <1>3, <2>1, <2>5 DEF ServerTyped, ServerLoop, Matching, Registering
<1>7. CASE i <= Len(plat.devices) /\ Matches(plat, i, Registering)
  <2>1. PICK ok \in BOOLEAN :
          /\ plat' = Probed(plat, d, i, ok)
          /\ UNCHANGED k
          /\ \/ server' = "request" /\ i' = i
             \/ server' = "match" /\ i' = i + 1
    BY <1>2, <1>3, <1>7 DEF MatchDevice
  <2>2. <<d, i>> \in Pairs /\ <<d, i>> \notin plat.probes
    BY <1>2, <1>3, <1>4, <1>7 DEF Pairs, Matches
  <2>3. /\ plat'.devices = plat.devices /\ plat'.drivers = plat.drivers
        /\ plat'.probes = plat.probes \cup {<<d, i>>}
        /\ ~plat'.again
        /\ plat'.drvdata \subseteq plat.drvdata \cup {<<d, i>>}
    BY <2>1, <2>2 DEF Probed, ProbesSoFar, ServerTyped
  <2>4. plat' \in [devices : Seq(Devices), drivers : Seq(Drivers(SPIs)),
                   probes : SUBSET (Nat \X Nat), again : BOOLEAN, drvdata : SUBSET (Nat \X Nat)]
    <3> HIDE DEF d
    <3>1. plat.probes \cup {<<d, i>>} \in SUBSET (Nat \X Nat)
          /\ plat.drvdata \cup {<<d, i>>} \in SUBSET (Nat \X Nat)
      BY <1>3 DEF ServerTyped
    <3>2. (plat.again \/ <<d, i>> \in plat.probes) \in BOOLEAN
      OBVIOUS
    <3> QED
      BY <2>1, <3>1, <3>2 DEF Probed, ServerTyped
  <2>5. ServerTyped'
    <3>1. board' \in Boards /\ k' \in Nat \ {0} /\ i' \in Nat \ {0}
      BY <1>2, <1>3, <2>1 DEF ServerTyped
    <3> QED
      BY <2>4, <3>1 DEF ServerTyped
  <2>6. ServerLoop'
    BY <1>2, <1>3, <1>7, <2>1, <2>3 DEF ServerLoop, Matching, Registering
  <2>7. Pairs' = Pairs
    BY <2>3 DEF Pairs
  <2>8. \A p \in Pairs : (p[1] < d \/ p[2] < i) \/ p = <<d, i>> <=> Passed(p)'
    BY <1>3, <2>1, <2>3 DEF Pairs, Passed, Matching
  <2>9. plat'.probes = {p \in Pairs' : Passed(p)'}
    BY <1>4, <2>2, <2>3, <2>7, <2>8
  <2>10. ProbesSoFar'
    BY <2>3, <2>9 DEF ProbesSoFar
  <2> QED
    BY <1>1, <2>5, <2>6, <2>10
<1> QED
  BY <1>3, <1>5, <1>6, <1>7

(* request_irq returns and the loop goes on with the next device. *)
LEMMA RequestEnableStep ==
    ASSUME ServerInv, NEW c \in CPUs, RequestEnable(c)
    PROVE  ServerInv'
<1> USE ServicesAssumption DEF ServerInv
<1>1. PlacesOK'
  BY PlacesStep DEF Next, Server
<1>2. /\ server = "request_enable" /\ server' = "match"
      /\ UNCHANGED <<board, plat, k>> /\ i' = i + 1
  BY DEF RequestEnable, Serves
<1>3. i \in Nat \ {0}
  BY DEF ServerTyped
<1>4. Pairs' = Pairs
  BY <1>2 DEF Pairs
<1>5. \A p \in Pairs : Passed(p)' <=> Passed(p)
  BY <1>2, <1>3 DEF Pairs, Passed, Matching
<1>6. ProbesSoFar'
  BY <1>2, <1>4, <1>5 DEF ProbesSoFar
<1> QED
  BY <1>1, <1>2, <1>3, <1>6 DEF ServerTyped, ServerLoop, Matching, Registering

(* When the Linux server is done, each driver in the table has been probed   *)
(* exactly once with each device of its name and with no other, however many *)
(* devices and drivers the board has and whichever of them the tables and    *)
(* the allocator refused.                                                    *)
THEOREM DriversProbedOnce == Spec => []ProbedOnce
<1>1. ASSUME ServerInv, [Next]_vars PROVE ServerInv'
  <2>1. ASSUME NEW c \in CPUs,
               RegisterDevice(c) \/ Initcall(c) \/ MatchDevice(c) \/ RequestEnable(c)
        PROVE  ServerInv'
    BY <1>1, <2>1, RegisterDeviceStep, InitcallStep, MatchDeviceStep, RequestEnableStep
  <2>2. PlacesOK'
    BY <1>1, PlacesStep DEF ServerInv
  <2>3. ASSUME NEW c \in CPUs, StartServer(c) \/ RequestIrq(c) PROVE ServerInv'
    <3>1. /\ UNCHANGED <<board, plat, k, i>>
          /\ \/ {server, server'} \subseteq {"ready", "devices"}
             \/ {server, server'} \subseteq {"request", "request_enable"}
      BY <2>3 DEF StartServer, RequestIrq, Serves
    <3> QED
      BY <1>1, <2>2, <3>1, OutsideServer
  <2>4. CASE UNCHANGED linux
    BY <1>1, <2>2, <2>4, OutsideServer DEF linux
  <2>5. UNCHANGED linux \/ \E c \in CPUs : Server(c)
    BY <1>1 DEF Next, vars, linux, IrqInit, TimerRegister, TimerEnable, SmpInit,
      SecondaryMain, DeviceRaises, TimerFires, SendReschedule, Entry, Acknowledge,
      Handle, FreeIrq, CapAllocScan, CapAllocFill, CapDestroy
  <2> QED
    BY <2>1, <2>3, <2>4, <2>5 DEF Server
<1>2. ServerInv => ProbedOnce
  BY DEF ServerInv, ProbesSoFar, Passed, Matching, Pairs, ProbedOnce
<1> QED
  BY InitServer, <1>1, <1>2, PTL DEF Spec
=============================================================================
