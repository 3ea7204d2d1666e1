----------------------------- MODULE Sync_proofs -----------------------------
(***************************************************************************)
(* Proofs about what tasks and CPUs wait on.  The ticket spinlock, for     *)
(* every finite set of CPUs, every set of CPUs with a handler, and every   *)
(* counter width that can number the CPUs; the wait queues, futexes and    *)
(* sleeps, on one CPU, for any number of tasks, pool entries and slots.    *)
(***************************************************************************)
EXTENDS TicketLock, Futex, FiniteSetTheorems, SequenceTheorems, TLAPS

-----------------------------------------------------------------------------
(* Arithmetic of tickets.                                                    *)

(* The distance between two tickets is itself less than the modulus. *)
LEMMA DistanceType ==
    ASSUME NEW a \in Tickets, NEW b \in Tickets
    PROVE  Distance(a, b) \in Tickets
  BY ModulusAssumption DEF Tickets, Distance

(* Incrementing a u32 gives a u32. *)
LEMMA SuccessorType ==
    ASSUME NEW a \in Tickets
    PROVE  Successor(a) \in Tickets
  BY ModulusAssumption DEF Tickets, Successor

(* Two tickets at the same distance from owner are the same ticket. *)
LEMMA DistanceInjective ==
    ASSUME NEW a \in Tickets, NEW b \in Tickets, NEW c \in Tickets,
           Distance(a, b) = Distance(a, c)
    PROVE  b = c
  BY ModulusAssumption DEF Tickets, Distance

(* Advancing next lengthens the span by one, short of the wrap-around. *)
LEMMA DistanceGrows ==
    ASSUME NEW a \in Tickets, NEW b \in Tickets,
           Distance(a, b) + 1 < TicketModulus
    PROVE  Distance(a, Successor(b)) = Distance(a, b) + 1
  BY ModulusAssumption DEF Tickets, Distance, Successor

(* Advancing owner brings every other ticket one place nearer. *)
LEMMA DistanceShrinks ==
    ASSUME NEW a \in Tickets, NEW b \in Tickets, a # b
    PROVE  Distance(Successor(a), b) = Distance(a, b) - 1
  BY ModulusAssumption DEF Tickets, Distance, Successor

(* A ticket is at distance zero from itself only. *)
LEMMA DistanceZero ==
    ASSUME NEW a \in Tickets, NEW b \in Tickets
    PROVE  Distance(a, b) = 0 <=> a = b
  BY ModulusAssumption DEF Tickets, Distance

(* The CPU of a context is one of the CPUs. *)
LEMMA CpuType ==
    ASSUME NEW x \in Contexts
    PROVE  Cpu(x) \in CPUs
  BY CPUsAssumption DEF Contexts, Cpu

-----------------------------------------------------------------------------
(* The counters never lap each other: a CPU about to take a ticket holds    *)
(* none, every outstanding ticket is held on another CPU, and there are     *)
(* fewer CPUs than tickets.                                                 *)
LEMMA SpanBounded ==
    ASSUME IInv, NEW x \in Contexts, insn[x] = "stlxr"
    PROVE  Span + 1 < TicketModulus
<1> DEFINE Others == CPUs \ {Cpu(x)}
           Places == 0 .. Span - 1
           Place(d) == CHOOSE y \in Contexts : IsQueued(y) /\ Offset(y) = d
           f == [d \in Places |-> Cpu(Place(d))]
<1>1. Span \in Nat
  BY DistanceType DEF IInv, TypeOK, Span, Tickets
<1>2. \A d \in Places : Place(d) \in Contexts /\ IsQueued(Place(d)) /\ Offset(Place(d)) = d
  BY DEF IInv, SpanCovered
<1>3. \A d \in Places : f[d] \in Others
  <2> SUFFICES ASSUME NEW d \in Places PROVE Cpu(Place(d)) \in Others
    OBVIOUS
  <2>1. Place(d) \in Contexts /\ insn[Place(d)] \in Queued
    BY <1>2 DEF IsQueued
  <2>2. Cpu(Place(d)) \in CPUs
    BY <2>1, CpuType
  <2>3. Place(d) # x /\ insn[Place(d)] # "out" /\ insn[x] # "out"
    BY <2>1 DEF Queued
  <2>4. Cpu(Place(d)) # Cpu(x)
    BY <2>1, <2>3 DEF IInv, OnePerCpu
  <2> QED
    BY <2>2, <2>4
<1>4. \A d, e \in Places : f[d] = f[e] => d = e
  <2> SUFFICES ASSUME NEW d \in Places, NEW e \in Places, Cpu(Place(d)) = Cpu(Place(e))
               PROVE  d = e
    OBVIOUS
  <2>1. /\ Place(d) \in Contexts /\ insn[Place(d)] \in Queued
        /\ Place(e) \in Contexts /\ insn[Place(e)] \in Queued
    BY <1>2 DEF IsQueued
  <2>2. Place(d) = Place(e)
    BY <2>1 DEF IInv, OnePerCpu, Queued
  <2> QED
    BY <1>2, <2>2
<1>5. IsFiniteSet(Others) /\ Cardinality(Others) = Cardinality(CPUs) - 1
  BY CpuType, CPUsAssumption, FS_RemoveElement
<1>6. IsFiniteSet(Places) /\ Cardinality(Places) = Span
  BY <1>1, FS_Interval
<1>7. f \in [Places -> Others]
  BY <1>3
<1>8. ~(Cardinality(Others) < Cardinality(Places))
  <2> HIDE DEF f, Others, Places
  <2> QED
    BY <1>4, <1>5, <1>6, <1>7, FS_PigeonHole
<1>9. Cardinality(CPUs) \in Nat
  BY CPUsAssumption, FS_CardinalityType
<1> HIDE DEF Others, Places
<1> QED
  BY <1>1, <1>5, <1>6, <1>8, <1>9, ModulusAssumption

-----------------------------------------------------------------------------
(* The inductive invariant: initially, and under every step.                *)

(* The initial state satisfies the inductive invariant. *)
LEMMA InitIInv == Init => IInv
<1> SUFFICES ASSUME Init PROVE IInv
  OBVIOUS
<1>1. TypeOK
  BY ModulusAssumption, CPUsAssumption, FS_CardinalityType
     DEF Init, TypeOK, Tickets, Steps
<1>2. \A x \in Contexts : insn[x] = "out"
  BY DEF Init
<1>3. Span = 0
  BY DEF Init, Span, Distance
<1>4. SpanCovered
  BY <1>3 DEF SpanCovered
<1> QED
  BY <1>1, <1>2, <1>4
     DEF IInv, MaskedInside, OnePerCpu, ExclusiveLoad, TicketsInSpan,
         TicketsDistinct, HolderServed, IsQueued, Queued, Holding

(* Every step keeps the types. *)
LEMMA StepTypeOK ==
    ASSUME IInv, NEW x \in Contexts, Step(x)
    PROVE  TypeOK'
<1> USE CpuType, SuccessorType DEF IInv, TypeOK, Steps
<1>1. CASE MaskIrq(x)      BY <1>1 DEF MaskIrq
<1>2. CASE TakeIrq(x)      BY <1>2 DEF TakeIrq
<1>3. CASE Ldaxr(x)        BY <1>3 DEF Ldaxr
<1>4. CASE Stlxr(x)        BY <1>4 DEF Stlxr
<1>5. CASE StlxrFails(x)
  <2>1. 0 \in Tickets
    BY ModulusAssumption, CPUsAssumption, FS_CardinalityType DEF Tickets
  <2> QED
    BY <1>5, <2>1 DEF StlxrFails
<1>6. CASE LoadOwner(x)    BY <1>6 DEF LoadOwner
<1>7. CASE Wfe(x)          BY <1>7 DEF Wfe
<1>8. CASE UnlockLoad(x)   BY <1>8 DEF UnlockLoad
<1>9. CASE UnlockStore(x)
  <2>1. 0 \in Tickets
    BY ModulusAssumption, CPUsAssumption, FS_CardinalityType DEF Tickets
  <2> QED
    BY <1>9, <2>1 DEF UnlockStore, MonitorsAfterStore
<1>10. CASE Sev(x)         BY <1>10 DEF Sev
<1> QED
  BY <1>1, <1>2, <1>3, <1>4, <1>5, <1>6, <1>7, <1>8, <1>9, <1>10, Step(x)
     DEF Step

(* Every step keeps interrupts masked inside the lock, and with them the     *)
(* contexts of a CPU apart: the thread enters only when its handler is out   *)
(* and the handler only when interrupts are enabled.                         *)
LEMMA StepOnePerCpu ==
    ASSUME IInv, NEW x \in Contexts, Step(x)
    PROVE  MaskedInside' /\ OnePerCpu'
<1> USE CpuType DEF IInv, TypeOK, MaskedInside, OnePerCpu
<1>1. CASE MaskIrq(x)
  <2>1. \A y \in Contexts : Cpu(y) = Cpu(x) /\ insn[y] # "out" => y = x
    BY <1>1, Step(x) DEF Step, Executing, MaskIrq, IsIrq, Cpu, Contexts
  <2> QED
    BY <1>1, <2>1 DEF MaskIrq
<1>2. CASE TakeIrq(x)      BY <1>2 DEF TakeIrq
<1>3. CASE Ldaxr(x)        BY <1>3 DEF Ldaxr
<1>4. CASE Stlxr(x)        BY <1>4 DEF Stlxr
<1>5. CASE StlxrFails(x)   BY <1>5 DEF StlxrFails
<1>6. CASE LoadOwner(x)    BY <1>6 DEF LoadOwner
<1>7. CASE Wfe(x)          BY <1>7 DEF Wfe
<1>8. CASE UnlockLoad(x)   BY <1>8 DEF UnlockLoad
<1>9. CASE UnlockStore(x)  BY <1>9 DEF UnlockStore
<1>10. CASE Sev(x)         BY <1>10 DEF Sev
<1> QED
  BY <1>1, <1>2, <1>3, <1>4, <1>5, <1>6, <1>7, <1>8, <1>9, <1>10, Step(x)
     DEF Step

(* Every step keeps an armed monitor true to next. *)
LEMMA StepExclusiveLoad ==
    ASSUME IInv, NEW x \in Contexts, Step(x)
    PROVE  ExclusiveLoad'
<1> USE CpuType DEF IInv, TypeOK, ExclusiveLoad, OnePerCpu
<1>1. CASE MaskIrq(x)      BY <1>1 DEF MaskIrq
<1>2. CASE TakeIrq(x)      BY <1>2 DEF TakeIrq
<1>3. CASE Ldaxr(x)        BY <1>3 DEF Ldaxr
<1>4. CASE Stlxr(x)        BY <1>4 DEF Stlxr
<1>5. CASE StlxrFails(x)   BY <1>5 DEF StlxrFails
<1>6. CASE LoadOwner(x)    BY <1>6 DEF LoadOwner
<1>7. CASE Wfe(x)          BY <1>7 DEF Wfe
<1>8. CASE UnlockLoad(x)   BY <1>8 DEF UnlockLoad
<1>9. CASE UnlockStore(x)  BY <1>9 DEF UnlockStore, MonitorsAfterStore
<1>10. CASE Sev(x)         BY <1>10 DEF Sev
<1> QED
  BY <1>1, <1>2, <1>3, <1>4, <1>5, <1>6, <1>7, <1>8, <1>9, <1>10, Step(x)
     DEF Step

TicketInv == TicketsInSpan /\ TicketsDistinct /\ SpanCovered

(* A step that moves neither counter, and neither hands out nor retires a    *)
(* ticket, keeps the tickets as they are.                                    *)
LEMMA QuietTickets ==
    ASSUME IInv, owner' = owner, next' = next,
           \A y \in Contexts : /\ insn'[y] \in Queued <=> insn[y] \in Queued
                               /\ insn[y] \in Queued => ticket'[y] = ticket[y]
    PROVE  TicketInv'
<1>1. \A y \in Contexts : IsQueued(y)' <=> IsQueued(y)
  BY DEF IsQueued
<1>2. \A y \in Contexts : IsQueued(y) => Offset(y)' = Offset(y) /\ ticket'[y] = ticket[y]
  BY DEF IsQueued, Offset, Distance
<1>3. Span' = Span
  BY DEF Span, Distance
<1>4. TicketsInSpan'
  BY <1>1, <1>2, <1>3 DEF IInv, TicketsInSpan
<1>5. TicketsDistinct'
  BY <1>1, <1>2 DEF IInv, TicketsDistinct
<1>6. SpanCovered'
  BY <1>1, <1>2, <1>3 DEF IInv, SpanCovered
<1> QED
  BY <1>4, <1>5, <1>6 DEF TicketInv

(* A successful store-exclusive gives x the ticket just before the new next. *)
LEMMA StlxrTickets ==
    ASSUME IInv, NEW x \in Contexts, Stlxr(x)
    PROVE  TicketInv'
<1>1. /\ insn[x] = "stlxr" /\ ticket[x] = next /\ owner' = owner
      /\ next' = Successor(next) /\ ticket' = ticket
      /\ \A y \in Contexts : insn'[y] = IF y = x THEN "spin" ELSE insn[y]
  BY CpuType DEF Stlxr, IInv, ExclusiveLoad, TypeOK
<1>2. Span + 1 < TicketModulus
  BY <1>1, SpanBounded
<1>3. owner \in Tickets /\ next \in Tickets /\ ticket \in [Contexts -> Tickets]
  BY DEF IInv, TypeOK
<1>4. Span' = Span + 1
  BY <1>1, <1>2, <1>3, DistanceGrows DEF Span
<1>5. \A y \in Contexts : /\ IsQueued(y)' <=> IsQueued(y) \/ y = x
                          /\ Offset(y)' = Offset(y)
  BY <1>1 DEF IsQueued, Offset, Distance, Queued
<1>6. Offset(x) = Span
  BY <1>1 DEF Offset, Span
<1>7. Span \in Nat /\ \A y \in Contexts : Offset(y) \in Nat
  BY <1>3, DistanceType DEF Span, Offset, Tickets
<1>8. TicketsInSpan'
  BY <1>4, <1>5, <1>6, <1>7 DEF IInv, TicketsInSpan
<1>9. TicketsDistinct'
  <2>1. \A y \in Contexts : IsQueued(y) => ticket[y] # ticket[x]
    BY <1>6, <1>7 DEF IInv, TicketsInSpan, Offset
  <2> QED
    BY <1>1, <1>5, <2>1 DEF IInv, TicketsDistinct
<1>10. SpanCovered'
  <2> SUFFICES ASSUME NEW d \in 0 .. Span
               PROVE  \E y \in Contexts : (IsQueued(y) \/ y = x) /\ Offset(y) = d
    BY <1>4, <1>5, <1>7 DEF SpanCovered
  <2>1. CASE d = Span
    BY <1>6, <2>1
  <2>2. CASE d # Span
    BY <1>7, <2>2 DEF IInv, SpanCovered
  <2> QED
    BY <2>1, <2>2
<1> QED
  BY <1>8, <1>9, <1>10 DEF TicketInv

(* The store of spin_unlock retires the ticket at the front of the span. *)
LEMMA UnlockTickets ==
    ASSUME IInv, NEW x \in Contexts, UnlockStore(x)
    PROVE  TicketInv'
<1>1. /\ insn[x] = "store" /\ ticket[x] = owner
      /\ owner' = Successor(owner) /\ next' = next
      /\ \A y \in Contexts : insn'[y] = IF y = x THEN "sev" ELSE insn[y]
      /\ \A y \in Contexts : y # x => ticket'[y] = ticket[y]
  BY DEF UnlockStore, IInv, HolderServed, Holding, TypeOK
<1>2. owner \in Tickets /\ next \in Tickets /\ ticket \in [Contexts -> Tickets]
  BY DEF IInv, TypeOK
<1>3. Span \in Nat /\ \A y \in Contexts : Offset(y) \in Nat
  BY <1>2, DistanceType DEF Span, Offset, Tickets
<1>4. IsQueued(x) /\ Offset(x) = 0 /\ Span > 0
  <2>1. IsQueued(x) /\ Offset(x) = 0
    BY <1>1, <1>2, DistanceZero DEF IsQueued, Queued, Offset
  <2> QED
    BY <2>1, <1>3 DEF IInv, TicketsInSpan
<1>5. owner # next
  BY <1>2, <1>4, DistanceZero DEF Span
<1>6. Span' = Span - 1
  BY <1>1, <1>2, <1>5, DistanceShrinks DEF Span
<1>7. \A y \in Contexts : IsQueued(y)' <=> IsQueued(y) /\ y # x
  BY <1>1 DEF IsQueued, Queued
<1>8. ASSUME NEW y \in Contexts, IsQueued(y), y # x
      PROVE  Offset(y)' = Offset(y) - 1
  <2>1. ticket[y] # owner
    BY <1>1, <1>4, <1>8 DEF IInv, TicketsDistinct
  <2> QED
    BY <1>1, <1>2, <1>8, <2>1, DistanceShrinks DEF Offset
<1>9. TicketsInSpan'
  BY <1>3, <1>6, <1>7, <1>8 DEF IInv, TicketsInSpan
<1>10. TicketsDistinct'
  BY <1>1, <1>7 DEF IInv, TicketsDistinct
<1>11. SpanCovered'
  <2> SUFFICES ASSUME NEW d \in 0 .. Span - 2
               PROVE  \E y \in Contexts : IsQueued(y)' /\ Offset(y)' = d
    BY <1>3, <1>6 DEF SpanCovered
  <2>1. d + 1 \in 0 .. Span - 1 /\ d \in Nat
    BY <1>3
  <2>2. PICK y \in Contexts : IsQueued(y) /\ Offset(y) = d + 1
    BY <2>1 DEF IInv, SpanCovered
  <2>3. y # x
    BY <1>4, <2>1, <2>2
  <2> QED
    BY <1>7, <1>8, <2>1, <2>2, <2>3
<1> QED
  BY <1>9, <1>10, <1>11 DEF TicketInv

(* Every step keeps the outstanding tickets distinct and contiguous. *)
LEMMA StepTickets ==
    ASSUME IInv, NEW x \in Contexts, Step(x)
    PROVE  TicketInv'
<1> USE QuietTickets DEF Queued
<1>0. insn \in [Contexts -> Steps] /\ ticket \in [Contexts -> Tickets]
  BY DEF IInv, TypeOK
<1>1. CASE MaskIrq(x)      BY <1>0, <1>1 DEF MaskIrq
<1>2. CASE TakeIrq(x)      BY <1>0, <1>2 DEF TakeIrq
<1>3. CASE Ldaxr(x)        BY <1>0, <1>3 DEF Ldaxr
<1>4. CASE Stlxr(x)        BY <1>4, StlxrTickets
<1>5. CASE StlxrFails(x)   BY <1>0, <1>5 DEF StlxrFails
<1>6. CASE LoadOwner(x)    BY <1>0, <1>6 DEF LoadOwner
<1>7. CASE Wfe(x)          BY <1>0, <1>7 DEF Wfe
<1>8. CASE UnlockLoad(x)   BY <1>0, <1>8 DEF UnlockLoad
<1>9. CASE UnlockStore(x)  BY <1>9, UnlockTickets
<1>10. CASE Sev(x)         BY <1>0, <1>10 DEF Sev
<1> QED
  BY <1>1, <1>2, <1>3, <1>4, <1>5, <1>6, <1>7, <1>8, <1>9, <1>10, Step(x)
     DEF Step

(* Every step leaves whoever is inside holding the ticket being served: only *)
(* the holder itself moves owner, and it is alone.                           *)
LEMMA StepHolder ==
    ASSUME IInv, NEW x \in Contexts, Step(x)
    PROVE  HolderServed'
<1> USE DEF IInv, TypeOK, HolderServed, Holding
<1>1. CASE MaskIrq(x)      BY <1>1 DEF MaskIrq
<1>2. CASE TakeIrq(x)      BY <1>2 DEF TakeIrq
<1>3. CASE Ldaxr(x)        BY <1>3 DEF Ldaxr
<1>4. CASE Stlxr(x)        BY <1>4 DEF Stlxr
<1>5. CASE StlxrFails(x)   BY <1>5 DEF StlxrFails
<1>6. CASE LoadOwner(x)    BY <1>6 DEF LoadOwner
<1>7. CASE Wfe(x)          BY <1>7 DEF Wfe
<1>8. CASE UnlockLoad(x)   BY <1>8 DEF UnlockLoad
<1>9. CASE UnlockStore(x)
  <2>1. \A y \in Contexts : insn[y] \in Holding => y = x
    BY <1>9 DEF UnlockStore, TicketsDistinct, IsQueued, Queued
  <2> QED
    BY <1>9, <2>1 DEF UnlockStore
<1>10. CASE Sev(x)         BY <1>10 DEF Sev
<1> QED
  BY <1>1, <1>2, <1>3, <1>4, <1>5, <1>6, <1>7, <1>8, <1>9, <1>10, Step(x)
     DEF Step

(* The inductive invariant holds in every reachable state. *)
THEOREM Invariance == Spec => []IInv
<1>1. Init => IInv
  BY InitIInv
<1>2. IInv /\ [Next]_vars => IInv'
  <2> SUFFICES ASSUME IInv, [Next]_vars PROVE IInv'
    OBVIOUS
  <2>1. CASE Next
    <3>1. PICK x \in Contexts : Step(x)
      BY <2>1 DEF Next
    <3> QED
      BY <3>1, StepTypeOK, StepOnePerCpu, StepExclusiveLoad, StepTickets, StepHolder
         DEF IInv, TicketInv
  <2>2. CASE UNCHANGED vars
    BY <2>2
       DEF vars, IInv, TypeOK, MaskedInside, OnePerCpu, ExclusiveLoad,
           TicketsInSpan, TicketsDistinct, SpanCovered, HolderServed,
           IsQueued, Offset, Span, Distance
  <2> QED
    BY <2>1, <2>2
<1> QED
  BY <1>1, <1>2, PTL DEF Spec

(* Type correctness of the lock for every number of CPUs: in particular the  *)
(* counters stay u32 values across the wrap-around.                          *)
THEOREM TypeCorrect == Spec => []TypeOK
<1>1. IInv => TypeOK
  BY DEF IInv
<1> QED
  BY <1>1, Invariance, PTL

(* spin_lock_irqsave gives mutual exclusion between all CPUs and their       *)
(* interrupt handlers, for every number of CPUs and across wrap-around of    *)
(* the counters.                                                             *)
THEOREM MutualExclusionHolds == Spec => []MutualExclusion
<1>1. IInv => MutualExclusion
  BY DEF IInv, HolderServed, TicketsDistinct, MutualExclusion, IsQueued, Queued,
         Holding
<1> QED
  BY <1>1, Invariance, PTL

(* No interrupt handler ever queues behind the thread it interrupted.        *)
THEOREM NoSelfDeadlockHolds == Spec => []NoSelfDeadlock
<1>1. IInv => NoSelfDeadlock
  BY DEF IInv, OnePerCpu, NoSelfDeadlock
<1> QED
  BY <1>1, Invariance, PTL

-----------------------------------------------------------------------------
(* The refinement of FifoLock.                                               *)

(* The line of the refinement mapping: as many contexts as tickets are       *)
(* outstanding, the one at place i with the ticket i - 1 after owner.        *)
LineShape ==
    /\ Span \in Nat
    /\ TicketLine \in Seq(Contexts)
    /\ Len(TicketLine) = Span
    /\ \A i \in 1 .. Span : /\ TicketLine[i] \in Contexts
                            /\ IsQueued(TicketLine[i])
                            /\ Offset(TicketLine[i]) = i - 1

(* The inductive invariant gives the line its shape. *)
LEMMA LineHasShape == IInv => LineShape
<1> SUFFICES ASSUME IInv PROVE LineShape
  OBVIOUS
<1> DEFINE Waiters == {x \in Contexts : insn[x] \in Queued}
           Place(i) == CHOOSE x \in Waiters : Offset(x) = i - 1
           f == [i \in 1 .. Span |-> Place(i)]
<1>1. /\ owner \in Tickets /\ next \in Tickets /\ ticket \in [Contexts -> Tickets]
      /\ Span \in Nat /\ \A x \in Contexts : Offset(x) \in Nat
  <2>1. owner \in Tickets /\ next \in Tickets /\ ticket \in [Contexts -> Tickets]
    BY DEF IInv, TypeOK
  <2>2. Span \in Nat /\ \A x \in Contexts : Offset(x) \in Nat
    BY <2>1, DistanceType DEF Span, Offset, Tickets
  <2> QED
    BY <2>1, <2>2
<1>2. \A x : x \in Waiters <=> x \in Contexts /\ IsQueued(x)
  BY DEF IsQueued
<1> HIDE DEF Waiters
<1>3. ASSUME NEW i \in 1 .. Span
      PROVE  Place(i) \in Waiters /\ Offset(Place(i)) = i - 1
  <2>1. i - 1 \in 0 .. Span - 1
    BY <1>1
  <2>2. \E x \in Waiters : Offset(x) = i - 1
    BY <1>2, <2>1 DEF IInv, SpanCovered
  <2> QED
    BY <2>2
<1>4. \A x, y \in Waiters : Offset(x) = Offset(y) => x = y
  BY <1>1, <1>2, DistanceInjective DEF IInv, TicketsDistinct, Offset
<1>5. \A x \in Waiters : Offset(x) + 1 \in 1 .. Span
  BY <1>1, <1>2 DEF IInv, TicketsInSpan
<1> HIDE DEF Place
<1>6. f \in Bijection(1 .. Span, Waiters)
  <2>1. f \in [1 .. Span -> Waiters]
    BY <1>3
  <2>2. \A i, j \in 1 .. Span : f[i] = f[j] => i = j
    BY <1>1, <1>3
  <2>3. ASSUME NEW x \in Waiters PROVE \E i \in 1 .. Span : f[i] = x
    <3>1. Place(Offset(x) + 1) = x
      BY <1>1, <1>2, <1>3, <1>4, <1>5
    <3> QED
      BY <1>5, <3>1
  <2> HIDE DEF f
  <2> QED
    BY <2>1, <2>2, <2>3 DEF Bijection, Injection, Surjection, IsInjective
<1>7. Cardinality(Waiters) = Span
  <2>1. ExistsBijection(1 .. Span, Waiters)
    BY <1>6 DEF ExistsBijection
  <2> QED
    BY <1>1, <2>1, FS_CountingElements
<1>8. TicketLine = f
  BY <1>7 DEF TicketLine, Waiters, Place
<1>9. f \in Seq(Contexts) /\ Len(f) = Span /\ \A i \in 1 .. Span : f[i] = Place(i)
  <2>1. f \in [1 .. Span -> Contexts] /\ DOMAIN f = 1 .. Span
    BY <1>2, <1>3
  <2>2. f \in Seq(Contexts)
    BY <1>1, <2>1, SeqDef
  <2>3. Len(f) = Span
    BY <1>1, <2>1, <2>2, LenProperties
  <2> QED
    BY <2>2, <2>3
<1> HIDE DEF f
<1> QED
  BY <1>1, <1>2, <1>3, <1>8, <1>9 DEF LineShape

(* The same after a step. *)
LEMMA LineKeepsShape == IInv' => LineShape'
BY LineHasShape, PTL

(* A context is not the nobody of the mapping. *)
LEMMA ContextIsPair == \A x \in Contexts : x # <<>>
BY DEF Contexts

(* Whoever is inside is the holder; with nobody inside, the holder is nobody. *)
LEMMA HolderIs ==
    IInv => /\ \A x \in Contexts : insn[x] \in Holding => Holder = x
            /\ (\A x \in Contexts : insn[x] \notin Holding) => Holder = <<>>
<1> SUFFICES ASSUME IInv
             PROVE  /\ \A x \in Contexts : insn[x] \in Holding => Holder = x
                    /\ (\A x \in Contexts : insn[x] \notin Holding) => Holder = <<>>
  OBVIOUS
<1>1. \A x, y \in Contexts : insn[x] \in Holding /\ insn[y] \in Holding => x = y
  BY DEF IInv, HolderServed, TicketsDistinct, IsQueued, Queued, Holding
<1> QED
  BY <1>1 DEF Holder

(* The same after a step. *)
LEMMA HolderStays ==
    IInv' => /\ \A x \in Contexts : insn'[x] \in Holding => Holder' = x
             /\ (\A x \in Contexts : insn'[x] \notin Holding) => Holder' = <<>>
<1>1. (IInv => /\ \A x \in Contexts : insn[x] \in Holding => Holder = x
               /\ (\A x \in Contexts : insn[x] \notin Holding) => Holder = <<>>)'
  BY HolderIs, PTL
<1> QED
  BY <1>1

(* A step that neither hands out nor retires a ticket leaves the line alone. *)
LEMMA LineQuiet ==
    ASSUME IInv, IInv', owner' = owner, next' = next,
           \A y \in Contexts : /\ insn'[y] \in Queued <=> insn[y] \in Queued
                               /\ insn[y] \in Queued => ticket'[y] = ticket[y]
    PROVE  TicketLine' = TicketLine
<1>1. LineShape /\ LineShape'
  BY LineHasShape, LineKeepsShape
<1>2. Span' = Span
  BY DEF Span, Distance
<1>3. ASSUME NEW i \in 1 .. Span PROVE TicketLine'[i] = TicketLine[i]
  <2> DEFINE x == TicketLine[i]
             y == TicketLine'[i]
  <2>1. /\ x \in Contexts /\ insn[x] \in Queued /\ Offset(x) = i - 1
        /\ y \in Contexts /\ insn'[y] \in Queued /\ Distance(owner', ticket'[y]) = i - 1
    BY <1>1, <1>2 DEF LineShape, IsQueued, Offset
  <2> HIDE DEF x, y
  <2>2. insn[y] \in Queued /\ ticket'[y] = ticket[y] /\ Distance(owner, ticket[y]) = Distance(owner, ticket[x])
    BY <2>1 DEF Offset
  <2>3. ticket[x] = ticket[y]
    BY <2>1, <2>2, DistanceInjective DEF IInv, TypeOK
  <2>4. x = y
    BY <2>1, <2>2, <2>3 DEF IInv, TicketsDistinct, IsQueued
  <2> QED
    BY <2>4 DEF x, y
<1>4. /\ TicketLine \in Seq(Contexts) /\ TicketLine' \in Seq(Contexts)
      /\ Len(TicketLine) = Span /\ Len(TicketLine') = Span
  <2>1. TicketLine' \in Seq(Contexts) /\ Len(TicketLine') = Span'
    BY <1>1 DEF LineShape
  <2> QED
    BY <1>1, <1>2, <2>1 DEF LineShape
<1> QED
  BY <1>3, <1>4, SeqEqual

(* A step in which nobody goes inside or comes out leaves the holder alone. *)
LEMMA HolderQuiet ==
    ASSUME IInv, IInv', \A y \in Contexts : insn'[y] \in Holding <=> insn[y] \in Holding
    PROVE  Holder' = Holder
<1>1. CASE \E y \in Contexts : insn[y] \in Holding
  <2>1. PICK y \in Contexts : insn[y] \in Holding /\ insn'[y] \in Holding
    BY <1>1
  <2>2. Holder = y
    BY <2>1, HolderIs
  <2>3. Holder' = y
    BY <2>1, HolderStays
  <2> QED
    BY <2>2, <2>3
<1>2. CASE \A y \in Contexts : insn[y] \notin Holding
  <2>1. Holder = <<>>
    BY <1>2, HolderIs
  <2>2. Holder' = <<>>
    BY <1>2, HolderStays
  <2> QED
    BY <2>1, <2>2
<1> QED
  BY <1>1, <1>2

(* The store-exclusive is the moment at which a context joins the line. *)
LEMMA StlxrAsks ==
    ASSUME IInv, IInv', NEW x \in Contexts, Stlxr(x)
    PROVE  Fifo!Ask(x)
<1>1. /\ insn[x] = "stlxr" /\ ticket[x] = next /\ owner' = owner
      /\ next' = Successor(next) /\ ticket' = ticket
      /\ \A y \in Contexts : insn'[y] = IF y = x THEN "spin" ELSE insn[y]
  BY CpuType DEF Stlxr, IInv, ExclusiveLoad, TypeOK
<1>2. owner \in Tickets /\ next \in Tickets /\ ticket \in [Contexts -> Tickets]
  BY DEF IInv, TypeOK
<1>3. Span' = Span + 1
  <2>1. Span + 1 < TicketModulus
    BY <1>1, SpanBounded
  <2> QED
    BY <1>1, <1>2, <2>1, DistanceGrows DEF Span
<1>4. /\ Span \in Nat /\ TicketLine \in Seq(Contexts) /\ Len(TicketLine) = Span
      /\ \A i \in 1 .. Span : /\ TicketLine[i] \in Contexts /\ insn[TicketLine[i]] \in Queued
                              /\ Distance(owner, ticket[TicketLine[i]]) = i - 1
  BY LineHasShape DEF LineShape, IsQueued, Offset
<1>5. /\ TicketLine' \in Seq(Contexts) /\ Len(TicketLine') = Span + 1
      /\ \A i \in 1 .. Span + 1 : /\ TicketLine'[i] \in Contexts /\ insn'[TicketLine'[i]] \in Queued
                                  /\ Distance(owner, ticket[TicketLine'[i]]) = i - 1
  <2>1. LineShape'
    BY LineKeepsShape
  <2> QED
    BY <1>1, <1>3, <2>1 DEF LineShape, IsQueued, Offset
<1>6. \A i \in DOMAIN TicketLine : TicketLine[i] # x
  <2>1. DOMAIN TicketLine = 1 .. Span
    BY <1>4, LenProperties
  <2> QED
    BY <1>1, <1>4, <2>1 DEF Queued
<1>7. ASSUME NEW i \in 1 .. Span PROVE TicketLine'[i] = TicketLine[i]
  <2> DEFINE a == TicketLine[i]
             b == TicketLine'[i]
  <2>1. i \in 1 .. Span + 1 /\ i - 1 # Span
    BY <1>4
  <2>2. /\ a \in Contexts /\ insn[a] \in Queued /\ Distance(owner, ticket[a]) = i - 1
        /\ b \in Contexts /\ insn'[b] \in Queued /\ Distance(owner, ticket[b]) = i - 1
    BY <1>4, <1>5, <2>1
  <2> HIDE DEF a, b
  <2>3. ticket[a] = ticket[b]
    BY <1>2, <2>2, DistanceInjective
  <2>4. b # x
    BY <1>1, <2>1, <2>2 DEF Span
  <2>5. a = b
    BY <1>1, <2>2, <2>3, <2>4 DEF IInv, TicketsDistinct, IsQueued
  <2> QED
    BY <2>5 DEF a, b
<1>8. TicketLine'[Span + 1] = x
  <2> DEFINE b == TicketLine'[Span + 1]
  <2>1. Span + 1 \in 1 .. Span + 1 /\ (Span + 1) - 1 = Span
    BY <1>4
  <2>2. b \in Contexts /\ insn'[b] \in Queued /\ Distance(owner, ticket[b]) = Span
    BY <1>5, <2>1
  <2> HIDE DEF b
  <2>3. ASSUME b # x PROVE FALSE
    <3>1. IsQueued(b)
      BY <1>1, <2>2, <2>3 DEF IsQueued
    <3>2. Offset(b) < Span
      BY <2>2, <3>1 DEF IInv, TicketsInSpan
    <3> QED
      BY <1>4, <2>2, <3>2 DEF Offset
  <2> QED
    BY <2>3 DEF b
<1>9. TicketLine' = Append(TicketLine, x)
  <2>1. /\ Append(TicketLine, x) \in Seq(Contexts)
        /\ Len(Append(TicketLine, x)) = Span + 1
        /\ \A i \in 1 .. Span : Append(TicketLine, x)[i] = TicketLine[i]
        /\ Append(TicketLine, x)[Span + 1] = x
    BY <1>4, AppendProperties
  <2>2. \A i \in 1 .. Span + 1 : i \in 1 .. Span \/ i = Span + 1
    BY <1>4
  <2>3. \A i \in 1 .. Span + 1 : TicketLine'[i] = Append(TicketLine, x)[i]
    BY <1>7, <1>8, <2>1, <2>2
  <2> QED
    BY <1>5, <2>1, <2>3, SeqEqual
<1>10. Holder' = Holder
  BY <1>1, HolderQuiet DEF Holding
<1> QED
  BY <1>6, <1>9, <1>10 DEF Fifo!Ask

(* The store of spin_unlock is the release: the holder leaves the head of    *)
(* the line.                                                                 *)
LEMMA UnlockReleases ==
    ASSUME IInv, IInv', NEW x \in Contexts, UnlockStore(x)
    PROVE  Fifo!Release
<1>1. /\ insn[x] = "store" /\ ticket[x] = owner
      /\ owner' = Successor(owner) /\ next' = next
      /\ \A y \in Contexts : insn'[y] = IF y = x THEN "sev" ELSE insn[y]
      /\ \A y \in Contexts : y # x => ticket'[y] = ticket[y]
  BY DEF UnlockStore, IInv, HolderServed, Holding, TypeOK
<1>2. owner \in Tickets /\ next \in Tickets /\ ticket \in [Contexts -> Tickets]
  BY DEF IInv, TypeOK
<1>3. Span \in Nat /\ Offset(x) = 0 /\ IsQueued(x) /\ Span > 0
  <2>1. Span \in Nat
    BY LineHasShape DEF LineShape
  <2>2. IsQueued(x) /\ Offset(x) = 0
    BY <1>1, <1>2, DistanceZero DEF IsQueued, Queued, Offset
  <2> QED
    BY <2>1, <2>2 DEF IInv, TicketsInSpan
<1>4. Span' = Span - 1
  <2>1. owner # next
    BY <1>2, <1>3, DistanceZero DEF Span
  <2> QED
    BY <1>1, <1>2, <2>1, DistanceShrinks DEF Span
<1>5. /\ TicketLine \in Seq(Contexts) /\ Len(TicketLine) = Span
      /\ \A i \in 1 .. Span : /\ TicketLine[i] \in Contexts /\ insn[TicketLine[i]] \in Queued
                              /\ Distance(owner, ticket[TicketLine[i]]) = i - 1
  BY LineHasShape DEF LineShape, IsQueued, Offset
<1>6. /\ TicketLine' \in Seq(Contexts) /\ Len(TicketLine') = Span - 1
      /\ \A i \in 1 .. Span - 1 : /\ TicketLine'[i] \in Contexts /\ insn'[TicketLine'[i]] \in Queued
                                  /\ Distance(Successor(owner), ticket'[TicketLine'[i]]) = i - 1
  <2>1. LineShape'
    BY LineKeepsShape
  <2> QED
    BY <1>1, <1>4, <2>1 DEF LineShape, IsQueued, Offset
<1>7. ASSUME NEW i \in 1 .. Span - 1 PROVE TicketLine'[i] = TicketLine[i + 1]
  <2> DEFINE a == TicketLine[i + 1]
             b == TicketLine'[i]
  <2>1. i + 1 \in 1 .. Span /\ (i + 1) - 1 = i /\ i # 0
    BY <1>3
  <2>2. /\ a \in Contexts /\ insn[a] \in Queued /\ Distance(owner, ticket[a]) = i
        /\ b \in Contexts /\ insn'[b] \in Queued /\ Distance(Successor(owner), ticket'[b]) = i - 1
    BY <1>5, <1>6, <2>1
  <2> HIDE DEF a, b
  <2>3. b # x /\ insn[b] \in Queued /\ ticket'[b] = ticket[b]
    BY <1>1, <2>2 DEF Queued
  <2>4. ticket[b] # owner
    BY <1>1, <1>3, <2>2, <2>3 DEF IInv, TicketsDistinct, IsQueued
  <2>5. Distance(owner, ticket[b]) = i
    <3>1. Distance(Successor(owner), ticket[b]) = Distance(owner, ticket[b]) - 1
      BY <1>2, <2>2, <2>4, DistanceShrinks
    <3>2. Distance(owner, ticket[b]) \in Int
      BY <1>2, <2>2, DistanceType DEF Tickets
    <3> QED
      BY <2>2, <2>3, <3>1, <3>2
  <2>6. ticket[a] = ticket[b]
    BY <1>2, <2>2, <2>5, DistanceInjective
  <2>7. a = b
    BY <2>2, <2>3, <2>6 DEF IInv, TicketsDistinct, IsQueued
  <2> QED
    BY <2>7 DEF a, b
<1>8. TicketLine' = Tail(TicketLine)
  <2>1. TicketLine # <<>>
    BY <1>3, <1>5
  <2>2. /\ Tail(TicketLine) \in Seq(Contexts)
        /\ Len(Tail(TicketLine)) = Span - 1
        /\ \A i \in 1 .. Span - 1 : Tail(TicketLine)[i] = TicketLine[i + 1]
    BY <1>5, <2>1, HeadTailProperties
  <2> QED
    BY <1>6, <1>7, <2>2, SeqEqual
<1>9. Holder = x /\ x # <<>>
  BY <1>1, HolderIs, ContextIsPair DEF Holding
<1>10. Holder' = <<>>
  <2>1. \A y \in Contexts : insn[y] \in Holding => y = x
    BY <1>9, HolderIs
  <2>2. \A y \in Contexts : insn'[y] \notin Holding
    BY <1>1, <2>1 DEF Holding
  <2> QED
    BY <2>2, HolderStays
<1> QED
  BY <1>8, <1>9, <1>10 DEF Fifo!Release

(* Reading one's own ticket in owner is the grant: whoever reads it is at    *)
(* the head of the line and nobody is inside.                                *)
LEMMA LoadGrants ==
    ASSUME IInv, IInv', NEW x \in Contexts, LoadOwner(x), owner = ticket[x]
    PROVE  Fifo!Grant
<1>1. /\ insn[x] = "spin" /\ owner' = owner /\ next' = next /\ ticket' = ticket
      /\ \A y \in Contexts : insn'[y] = IF y = x THEN "critical" ELSE insn[y]
  BY DEF LoadOwner, IInv, TypeOK
<1>2. TicketLine' = TicketLine
  BY <1>1, LineQuiet DEF Queued
<1>3. Holder = <<>>
  <2>1. \A y \in Contexts : insn[y] \notin Holding
    <3> SUFFICES ASSUME NEW y \in Contexts, insn[y] \in Holding PROVE FALSE
      OBVIOUS
    <3>1. ticket[y] = ticket[x]
      BY DEF IInv, HolderServed
    <3>2. y = x
      BY <1>1, <3>1 DEF IInv, TicketsDistinct, IsQueued, Queued, Holding
    <3> QED
      BY <1>1, <3>2 DEF Holding
  <2> QED
    BY <2>1, HolderIs
<1>4. Holder' = x
  BY <1>1, HolderStays DEF Holding
<1>5. TicketLine # <<>> /\ Head(TicketLine) = x
  <2>1. owner \in Tickets /\ ticket \in [Contexts -> Tickets] /\ LineShape
    BY LineHasShape DEF IInv, TypeOK
  <2>2. IsQueued(x) /\ Offset(x) = 0
    BY <1>1, <2>1, DistanceZero DEF IsQueued, Queued, Offset
  <2>3. Span > 0 /\ Span \in Nat
    BY <2>1, <2>2 DEF IInv, TicketsInSpan, LineShape
  <2>4. 1 \in 1 .. Span /\ 1 - 1 = 0
    BY <2>3
  <2> DEFINE a == TicketLine[1]
  <2>5. a \in Contexts /\ IsQueued(a) /\ Offset(a) = 0
    BY <2>1, <2>4 DEF LineShape
  <2> HIDE DEF a
  <2>6. ticket[a] = ticket[x]
    BY <2>1, <2>2, <2>5, DistanceInjective DEF Offset
  <2>7. a = x
    BY <2>2, <2>5, <2>6 DEF IInv, TicketsDistinct
  <2>8. TicketLine \in Seq(Contexts) /\ TicketLine # <<>>
    BY <2>1, <2>3 DEF LineShape
  <2> QED
    BY <2>7, <2>8 DEF a
<1> QED
  BY <1>2, <1>3, <1>4, <1>5 DEF Fifo!Grant

(* Every step of the lock is a step of FifoLock or leaves it alone. *)
LEMMA StepImplements ==
    ASSUME IInv, IInv', NEW x \in Contexts, Step(x)
    PROVE  [Fifo!FifoNext]_<<TicketLine, Holder>>
<1> DEFINE Alone == TicketLine' = TicketLine /\ Holder' = Holder
<1>0. insn \in [Contexts -> Steps] /\ ticket \in [Contexts -> Tickets]
  BY DEF IInv, TypeOK
<1>a. ASSUME owner' = owner, next' = next,
             \A y \in Contexts : /\ insn'[y] \in Queued <=> insn[y] \in Queued
                                 /\ insn[y] \in Queued => ticket'[y] = ticket[y]
                                 /\ insn'[y] \in Holding <=> insn[y] \in Holding
      PROVE  Alone
  BY <1>a, LineQuiet, HolderQuiet
<1>b. Alone => [Fifo!FifoNext]_<<TicketLine, Holder>>
  OBVIOUS
<1> HIDE DEF Alone
<1>1. CASE MaskIrq(x)      BY <1>0, <1>a, <1>b, <1>1 DEF MaskIrq, Queued, Holding
<1>2. CASE TakeIrq(x)      BY <1>0, <1>a, <1>b, <1>2 DEF TakeIrq, Queued, Holding
<1>3. CASE Ldaxr(x)        BY <1>0, <1>a, <1>b, <1>3 DEF Ldaxr, Queued, Holding
<1>4. CASE Stlxr(x)        BY <1>4, StlxrAsks DEF Fifo!FifoNext
<1>5. CASE StlxrFails(x)   BY <1>0, <1>a, <1>b, <1>5 DEF StlxrFails, Queued, Holding
<1>6. CASE LoadOwner(x)
  <2>1. CASE owner = ticket[x]
    BY <1>6, <2>1, LoadGrants DEF Fifo!FifoNext
  <2>2. CASE owner # ticket[x]
    <3>1. Alone
      BY <1>0, <1>a, <1>6, <2>2 DEF LoadOwner, Queued, Holding
    <3> QED
      BY <1>b, <3>1
  <2> QED
    BY <2>1, <2>2
<1>7. CASE Wfe(x)          BY <1>0, <1>a, <1>b, <1>7 DEF Wfe, Queued, Holding
<1>8. CASE UnlockLoad(x)   BY <1>0, <1>a, <1>b, <1>8 DEF UnlockLoad, Queued, Holding
<1>9. CASE UnlockStore(x)  BY <1>9, UnlockReleases DEF Fifo!FifoNext
<1>10. CASE Sev(x)         BY <1>0, <1>a, <1>b, <1>10 DEF Sev, Queued, Holding
<1> QED
  BY <1>1, <1>2, <1>3, <1>4, <1>5, <1>6, <1>7, <1>8, <1>9, <1>10, Step(x)
     DEF Step

(* The lock implements FifoLock: contexts are granted it one at a time, in   *)
(* the order of their store-exclusives, for every number of CPUs and across  *)
(* the wrap-around of the counters.                                          *)
THEOREM ImplementsFifo == Spec => FairFifo
<1>1. Init => Fifo!FifoInit
  <2> SUFFICES ASSUME Init PROVE TicketLine = <<>> /\ Holder = <<>>
    BY DEF Fifo!FifoInit
  <2>1. IInv
    BY InitIInv
  <2>2. Span = 0
    BY DEF Init, Span, Distance
  <2>3. TicketLine \in Seq(Contexts) /\ Len(TicketLine) = 0
    BY <2>1, <2>2, LineHasShape DEF LineShape
  <2>4. Holder = <<>>
    BY <2>1, HolderIs DEF Init, Holding
  <2> QED
    BY <2>3, <2>4
<1>2. IInv /\ IInv' /\ [Next]_vars => [Fifo!FifoNext]_Fifo!fifoVars
  <2> SUFFICES ASSUME IInv, IInv', [Next]_vars PROVE [Fifo!FifoNext]_<<TicketLine, Holder>>
    BY DEF Fifo!fifoVars
  <2>1. CASE Next
    BY <2>1, StepImplements DEF Next
  <2>2. CASE UNCHANGED vars
    BY <2>2, LineQuiet, HolderQuiet DEF vars
  <2> QED
    BY <2>1, <2>2
<1> QED
  BY <1>1, <1>2, Invariance, PTL DEF Spec, FairFifo, Fifo!FifoSpec

-----------------------------------------------------------------------------
(* Wait queues and futexes.  The properties are claimed for one CPU: with    *)
(* two, a slot can be given up and taken again between the check of the word *)
(* and the wait (run futex_smp).                                             *)

OneTaskCpu == \E c \in TaskCPUs : TaskCPUs = {c}
TaskCpu == CHOOSE c \in TaskCPUs : TRUE
Current == on[TaskCpu]

Places == {"user", "recheck", "wait", "schedule", "waited", "wakeloop", "wakeone", "wakedone"}
Waking == {"wakeloop", "wakeone", "wakedone"}
Links == Entries \cup {Nil}

Entry == [task : Tasks, left : Int, next : Links, in_use : BOOLEAN, owner : Queues \cup {NoQueue}]
Frame == [slot : Queues \cup {NoQueue}, addr : Addrs \cup {None}, expected : Values \cup {0},
          ticks : Nat \cup {NoTimeout}, count : Counts \cup {0}, woken : Int, owed : SUBSET Tasks]

PoolTyped ==
    /\ pool \in [Entries -> Entry] /\ head \in [Queues -> Links]
    /\ \A i \in Entries : ~pool[i].in_use => pool[i].next = Nil

FutexTyped ==
    /\ state \in [Tasks -> TaskStates]
    /\ PoolTyped
    /\ on \in [TaskCPUs -> Tasks \cup {None}]
    /\ pc \in [Tasks -> Places]
    /\ frame \in [Tasks -> Frame]
    /\ ftable \in [Slots -> [addr : Addrs \cup {None}, active : BOOLEAN]]

\* Only the current task is inside a call; the others are between calls, or have called
\* schedule() from a wait.
OnlyCurrentInside ==
    \A t \in Tasks :
        /\ state[t] = "RUNNING" => Current = t
        /\ Current = t /\ pc[t] # "schedule" => state[t] = "RUNNING"
        /\ Current # t => pc[t] \in {"user", "waited"}
        /\ pc[t] = "user" => frame[t] = NoFrame
        /\ pc[t] = "schedule" => frame[t] = NoFrame \/ frame[t].slot \in Queues
        /\ pc[t] \notin {"user", "schedule"} => frame[t].slot \in Queues

\* A task is BLOCKED as long as it has an entry, in the queue it waits on.
OneEntryEach ==
    /\ \A t \in Tasks : state[t] = "BLOCKED" =>
          /\ pc[t] \in {"schedule", "waited"} /\ frame[t].slot \in Queues
          /\ \E i \in Entries : pool[i].in_use /\ pool[i].task = t
    /\ \A i \in Entries : pool[i].in_use =>
          /\ state[pool[i].task] = "BLOCKED"
          /\ pool[i].owner = frame[pool[i].task].slot
    /\ \A i, j \in Entries :
          pool[i].in_use /\ pool[j].in_use /\ pool[i].task = pool[j].task => i = j

\* The slot a task relies on is the active slot of its address.
UsesSlot(t) ==
    frame[t].slot \in Slots /\ (pc[t] \in {"recheck", "wait"} \cup Waking \/ state[t] = "BLOCKED")
SlotsKept ==
    /\ \A t \in Tasks : frame[t].slot \in Slots <=> frame[t].addr # None
    /\ \A t \in Tasks : pc[t] \in Waking => frame[t].slot \in Slots
    /\ \A t \in Tasks : UsesSlot(t) =>
          ftable[frame[t].slot] = [addr |-> frame[t].addr, active |-> TRUE]
    /\ \A r, s \in Slots :
          ftable[r].active /\ ftable[s].active /\ ftable[r].addr = ftable[s].addr => r = s

\* Whoever a wake still owes something is blocked on its address.
OwedWait ==
    \A t \in Tasks :
        /\ pc[t] \notin Waking => frame[t].owed = {}
        /\ \A u \in frame[t].owed : state[u] = "BLOCKED" /\ frame[u].addr = frame[t].addr

\* The links of p lead from first through the entries of E in the order of rank.
Linked(p, first, E, rank) ==
    /\ first \in E \cup {Nil}
    /\ first = Nil => E = {}
    /\ first # Nil => \A j \in E : rank[first] <= rank[j]
    /\ \A i \in E :
          /\ p[i].next \in E \cup {Nil}
          /\ p[i].next = Nil => \A j \in E : rank[j] <= rank[i]
          /\ p[i].next # Nil => /\ rank[i] < rank[p[i].next]
                                /\ \A j \in E : rank[j] <= rank[i] \/ rank[p[i].next] <= rank[j]
    /\ \A i, j \in E : rank[i] = rank[j] => i = j

Members(q) == {i \in Entries : pool[i].in_use /\ pool[i].owner = q}
Ordered(rank) == \A q \in Queues : Linked(pool, head[q], Members(q), rank)
InLists == \E top \in Nat : \E rank \in [Entries -> 0 .. top] : Ordered(rank)

FutexInv ==
    /\ FutexTyped
    /\ OnlyCurrentInside
    /\ OneEntryEach
    /\ SlotsKept
    /\ OwedWait
    /\ CheckAndBlockAtomic
    /\ InLists

-----------------------------------------------------------------------------
(* Linked lists.                                                             *)

(* A nonempty set of naturals has a least element. *)
LEMMA LeastNatural ==
    ASSUME NEW S, S \subseteq Nat, S # {}
    PROVE  \E i \in S : \A j \in S : i <= j
<1>1. PICK i \in S : \A j \in S : ~ (<<j, i>> \in OpToRel(<, Nat))
  BY NatLessThanWellFounded, WFMin
<1>2. \A j \in S : ~ (j < i)
  BY <1>1 DEF OpToRel
<1> QED
  BY <1>2

(* Entries are numbers, and Nil is none of them. *)
LEMMA EntryFacts == Entries \subseteq Nat /\ Nil \notin Entries
  BY PoolAssumption DEF Entries, Nil

(* Some member of a set of entries comes first, ... *)
LEMMA FirstByRank ==
    ASSUME NEW top \in Nat, NEW rank \in [Entries -> 0 .. top], NEW S \in SUBSET Entries, S # {}
    PROVE  \E i \in S : \A j \in S : rank[i] <= rank[j]
<1> DEFINE R == {rank[i] : i \in S}
<1>1. R \subseteq Nat /\ R # {}
  OBVIOUS
<1>2. PICK n \in R : \A k \in R : n <= k
  <2> HIDE DEF R
  <2> QED
    BY <1>1, LeastNatural
<1>3. PICK i \in S : n = rank[i]
  BY <1>2
<1>4. ASSUME NEW j \in S PROVE n <= rank[j]
  <2>1. rank[j] \in R
    OBVIOUS
  <2> HIDE DEF R
  <2> QED
    BY <1>2, <2>1
<1> QED
  BY <1>3, <1>4

(* ... and some last. *)
LEMMA LastByRank ==
    ASSUME NEW top \in Nat, NEW rank \in [Entries -> 0 .. top], NEW S \in SUBSET Entries, S # {}
    PROVE  \E i \in S : \A j \in S : rank[j] <= rank[i]
<1> DEFINE back == [i \in Entries |-> top - rank[i]]
<1>1. back \in [Entries -> 0 .. top]
  OBVIOUS
<1>2. PICK i \in S : \A j \in S : back[i] <= back[j]
  <2> HIDE DEF back
  <2> QED
    BY <1>1, FirstByRank
<1>3. ASSUME NEW j \in S PROVE rank[j] <= rank[i]
  <2>1. /\ back[i] = top - rank[i] /\ back[j] = top - rank[j]
        /\ rank[i] \in Int /\ rank[j] \in Int /\ back[i] <= back[j]
    BY <1>2
  <2> HIDE DEF back
  <2> QED
    BY <2>1
<1> QED
  BY <1>3

(* The part of a list from x on. *)
Rest(E, rank, x) == {j \in E : x # Nil /\ rank[x] <= rank[j]}

\* y is the first there that is not in gone, or Nil when all are.
Survivor(E, rank, x, gone, y) ==
    \/ y = Nil /\ Rest(E, rank, x) \subseteq gone
    \/ /\ y \in Rest(E, rank, x) \ gone
       /\ \A j \in Rest(E, rank, x) \ gone : rank[y] <= rank[j]

(* There is one. *)
LEMMA SurvivorExists ==
    ASSUME NEW top \in Nat, NEW rank \in [Entries -> 0 .. top], NEW E \in SUBSET Entries, NEW x,
           NEW gone
    PROVE  \E y \in E \cup {Nil} : Survivor(E, rank, x, gone, y)
<1> DEFINE S == Rest(E, rank, x) \ gone
<1>1. S \in SUBSET Entries /\ S \subseteq E
  BY DEF Rest
<1>2. CASE S = {}
  BY <1>2 DEF Survivor
<1>3. CASE S # {}
  <2>1. PICK y \in S : \A j \in S : rank[y] <= rank[j]
    <3> HIDE DEF S
    <3> QED
      BY <1>1, <1>3, FirstByRank
  <2> QED
    BY <1>1, <2>1 DEF Survivor
<1> QED
  BY <1>2, <1>3

(* Following the links from x past the entries of gone leads to the first    *)
(* that is not in gone.                                                      *)
LEMMA MetSurvivor ==
    ASSUME NEW top \in Nat, NEW rank \in [Entries -> 0 .. top], NEW E \in SUBSET Entries,
           NEW p, NEW first, Linked(p, first, E, rank),
           NEW x \in E \cup {Nil}, NEW gone \in SUBSET Entries, NEW y \in E \cup {Nil},
           Survivor(E, rank, x, gone, y)
    PROVE  y \in Met(p, x, gone)
<1> DEFINE R == Rest(E, rank, x)
<1>0. /\ Nil \notin Entries /\ R \subseteq E
      /\ \A i \in Entries : rank[i] \in Nat
  BY EntryFacts DEF Rest
<1>1. SUFFICES ASSUME NEW S \in SUBSET (Entries \cup {Nil}), x \in S,
                      \A k \in S \cap gone : p[k].next \in S, y \notin S
               PROVE  FALSE
  BY DEF Met
<1> DEFINE missed == {j \in R : j \notin S /\ (y # Nil => rank[j] <= rank[y])}
<1>2. x \in E /\ x \in R
  BY <1>1, <1>0 DEF Survivor, Rest
<1>3. CASE missed = {}
  <2>1. y = Nil /\ R \subseteq S /\ R \subseteq gone
    BY <1>0, <1>1, <1>3 DEF Survivor
  <2>2. PICK m \in R : \A j \in R : rank[j] <= rank[m]
    <3> HIDE DEF R
    <3> QED
      BY <1>0, <1>2, LastByRank
  <2>3. p[m].next \in S
    BY <1>1, <2>1
  <2>4. p[m].next = Nil
    <3>1. m \in E /\ rank[x] <= rank[m] /\ x # Nil
      BY DEF Rest
    <3>2. ASSUME p[m].next # Nil PROVE FALSE
      <4>1. p[m].next \in E /\ rank[m] < rank[p[m].next]
        BY <3>1, <3>2 DEF Linked
      <4>2. p[m].next \in R
        BY <1>0, <1>2, <3>1, <4>1 DEF Rest
      <4> QED
        BY <1>0, <3>1, <4>1, <4>2, <2>2
    <3> QED
      BY <3>2
  <2> QED
    BY <1>1, <2>1, <2>3, <2>4
<1>4. CASE missed # {}
  <2>1. PICK j \in missed : \A k \in missed : rank[j] <= rank[k]
    <3>1. missed \in SUBSET Entries
      BY <1>0
    <3> HIDE DEF missed
    <3> QED
      BY <1>4, <3>1, FirstByRank
  <2>2. j \in E /\ j \in Entries /\ rank[x] < rank[j]
    BY <1>0, <1>1, <1>2, <2>1 DEF Rest, Linked
  <2> DEFINE B == {k \in R : rank[k] < rank[j]}
  <2>3. PICK k \in B : \A l \in B : rank[l] <= rank[k]
    <3>1. B \in SUBSET Entries /\ B # {}
      BY <1>0, <1>2, <2>2
    <3> HIDE DEF B
    <3> QED
      BY <3>1, LastByRank
  <2>4. k \in R /\ k \in E /\ rank[k] < rank[j]
    BY <1>0, <2>3
  <2>5. k \notin missed
    BY <1>0, <2>1, <2>2, <2>4
  <2>6. y # Nil => rank[k] < rank[y] /\ rank[j] <= rank[y] /\ y \in E
    BY <1>0, <2>1, <2>2, <2>4
  <2>7. k \in S
    BY <1>0, <2>4, <2>5, <2>6
  <2>8. k \in gone
    BY <1>0, <2>4, <2>6 DEF Survivor
  <2>9. p[k].next \in S
    BY <1>1, <2>7, <2>8
  <2>10. /\ p[k].next \in E /\ rank[k] < rank[p[k].next] /\ rank[p[k].next] <= rank[j]
    BY <1>0, <2>2, <2>4 DEF Linked
  <2>11. p[k].next \in R
    BY <1>0, <1>2, <2>4, <2>10 DEF Rest
  <2>12. rank[p[k].next] = rank[j]
    BY <1>0, <2>2, <2>3, <2>4, <2>10, <2>11
  <2>13. p[k].next = j
    BY <2>2, <2>10, <2>12 DEF Linked
  <2> QED
    BY <2>1, <2>9, <2>13
<1> QED
  BY <1>3, <1>4

(* Nothing else that is not in gone is met. *)
LEMMA MetNothingElse ==
    ASSUME NEW top \in Nat, NEW rank \in [Entries -> 0 .. top], NEW E \in SUBSET Entries,
           NEW p, NEW first, Linked(p, first, E, rank),
           NEW x \in E \cup {Nil}, NEW gone \in SUBSET Entries, NEW y \in E \cup {Nil},
           Survivor(E, rank, x, gone, y), NEW z \in Met(p, x, gone), z \notin gone
    PROVE  z = y
<1> DEFINE R == Rest(E, rank, x)
           S == {j \in R \cup {Nil} : IF y = Nil THEN TRUE ELSE j # Nil /\ rank[j] <= rank[y]}
<1>0. /\ Nil \notin Entries /\ R \subseteq E
      /\ \A i \in Entries : rank[i] \in Nat
  BY EntryFacts DEF Rest
<1>1. x \in S
  <2>1. CASE y = Nil
    BY <2>1, <1>0 DEF Rest
  <2>2. CASE y # Nil
    BY <2>2, <1>0 DEF Rest, Survivor
  <2> QED
    BY <2>1, <2>2
<1>2. ASSUME NEW k \in S \cap gone PROVE p[k].next \in S
  <2>1. k \in R /\ k \in E /\ x # Nil /\ rank[x] <= rank[k] /\ x \in E
    BY <1>0, <1>2 DEF Rest
  <2>2. CASE y = Nil
    <3>1. CASE p[k].next = Nil
      BY <3>1, <2>2
    <3>2. CASE p[k].next # Nil
      <4>1. p[k].next \in E /\ rank[k] < rank[p[k].next]
        BY <2>1, <3>2 DEF Linked
      <4>2. p[k].next \in R
        BY <1>0, <2>1, <4>1 DEF Rest
      <4> QED
        BY <4>2, <2>2
    <3> QED
      BY <3>1, <3>2
  <2>3. CASE y # Nil
    <3>1. y \in E /\ rank[k] <= rank[y] /\ k # y
      BY <1>2, <2>3, <1>0 DEF Survivor
    <3>2. rank[k] < rank[y]
      BY <1>0, <2>1, <3>1 DEF Linked
    <3>3. /\ p[k].next \in E /\ rank[k] < rank[p[k].next] /\ rank[p[k].next] <= rank[y]
      BY <1>0, <2>1, <3>1, <3>2 DEF Linked
    <3>4. p[k].next \in R
      BY <1>0, <2>1, <3>3 DEF Rest
    <3> QED
      BY <1>0, <3>3, <3>4, <2>3
  <2> QED
    BY <2>2, <2>3
<1>3. S \in SUBSET (Entries \cup {Nil})
  BY <1>0
<1>4. z \in S
  <2> HIDE DEF S
  <2> QED
    BY <1>1, <1>2, <1>3 DEF Met
<1>5. CASE y = Nil
  BY <1>4, <1>5, <1>0 DEF Survivor
<1>6. CASE y # Nil
  <2>1. z \in R \ gone /\ y \in R \ gone /\ rank[z] <= rank[y] /\ rank[y] <= rank[z]
    BY <1>4, <1>6, <1>0 DEF Survivor
  <2> QED
    BY <1>0, <2>1 DEF Linked
<1> QED
  BY <1>5, <1>6

(* queue_remove leaves a link to the first entry that stays. *)
LEMMA UnlinkIs ==
    ASSUME NEW top \in Nat, NEW rank \in [Entries -> 0 .. top], NEW E \in SUBSET Entries,
           NEW first, Linked(pool, first, E, rank),
           NEW x \in E \cup {Nil}, NEW gone \in SUBSET Entries
    PROVE  /\ Unlink(x, gone) \in E \cup {Nil}
           /\ Survivor(E, rank, x, gone, Unlink(x, gone))
<1>1. PICK y \in E \cup {Nil} : Survivor(E, rank, x, gone, y)
  BY SurvivorExists
<1>2. y \in Met(pool, x, gone)
  BY <1>1, MetSurvivor
<1>3. y \notin gone
  BY <1>1, EntryFacts DEF Survivor
<1>4. \A z \in Met(pool, x, gone) : z \notin gone => z = y
  BY <1>1, MetNothingElse
<1>5. Unlink(x, gone) = y
  BY <1>2, <1>3, <1>4 DEF Unlink
<1> QED
  BY <1>1, <1>5

(* The chain from its head on is the whole list. *)
LEMMA ChainIs ==
    ASSUME NEW top \in Nat, NEW rank \in [Entries -> 0 .. top], NEW E \in SUBSET Entries,
           NEW p, NEW first, Linked(p, first, E, rank)
    PROVE  Chain(p, first) = E
<1>0. /\ Nil \notin Entries /\ first \in E \cup {Nil}
      /\ \A i \in Entries : rank[i] \in Nat
  BY EntryFacts DEF Linked
<1>1. ASSUME NEW j \in E PROVE j \in Chain(p, first)
  <2>1. Survivor(E, rank, first, Entries \ {j}, j)
    BY <1>0 DEF Survivor, Rest, Linked
  <2>2. j \in Met(p, first, Entries \ {j})
    <3>1. Entries \ {j} \in SUBSET Entries /\ j \in E \cup {Nil}
      OBVIOUS
    <3> QED
      BY <1>0, <2>1, <3>1, MetSurvivor
  <2>3. j \in Met(p, first, Entries)
    BY <2>2 DEF Met
  <2> QED
    BY <1>0, <2>3 DEF Chain
<1>2. ASSUME NEW j \in Chain(p, first) PROVE j \in E
  <2>1. E \cup {Nil} \in SUBSET (Entries \cup {Nil})
    OBVIOUS
  <2>2. \A k \in (E \cup {Nil}) \cap Entries : p[k].next \in E \cup {Nil}
    BY <1>0 DEF Linked
  <2>3. j \in Met(p, first, Entries) /\ j # Nil
    BY <1>2 DEF Chain
  <2> QED
    BY <1>0, <2>1, <2>2, <2>3 DEF Met
<1> QED
  BY <1>1, <1>2

(* A list does not depend on other entries. *)
LEMMA LinkedSame ==
    ASSUME NEW rank, NEW E, NEW p, NEW p2, NEW first, Linked(p, first, E, rank),
           \A i \in E : p2[i].next = p[i].next
    PROVE  Linked(p2, first, E, rank)
BY DEF Linked

(* queue_append: an entry behind the last of the list. *)
LEMMA LinkedAppend ==
    ASSUME NEW top \in Nat, NEW rank \in [Entries -> 0 .. top], NEW E \in SUBSET Entries,
           NEW p, NEW p2, NEW first, Linked(p, first, E, rank),
           NEW i \in Entries, i \notin E, p2[i].next = Nil,
           first # Nil => \E l \in E : /\ p[l].next = Nil /\ p2[l].next = i
                                       /\ \A j \in E : j # l => p2[j].next = p[j].next
    PROVE  Linked(p2, IF first = Nil THEN i ELSE first, E \cup {i}, [rank EXCEPT ![i] = top + 1])
<1> DEFINE rank2 == [rank EXCEPT ![i] = top + 1]
<1>0. /\ Nil \notin Entries /\ rank2[i] = top + 1
      /\ \A j \in E : rank2[j] = rank[j] /\ rank[j] \in Nat /\ rank[j] < top + 1
  BY EntryFacts
<1> HIDE DEF rank2
<1>1. CASE first = Nil
  <2>1. E = {}
    BY <1>1 DEF Linked
  <2> QED
    BY <1>0, <1>1, <2>1 DEF Linked, rank2
<1>2. CASE first # Nil
  <2>1. PICK l \in E : /\ p[l].next = Nil /\ p2[l].next = i
                       /\ \A j \in E : j # l => p2[j].next = p[j].next
    BY <1>2
  <2>2. \A j \in E : rank[j] <= rank[l]
    BY <2>1 DEF Linked
  <2>3. \A j, k \in E \cup {i} : rank2[j] = rank2[k] => j = k
    BY <1>0 DEF Linked
  <2>4. first \in E /\ \A j \in E \cup {i} : rank2[first] <= rank2[j]
    BY <1>0, <1>2 DEF Linked
  <2>5. ASSUME NEW j \in E \cup {i}
        PROVE  /\ p2[j].next \in E \cup {i} \cup {Nil}
               /\ p2[j].next = Nil => \A k \in E \cup {i} : rank2[k] <= rank2[j]
               /\ p2[j].next # Nil =>
                     /\ rank2[j] < rank2[p2[j].next]
                     /\ \A k \in E \cup {i} : rank2[k] <= rank2[j] \/ rank2[p2[j].next] <= rank2[k]
    <3>1. CASE j = i
      BY <1>0, <3>1
    <3>2. CASE j = l
      BY <1>0, <3>2, <2>1, <2>2
    <3>3. CASE j \in E /\ j # l
      <4>1. p[j].next # Nil
        BY <1>0, <2>1, <2>2, <3>3 DEF Linked
      <4>2. p[j].next \in E /\ p2[j].next = p[j].next
        BY <4>1, <3>3, <2>1 DEF Linked
      <4> QED
        BY <1>0, <3>3, <4>1, <4>2 DEF Linked
    <3> QED
      BY <3>1, <3>2, <3>3
  <2> QED
    BY <1>0, <1>2, <2>3, <2>4, <2>5 DEF Linked, rank2
<1> QED
  BY <1>1, <1>2

(* Taking the first entry out. *)
LEMMA LinkedTail ==
    ASSUME NEW top \in Nat, NEW rank \in [Entries -> 0 .. top], NEW E \in SUBSET Entries,
           NEW p, NEW p2, NEW first \in E, Linked(p, first, E, rank),
           \A i \in E \ {first} : p2[i].next = p[i].next
    PROVE  Linked(p2, p[first].next, E \ {first}, rank)
<1>0. /\ Nil \notin Entries /\ first # Nil
      /\ \A j \in E : rank[j] \in Nat
  BY EntryFacts
<1>1. \A j \in E \ {first} : rank[first] < rank[j]
  BY <1>0 DEF Linked
<1>2. /\ p[first].next \in (E \ {first}) \cup {Nil}
      /\ p[first].next = Nil => E \ {first} = {}
      /\ p[first].next # Nil => \A j \in E \ {first} : rank[p[first].next] <= rank[j]
  BY <1>0, <1>1 DEF Linked
<1>3. ASSUME NEW i \in E \ {first}
      PROVE  /\ p2[i].next \in (E \ {first}) \cup {Nil}
             /\ p2[i].next = Nil => \A j \in E \ {first} : rank[j] <= rank[i]
             /\ p2[i].next # Nil =>
                   /\ rank[i] < rank[p2[i].next]
                   /\ \A j \in E \ {first} : rank[j] <= rank[i] \/ rank[p2[i].next] <= rank[j]
  <2>1. p2[i].next = p[i].next
    OBVIOUS
  <2>2. p[i].next # first
    BY <1>0, <1>1 DEF Linked
  <2> QED
    BY <2>1, <2>2, <1>0 DEF Linked
<1> QED
  BY <1>2, <1>3 DEF Linked

(* Taking out all entries of gone, wherever they stand. *)
LEMMA LinkedRemove ==
    ASSUME NEW top \in Nat, NEW rank \in [Entries -> 0 .. top], NEW E \in SUBSET Entries,
           NEW p2, NEW first, Linked(pool, first, E, rank), NEW gone \in SUBSET Entries,
           \A i \in E \ gone : p2[i].next = Unlink(pool[i].next, gone)
    PROVE  Linked(p2, Unlink(first, gone), E \ gone, rank)
<1>0. /\ Nil \notin Entries
      /\ \A j \in E : rank[j] \in Nat
      /\ first \in E \cup {Nil}
      /\ \A i \in E : pool[i].next \in E \cup {Nil}
  BY EntryFacts DEF Linked
<1>1. \A x \in E \cup {Nil} : /\ Unlink(x, gone) \in E \cup {Nil}
                              /\ Survivor(E, rank, x, gone, Unlink(x, gone))
  BY UnlinkIs
<1>2. first # Nil => Rest(E, rank, first) = E
  BY <1>0 DEF Rest, Linked
<1>3. /\ Unlink(first, gone) \in (E \ gone) \cup {Nil}
      /\ Unlink(first, gone) = Nil => E \ gone = {}
      /\ Unlink(first, gone) # Nil => \A j \in E \ gone : rank[Unlink(first, gone)] <= rank[j]
  <2> DEFINE y == Unlink(first, gone)
  <2>1. y \in E \cup {Nil} /\ Survivor(E, rank, first, gone, y)
    BY <1>0, <1>1
  <2> HIDE DEF y
  <2>2. CASE first = Nil
    <3>1. E = {}
      BY <2>2 DEF Linked
    <3> QED
      BY <2>1, <3>1 DEF y
  <2>3. CASE first # Nil
    BY <2>1, <2>3, <1>2, <1>0 DEF Survivor, y
  <2> QED
    BY <2>2, <2>3
<1>4. ASSUME NEW i \in E \ gone
      PROVE  /\ p2[i].next \in (E \ gone) \cup {Nil}
             /\ p2[i].next = Nil => \A j \in E \ gone : rank[j] <= rank[i]
             /\ p2[i].next # Nil =>
                   /\ rank[i] < rank[p2[i].next]
                   /\ \A j \in E \ gone : rank[j] <= rank[i] \/ rank[p2[i].next] <= rank[j]
  <2> DEFINE x == pool[i].next
             y == Unlink(x, gone)
  <2>1. x \in E \cup {Nil} /\ y \in E \cup {Nil} /\ Survivor(E, rank, x, gone, y)
    BY <1>0, <1>1
  <2>2. p2[i].next = y
    OBVIOUS
  <2>3. \A j \in E : j \in Rest(E, rank, x) <=> rank[i] < rank[j]
    BY <1>0 DEF Rest, Linked
  <2>4. Rest(E, rank, x) \subseteq E
    BY DEF Rest
  <2> HIDE DEF x, y
  <2> QED
    BY <1>0, <2>1, <2>2, <2>3, <2>4 DEF Survivor
<1> QED
  BY <1>3, <1>4 DEF Linked

-----------------------------------------------------------------------------
(* The calls of waitqueue.c.                                                 *)

\* Entries of G are taken out of their lists and given back; nobody else's change hands.
Freed(G) ==
    /\ PoolTyped'
    /\ \A i \in Entries :
          /\ pool'[i].in_use <=> pool[i].in_use /\ i \notin G
          /\ pool'[i].in_use => pool'[i].task = pool[i].task /\ pool'[i].owner = pool[i].owner
    /\ InLists'

Sleepers(G) == {pool[i].task : i \in G}
Woke(G) == state' = [t \in Tasks |-> IF t \in Sleepers(G) THEN "READY" ELSE state[t]]

\* Entry n is taken by t, which blocks on q.
Added(n, t, q, left) ==
    /\ ~pool[n].in_use
    /\ PoolTyped'
    /\ pool'[n].in_use /\ pool'[n].task = t /\ pool'[n].owner = q /\ pool'[n].left = left
    /\ \A i \in Entries : i # n => /\ pool'[i].in_use = pool[i].in_use
                                   /\ pool'[i].task = pool[i].task
                                   /\ pool'[i].owner = pool[i].owner
                                   /\ pool'[i].left = pool[i].left
    /\ InLists'
    /\ state' = [state EXCEPT ![t] = "BLOCKED"]

(* A free entry. *)
LEMMA FreeEntryFacts == FreeEntry \in Entry /\ ~FreeEntry.in_use /\ FreeEntry.next = Nil
  BY MaxTasksAssumption DEF FreeEntry, Entry, Tasks, NoTimeout, Links

(* The lists of a state as a set of chains. *)
LEMMA ChainsAreMembers ==
    ASSUME InLists
    PROVE  \A q \in Queues : Chain(pool, head[q]) = Members(q)
<1>a. PICK top \in Nat : \E rank \in [Entries -> 0 .. top] : Ordered(rank)
  BY DEF InLists
<1>1. PICK rank \in [Entries -> 0 .. top] : Ordered(rank)
  BY <1>a
<1>2. ASSUME NEW q \in Queues PROVE Chain(pool, head[q]) = Members(q)
  <2>1. Linked(pool, head[q], Members(q), rank) /\ Members(q) \in SUBSET Entries
    BY <1>1 DEF Ordered, Members
  <2> QED
    BY <2>1, ChainIs
<1> QED
  BY <1>2

(* wq_wake_one frees the first entry of its queue. *)
Front(q) == IF head[q] = Nil THEN {} ELSE {head[q]}

LEMMA FrontFacts ==
    ASSUME InLists, NEW q \in Queues
    PROVE  /\ Front(q) \subseteq Members(q)
           /\ head[q] = Nil => Members(q) = {}
<1>a. PICK top \in Nat : \E rank \in [Entries -> 0 .. top] : Ordered(rank)
  BY DEF InLists
<1>1. PICK rank \in [Entries -> 0 .. top] : Ordered(rank)
  BY <1>a
<1> QED
  BY <1>1 DEF Ordered, Linked, Front

LEMMA WakeOneFrees ==
    ASSUME FutexTyped, InLists, OneEntryEach, NEW q \in Queues, WqWakeOne(q)
    PROVE  /\ Freed(Front(q)) /\ Woke(Front(q))
           /\ Woken(q) = Sleepers(Front(q))
           /\ \A i \in Entries : pool'[i].in_use => pool'[i].left = pool[i].left
<1>1. CASE head[q] = Nil
  BY <1>1 DEF WqWakeOne, Freed, Woke, Front, Sleepers, FutexTyped, PoolTyped, InLists, Ordered, Members, Woken
<1>2. CASE head[q] # Nil
  <2> DEFINE f == head[q]
  <2>1. /\ f \in Members(q) /\ f \in Entries /\ Front(q) = {f}
    BY <1>2, FrontFacts DEF Members, Front
  <2>2. /\ head' = [head EXCEPT ![q] = pool[f].next]
        /\ pool' = [pool EXCEPT ![f] = FreeEntry]
        /\ state' = [t \in Tasks |-> IF t \in Woken(q) THEN "READY" ELSE state[t]]
    BY <1>2 DEF WqWakeOne, PoolFree
  <2>3. Woken(q) = Sleepers(Front(q))
    <3>1. pool[f].task \in Tasks /\ state[pool[f].task] = "BLOCKED"
      BY <2>1 DEF OneEntryEach, Members, FutexTyped, PoolTyped, Entry
    <3> QED
      BY <1>2, <2>1, <3>1 DEF Woken, Sleepers
  <2>4. /\ pool'[f] = FreeEntry
        /\ \A i \in Entries : i # f => pool'[i] = pool[i]
        /\ pool' \in [Entries -> Entry]
    BY <2>1, <2>2, FreeEntryFacts DEF FutexTyped, PoolTyped
  <2>5. head' \in [Queues -> Links]
    BY <2>1, <2>2 DEF FutexTyped, PoolTyped, Entry
  <2>6. InLists'
    <3>a. PICK top \in Nat : \E rank \in [Entries -> 0 .. top] : Ordered(rank)
      BY DEF InLists
    <3>1. PICK rank \in [Entries -> 0 .. top] : Ordered(rank)
      BY <3>a
    <3>2. ASSUME NEW r \in Queues PROVE Linked(pool', head'[r], Members(r)', rank)
      <4>1. Linked(pool, head[r], Members(r), rank) /\ Members(r) \in SUBSET Entries
        BY <3>1 DEF Ordered, Members
      <4>2. Members(r)' = Members(r) \ {f}
        BY <2>4, FreeEntryFacts DEF Members
      <4>3. CASE r = q
        <5>1. head'[r] = pool[f].next
          BY <4>3, <2>2 DEF FutexTyped, PoolTyped
        <5>2. \A i \in Members(r) \ {f} : pool'[i].next = pool[i].next
          BY <2>4, <4>1
        <5>3. Linked(pool, f, Members(r), rank) /\ f \in Members(r)
          BY <4>1, <4>3, <2>1
        <5>4. Linked(pool', pool[f].next, Members(r) \ {f}, rank)
          <6> HIDE DEF f
          <6> QED
            BY <4>1, <5>2, <5>3, LinkedTail
        <5> QED
          BY <4>2, <5>1, <5>4
      <4>4. CASE r # q
        <5>1. f \notin Members(r)
          BY <4>4, <2>1 DEF Members
        <5>2. head'[r] = head[r] /\ Members(r)' = Members(r)
          BY <4>4, <4>2, <5>1, <2>2 DEF FutexTyped, PoolTyped
        <5>3. \A i \in Members(r) : pool'[i].next = pool[i].next
          BY <2>4, <4>1, <5>1
        <5> QED
          BY <4>1, <5>2, <5>3, LinkedSame
      <4> QED
        BY <4>3, <4>4
    <3> QED
      BY <3>1, <3>2 DEF InLists, Ordered
  <2>7. Freed(Front(q))
    BY <2>1, <2>4, <2>5, <2>6, FreeEntryFacts DEF Freed, Members, FutexTyped, PoolTyped
  <2> QED
    BY <2>2, <2>3, <2>4, <2>7, FreeEntryFacts DEF Woke
<1> QED
  BY <1>1, <1>2

(* wq_wake_all frees all of them. *)
LEMMA WakeAllFrees ==
    ASSUME FutexTyped, InLists, OneEntryEach, NEW q \in Queues, WqWakeAll(q)
    PROVE  /\ Freed(Members(q)) /\ Woke(Members(q))
           /\ \A i \in Entries : pool'[i].in_use => pool'[i].left = pool[i].left
<1>1. Chain(pool, head[q]) = Members(q)
  BY ChainsAreMembers
<1>2. /\ head' = [head EXCEPT ![q] = Nil]
      /\ pool' = [i \in Entries |-> IF i \in Members(q) THEN FreeEntry ELSE pool[i]]
      /\ state' = [t \in Tasks |->
                      IF state[t] = "BLOCKED" /\ \E i \in Members(q) : pool[i].task = t
                      THEN "READY" ELSE state[t]]
  BY <1>1 DEF WqWakeAll
<1>3. \A t \in Tasks : t \in Sleepers(Members(q)) <=>
                          state[t] = "BLOCKED" /\ \E i \in Members(q) : pool[i].task = t
  BY DEF Sleepers, Members, OneEntryEach
<1>4. Woke(Members(q))
  BY <1>2, <1>3 DEF Woke
<1>5. pool' \in [Entries -> Entry] /\ head' \in [Queues -> Links]
  BY <1>2, FreeEntryFacts DEF FutexTyped, PoolTyped, Links
<1>6. InLists'
  <2>a. PICK top \in Nat : \E rank \in [Entries -> 0 .. top] : Ordered(rank)
    BY DEF InLists
  <2>1. PICK rank \in [Entries -> 0 .. top] : Ordered(rank)
    BY <2>a
  <2>2. ASSUME NEW r \in Queues PROVE Linked(pool', head'[r], Members(r)', rank)
    <3>1. Linked(pool, head[r], Members(r), rank) /\ Members(r) \in SUBSET Entries
      BY <2>1 DEF Ordered, Members
    <3>2. CASE r = q
      <4>1. Members(r)' = {}
        BY <3>2, <1>2, FreeEntryFacts DEF Members
      <4>2. head'[r] = Nil
        BY <3>2, <1>2 DEF FutexTyped, PoolTyped
      <4> QED
        BY <4>1, <4>2 DEF Linked
    <3>3. CASE r # q
      <4>1. \A i \in Members(r) : pool'[i] = pool[i]
        BY <3>3, <1>2 DEF Members
      <4>2. Members(r)' = Members(r)
        BY <3>3, <1>2, FreeEntryFacts DEF Members
      <4>3. head'[r] = head[r]
        BY <3>3, <1>2 DEF FutexTyped, PoolTyped
      <4> QED
        BY <3>1, <4>1, <4>2, <4>3, LinkedSame
    <3> QED
      BY <3>2, <3>3
  <2> QED
    BY <2>1, <2>2 DEF InLists, Ordered
<1>7. Freed(Members(q))
  BY <1>2, <1>5, <1>6, FreeEntryFacts DEF Freed, FutexTyped, PoolTyped
<1> QED
  BY <1>2, <1>4, <1>7, FreeEntryFacts

(* wq_tick frees the entries whose time has come, in all queues at once. *)
LEMMA TickFrees ==
    ASSUME FutexTyped, InLists, OneEntryEach, WqTick
    PROVE  /\ Freed(Expiring) /\ Woke(Expiring)
           /\ TimedOut = Sleepers(Expiring)
           /\ \A i \in Entries : pool'[i].in_use =>
                 pool'[i].left = IF pool[i].left > 0 THEN pool[i].left - 1 ELSE pool[i].left
<1>1. Expiring \in SUBSET Entries
  BY DEF Expiring
<1>2. /\ \A i \in Expiring : pool'[i] = FreeEntry
      /\ \A i \in Entries \ Expiring :
            pool'[i] = [pool[i] EXCEPT !.next = Unlink(@, Expiring),
                                       !.left = IF @ > 0 THEN @ - 1 ELSE @]
      /\ DOMAIN pool' = Entries /\ pool' = [i \in Entries |-> pool'[i]]
      /\ head' = [q \in Queues |-> Unlink(head[q], Expiring)]
  BY DEF WqTick, Expiring
<1>a. PICK top \in Nat : \E rank \in [Entries -> 0 .. top] : Ordered(rank)
  BY DEF InLists
<1>3. PICK rank \in [Entries -> 0 .. top] : Ordered(rank)
  BY <1>a
<1>4. ASSUME NEW i \in Entries \ Expiring
      PROVE  /\ pool'[i].next = Unlink(pool[i].next, Expiring)
             /\ pool'[i].left = IF pool[i].left > 0 THEN pool[i].left - 1 ELSE pool[i].left
             /\ pool'[i].in_use = pool[i].in_use
             /\ pool'[i].task = pool[i].task
             /\ pool'[i].owner = pool[i].owner
             /\ pool'[i] = [pool[i] EXCEPT !.next = pool'[i].next, !.left = pool'[i].left]
             /\ pool'[i].left \in Int
  <2> DEFINE x == Unlink(pool[i].next, Expiring)
             l == IF pool[i].left > 0 THEN pool[i].left - 1 ELSE pool[i].left
  <2>1. pool'[i] = [pool[i] EXCEPT !.next = x, !.left = l]
    BY <1>2
  <2>2. pool[i] \in Entry /\ l \in Int
    BY DEF FutexTyped, PoolTyped, Entry
  <2>3. l = IF pool[i].left > 0 THEN pool[i].left - 1 ELSE pool[i].left
    OBVIOUS
  <2>4. x = Unlink(pool[i].next, Expiring)
    OBVIOUS
  <2> HIDE DEF x, l
  <2>5. /\ pool'[i].next = x /\ pool'[i].left = l
        /\ pool'[i].in_use = pool[i].in_use
        /\ pool'[i].task = pool[i].task
        /\ pool'[i].owner = pool[i].owner
    BY <2>1, <2>2 DEF Entry
  <2> QED
    BY <2>1, <2>2, <2>3, <2>4, <2>5
<1>5. TimedOut = Sleepers(Expiring)
  <2>1. \A i \in Expiring : pool[i].task \in Tasks /\ state[pool[i].task] = "BLOCKED"
    BY DEF Expiring, OneEntryEach, FutexTyped, PoolTyped, Entry
  <2> QED
    BY <2>1 DEF TimedOut, Sleepers
<1>6. Woke(Expiring)
  BY <1>5 DEF Woke, WqTick
<1>7. ASSUME NEW i \in Entries, ~pool[i].in_use
      PROVE  pool'[i].next = Nil /\ ~pool'[i].in_use
  <2>1. i \notin Expiring /\ pool[i].next = Nil
    BY <1>7 DEF Expiring, FutexTyped, PoolTyped
  <2>2. Linked(pool, Nil, {}, rank)
    BY DEF Linked
  <2>3. Unlink(Nil, Expiring) = Nil
    BY <1>1, <2>2, UnlinkIs
  <2> QED
    BY <1>4, <1>7, <2>1, <2>3
<1>8. ASSUME NEW q \in Queues
      PROVE  /\ Linked(pool', head'[q], Members(q)', rank)
             /\ head'[q] \in Links
             /\ \A i \in Members(q) \ Expiring : pool'[i].next \in Links
  <2>1. Linked(pool, head[q], Members(q), rank) /\ Members(q) \in SUBSET Entries
    BY <1>3 DEF Ordered, Members
  <2>2. Members(q)' = Members(q) \ Expiring
    BY ZenonT(60), <1>2, <1>4, FreeEntryFacts DEF Members
  <2>3. \A i \in Members(q) \ Expiring : pool'[i].next = Unlink(pool[i].next, Expiring)
    BY <1>4, <2>1
  <2>4. head'[q] = Unlink(head[q], Expiring)
    BY <1>2
  <2>5. Linked(pool', head'[q], Members(q) \ Expiring, rank)
    BY <1>1, <2>1, <2>3, <2>4, LinkedRemove
  <2> QED
    BY <2>1, <2>2, <2>5 DEF Linked, Links
<1>9. ASSUME NEW i \in Entries PROVE pool'[i] \in Entry
  <2>1. CASE i \in Expiring
    BY <2>1, <1>2, FreeEntryFacts
  <2>2. CASE i \notin Expiring
    <3>1. pool'[i].next \in Links
      <4>1. CASE ~pool[i].in_use
        BY <4>1, <1>7 DEF Links
      <4>2. CASE pool[i].in_use
        <5>1. pool[i].task \in Tasks /\ state[pool[i].task] = "BLOCKED"
          BY <4>2 DEF OneEntryEach, FutexTyped, PoolTyped, Entry
        <5>2. pool[i].owner \in Queues
          BY <4>2, <5>1 DEF OneEntryEach
        <5> QED
          BY <2>2, <4>2, <5>2, <1>8 DEF Members
      <4> QED
        BY <4>1, <4>2
    <3>2. pool[i] \in Entry
      BY DEF FutexTyped, PoolTyped
    <3> QED
      BY <2>2, <3>1, <3>2, <1>4 DEF Entry
  <2> QED
    BY <2>1, <2>2
<1>10. PoolTyped'
  <2>1. pool' \in [Entries -> Entry] /\ head' \in [Queues -> Links]
    BY <1>2, <1>8, <1>9
  <2>2. ASSUME NEW i \in Entries, ~pool'[i].in_use PROVE pool'[i].next = Nil
    BY <2>2, <1>2, <1>4, <1>7, FreeEntryFacts
  <2> QED
    BY <2>1, <2>2 DEF PoolTyped
<1>11. InLists'
  BY <1>8 DEF InLists, Ordered
<1>12. Freed(Expiring)
  BY ZenonT(60), <1>2, <1>4, <1>10, <1>11, FreeEntryFacts DEF Freed
<1> QED
  BY ZenonT(60), <1>2, <1>4, <1>5, <1>6, <1>12, FreeEntryFacts

(* pool_alloc returns a free entry. *)
LEMMA PoolAllocFacts ==
    ASSUME PoolAlloc # Nil
    PROVE  PoolAlloc \in Entries /\ ~pool[PoolAlloc].in_use
<1> DEFINE free == {i \in Entries : ~pool[i].in_use}
<1>1. free # {} /\ PoolAlloc = CHOOSE i \in free : \A j \in free : i <= j
  BY DEF PoolAlloc
<1>2. free \subseteq Nat
  BY EntryFacts
<1>3. PoolAlloc \in free
  <2> HIDE DEF free
  <2> QED
    BY <1>1, <1>2, LeastNatural
<1> QED
  BY <1>3

(* wq_wait puts a new entry behind the others of its queue. *)
LEMMA WaitAdds ==
    ASSUME FutexTyped, InLists, NEW t \in Tasks, NEW q \in Queues, NEW left \in Int,
           WqWait(t, q, left), PoolAlloc # Nil
    PROVE  \E n \in Entries : Added(n, t, q, left)
<1>1. PICK n \in Entries : n = PoolAlloc /\ ~pool[n].in_use
  BY PoolAllocFacts
<1> DEFINE e == [task |-> t, left |-> left, next |-> Nil, in_use |-> TRUE, owner |-> q]
           p == [pool EXCEPT ![n] = e]
<1>2. /\ pool' = QueueAppend(p, head, q, n).pool
      /\ head' = QueueAppend(p, head, q, n).head
      /\ state' = [state EXCEPT ![t] = "BLOCKED"]
  BY <1>1 DEF WqWait
<1>3. /\ e \in Entry /\ e.next = Nil /\ e.in_use /\ e.task = t /\ e.owner = q /\ e.left = left
      /\ [e EXCEPT !.next = Nil] = e
  <2>1. Nil \in Links /\ q \in Queues \cup {NoQueue}
    BY DEF Links
  <2>2. e \in Entry
    BY <2>1 DEF Entry
  <2>3. /\ e.next = Nil /\ e.in_use /\ e.task = t /\ e.owner = q
        /\ e.left = left
    <3>1. e.next = Nil
      OBVIOUS
    <3>2. e.in_use
      BY Zenon
    <3>3. e.task = t
      OBVIOUS
    <3>4. e.owner = q
      OBVIOUS
    <3>5. e.left = left
      OBVIOUS
    <3> QED
      BY <3>1, <3>2, <3>3, <3>4, <3>5
  <2>4. [e EXCEPT !.next = Nil] = e
    <3> HIDE DEF e
    <3> QED
      BY <2>2, <2>3 DEF Entry
  <2> QED
    BY <2>2, <2>3, <2>4
<1> HIDE DEF e
<1>4. /\ p \in [Entries -> Entry] /\ p[n] = e
      /\ \A i \in Entries : i # n => p[i] = pool[i]
  BY <1>1, <1>3 DEF FutexTyped, PoolTyped
<1> HIDE DEF p
<1>a. PICK top \in Nat : \E rank \in [Entries -> 0 .. top] : Ordered(rank)
  BY DEF InLists
<1>5. PICK rank \in [Entries -> 0 .. top] : Ordered(rank)
  BY <1>a
<1>6. \A r \in Queues : /\ Members(r) \in SUBSET Entries /\ n \notin Members(r)
                        /\ Linked(pool, head[r], Members(r), rank)
                        /\ Linked(p, head[r], Members(r), rank)
  <2>1. \A r \in Queues : Members(r) \in SUBSET Entries /\ n \notin Members(r)
    BY <1>1 DEF Members
  <2>2. \A r \in Queues : Linked(pool, head[r], Members(r), rank)
    BY <1>5 DEF Ordered
  <2>3. ASSUME NEW r \in Queues PROVE Linked(p, head[r], Members(r), rank)
    <3>1. \A i \in Members(r) : p[i].next = pool[i].next
      BY <1>4, <2>1
    <3> QED
      BY <2>2, <3>1, LinkedSame
  <2> QED
    BY <2>1, <2>2, <2>3
\* Where the new entry is linked from: the head, or the last of the list.
<1>7. /\ pool' \in [Entries -> Entry] /\ pool'[n] = e
      /\ head' = [head EXCEPT ![q] = IF @ = Nil THEN n ELSE @]
      /\ \A i \in Entries \ {n} :
            pool'[i] = pool[i] \/ (i \in Members(q) /\ pool'[i] = [pool[i] EXCEPT !.next = n])
      /\ head[q] # Nil =>
            \E l \in Members(q) : /\ p[l].next = Nil /\ pool'[l].next = n
                                  /\ \A j \in Members(q) : j # l => pool'[j].next = p[j].next
  <2>1. CASE head[q] = Nil
    <3>1. QueueAppend(p, head, q, n) = [pool |-> [p EXCEPT ![n].next = Nil],
                                        head |-> [head EXCEPT ![q] = n]]
      BY <2>1 DEF QueueAppend
    <3>2. pool' = [p EXCEPT ![n].next = Nil] /\ head' = [head EXCEPT ![q] = n]
      BY <1>2, <3>1
    <3>3. pool' = p
      BY <3>2, <1>1, <1>3, <1>4
    <3>4. head' = [head EXCEPT ![q] = IF @ = Nil THEN n ELSE @]
      BY <2>1, <3>2
    <3>5. \A i \in Entries \ {n} : pool'[i] = pool[i]
      BY <3>3, <1>4
    <3>6. pool' \in [Entries -> Entry] /\ pool'[n] = e
      BY <3>3, <1>4
    <3> QED
      BY <2>1, <3>4, <3>5, <3>6, Zenon
  <2>2. CASE head[q] # Nil
    <3> DEFINE last == CHOOSE j \in Chain(p, head[q]) : p[j].next = Nil
    <3>1. Chain(p, head[q]) = Members(q)
      BY <1>6, ChainIs
    <3>2. \E j \in Members(q) : p[j].next = Nil
      <4>1. Members(q) # {}
        BY <2>2, <1>6 DEF Linked
      <4>2. PICK j \in Members(q) : \A k \in Members(q) : rank[k] <= rank[j]
        BY <4>1, <1>6, LastByRank
      <4>3. \A k \in Members(q) : rank[k] \in Nat
        BY <1>6
      <4> QED
        BY <4>2, <4>3, <1>6 DEF Linked
    <3>3. last \in Members(q) /\ p[last].next = Nil
      BY <3>1, <3>2
    <3>4. QueueAppend(p, head, q, n) = [pool |-> [p EXCEPT ![n].next = Nil, ![last].next = n],
                                        head |-> head]
      BY <2>2 DEF QueueAppend
    <3> HIDE DEF last
    <3>5. pool' = [p EXCEPT ![n].next = Nil, ![last].next = n] /\ head' = head
      BY <1>2, <3>4
    <3>6. last \in Entries /\ last # n
      BY <3>3, <1>6
    <3>7. [p EXCEPT ![n].next = Nil] = p
      BY <1>1, <1>3, <1>4
    <3>8. pool' = [p EXCEPT ![last].next = n]
      BY <3>5, <3>7
    <3>9. /\ pool'[last] = [pool[last] EXCEPT !.next = n]
          /\ \A i \in Entries : i # last => pool'[i] = p[i]
          /\ pool' \in [Entries -> Entry]
      <4>1. p[last] \in Entry /\ [p[last] EXCEPT !.next = n] \in Entry
        BY <1>1, <1>4, <3>6 DEF Entry, Links
      <4> QED
        BY <3>8, <3>6, <1>4, <4>1
    <3>10. pool'[last].next = n
      BY <3>9, <3>6 DEF FutexTyped, PoolTyped, Entry
    <3>11. pool'[n] = e
      BY <3>9, <3>6, <1>1, <1>4
    <3>12. head' = [head EXCEPT ![q] = IF @ = Nil THEN n ELSE @]
      BY <2>2, <3>5 DEF FutexTyped, PoolTyped
    <3>13. \A j \in Members(q) : j # last => pool'[j].next = p[j].next
      BY <3>9, <1>6
    <3>14. \A i \in Entries \ {n} :
              pool'[i] = pool[i] \/ (i \in Members(q) /\ pool'[i] = [pool[i] EXCEPT !.next = n])
      <4>1. pool'[last] = [pool[last] EXCEPT !.next = n]
        BY <3>9
      <4>2. \A i \in Entries \ {n} : i # last => pool'[i] = pool[i]
        BY <3>9, <1>4
      <4> QED
        BY <3>3, <4>1, <4>2, Zenon
    <3> QED
      BY <3>3, <3>9, <3>10, <3>11, <3>12, <3>13, <3>14
  <2> QED
    BY <2>1, <2>2
<1>8. \A i \in Entries \ {n} : /\ pool'[i].in_use = pool[i].in_use
                               /\ pool'[i].task = pool[i].task
                               /\ pool'[i].owner = pool[i].owner
                               /\ pool'[i].left = pool[i].left
                               /\ i \notin Members(q) => pool'[i] = pool[i]
  BY <1>7 DEF FutexTyped, PoolTyped, Entry
<1>9. PoolTyped'
  <2>1. head' \in [Queues -> Links]
    BY <1>1, <1>7 DEF FutexTyped, PoolTyped, Links
  <2>2. \A i \in Entries : ~pool'[i].in_use => pool'[i].next = Nil
    BY <1>3, <1>7, <1>8 DEF FutexTyped, PoolTyped, Members
  <2> QED
    BY <1>7, <2>1, <2>2 DEF PoolTyped
<1>10. InLists'
  <2> DEFINE rank2 == [rank EXCEPT ![n] = top + 1]
  <2>1. rank2 \in [Entries -> 0 .. top + 1] /\ top + 1 \in Nat
    <3>1. top + 1 \in Nat /\ top + 1 \in 0 .. top + 1 /\ 0 .. top \subseteq 0 .. top + 1
      OBVIOUS
    <3>2. rank \in [Entries -> 0 .. top + 1]
      BY <3>1
    <3> QED
      BY <3>1, <3>2
  <2>2. \A r \in Queues : Members(r)' = IF r = q THEN Members(r) \cup {n} ELSE Members(r)
    BY <1>1, <1>3, <1>7, <1>8 DEF Members
  <2>3. Linked(pool', head'[q], Members(q)', rank2)
    <3>1. head'[q] = IF head[q] = Nil THEN n ELSE head[q]
      BY <1>7 DEF FutexTyped, PoolTyped
    <3>2. pool'[n].next = Nil
      BY <1>3, <1>7
    <3>3. Linked(pool', IF head[q] = Nil THEN n ELSE head[q], Members(q) \cup {n}, rank2)
      <4>1. /\ Linked(p, head[q], Members(q), rank) /\ Members(q) \in SUBSET Entries
            /\ n \notin Members(q)
        BY <1>6
      <4>2. head[q] # Nil =>
               \E l \in Members(q) : /\ p[l].next = Nil /\ pool'[l].next = n
                                     /\ \A j \in Members(q) : j # l => pool'[j].next = p[j].next
        BY <1>7
      <4> QED
        BY <3>2, <4>1, <4>2, LinkedAppend
    <3> QED
      BY <3>1, <3>3, <2>2
  <2>4. ASSUME NEW r \in Queues, r # q PROVE Linked(pool', head'[r], Members(r)', rank2)
    <3>1. Members(r)' = Members(r) /\ head'[r] = head[r]
      BY <2>2, <2>4, <1>7 DEF FutexTyped, PoolTyped
    <3>2. \A i \in Members(r) : pool'[i].next = pool[i].next
      BY <1>6, <1>8, <2>4 DEF Members
    <3>3. Linked(pool', head[r], Members(r), rank)
      BY <1>6, <3>2, LinkedSame
    <3>4. \A i \in Members(r) : rank2[i] = rank[i]
      BY <1>6
    <3>5. Linked(pool', head[r], Members(r), rank2)
      <4> HIDE DEF rank2
      <4> QED
        BY <3>3, <3>4, EntryFacts DEF Linked
    <3> QED
      BY <3>1, <3>5
  <2>5. Ordered(rank2)'
    <3> HIDE DEF rank2
    <3> QED
      BY <2>3, <2>4 DEF Ordered
  <2> QED
    BY <2>1, <2>5 DEF InLists
<1> QED
  BY <1>1, <1>2, <1>3, <1>7, <1>8, <1>9, <1>10 DEF Added
-----------------------------------------------------------------------------
(* schedule() takes a READY task, or none. *)
LEMMA NextReadyFacts ==
    ASSUME NEW st, NEW c \in Tasks \cup {None}
    PROVE  \/ NextReady(st, c) = None
           \/ /\ NextReady(st, c) \in Tasks
              /\ st[NextReady(st, c)] = "READY"
<1> DEFINE start == IF c >= 0 THEN c ELSE 0
           Slot(i) == (start + i) % MAX_TASKS
           hits == {i \in 1 .. MAX_TASKS : st[Slot(i)] = "READY"}
           least == CHOOSE i \in hits : \A j \in hits : i <= j
<1>1. CASE hits = {}
  BY <1>1 DEF NextReady
<1>2. CASE hits # {}
  <2>1. hits \subseteq Nat
    BY MaxTasksAssumption
  <2>2. least \in hits
    <3> HIDE DEF hits
    <3>1. \E i \in hits : \A j \in hits : i <= j
      BY <1>2, <2>1, LeastNatural
    <3> QED
      BY <3>1
  <2>3. least \in 1 .. MAX_TASKS /\ st[Slot(least)] = "READY"
    <3> HIDE DEF least, Slot
    <3> QED
      BY <2>2
  <2>4. start \in Nat
    BY MaxTasksAssumption DEF Tasks, None
  <2>5. Slot(least) \in Tasks
    <3> HIDE DEF least, start
    <3> QED
      BY <2>3, <2>4, MaxTasksAssumption DEF Tasks
  <2>6. NextReady(st, c) = Slot(least)
    BY <1>2 DEF NextReady
  <2> QED
    BY <2>3, <2>5, <2>6
<1> QED
  BY <1>1, <1>2

(* The task it takes is the one that runs, and nobody blocks or wakes. *)
LEMMA DispatchFacts ==
    ASSUME NEW st \in [Tasks -> TaskStates], NEW c \in Tasks \cup {None},
           \A t \in Tasks : st[t] = "RUNNING" => c = t
    PROVE  /\ NextReady(st, c) \in Tasks \cup {None}
           /\ Dispatch(st, c) \in [Tasks -> TaskStates]
           /\ \A t \in Tasks : /\ Dispatch(st, c)[t] = "RUNNING" <=> NextReady(st, c) = t
                               /\ Dispatch(st, c)[t] = "BLOCKED" <=> st[t] = "BLOCKED"
<1> DEFINE chosen == NextReady(st, c)
<1>1. chosen = None \/ (chosen \in Tasks /\ st[chosen] = "READY")
  BY NextReadyFacts
<1>2. Dispatch(st, c) =
         [t \in Tasks |-> IF t = chosen THEN "RUNNING"
                          ELSE IF t = c /\ st[t] = "RUNNING" THEN "READY" ELSE st[t]]
  BY DEF Dispatch, Preempt
<1> HIDE DEF chosen
<1>3. Dispatch(st, c) \in [Tasks -> TaskStates]
  BY <1>2 DEF TaskStates
<1>4. None \notin Tasks
  BY MaxTasksAssumption DEF None, Tasks
<1>5. ASSUME NEW t \in Tasks
      PROVE  /\ Dispatch(st, c)[t] = "RUNNING" <=> chosen = t
             /\ Dispatch(st, c)[t] = "BLOCKED" <=> st[t] = "BLOCKED"
  BY <1>1, <1>2, <1>4
<1> QED
  BY <1>1, <1>3, <1>5 DEF chosen

(* The one CPU executes the current task. *)
LEMMA CurrentFacts ==
    ASSUME OneTaskCpu
    PROVE  /\ TaskCpu \in TaskCPUs /\ TaskCPUs = {TaskCpu}
           /\ \A t \in Tasks : Executes(t) <=> Current = t
<1>1. TaskCpu \in TaskCPUs /\ TaskCPUs = {TaskCpu}
  BY DEF OneTaskCpu, TaskCpu
<1> QED
  BY <1>1 DEF Executes, Current

(* Queues and slots are numbered apart. *)
LEMMA QueueFacts ==
    /\ Slots \subseteq Queues /\ SleepQueue \in Queues \ Slots /\ EventQueue \in Queues \ Slots
    /\ NoQueue \notin Queues /\ NoQueue \notin Slots /\ Nil \notin Slots
    /\ None \notin Tasks
  BY QueuesAssumption, FutexMaxAssumption, MaxTasksAssumption
     DEF Slots, SleepQueue, EventQueue, NoQueue, Nil, None, Tasks

(* The locals of a task that is in no call. *)
LEMMA NoFrameFacts ==
    /\ NoFrame \in Frame
    /\ NoFrame.slot = NoQueue /\ NoFrame.addr = None /\ NoFrame.ticks = NoTimeout
    /\ NoFrame.owed = {}
  BY DEF NoFrame, Frame, NoQueue, None, NoTimeout

(* When nothing is queued or woken the lists stay what they are. *)
LEMMA PoolKept ==
    ASSUME FutexTyped, InLists, UNCHANGED <<pool, head>>
    PROVE  /\ PoolTyped' /\ InLists'
           /\ \A q : Members(q)' = Members(q)
<1>1. \A q : Members(q)' = Members(q)
  BY DEF Members
<1>2. PoolTyped'
  BY DEF FutexTyped, PoolTyped
<1>3. InLists'
  BY DEF InLists, Ordered, Members
<1> QED
  BY <1>1, <1>2, <1>3

(* A queue without entries has nobody blocked on it. *)
LEMMA EmptyQueue ==
    ASSUME FutexTyped, InLists, OneEntryEach, NEW q \in Queues, head[q] = Nil, NEW t \in Tasks,
           state[t] = "BLOCKED"
    PROVE  frame[t].slot # q
<1>1. PICK i \in Entries : pool[i].in_use /\ pool[i].task = t
  BY DEF OneEntryEach
<1>2. pool[i].owner = frame[t].slot
  BY <1>1 DEF OneEntryEach
<1>3. Members(q) = {}
  BY FrontFacts
<1> QED
  BY <1>1, <1>2, <1>3 DEF Members
-----------------------------------------------------------------------------
(* Steps of the current task that neither block it nor wake anybody.         *)

(* The entries stay with the tasks that are blocked. *)
LEMMA EntriesKept ==
    ASSUME FutexTyped, OneEntryEach, pool' = pool,
           \A t \in Tasks : state'[t] = "BLOCKED" <=> state[t] = "BLOCKED",
           \A t \in Tasks : state[t] = "BLOCKED" =>
               pc'[t] \in {"schedule", "waited"} /\ frame'[t].slot = frame[t].slot
    PROVE  OneEntryEach'
<1>1. \A i \in Entries : pool[i].task \in Tasks
  BY DEF FutexTyped, PoolTyped, Entry
<1>2. \A t \in Tasks : state'[t] = "BLOCKED" =>
          /\ pc'[t] \in {"schedule", "waited"} /\ frame'[t].slot \in Queues
          /\ \E i \in Entries : pool'[i].in_use /\ pool'[i].task = t
  BY DEF OneEntryEach
<1>3. \A i \in Entries : pool'[i].in_use =>
          /\ state'[pool'[i].task] = "BLOCKED"
          /\ pool'[i].owner = frame'[pool'[i].task].slot
  BY <1>1 DEF OneEntryEach
<1>4. \A i, j \in Entries :
          pool'[i].in_use /\ pool'[j].in_use /\ pool'[i].task = pool'[j].task => i = j
  BY DEF OneEntryEach
<1> QED
  BY <1>2, <1>3, <1>4 DEF OneEntryEach

\* What the next place and locals of the current task must satisfy.
FitsPlace(place, f) ==
    /\ place \in Places /\ f \in Frame
    /\ place \in {"user", "schedule"} => f = NoFrame
    /\ place \notin {"user", "schedule"} => f.slot \in Queues
    /\ place \in Waking => f.slot \in Slots
    /\ f.slot \in Slots <=> f.addr # None
    /\ place \notin Waking => f.owed = {}
    /\ \A u \in f.owed : state[u] = "BLOCKED" /\ frame[u].addr = f.addr
    /\ place = "wakedone" /\ f.woken < f.count => f.owed = {}

\* The slots of the tasks that rely on one are left alone, and the current task gets one.
SlotsFit(t, place, f) ==
    /\ ftable' \in [Slots -> [addr : Addrs \cup {None}, active : BOOLEAN]]
    /\ \A u \in Tasks : state[u] = "BLOCKED" /\ frame[u].slot \in Slots =>
          ftable'[frame[u].slot] = ftable[frame[u].slot]
    /\ place \in {"recheck", "wait"} \cup Waking /\ f.slot \in Slots =>
          ftable'[f.slot] = [addr |-> f.addr, active |-> TRUE]
    /\ \A r, s \in Slots :
          ftable'[r].active /\ ftable'[s].active /\ ftable'[r].addr = ftable'[s].addr => r = s

(* The invariant from there. *)
LEMMA CurrentStep ==
    ASSUME OneTaskCpu, FutexInv, NEW t \in Tasks, Current = t, pc[t] # "schedule",
           NEW place, NEW f, FitsPlace(place, f), SlotsFit(t, place, f),
           pc' = [pc EXCEPT ![t] = place], frame' = [frame EXCEPT ![t] = f],
           UNCHANGED <<state, pool, on>>, PoolTyped', InLists'
    PROVE  FutexInv'
<1>0. /\ FutexTyped /\ OnlyCurrentInside /\ OneEntryEach /\ SlotsKept /\ OwedWait
      /\ CheckAndBlockAtomic
  BY DEF FutexInv
<1>1. /\ pc'[t] = place /\ frame'[t] = f
      /\ \A u \in Tasks : u # t => pc'[u] = pc[u] /\ frame'[u] = frame[u]
      /\ pc' \in [Tasks -> Places] /\ frame' \in [Tasks -> Frame]
      /\ state' = state /\ on' = on /\ Current' = Current
  BY <1>0 DEF FutexTyped, FitsPlace, Current
<1>2. /\ state[t] = "RUNNING"
      /\ \A u \in Tasks : u # t => pc[u] \in {"user", "waited"}
  BY <1>0 DEF OnlyCurrentInside
<1>3. FutexTyped'
  BY <1>0, <1>1 DEF FutexTyped, SlotsFit
<1>4. OnlyCurrentInside'
  <2>1. ASSUME NEW u \in Tasks, u # t
        PROVE  /\ state'[u] = "RUNNING" => Current' = u
               /\ Current' = u /\ pc'[u] # "schedule" => state'[u] = "RUNNING"
               /\ Current' # u => pc'[u] \in {"user", "waited"}
               /\ pc'[u] = "user" => frame'[u] = NoFrame
               /\ pc'[u] = "schedule" => frame'[u] = NoFrame \/ frame'[u].slot \in Queues
               /\ pc'[u] \notin {"user", "schedule"} => frame'[u].slot \in Queues
    BY <1>0, <1>1, <2>1 DEF OnlyCurrentInside
  <2>2. /\ state'[t] = "RUNNING" => Current' = t
        /\ Current' = t /\ pc'[t] # "schedule" => state'[t] = "RUNNING"
        /\ Current' # t => pc'[t] \in {"user", "waited"}
        /\ pc'[t] = "user" => frame'[t] = NoFrame
        /\ pc'[t] = "schedule" => frame'[t] = NoFrame \/ frame'[t].slot \in Queues
        /\ pc'[t] \notin {"user", "schedule"} => frame'[t].slot \in Queues
    BY <1>1, <1>2 DEF FitsPlace
  <2> QED
    BY <2>1, <2>2 DEF OnlyCurrentInside
<1>5. OneEntryEach'
  <2>1. \A u \in Tasks : state[u] = "BLOCKED" => u # t
    BY <1>2
  <2>2. \A u \in Tasks : state[u] = "BLOCKED" => pc[u] \in {"schedule", "waited"}
    BY <1>0 DEF OneEntryEach
  <2> QED
    BY <1>0, <1>1, <2>1, <2>2, EntriesKept
<1>6. SlotsKept'
  <2>1. \A u \in Tasks : frame'[u].slot \in Slots <=> frame'[u].addr # None
    BY <1>0, <1>1 DEF SlotsKept, FitsPlace
  <2>2. \A u \in Tasks : pc'[u] \in Waking => frame'[u].slot \in Slots
    BY <1>1, <1>2 DEF Waking, FitsPlace
  <2>3. ASSUME NEW u \in Tasks, UsesSlot(u)'
        PROVE  ftable'[frame'[u].slot] = [addr |-> frame'[u].addr, active |-> TRUE]
    <3>1. CASE u = t
      BY <1>1, <1>2, <2>3, <3>1 DEF UsesSlot, SlotsFit
    <3>2. CASE u # t
      <4>1. state[u] = "BLOCKED" /\ frame[u].slot \in Slots
        BY <1>1, <1>2, <2>3, <3>2 DEF UsesSlot, Waking
      <4>2. UsesSlot(u)
        BY <4>1 DEF UsesSlot
      <4> QED
        BY <1>0, <1>1, <3>2, <4>1, <4>2 DEF SlotsKept, SlotsFit
    <3> QED
      BY <3>1, <3>2
  <2>4. \A r, s \in Slots :
          ftable'[r].active /\ ftable'[s].active /\ ftable'[r].addr = ftable'[s].addr => r = s
    BY DEF SlotsFit
  <2> QED
    BY <2>1, <2>2, <2>3, <2>4 DEF SlotsKept
<1>7. OwedWait'
  <2>1. ASSUME NEW u \in Tasks, u # t
        PROVE  frame'[u].owed = {}
    BY <1>0, <1>1, <1>2, <2>1 DEF OwedWait, Waking
  <2>2. pc'[t] \notin Waking => frame'[t].owed = {}
    BY <1>1 DEF FitsPlace
  <2>3. ASSUME NEW u \in frame'[t].owed
        PROVE  state'[u] = "BLOCKED" /\ frame'[u].addr = frame'[t].addr
    <3>1. u \in Tasks /\ state[u] = "BLOCKED" /\ frame[u].addr = f.addr
      BY <1>1, <2>3 DEF FitsPlace, Frame
    <3> QED
      BY <1>1, <1>2, <3>1
  <2> QED
    BY <2>1, <2>2, <2>3 DEF OwedWait
<1>8. CheckAndBlockAtomic'
  BY <1>0, <1>1 DEF CheckAndBlockAtomic, FitsPlace
<1> QED
  BY <1>3, <1>4, <1>5, <1>6, <1>7, <1>8 DEF FutexInv

(* A step that leaves the slots alone. *)
LEMMA SlotsAlone ==
    ASSUME FutexInv, ftable' = ftable, NEW t, NEW place, NEW f,
           place \in {"recheck", "wait"} \cup Waking /\ f.slot \in Slots =>
               ftable[f.slot] = [addr |-> f.addr, active |-> TRUE]
    PROVE  SlotsFit(t, place, f)
  BY DEF FutexInv, FutexTyped, SlotsKept, SlotsFit

(* maybe_free_slot gives up no slot that somebody is blocked on. *)
LEMMA MaybeFreeFits ==
    ASSUME FutexInv, NEW s \in Slots, MaybeFreeSlot(s), NEW t
    PROVE  SlotsFit(t, "user", NoFrame)
<1>0. FutexTyped /\ InLists /\ OneEntryEach /\ SlotsKept
  BY DEF FutexInv
<1>1. /\ "user" \notin {"recheck", "wait"} \cup Waking
      /\ s \in Queues
  BY QueueFacts DEF Waking
<1>2. CASE head[s] # Nil
  <2>1. ftable' = ftable
    BY <1>2 DEF MaybeFreeSlot
  <2> QED
    BY <1>1, <2>1, SlotsAlone
<1>3. CASE head[s] = Nil
  <2>1. ftable' = [ftable EXCEPT ![s] = [addr |-> None, active |-> FALSE]]
    BY <1>3 DEF MaybeFreeSlot
  <2>2. /\ ftable' \in [Slots -> [addr : Addrs \cup {None}, active : BOOLEAN]]
        /\ ~ftable'[s].active
        /\ \A r \in Slots : r # s => ftable'[r] = ftable[r]
    BY <2>1, <1>0 DEF FutexTyped
  <2>3. \A u \in Tasks : state[u] = "BLOCKED" => frame[u].slot # s
    BY <1>0, <1>1, <1>3, EmptyQueue
  <2>4. \A r, q \in Slots :
          ftable'[r].active /\ ftable'[q].active /\ ftable'[r].addr = ftable'[q].addr => r = q
    BY <1>0, <2>2 DEF SlotsKept
  <2> QED
    BY <1>1, <2>2, <2>3, <2>4 DEF SlotsFit
<1> QED
  BY <1>2, <1>3

(* find_slot finds the active slot of the address. *)
LEMMA FindSlotFacts ==
    ASSUME NEW a
    PROVE  /\ FindSlot(a) # Nil => /\ FindSlot(a) \in Slots
                                   /\ ftable[FindSlot(a)].active /\ ftable[FindSlot(a)].addr = a
           /\ FindSlot(a) = Nil => \A s \in Slots : ~(ftable[s].active /\ ftable[s].addr = a)
<1> DEFINE match == {s \in Slots : ftable[s].active /\ ftable[s].addr = a}
<1>1. CASE match = {}
  BY <1>1 DEF FindSlot
<1>2. CASE match # {}
  <2>1. match \subseteq Nat
    BY FutexMaxAssumption DEF Slots
  <2>2. \E s \in match : \A r \in match : s <= r
    <3> HIDE DEF match
    <3> QED
      BY <1>2, <2>1, LeastNatural
  <2>3. FindSlot(a) = CHOOSE s \in match : \A r \in match : s <= r
    BY <1>2 DEF FindSlot
  <2>4. FindSlot(a) \in match
    <3> HIDE DEF match
    <3> QED
      BY <2>2, <2>3
  <2> QED
    BY <2>4, QueueFacts
<1> QED
  BY <1>1, <1>2

(* The slot that find_slot would make is free. *)
LEMMA FreeSlotFacts ==
    FreeSlot # Nil => FreeSlot \in Slots /\ ~ftable[FreeSlot].active
<1> DEFINE free == {s \in Slots : ~ftable[s].active}
<1>1. CASE free = {}
  BY <1>1 DEF FreeSlot
<1>2. CASE free # {}
  <2>1. free \subseteq Nat
    BY FutexMaxAssumption DEF Slots
  <2>2. \E s \in free : \A r \in free : s <= r
    <3> HIDE DEF free
    <3> QED
      BY <1>2, <2>1, LeastNatural
  <2>3. FreeSlot = CHOOSE s \in free : \A r \in free : s <= r
    BY <1>2 DEF FreeSlot
  <2>4. FreeSlot \in free
    <3> HIDE DEF free
    <3> QED
      BY <2>2, <2>3
  <2> QED
    BY <2>4
<1> QED
  BY <1>1, <1>2

(* futex_wait: the slot it finds or makes becomes its own. *)
LEMMA FutexWaitKeeps ==
    ASSUME OneTaskCpu, FutexInv, NEW t \in Tasks, NEW a \in Addrs, NEW v \in Values,
           NEW n \in Timeouts \cup {NoTimeout}, FutexWait(t, a, v, n)
    PROVE  FutexInv'
<1> DEFINE s == IF FindSlot(a) # Nil THEN FindSlot(a) ELSE FreeSlot
           f == [NoFrame EXCEPT !.slot = s, !.addr = a, !.expected = v, !.ticks = n]
<1>0. FutexTyped /\ InLists /\ OneEntryEach /\ SlotsKept
  BY DEF FutexInv
<1>1. /\ Current = t /\ pc[t] = "user" /\ s # Nil
      /\ ftable' = [ftable EXCEPT ![s] = [addr |-> a, active |-> TRUE]]
      /\ head' = IF FindSlot(a) = Nil THEN [head EXCEPT ![s] = Nil] ELSE head
      /\ frame' = [frame EXCEPT ![t] = f]
      /\ pc' = [pc EXCEPT ![t] = "recheck"]
      /\ UNCHANGED <<state, pool, on>>
  BY CurrentFacts DEF FutexWait, At, Goto
<1>2. /\ s \in Slots /\ s \in Queues
      /\ FindSlot(a) # Nil => ftable[s].active /\ ftable[s].addr = a
      /\ FindSlot(a) = Nil => /\ ~ftable[s].active
                              /\ \A r \in Slots : ~(ftable[r].active /\ ftable[r].addr = a)
  BY <1>1, FindSlotFacts, FreeSlotFacts, QueueFacts
<1> HIDE DEF s
<1>3. f \in Frame /\ f.slot = s /\ f.addr = a /\ f.owed = {}
  <2>1. n \in Nat \cup {NoTimeout}
    BY CallsAssumption
  <2> QED
    BY <1>2, <2>1, NoFrameFacts DEF Frame
<1> HIDE DEF f
<1>4. a # None
  BY CallsAssumption
<1>5. FitsPlace("recheck", f)
  BY <1>2, <1>3, <1>4 DEF FitsPlace, Places, Waking
<1>6. /\ ftable' \in [Slots -> [addr : Addrs \cup {None}, active : BOOLEAN]]
      /\ ftable'[s] = [addr |-> a, active |-> TRUE]
      /\ \A r \in Slots : r # s => ftable'[r] = ftable[r]
  BY <1>0, <1>1, <1>2 DEF FutexTyped
<1>7. SlotsFit(t, "recheck", f)
  <2>1. ASSUME NEW u \in Tasks, state[u] = "BLOCKED", frame[u].slot \in Slots
        PROVE  ftable'[frame[u].slot] = ftable[frame[u].slot]
    <3>1. ftable[frame[u].slot] = [addr |-> frame[u].addr, active |-> TRUE]
      BY <1>0, <2>1 DEF SlotsKept, UsesSlot
    <3>2. CASE frame[u].slot # s
      BY <1>6, <2>1, <3>2
    <3>3. CASE frame[u].slot = s
      <4>1. ftable[s].active /\ ftable[s].addr = frame[u].addr
        BY <3>1, <3>3
      <4>2. frame[u].addr = a
        BY <1>2, <4>1
      <4> QED
        BY <1>6, <3>1, <3>3, <4>2
    <3> QED
      BY <3>2, <3>3
  <2>2. ASSUME NEW r \in Slots, NEW q \in Slots, ftable'[r].active, ftable'[q].active,
               ftable'[r].addr = ftable'[q].addr
        PROVE  r = q
    <3>1. ftable'[s].addr = a /\ ftable'[s].active
      BY <1>6
    <3>2. ASSUME NEW x \in Slots, ftable'[x].active, ftable'[x].addr = a PROVE x = s
      BY <1>0, <1>2, <1>6, <3>2 DEF SlotsKept
    <3>3. CASE r = s \/ q = s
      BY <2>2, <3>1, <3>2, <3>3
    <3>4. CASE r # s /\ q # s
      BY <1>0, <1>6, <2>2, <3>4 DEF SlotsKept
    <3> QED
      BY <3>3, <3>4
  <2>3. f.slot \in Slots => ftable'[f.slot] = [addr |-> f.addr, active |-> TRUE]
    BY <1>3, <1>6
  <2> QED
    BY <1>6, <2>1, <2>2, <2>3 DEF SlotsFit
<1>8. head' = head
  <2>1. CASE FindSlot(a) # Nil
    BY <1>1, <2>1
  <2>2. CASE FindSlot(a) = Nil
    <3>1. Members(s) = {}
      <4> SUFFICES ASSUME NEW i \in Members(s) PROVE FALSE
        OBVIOUS
      <4> DEFINE u == pool[i].task
      <4>1. u \in Tasks /\ state[u] = "BLOCKED" /\ frame[u].slot = s
        BY <1>0 DEF Members, OneEntryEach, FutexTyped, PoolTyped, Entry
      <4> HIDE DEF u
      <4>2. ftable[s] = [addr |-> frame[u].addr, active |-> TRUE]
        BY <1>0, <1>2, <4>1 DEF SlotsKept, UsesSlot
      <4> QED
        BY <1>2, <2>2, <4>2
    <3>2. head[s] = Nil
      BY <1>0, <1>2, <3>1, FrontFacts DEF Front
    <3> QED
      BY <1>0, <1>1, <1>2, <2>2, <3>2 DEF FutexTyped, PoolTyped
  <2> QED
    BY <2>1, <2>2
<1>9. PoolTyped' /\ InLists'
  BY <1>0, <1>1, <1>8, PoolKept
<1> QED
  BY <1>1, <1>5, <1>7, <1>9, CurrentStep

(* futex_wait, second part: back to the caller, or on to the wait. *)
LEMMA FutexRecheckKeeps ==
    ASSUME OneTaskCpu, FutexInv, NEW t \in Tasks, FutexRecheck(t)
    PROVE  FutexInv'
<1>0. FutexTyped /\ InLists /\ OnlyCurrentInside /\ SlotsKept /\ OwedWait
  BY DEF FutexInv
<1>1. /\ Current = t /\ pc[t] = "recheck"
      /\ UNCHANGED <<state, pool, head, on>>
  BY CurrentFacts DEF FutexRecheck, At, wqVars
<1>2. PoolTyped' /\ InLists'
  BY <1>0, <1>1, PoolKept
<1>3. frame[t] \in Frame
  BY <1>0 DEF FutexTyped
<1>4. CASE word[frame[t].addr] # frame[t].expected
  <2>1. /\ MaybeFreeSlot(frame[t].slot)
        /\ pc' = [pc EXCEPT ![t] = "user"] /\ frame' = [frame EXCEPT ![t] = NoFrame]
    BY <1>4 DEF FutexRecheck, Return
  <2>2. FitsPlace("user", NoFrame)
    BY NoFrameFacts, QueueFacts DEF FitsPlace, Places, Waking
  <2>3. CASE frame[t].slot \in Slots
    <3>1. SlotsFit(t, "user", NoFrame)
      BY <2>1, <2>3, MaybeFreeFits
    <3> QED
      BY <1>1, <1>2, <2>1, <2>2, <3>1, CurrentStep
  <2>4. CASE frame[t].slot \notin Slots
    <3>1. ftable' = ftable
      BY <1>0, <2>1, <2>4 DEF MaybeFreeSlot, FutexTyped
    <3>2. SlotsFit(t, "user", NoFrame)
      BY <3>1, NoFrameFacts, QueueFacts, SlotsAlone
    <3> QED
      BY <1>1, <1>2, <2>1, <2>2, <3>2, CurrentStep
  <2> QED
    BY <2>3, <2>4
<1>5. CASE word[frame[t].addr] = frame[t].expected
  <2>1. /\ ftable' = ftable /\ frame' = frame
        /\ pc' = [pc EXCEPT ![t] = "wait"]
    BY <1>5 DEF FutexRecheck, Goto
  <2>2. frame' = [frame EXCEPT ![t] = frame[t]]
    BY <1>0, <2>1 DEF FutexTyped
  <2>3. FitsPlace("wait", frame[t])
    BY <1>0, <1>1, <1>3 DEF FitsPlace, Places, Waking, OnlyCurrentInside, SlotsKept, OwedWait
  <2>4. SlotsFit(t, "wait", frame[t])
    <3>1. frame[t].slot \in Slots =>
             ftable[frame[t].slot] = [addr |-> frame[t].addr, active |-> TRUE]
      BY <1>0, <1>1 DEF SlotsKept, UsesSlot
    <3> QED
      BY <2>1, <3>1, SlotsAlone
  <2> QED
    BY <1>1, <1>2, <2>1, <2>2, <2>3, <2>4, CurrentStep
<1> QED
  BY <1>4, <1>5

(* The end of a wait. *)
LEMMA WaitedKeeps ==
    ASSUME OneTaskCpu, FutexInv, NEW t \in Tasks, Waited(t)
    PROVE  FutexInv'
<1>0. FutexTyped /\ InLists
  BY DEF FutexInv
<1>1. /\ Current = t /\ pc[t] = "waited"
      /\ pc' = [pc EXCEPT ![t] = "user"] /\ frame' = [frame EXCEPT ![t] = NoFrame]
      /\ UNCHANGED <<state, pool, head, on>>
  BY CurrentFacts DEF Waited, At, Return
<1>2. PoolTyped' /\ InLists'
  BY <1>0, <1>1, PoolKept
<1>3. FitsPlace("user", NoFrame)
  BY NoFrameFacts, QueueFacts DEF FitsPlace, Places, Waking
<1>4. SlotsFit(t, "user", NoFrame)
  <2>1. CASE frame[t].slot \in Slots
    BY <2>1, MaybeFreeFits DEF Waited
  <2>2. CASE frame[t].slot \notin Slots
    <3>1. ftable' = ftable
      BY <2>2 DEF Waited
    <3> QED
      BY <3>1, NoFrameFacts, QueueFacts, SlotsAlone
  <2> QED
    BY <2>1, <2>2
<1> QED
  BY <1>1, <1>2, <1>3, <1>4, CurrentStep

(* futex_wake: those it owes a wake are blocked, since nobody else is in the *)
(* middle of a call.                                                         *)
LEMMA FutexWakeKeeps ==
    ASSUME OneTaskCpu, FutexInv, NEW t \in Tasks, NEW a \in Addrs, NEW n \in Counts,
           FutexWake(t, a, n)
    PROVE  FutexInv'
<1> DEFINE s == FindSlot(a)
           f == [NoFrame EXCEPT !.slot = s, !.addr = a, !.count = n, !.owed = WaitingOn(a)]
<1>0. FutexTyped /\ InLists /\ OnlyCurrentInside
  BY DEF FutexInv
<1>1. /\ Current = t /\ pc[t] = "user" /\ s # Nil /\ ftable' = ftable
      /\ pc' = [pc EXCEPT ![t] = "wakeloop"] /\ frame' = [frame EXCEPT ![t] = f]
      /\ UNCHANGED <<state, pool, head, on>>
  BY CurrentFacts DEF FutexWake, At, Goto, wqVars
<1>2. PoolTyped' /\ InLists'
  BY <1>0, <1>1, PoolKept
<1>3. s \in Slots /\ s \in Queues /\ ftable[s].active /\ ftable[s].addr = a
  BY <1>1, FindSlotFacts, QueueFacts
<1>4. ftable[s] = [addr |-> a, active |-> TRUE]
  BY <1>0, <1>3 DEF FutexTyped
<1> HIDE DEF s
<1>5. f \in Frame /\ f.slot = s /\ f.addr = a /\ f.owed = WaitingOn(a)
  <2>1. WaitingOn(a) \in SUBSET Tasks
    BY DEF WaitingOn
  <2> QED
    BY <1>3, <2>1, NoFrameFacts DEF Frame
<1> HIDE DEF f
<1>6. \A u \in WaitingOn(a) : state[u] = "BLOCKED" /\ frame[u].addr = a
  BY <1>0, <1>1 DEF WaitingOn, OnlyCurrentInside
<1>7. a # None
  BY CallsAssumption
<1>8. FitsPlace("wakeloop", f)
  BY <1>3, <1>5, <1>6, <1>7 DEF FitsPlace, Places, Waking
<1>9. SlotsFit(t, "wakeloop", f)
  BY <1>1, <1>4, <1>5, SlotsAlone
<1> QED
  BY <1>1, <1>2, <1>8, <1>9, CurrentStep

(* The loop of futex_wake ends for want of waiters only when nobody is owed  *)
(* a wake any more.                                                          *)
LEMMA WakeLoopKeeps ==
    ASSUME OneTaskCpu, FutexInv, NEW t \in Tasks, WakeLoop(t)
    PROVE  FutexInv'
<1> DEFINE f == frame[t]
           place == IF f.woken < f.count /\ head[f.slot] # Nil THEN "wakeone" ELSE "wakedone"
<1>0. FutexTyped /\ InLists /\ OnlyCurrentInside /\ OneEntryEach /\ SlotsKept /\ OwedWait
  BY DEF FutexInv
<1>1. /\ Current = t /\ pc[t] = "wakeloop" /\ ftable' = ftable /\ frame' = frame
      /\ pc' = [pc EXCEPT ![t] = place]
      /\ UNCHANGED <<state, pool, head, on>>
  BY CurrentFacts DEF WakeLoop, At, Goto, wqVars
<1>2. PoolTyped' /\ InLists'
  BY <1>0, <1>1, PoolKept
<1>3. /\ f \in Frame /\ frame' = [frame EXCEPT ![t] = f]
  BY <1>0, <1>1 DEF FutexTyped
<1>4. /\ f.slot \in Slots /\ f.slot \in Queues /\ f.addr # None
      /\ ftable[f.slot] = [addr |-> f.addr, active |-> TRUE]
  BY <1>0, <1>1, QueueFacts DEF SlotsKept, UsesSlot, Waking
<1>5. \A u \in f.owed : u \in Tasks /\ state[u] = "BLOCKED" /\ frame[u].addr = f.addr
  BY <1>0, <1>3 DEF OwedWait, Frame
<1>6. place = "wakedone" /\ f.woken < f.count => f.owed = {}
  <2> SUFFICES ASSUME head[f.slot] = Nil, NEW u \in f.owed PROVE FALSE
    OBVIOUS
  <2>1. frame[u].slot \in Slots
    BY <1>0, <1>4, <1>5 DEF SlotsKept
  <2>2. ftable[frame[u].slot] = [addr |-> f.addr, active |-> TRUE]
    BY <1>0, <1>5, <2>1 DEF SlotsKept, UsesSlot
  <2>3. frame[u].slot = f.slot
    <3>1. /\ ftable[f.slot].active /\ ftable[frame[u].slot].active
          /\ ftable[f.slot].addr = ftable[frame[u].slot].addr
      BY <1>4, <2>2
    <3> QED
      BY <1>0, <1>4, <2>1, <3>1 DEF SlotsKept
  <2> QED
    BY <1>0, <1>4, <1>5, <2>3, EmptyQueue
<1>7. place \in {"wakeone", "wakedone"}
  OBVIOUS
<1> HIDE DEF place, f
<1>8. FitsPlace(place, f)
  BY <1>3, <1>4, <1>5, <1>6, <1>7 DEF FitsPlace, Places, Waking
<1>9. SlotsFit(t, place, f)
  BY <1>1, <1>4, SlotsAlone
<1> QED
  BY <1>1, <1>2, <1>3, <1>8, <1>9, CurrentStep

(* The end of futex_wake. *)
LEMMA WakeDoneKeeps ==
    ASSUME OneTaskCpu, FutexInv, NEW t \in Tasks, WakeDone(t)
    PROVE  FutexInv'
<1>0. FutexTyped /\ InLists /\ SlotsKept
  BY DEF FutexInv
<1>1. /\ Current = t /\ pc[t] = "wakedone" /\ MaybeFreeSlot(frame[t].slot)
      /\ pc' = [pc EXCEPT ![t] = "user"] /\ frame' = [frame EXCEPT ![t] = NoFrame]
      /\ UNCHANGED <<state, pool, head, on>>
  BY CurrentFacts DEF WakeDone, At, Return, wqVars
<1>2. PoolTyped' /\ InLists'
  BY <1>0, <1>1, PoolKept
<1>3. FitsPlace("user", NoFrame)
  BY NoFrameFacts, QueueFacts DEF FitsPlace, Places, Waking
<1>4. frame[t].slot \in Slots
  BY <1>0, <1>1 DEF SlotsKept, Waking
<1>5. SlotsFit(t, "user", NoFrame)
  BY <1>1, <1>4, MaybeFreeFits
<1> QED
  BY <1>1, <1>2, <1>3, <1>5, CurrentStep

(* A sleep or a plain wait begins: it has a queue that is no slot. *)
LEMMA BeginWaitKeeps ==
    ASSUME OneTaskCpu, FutexInv, NEW t \in Tasks, At(t, "user"), NEW q \in {SleepQueue, EventQueue},
           NEW n \in Nat \cup {NoTimeout},
           frame' = [frame EXCEPT ![t] = [NoFrame EXCEPT !.slot = q, !.ticks = n]],
           Goto(t, "wait"), UNCHANGED <<wqVars, on, ftable>>
    PROVE  FutexInv'
<1> DEFINE f == [NoFrame EXCEPT !.slot = q, !.ticks = n]
<1>0. FutexTyped /\ InLists
  BY DEF FutexInv
<1>1. /\ Current = t /\ pc[t] = "user" /\ ftable' = ftable
      /\ pc' = [pc EXCEPT ![t] = "wait"] /\ frame' = [frame EXCEPT ![t] = f]
      /\ UNCHANGED <<state, pool, head, on>>
  BY CurrentFacts DEF At, Goto, wqVars
<1>2. PoolTyped' /\ InLists'
  BY <1>0, <1>1, PoolKept
<1>3. q \in Queues /\ q \notin Slots
  BY QueueFacts
<1>4. f \in Frame /\ f.slot = q /\ f.addr = None /\ f.owed = {}
  BY <1>3, NoFrameFacts DEF Frame
<1> HIDE DEF f
<1>5. FitsPlace("wait", f)
  BY <1>3, <1>4 DEF FitsPlace, Places, Waking
<1>6. SlotsFit(t, "wait", f)
  BY <1>1, <1>3, <1>4, SlotsAlone
<1> QED
  BY <1>1, <1>2, <1>5, <1>6, CurrentStep

(* sleep_ticks and sleep_ms. *)
LEMMA SleepKeeps ==
    ASSUME OneTaskCpu, FutexInv, NEW t \in Tasks, NEW n \in Nat, SleepTicks(t, n)
    PROVE  FutexInv'
<1>1. /\ At(t, "user") /\ Goto(t, "wait") /\ UNCHANGED <<wqVars, on, ftable>>
      /\ frame' = [frame EXCEPT ![t] = [NoFrame EXCEPT !.slot = SleepQueue, !.ticks = n]]
  BY DEF SleepTicks
<1> QED
  BY <1>1, BeginWaitKeeps

(* wq_wait of a kernel client. *)
LEMMA EventWaitKeeps ==
    ASSUME OneTaskCpu, FutexInv, NEW t \in Tasks, EventWait(t)
    PROVE  FutexInv'
<1>1. /\ At(t, "user") /\ Goto(t, "wait") /\ UNCHANGED <<wqVars, on, ftable>>
      /\ frame' = [frame EXCEPT ![t] = [NoFrame EXCEPT !.slot = EventQueue]]
  BY DEF EventWait
<1>2. [NoFrame EXCEPT !.slot = EventQueue] = [NoFrame EXCEPT !.slot = EventQueue, !.ticks = NoTimeout]
  BY NoFrameFacts DEF Frame
<1> QED
  BY <1>1, <1>2, BeginWaitKeeps

(* sched_yield. *)
LEMMA YieldKeeps ==
    ASSUME OneTaskCpu, FutexInv, NEW t \in Tasks, Yield(t)
    PROVE  FutexInv'
<1>0. FutexTyped /\ InLists /\ OnlyCurrentInside
  BY DEF FutexInv
<1>1. /\ Current = t /\ pc[t] = "user" /\ ftable' = ftable
      /\ pc' = [pc EXCEPT ![t] = "schedule"] /\ frame' = frame
      /\ UNCHANGED <<state, pool, head, on>>
  BY CurrentFacts DEF Yield, At, Goto, wqVars
<1>2. PoolTyped' /\ InLists'
  BY <1>0, <1>1, PoolKept
<1>3. frame[t] = NoFrame /\ frame' = [frame EXCEPT ![t] = NoFrame]
  BY <1>0, <1>1 DEF OnlyCurrentInside, FutexTyped
<1>4. FitsPlace("schedule", NoFrame)
  BY NoFrameFacts, QueueFacts DEF FitsPlace, Places, Waking
<1>5. SlotsFit(t, "schedule", NoFrame)
  BY <1>1, NoFrameFacts, QueueFacts, SlotsAlone
<1> QED
  BY <1>1, <1>2, <1>3, <1>4, <1>5, CurrentStep
-----------------------------------------------------------------------------
(* Blocking, waking and scheduling.                                          *)

(* wq_wait: the current task blocks with an entry of its own, or goes on     *)
(* when there is none.                                                       *)
LEMMA WaitKeeps ==
    ASSUME OneTaskCpu, FutexInv, NEW t \in Tasks, Wait(t)
    PROVE  FutexInv'
<1> DEFINE q == frame[t].slot
           left == IF frame[t].ticks = NoTimeout THEN NoTimeout ELSE Deadline(frame[t].ticks)
<1>0. /\ FutexTyped /\ InLists /\ OnlyCurrentInside /\ OneEntryEach /\ SlotsKept /\ OwedWait
      /\ CheckAndBlockAtomic
  BY DEF FutexInv
<1>1. /\ Current = t /\ pc[t] = "wait" /\ WqWait(t, q, left)
      /\ pc' = [pc EXCEPT ![t] = IF PoolAlloc = Nil THEN "waited" ELSE "schedule"]
      /\ UNCHANGED <<on, frame, ftable>>
  BY CurrentFacts DEF Wait, At, Goto
<1>2. /\ frame[t] \in Frame /\ q \in Queues /\ frame[t].owed = {}
      /\ state[t] = "RUNNING" /\ state \in [Tasks -> TaskStates]
      /\ \A u \in Tasks : u # t => pc[u] \in {"user", "waited"}
  BY <1>0, <1>1 DEF FutexTyped, OnlyCurrentInside, OwedWait, Waking
<1>3. CASE PoolAlloc = Nil
  <2>1. /\ pc' = [pc EXCEPT ![t] = "waited"] /\ UNCHANGED <<state, pool, head>>
    BY <1>1, <1>3 DEF WqWait
  <2>2. PoolTyped' /\ InLists'
    BY <1>0, <2>1, PoolKept
  <2>3. frame' = [frame EXCEPT ![t] = frame[t]]
    BY <1>0, <1>1 DEF FutexTyped
  <2>4. FitsPlace("waited", frame[t])
    BY <1>0, <1>2 DEF FitsPlace, Places, Waking, SlotsKept
  <2>5. SlotsFit(t, "waited", frame[t])
    <3>1. "waited" \notin {"recheck", "wait"} \cup Waking
      BY DEF Waking
    <3> QED
      BY <1>1, <3>1, SlotsAlone
  <2> QED
    BY <1>1, <2>1, <2>2, <2>3, <2>4, <2>5, CurrentStep
<1>4. CASE PoolAlloc # Nil
  <2>0. left \in Int
    BY <1>2 DEF Frame, Deadline, NoTimeout
  <2> HIDE DEF left
  <2>1. PICK n \in Entries : Added(n, t, q, left)
    BY <1>0, <1>1, <1>2, <1>4, <2>0, WaitAdds
  <2>2. /\ pc'[t] = "schedule" /\ state'[t] = "BLOCKED"
        /\ \A u \in Tasks : u # t => pc'[u] = pc[u] /\ state'[u] = state[u]
        /\ pc' \in [Tasks -> Places] /\ state' \in [Tasks -> TaskStates]
        /\ Current' = Current /\ frame' = frame /\ ftable' = ftable /\ on' = on
    <3>1. pc' = [pc EXCEPT ![t] = "schedule"] /\ state' = [state EXCEPT ![t] = "BLOCKED"]
      BY <1>1, <1>4, <2>1 DEF Added
    <3> QED
      BY <1>0, <1>1, <1>2, <3>1 DEF FutexTyped, Places, TaskStates, Current
  <2>3. FutexTyped'
    BY <1>0, <2>1, <2>2 DEF FutexTyped, Added
  <2>4. OnlyCurrentInside'
    <3>1. ASSUME NEW u \in Tasks, u # t
          PROVE  /\ state'[u] = "RUNNING" => Current' = u
                 /\ Current' = u /\ pc'[u] # "schedule" => state'[u] = "RUNNING"
                 /\ Current' # u => pc'[u] \in {"user", "waited"}
                 /\ pc'[u] = "user" => frame'[u] = NoFrame
                 /\ pc'[u] = "schedule" => frame'[u] = NoFrame \/ frame'[u].slot \in Queues
                 /\ pc'[u] \notin {"user", "schedule"} => frame'[u].slot \in Queues
      BY <1>0, <2>2, <3>1 DEF OnlyCurrentInside
    <3>2. /\ state'[t] = "RUNNING" => Current' = t
          /\ Current' = t /\ pc'[t] # "schedule" => state'[t] = "RUNNING"
          /\ Current' # t => pc'[t] \in {"user", "waited"}
          /\ pc'[t] = "user" => frame'[t] = NoFrame
          /\ pc'[t] = "schedule" => frame'[t] = NoFrame \/ frame'[t].slot \in Queues
          /\ pc'[t] \notin {"user", "schedule"} => frame'[t].slot \in Queues
      BY <1>1, <1>2, <2>2
    <3> QED
      BY <3>1, <3>2 DEF OnlyCurrentInside
  <2>5. OneEntryEach'
    <3>1. /\ pool'[n].in_use /\ pool'[n].task = t /\ pool'[n].owner = frame'[t].slot
          /\ \A i \in Entries : i # n => /\ pool'[i].in_use = pool[i].in_use
                                         /\ pool'[i].task = pool[i].task
                                         /\ pool'[i].owner = pool[i].owner
          /\ \A i \in Entries : pool[i].task \in Tasks
          /\ ~pool[n].in_use
      BY <1>0, <2>1, <2>2 DEF Added, FutexTyped, PoolTyped, Entry
    <3>2. \A i \in Entries : pool[i].in_use => i # n /\ pool[i].task # t
      BY <1>0, <1>2, <3>1 DEF OneEntryEach
    <3>3. ASSUME NEW u \in Tasks, state'[u] = "BLOCKED"
          PROVE  /\ pc'[u] \in {"schedule", "waited"} /\ frame'[u].slot \in Queues
                 /\ \E i \in Entries : pool'[i].in_use /\ pool'[i].task = u
      <4>1. CASE u = t
        BY <1>2, <2>2, <3>1, <4>1
      <4>2. CASE u # t
        <5>1. state[u] = "BLOCKED"
          BY <2>2, <3>3, <4>2
        <5>2. PICK i \in Entries : pool[i].in_use /\ pool[i].task = u
          BY <1>0, <5>1 DEF OneEntryEach
        <5>3. pool'[i].in_use /\ pool'[i].task = u
          BY <3>1, <3>2, <5>2
        <5> QED
          BY <1>0, <2>2, <4>2, <5>1, <5>3 DEF OneEntryEach
      <4> QED
        BY <4>1, <4>2
    <3>4. ASSUME NEW i \in Entries, pool'[i].in_use
          PROVE  /\ state'[pool'[i].task] = "BLOCKED"
                 /\ pool'[i].owner = frame'[pool'[i].task].slot
      <4>1. CASE i = n
        BY <2>2, <3>1, <4>1
      <4>2. CASE i # n
        <5>1. /\ pool[i].in_use /\ pool'[i].task = pool[i].task /\ pool'[i].owner = pool[i].owner
              /\ pool[i].task \in Tasks /\ pool[i].task # t
          BY <3>1, <3>2, <3>4, <4>2
        <5> QED
          BY <1>0, <2>2, <5>1 DEF OneEntryEach
      <4> QED
        BY <4>1, <4>2
    <3>5. \A i, j \in Entries :
             pool'[i].in_use /\ pool'[j].in_use /\ pool'[i].task = pool'[j].task => i = j
      BY <1>0, <3>1, <3>2 DEF OneEntryEach
    <3> QED
      BY <3>3, <3>4, <3>5 DEF OneEntryEach
  <2>6. SlotsKept'
    <3>1. \A u \in Tasks : UsesSlot(u)' => UsesSlot(u)
      <4>1. UsesSlot(t)' => UsesSlot(t)
        BY <1>1, <2>2 DEF UsesSlot
      <4>2. \A u \in Tasks : u # t => (UsesSlot(u)' => UsesSlot(u))
        BY <2>2 DEF UsesSlot
      <4> QED
        BY <4>1, <4>2
    <3>2. \A u \in Tasks : pc'[u] \in Waking => pc[u] \in Waking
      BY <2>2 DEF Waking
    <3> QED
      BY <1>0, <2>2, <3>1, <3>2 DEF SlotsKept
  <2>7. OwedWait'
    <3>1. \A u \in Tasks : frame'[u].owed = {}
      BY <1>0, <1>2, <2>2 DEF OwedWait, Waking
    <3> QED
      BY <3>1 DEF OwedWait
  <2>8. CheckAndBlockAtomic'
    BY <1>0, <2>2 DEF CheckAndBlockAtomic
  <2> QED
    BY <2>1, <2>3, <2>4, <2>5, <2>6, <2>7, <2>8 DEF FutexInv, Added
<1> QED
  BY <1>3, <1>4

\* What waking the tasks of the entries G may do to the locals of the tasks, here for u.
FrameSettled(u, G) ==
    /\ frame'[u].slot = frame[u].slot /\ frame'[u].addr = frame[u].addr
    /\ frame'[u].ticks = frame[u].ticks
    /\ frame'[u].owed \subseteq frame[u].owed \ Sleepers(G)
    /\ frame[u] = NoFrame => frame'[u] = NoFrame
    /\ \/ pc'[u] = pc[u] /\ frame'[u].woken = frame[u].woken /\ frame'[u].count = frame[u].count
       \/ pc[u] = "wakeone" /\ pc'[u] = "wakeloop"

(* Entries are freed and their tasks made READY. *)
LEMMA WakeStep ==
    ASSUME OneTaskCpu, FutexInv, NEW G \in SUBSET Entries, \A i \in G : pool[i].in_use,
           Freed(G), Woke(G), UNCHANGED <<on, ftable>>,
           pc' \in [Tasks -> Places], frame' \in [Tasks -> Frame],
           \A u \in Tasks : FrameSettled(u, G)
    PROVE  FutexInv'
<1>0. /\ FutexTyped /\ InLists /\ OnlyCurrentInside /\ OneEntryEach /\ SlotsKept /\ OwedWait
      /\ CheckAndBlockAtomic
  BY DEF FutexInv
<1>1. /\ \A i \in Entries : pool[i].task \in Tasks
      /\ state \in [Tasks -> TaskStates]
      /\ \A u \in Sleepers(G) : u \in Tasks /\ state[u] = "BLOCKED"
  BY <1>0 DEF Sleepers, OneEntryEach, FutexTyped, PoolTyped, Entry
<1>2. /\ state' \in [Tasks -> TaskStates] /\ Current' = Current
      /\ \A u \in Tasks : /\ state'[u] = "BLOCKED" <=> state[u] = "BLOCKED" /\ u \notin Sleepers(G)
                          /\ state'[u] = "RUNNING" <=> state[u] = "RUNNING"
  BY <1>1 DEF Woke, TaskStates, Current
<1>3. \A u \in Tasks : /\ pc'[u] = pc[u] \/ (pc[u] = "wakeone" /\ pc'[u] = "wakeloop")
                       /\ pc'[u] \in Waking <=> pc[u] \in Waking
  BY DEF FrameSettled, Waking
<1>4. FutexTyped'
  BY <1>0, <1>2 DEF FutexTyped, Freed
<1>5. OnlyCurrentInside'
  <2>1. ASSUME NEW u \in Tasks
        PROVE  /\ state'[u] = "RUNNING" => Current' = u
               /\ Current' = u /\ pc'[u] # "schedule" => state'[u] = "RUNNING"
               /\ Current' # u => pc'[u] \in {"user", "waited"}
               /\ pc'[u] = "user" => frame'[u] = NoFrame
               /\ pc'[u] = "schedule" => frame'[u] = NoFrame \/ frame'[u].slot \in Queues
               /\ pc'[u] \notin {"user", "schedule"} => frame'[u].slot \in Queues
    <3>1. /\ frame'[u].slot = frame[u].slot
          /\ frame[u] = NoFrame => frame'[u] = NoFrame
      BY DEF FrameSettled
    <3> QED
      BY <1>0, <1>2, <1>3, <3>1 DEF OnlyCurrentInside
  <2> QED
    BY <2>1 DEF OnlyCurrentInside
<1>6. OneEntryEach'
  <2>1. /\ \A i \in Entries : /\ pool'[i].in_use <=> pool[i].in_use /\ i \notin G
                              /\ pool'[i].in_use => pool'[i].task = pool[i].task
                                                    /\ pool'[i].owner = pool[i].owner
    BY DEF Freed
  <2>2. ASSUME NEW u \in Tasks, state'[u] = "BLOCKED"
        PROVE  /\ pc'[u] \in {"schedule", "waited"} /\ frame'[u].slot \in Queues
               /\ \E i \in Entries : pool'[i].in_use /\ pool'[i].task = u
    <3>1. state[u] = "BLOCKED" /\ u \notin Sleepers(G)
      BY <1>2, <2>2
    <3>2. PICK i \in Entries : pool[i].in_use /\ pool[i].task = u
      BY <1>0, <3>1 DEF OneEntryEach
    <3>3. i \notin G
      BY <3>1, <3>2 DEF Sleepers
    <3>4. pool'[i].in_use /\ pool'[i].task = u
      BY <2>1, <3>2, <3>3
    <3>5. pc[u] \in {"schedule", "waited"} /\ frame[u].slot \in Queues
      BY <1>0, <3>1 DEF OneEntryEach
    <3> QED
      BY <1>3, <3>4, <3>5 DEF FrameSettled
  <2>3. ASSUME NEW i \in Entries, pool'[i].in_use
        PROVE  /\ state'[pool'[i].task] = "BLOCKED"
               /\ pool'[i].owner = frame'[pool'[i].task].slot
    <3>1. /\ pool[i].in_use /\ i \notin G /\ pool'[i].task = pool[i].task
          /\ pool'[i].owner = pool[i].owner /\ pool[i].task \in Tasks
      BY <1>1, <2>1, <2>3
    <3>2. pool[i].task \notin Sleepers(G)
      BY <1>0, <3>1 DEF Sleepers, OneEntryEach
    <3> QED
      BY <1>0, <1>2, <3>1, <3>2 DEF OneEntryEach, FrameSettled
  <2>4. \A i, j \in Entries :
           pool'[i].in_use /\ pool'[j].in_use /\ pool'[i].task = pool'[j].task => i = j
    BY <1>0, <2>1 DEF OneEntryEach
  <2> QED
    BY <2>2, <2>3, <2>4 DEF OneEntryEach
<1>7. SlotsKept'
  <2>1. ASSUME NEW u \in Tasks
        PROVE  /\ frame'[u].slot = frame[u].slot /\ frame'[u].addr = frame[u].addr
               /\ UsesSlot(u)' => UsesSlot(u)
    BY <1>2, <1>3 DEF UsesSlot, FrameSettled, Waking
  <2> QED
    BY <1>0, <1>3, <2>1 DEF SlotsKept
<1>8. OwedWait'
  <2>1. ASSUME NEW u \in Tasks
        PROVE  /\ pc'[u] \notin Waking => frame'[u].owed = {}
               /\ \A w \in frame'[u].owed : state'[w] = "BLOCKED" /\ frame'[w].addr = frame'[u].addr
    <3>1. frame'[u].owed \subseteq frame[u].owed \ Sleepers(G) /\ frame'[u].addr = frame[u].addr
      BY DEF FrameSettled
    <3>2. frame[u].owed \subseteq Tasks
      BY <1>0 DEF FutexTyped, Frame
    <3>3. pc'[u] \notin Waking => frame'[u].owed = {}
      BY <1>0, <1>3, <3>1 DEF OwedWait
    <3>4. ASSUME NEW w \in frame'[u].owed
          PROVE  state'[w] = "BLOCKED" /\ frame'[w].addr = frame'[u].addr
      <4>1. w \in Tasks /\ w \in frame[u].owed /\ w \notin Sleepers(G)
        BY <3>1, <3>2
      <4>2. state[w] = "BLOCKED" /\ frame[w].addr = frame[u].addr
        BY <1>0, <4>1 DEF OwedWait
      <4> QED
        BY <1>2, <3>1, <4>1, <4>2 DEF FrameSettled
    <3> QED
      BY <3>3, <3>4
  <2> QED
    BY <2>1 DEF OwedWait
<1>9. CheckAndBlockAtomic'
  <2>1. ASSUME NEW u \in Tasks, pc'[u] = "wakedone", frame'[u].woken < frame'[u].count
        PROVE  frame'[u].owed = {}
    <3>1. /\ pc[u] = "wakedone" /\ frame[u].woken < frame[u].count
          /\ frame'[u].owed \subseteq frame[u].owed
      BY <2>1 DEF FrameSettled
    <3> QED
      BY <1>0, <3>1 DEF CheckAndBlockAtomic
  <2> QED
    BY <2>1 DEF CheckAndBlockAtomic
<1> QED
  BY <1>4, <1>5, <1>6, <1>7, <1>8, <1>9 DEF FutexInv, Freed

(* Settle takes the woken tasks out of what is owed, and nothing else. *)
LEMMA SettleFacts ==
    ASSUME NEW g \in [Tasks -> Frame], NEW W
    PROVE  /\ Settle(g, W) \in [Tasks -> Frame]
           /\ \A u \in Tasks :
                 LET f == Settle(g, W)[u]
                 IN  /\ f.slot = g[u].slot /\ f.addr = g[u].addr /\ f.ticks = g[u].ticks
                     /\ f.woken = g[u].woken /\ f.count = g[u].count
                     /\ f.owed = g[u].owed \ W
                     /\ g[u] = NoFrame => f = NoFrame
<1>1. \A u \in Tasks : Settle(g, W)[u] = [g[u] EXCEPT !.owed = g[u].owed \ W]
  BY DEF Settle
<1>2. ASSUME NEW u \in Tasks, NEW f, f = [g[u] EXCEPT !.owed = g[u].owed \ W]
      PROVE  /\ f \in Frame
             /\ f.slot = g[u].slot /\ f.addr = g[u].addr /\ f.ticks = g[u].ticks
             /\ f.woken = g[u].woken /\ f.count = g[u].count
             /\ f.owed = g[u].owed \ W
  <2>1. g[u] \in Frame
    OBVIOUS
  <2> QED
    BY <1>2, <2>1 DEF Frame
<1>3. ASSUME NEW u \in Tasks, g[u] = NoFrame
      PROVE  [g[u] EXCEPT !.owed = g[u].owed \ W] = NoFrame
  <2>1. {} \ W = {}
    OBVIOUS
  <2>2. [NoFrame EXCEPT !.owed = {}] = NoFrame
    BY NoFrameFacts DEF Frame
  <2> QED
    BY <1>3, <2>1, <2>2, NoFrameFacts
<1>4. Settle(g, W) \in [Tasks -> Frame]
  <2>1. \A u \in Tasks : [g[u] EXCEPT !.owed = g[u].owed \ W] \in Frame
    BY <1>2
  <2> QED
    BY <2>1 DEF Settle
<1> QED
  BY ZenonT(60), <1>1, <1>2, <1>3, <1>4

(* wq_wake_one by futex_wake. *)
LEMMA WakeOneKeeps ==
    ASSUME OneTaskCpu, FutexInv, NEW t \in Tasks, WakeOne(t)
    PROVE  FutexInv'
<1> DEFINE q == frame[t].slot
           g == [frame EXCEPT ![t].woken = @ + 1]
<1>0. FutexTyped /\ InLists /\ OneEntryEach /\ SlotsKept
  BY DEF FutexInv
<1>1. /\ pc[t] = "wakeone" /\ WqWakeOne(q)
      /\ frame' = Settle(g, Woken(q))
      /\ pc' = [pc EXCEPT ![t] = "wakeloop"]
      /\ UNCHANGED <<on, ftable>>
  BY DEF WakeOne, At, Goto
<1>2. q \in Queues
  BY <1>0, <1>1, QueueFacts DEF SlotsKept, Waking
<1>3. /\ Freed(Front(q)) /\ Woke(Front(q)) /\ Woken(q) = Sleepers(Front(q))
  BY <1>0, <1>1, <1>2, WakeOneFrees
<1>4. Front(q) \in SUBSET Entries /\ \A i \in Front(q) : pool[i].in_use
  BY <1>0, <1>2, FrontFacts DEF Members
<1>5. /\ g \in [Tasks -> Frame]
      /\ \A u \in Tasks : u # t => g[u] = frame[u]
      /\ g[t] = [frame[t] EXCEPT !.woken = @ + 1]
  <2>1. [frame[t] EXCEPT !.woken = @ + 1] \in Frame
    BY SMTT(30), <1>0 DEF FutexTyped, Frame
  <2> QED
    BY <1>0, <2>1 DEF FutexTyped
<1>6. /\ g[t].slot = frame[t].slot /\ g[t].addr = frame[t].addr /\ g[t].ticks = frame[t].ticks
      /\ g[t].owed = frame[t].owed
  <2>1. frame[t] \in Frame
    BY <1>0 DEF FutexTyped
  <2> QED
    BY <1>5, <2>1 DEF Frame
<1>7. frame[t] # NoFrame
  BY <1>2, NoFrameFacts, QueueFacts
<1> HIDE DEF g, q
<1>8. pc' \in [Tasks -> Places] /\ frame' \in [Tasks -> Frame]
  BY <1>0, <1>1, <1>5, SettleFacts DEF FutexTyped, Places
<1>9. ASSUME NEW u \in Tasks PROVE FrameSettled(u, Front(q))
  <2>1. /\ frame'[u].slot = g[u].slot /\ frame'[u].addr = g[u].addr /\ frame'[u].ticks = g[u].ticks
        /\ frame'[u].woken = g[u].woken /\ frame'[u].count = g[u].count
        /\ frame'[u].owed = g[u].owed \ Sleepers(Front(q))
        /\ g[u] = NoFrame => frame'[u] = NoFrame
    BY <1>1, <1>3, <1>5, SettleFacts
  <2>2. CASE u = t
    <3>1. pc'[t] = "wakeloop"
      BY <1>0, <1>1 DEF FutexTyped
    <3> QED
      BY <1>1, <1>6, <1>7, <2>1, <2>2, <3>1 DEF FrameSettled
  <2>3. CASE u # t
    <3>1. pc'[u] = pc[u]
      BY <1>0, <1>1, <2>3 DEF FutexTyped
    <3> QED
      BY <1>5, <2>1, <2>3, <3>1 DEF FrameSettled
  <2> QED
    BY <2>2, <2>3
<1> QED
  BY <1>1, <1>3, <1>4, <1>8, <1>9, WakeStep

(* wq_wake_all by a kernel client: nobody is in the middle of a futex_wake. *)
LEMMA EventWakeAllKeeps ==
    ASSUME OneTaskCpu, FutexInv, NEW t \in Tasks, EventWakeAll(t)
    PROVE  FutexInv'
<1> DEFINE G == Members(EventQueue)
<1>0. FutexTyped /\ InLists /\ OneEntryEach /\ OnlyCurrentInside /\ OwedWait
  BY DEF FutexInv
<1>1. /\ Current = t /\ pc[t] = "user" /\ WqWakeAll(EventQueue)
      /\ UNCHANGED <<on, ftable, pc, frame>>
  BY CurrentFacts DEF EventWakeAll, At
<1>2. Freed(G) /\ Woke(G)
  BY <1>0, <1>1, WakeAllFrees, QueueFacts
<1>3. G \in SUBSET Entries /\ \A i \in G : pool[i].in_use
  BY DEF Members
<1> HIDE DEF G
<1>4. \A u \in Tasks : frame[u].owed = {}
  BY <1>0, <1>1 DEF OwedWait, OnlyCurrentInside, Waking
<1>5. \A u \in Tasks : FrameSettled(u, G)
  BY <1>1, <1>4 DEF FrameSettled
<1>6. pc' \in [Tasks -> Places] /\ frame' \in [Tasks -> Frame]
  BY <1>0, <1>1 DEF FutexTyped
<1> QED
  BY <1>1, <1>2, <1>3, <1>5, <1>6, WakeStep

(* The tick. *)
LEMMA TickKeeps ==
    ASSUME OneTaskCpu, FutexInv, Tick
    PROVE  FutexInv'
<1>0. FutexTyped /\ InLists /\ OneEntryEach
  BY DEF FutexInv
<1>1. /\ WqTick /\ frame' = Settle(frame, TimedOut) /\ UNCHANGED <<on, ftable, pc>>
  BY DEF Tick
<1>2. Freed(Expiring) /\ Woke(Expiring) /\ TimedOut = Sleepers(Expiring)
  BY <1>0, <1>1, TickFrees
<1>3. Expiring \in SUBSET Entries /\ \A i \in Expiring : pool[i].in_use
  BY DEF Expiring
<1>4. pc' \in [Tasks -> Places] /\ frame' \in [Tasks -> Frame]
  BY <1>0, <1>1, SettleFacts DEF FutexTyped
<1>5. ASSUME NEW u \in Tasks PROVE FrameSettled(u, Expiring)
  <2>1. /\ frame'[u].slot = frame[u].slot /\ frame'[u].addr = frame[u].addr
        /\ frame'[u].ticks = frame[u].ticks
        /\ frame'[u].woken = frame[u].woken /\ frame'[u].count = frame[u].count
        /\ frame'[u].owed = frame[u].owed \ Sleepers(Expiring)
        /\ frame[u] = NoFrame => frame'[u] = NoFrame
    BY <1>0, <1>1, <1>2, SettleFacts DEF FutexTyped
  <2> QED
    BY <1>1, <2>1 DEF FrameSettled
<1> QED
  BY <1>1, <1>2, <1>3, <1>4, <1>5, WakeStep

(* schedule(). *)
LEMMA ScheduleKeeps ==
    ASSUME OneTaskCpu, FutexInv, NEW c \in TaskCPUs, Schedule(c)
    PROVE  FutexInv'
<1> DEFINE cur == on[c]
           chosen == NextReady(state, cur)
<1>0. /\ FutexTyped /\ InLists /\ OnlyCurrentInside /\ OneEntryEach /\ SlotsKept /\ OwedWait
      /\ CheckAndBlockAtomic
  BY DEF FutexInv
<1>1. /\ cur = Current /\ cur \in Tasks \cup {None}
      /\ cur \in Tasks => pc[cur] = "schedule"
      /\ state' = Dispatch(state, cur) /\ Current' = chosen
      /\ on' \in [TaskCPUs -> {chosen}]
      /\ pc' = [t \in Tasks |->
                    IF t # cur THEN pc[t]
                    ELSE IF frame[t] = NoFrame THEN "user" ELSE "waited"]
      /\ UNCHANGED <<pool, head, frame, ftable>>
  <2>1. TaskCPUs = {TaskCpu} /\ c = TaskCpu
    BY CurrentFacts
  <2>2. on' = [on EXCEPT ![c] = chosen] /\ on \in [TaskCPUs -> Tasks \cup {None}]
    BY <1>0 DEF Schedule, FutexTyped
  <2> HIDE DEF chosen
  <2>3. on' \in [TaskCPUs -> {chosen}] /\ on'[TaskCpu] = chosen
    BY <2>1, <2>2
  <2>4. cur = Current /\ cur \in Tasks \cup {None}
    BY <2>1, <2>2 DEF Current
  <2>5. cur \in Tasks => pc[cur] = "schedule"
    BY QueueFacts DEF Schedule
  <2>6. state' = Dispatch(state, cur) /\ UNCHANGED <<pool, head, frame, ftable>>
    BY DEF Schedule
  <2>7. pc' = [t \in Tasks |->
                    IF t # cur THEN pc[t]
                    ELSE IF frame[t] = NoFrame THEN "user" ELSE "waited"]
    BY DEF Schedule
  <2> QED
    BY <2>3, <2>4, <2>5, <2>6, <2>7 DEF Current
<1>2. /\ chosen \in Tasks \cup {None} /\ state' \in [Tasks -> TaskStates]
      /\ \A t \in Tasks : /\ state'[t] = "RUNNING" <=> chosen = t
                          /\ state'[t] = "BLOCKED" <=> state[t] = "BLOCKED"
  <2>1. \A t \in Tasks : state[t] = "RUNNING" => cur = t
    BY <1>0, <1>1 DEF OnlyCurrentInside
  <2>2. state \in [Tasks -> TaskStates]
    BY <1>0 DEF FutexTyped
  <2> HIDE DEF cur
  <2> QED
    BY <1>1, <2>1, <2>2, DispatchFacts
<1> HIDE DEF cur, chosen
<1>3. /\ pc' \in [Tasks -> Places]
      /\ \A t \in Tasks : /\ pc'[t] \in {"user", "waited"}
                          /\ t # cur => pc'[t] = pc[t]
                          /\ t = cur => pc'[t] = IF frame[t] = NoFrame THEN "user" ELSE "waited"
  <2>1. \A t \in Tasks : t # cur => pc[t] \in {"user", "waited"}
    BY <1>0, <1>1 DEF OnlyCurrentInside
  <2> QED
    BY <1>0, <1>1, <2>1 DEF FutexTyped, Places
<1>4. PoolTyped' /\ InLists'
  BY <1>0, <1>1, PoolKept
<1>5. FutexTyped'
  BY <1>0, <1>1, <1>2, <1>3, <1>4 DEF FutexTyped
<1>6. OnlyCurrentInside'
  <2>1. ASSUME NEW u \in Tasks
        PROVE  /\ state'[u] = "RUNNING" => Current' = u
               /\ Current' = u /\ pc'[u] # "schedule" => state'[u] = "RUNNING"
               /\ Current' # u => pc'[u] \in {"user", "waited"}
               /\ pc'[u] = "user" => frame'[u] = NoFrame
               /\ pc'[u] = "schedule" => frame'[u] = NoFrame \/ frame'[u].slot \in Queues
               /\ pc'[u] \notin {"user", "schedule"} => frame'[u].slot \in Queues
    <3>1. CASE u = cur
      BY <1>0, <1>1, <1>2, <1>3, <3>1 DEF OnlyCurrentInside
    <3>2. CASE u # cur
      BY <1>0, <1>1, <1>2, <1>3, <3>2 DEF OnlyCurrentInside
    <3> QED
      BY <3>1, <3>2
  <2> QED
    BY <2>1 DEF OnlyCurrentInside
<1>7. OneEntryEach'
  <2>1. ASSUME NEW u \in Tasks, state[u] = "BLOCKED"
        PROVE  pc'[u] \in {"schedule", "waited"} /\ frame'[u].slot = frame[u].slot
    <3>1. pc[u] \in {"schedule", "waited"} /\ frame[u].slot \in Queues
      BY <1>0, <2>1 DEF OneEntryEach
    <3>2. frame[u] # NoFrame
      BY <3>1, NoFrameFacts, QueueFacts
    <3> QED
      BY <1>1, <1>3, <3>1, <3>2
  <2> QED
    BY <1>0, <1>1, <1>2, <2>1, EntriesKept
<1>8. SlotsKept'
  <2>1. \A u \in Tasks : UsesSlot(u)' => UsesSlot(u)
    BY <1>1, <1>2, <1>3 DEF UsesSlot, Waking
  <2>2. \A u \in Tasks : pc'[u] \notin Waking
    BY <1>3 DEF Waking
  <2> QED
    BY <1>0, <1>1, <2>1, <2>2 DEF SlotsKept
<1>9. OwedWait' /\ CheckAndBlockAtomic'
  <2>1. \A u \in Tasks : pc[u] \notin Waking
    BY <1>0, <1>1 DEF OnlyCurrentInside, Waking
  <2>2. \A u \in Tasks : frame'[u].owed = {}
    BY <1>0, <1>1, <2>1 DEF OwedWait
  <2> QED
    BY <2>2 DEF OwedWait, CheckAndBlockAtomic
<1> QED
  BY <1>4, <1>5, <1>6, <1>7, <1>8, <1>9 DEF FutexInv

(* A store to a futex word, and a step of another part of the kernel. *)
LEMMA ElsewhereKeeps ==
    ASSUME FutexInv, UNCHANGED <<wqVars, on, pc, frame, ftable>>
    PROVE  FutexInv'
<1>0. /\ FutexTyped /\ InLists /\ OnlyCurrentInside /\ OneEntryEach /\ SlotsKept /\ OwedWait
      /\ CheckAndBlockAtomic
  BY DEF FutexInv
<1>1. /\ state' = state /\ pool' = pool /\ head' = head /\ on' = on /\ pc' = pc
      /\ frame' = frame /\ ftable' = ftable
  BY DEF wqVars
<1>2. PoolTyped' /\ InLists'
  BY <1>0, <1>1, PoolKept
<1>3. FutexTyped'
  BY <1>0, <1>1, <1>2 DEF FutexTyped
<1>4. OnlyCurrentInside' /\ OwedWait' /\ CheckAndBlockAtomic'
  BY <1>0, <1>1 DEF OnlyCurrentInside, Current, OwedWait, CheckAndBlockAtomic
<1>5. OneEntryEach'
  BY <1>0, <1>1 DEF OneEntryEach
<1>6. SlotsKept'
  BY <1>0, <1>1 DEF SlotsKept, UsesSlot
<1> QED
  BY <1>2, <1>3, <1>4, <1>5, <1>6 DEF FutexInv

(* At the start every task is READY and every queue empty. *)
LEMMA FutexInvInit ==
    ASSUME OneTaskCpu, FutexInit
    PROVE  FutexInv
<1>0. /\ TaskCpu \in TaskCPUs /\ Current = None
      /\ None \notin Tasks /\ NoQueue \notin Slots
  BY CurrentFacts, QueueFacts DEF FutexInit, Current
<1>1. /\ \A t \in Tasks : state[t] = "READY" /\ pc[t] = "user" /\ frame[t] = NoFrame
      /\ \A i \in Entries : pool[i] = FreeEntry
      /\ \A q \in Queues : head[q] = Nil
      /\ \A s \in Slots : ftable[s] = [addr |-> None, active |-> FALSE]
  BY DEF FutexInit, WqInit
<1>2. PoolTyped
  <2>1. pool \in [Entries -> Entry]
    BY FreeEntryFacts DEF FutexInit, WqInit
  <2>2. head \in [Queues -> Links]
    BY DEF FutexInit, WqInit, Links
  <2> QED
    BY <1>1, <2>1, <2>2, FreeEntryFacts DEF PoolTyped
<1>3. FutexTyped
  <2>1. state \in [Tasks -> TaskStates] /\ pc \in [Tasks -> Places]
    BY DEF FutexInit, TaskStates, Places
  <2>2. frame \in [Tasks -> Frame] /\ on \in [TaskCPUs -> Tasks \cup {None}]
    BY NoFrameFacts DEF FutexInit
  <2>3. ftable \in [Slots -> [addr : Addrs \cup {None}, active : BOOLEAN]]
    BY DEF FutexInit
  <2> QED
    BY <1>2, <2>1, <2>2, <2>3 DEF FutexTyped
<1>4. OnlyCurrentInside
  BY <1>0, <1>1 DEF OnlyCurrentInside
<1>5. OneEntryEach
  BY <1>1, FreeEntryFacts DEF OneEntryEach
<1>6. SlotsKept
  <2>1. \A s \in Slots : ~ftable[s].active
    BY <1>1
  <2> QED
    BY <1>0, <1>1, <2>1, NoFrameFacts DEF SlotsKept, UsesSlot, Waking
<1>7. OwedWait /\ CheckAndBlockAtomic
  BY <1>1, NoFrameFacts DEF OwedWait, CheckAndBlockAtomic
<1>8. InLists
  <2> DEFINE rank == [i \in Entries |-> 0]
  <2>1. rank \in [Entries -> 0 .. 0] /\ 0 \in Nat
    OBVIOUS
  <2> HIDE DEF rank
  <2>2. ASSUME NEW q \in Queues PROVE Linked(pool, head[q], Members(q), rank)
    <3>1. Members(q) = {}
      BY <1>1, FreeEntryFacts DEF Members
    <3> QED
      BY <1>1, <3>1 DEF Linked
  <2>3. Ordered(rank)
    BY <2>2 DEF Ordered
  <2> QED
    BY <2>1, <2>3 DEF InLists
<1> QED
  BY <1>3, <1>4, <1>5, <1>6, <1>7, <1>8 DEF FutexInv

(* Every step keeps the invariant. *)
LEMMA FutexInvNext ==
    ASSUME OneTaskCpu, FutexInv, [FutexNext]_futexVars
    PROVE  FutexInv'
<1>1. ASSUME NEW t \in Tasks, Proceed(t) PROVE FutexInv'
  BY <1>1, FutexRecheckKeeps, WaitKeeps, WaitedKeeps, WakeLoopKeeps, WakeOneKeeps, WakeDoneKeeps
     DEF Proceed
<1>2. ASSUME NEW t \in Tasks, Suspend(t) PROVE FutexInv'
  <2>1. CASE Yield(t) \/ EventWait(t)
    BY <2>1, YieldKeeps, EventWaitKeeps
  <2>2. ASSUME NEW n \in Timeouts, SleepTicks(t, n) PROVE FutexInv'
    BY <2>2, SleepKeeps, CallsAssumption
  <2>3. ASSUME NEW ms \in Millis, SleepMs(t, ms) PROVE FutexInv'
    <3>1. MsToTicks(ms) \in Nat
      BY CallsAssumption DEF MsToTicks
    <3> QED
      BY <2>3, <3>1, SleepKeeps DEF SleepMs
  <2>4. ASSUME NEW a \in Addrs, NEW v \in Values, NEW n \in Timeouts \cup {NoTimeout},
               FutexWait(t, a, v, n)
        PROVE  FutexInv'
    BY <2>4, FutexWaitKeeps
  <2> QED
    BY <1>2, <2>1, <2>2, <2>3, <2>4 DEF Suspend
<1>3. ASSUME NEW t \in Tasks, Continue(t) PROVE FutexInv'
  <2>1. ASSUME NEW a \in Addrs, NEW n \in Counts, FutexWake(t, a, n) PROVE FutexInv'
    BY <2>1, FutexWakeKeeps
  <2>2. ASSUME NEW a \in Addrs, NEW v \in Values, Store(t, a, v) PROVE FutexInv'
    BY <2>2, ElsewhereKeeps DEF Store
  <2>3. CASE EventWakeAll(t)
    BY <2>3, EventWakeAllKeeps
  <2> QED
    BY <1>3, <2>1, <2>2, <2>3 DEF Continue
<1>4. ASSUME NEW c \in TaskCPUs, Schedule(c) PROVE FutexInv'
  BY <1>4, ScheduleKeeps
<1>5. CASE Tick
  BY <1>5, TickKeeps
<1>6. CASE UNCHANGED futexVars
  BY <1>6, ElsewhereKeeps DEF futexVars
<1> QED
  BY <1>1, <1>2, <1>3, <1>4, <1>5, <1>6 DEF FutexNext

(* On one CPU the wait queues, slots and locals fit together at all times,   *)
(* for any number of tasks, entries, slots and calls.                        *)
THEOREM FutexInvariant == OneTaskCpu => (FutexSpec => []FutexInv)
<1> SUFFICES ASSUME OneTaskCpu PROVE FutexSpec => []FutexInv
  OBVIOUS
<1>1. FutexInit => FutexInv
  BY FutexInvInit
<1>2. FutexInv /\ [FutexNext]_futexVars => FutexInv'
  BY FutexInvNext
<1> QED
  BY <1>1, <1>2, PTL DEF FutexSpec

(* An entry for each blocked task. *)
LEMMA EntriesOfTask ==
    ASSUME FutexTyped, OneEntryEach, NEW t \in Tasks
    PROVE  Cardinality({i \in Entries : pool[i].in_use /\ pool[i].task = t})
              = IF state[t] = "BLOCKED" THEN 1 ELSE 0
<1> DEFINE S == {i \in Entries : pool[i].in_use /\ pool[i].task = t}
<1>1. CASE state[t] = "BLOCKED"
  <2>1. PICK i \in Entries : pool[i].in_use /\ pool[i].task = t
    BY <1>1 DEF OneEntryEach
  <2>2. S = {i}
    BY <2>1 DEF OneEntryEach
  <2> QED
    BY <1>1, <2>2, FS_Singleton
<1>2. CASE state[t] # "BLOCKED"
  <2>1. S = {}
    BY <1>2 DEF OneEntryEach
  <2> QED
    BY <1>2, <2>1, FS_EmptySet
<1> QED
  BY <1>1, <1>2

(* The lists of the wait queues hold exactly the entries in use, and the     *)
(* tasks on them are the blocked ones, each once.                            *)
THEOREM QueuesStayWellFormed == OneTaskCpu => (FutexSpec => []QueuesWellFormed)
<1> SUFFICES ASSUME OneTaskCpu PROVE FutexSpec => []QueuesWellFormed
  OBVIOUS
<1>1. FutexInv => QueuesWellFormed
  <2> SUFFICES ASSUME FutexInv PROVE QueuesWellFormed
    OBVIOUS
  <2>1. \A q \in Queues :
           Chain(pool, head[q]) = {i \in Entries : pool[i].in_use /\ pool[i].owner = q}
    BY ChainsAreMembers DEF FutexInv, Members
  <2>2. \A t \in Tasks : Cardinality({i \in Entries : pool[i].in_use /\ pool[i].task = t})
                            = IF state[t] = "BLOCKED" THEN 1 ELSE 0
    BY EntriesOfTask DEF FutexInv
  <2> QED
    BY <2>1, <2>2 DEF QueuesWellFormed
<1>2. FutexSpec => []FutexInv
  BY FutexInvariant
<1> QED
  BY <1>1, <1>2, PTL

(* Whoever is blocked in futex_wait can be found by futex_wake: the slot it  *)
(* waits on is the one find_slot returns for its address, and its entry is   *)
(* on the list of that slot.                                                 *)
THEOREM WaitersStayFindable == OneTaskCpu => (FutexSpec => []WaiterFindable)
<1> SUFFICES ASSUME OneTaskCpu PROVE FutexSpec => []WaiterFindable
  OBVIOUS
<1>1. FutexInv => WaiterFindable
  <2> SUFFICES ASSUME FutexInv, NEW t \in Tasks, frame[t].addr # None, state[t] = "BLOCKED"
               PROVE  /\ FindSlot(frame[t].addr) = frame[t].slot
                      /\ \E i \in Chain(pool, head[frame[t].slot]) : pool[i].task = t
    BY DEF WaiterFindable
  <2> DEFINE s == frame[t].slot
             a == frame[t].addr
  <2>0. FutexTyped /\ SlotsKept /\ OneEntryEach /\ InLists
    BY DEF FutexInv
  <2>1. s \in Slots /\ s \in Queues /\ ftable[s] = [addr |-> a, active |-> TRUE]
    BY <2>0, QueueFacts DEF SlotsKept, UsesSlot
  <2>2. ftable[s].active /\ ftable[s].addr = a
    BY <2>1
  <2> HIDE DEF s, a
  <2>3. FindSlot(a) = s
    BY <2>0, <2>1, <2>2, FindSlotFacts DEF SlotsKept
  <2>4. PICK i \in Entries : pool[i].in_use /\ pool[i].task = t
    BY <2>0 DEF OneEntryEach
  <2>5. pool[i].owner = s
    BY <2>0, <2>4 DEF OneEntryEach, s
  <2>6. i \in Chain(pool, head[s])
    BY <2>0, <2>1, <2>4, <2>5, ChainsAreMembers DEF Members
  <2> QED
    BY <2>3, <2>4, <2>6 DEF s, a
<1>2. FutexSpec => []FutexInv
  BY FutexInvariant
<1> QED
  BY <1>1, <1>2, PTL

(* A futex_wake that runs out of waiters has woken everybody who waited when *)
(* it began.                                                                 *)
THEOREM WakesMissNobody == OneTaskCpu => (FutexSpec => []CheckAndBlockAtomic)
<1> SUFFICES ASSUME OneTaskCpu PROVE FutexSpec => []CheckAndBlockAtomic
  OBVIOUS
<1>1. FutexInv => CheckAndBlockAtomic
  BY DEF FutexInv
<1>2. FutexSpec => []FutexInv
  BY FutexInvariant
<1> QED
  BY <1>1, <1>2, PTL
-----------------------------------------------------------------------------
(* Timeouts.  A wait of zero ticks is left out: its deadline is the present  *)
(* tick, which is never ahead.                                               *)
PositiveTimeouts == 0 \notin Timeouts

TimedInv ==
    /\ \A t \in Tasks : frame[t].ticks = NoTimeout \/ frame[t].ticks \in Nat \ {0}
    /\ OnTime

(* Steps that keep the entries and the locals of the tasks that have one. *)
LEMMA OnTimeKept ==
    ASSUME FutexInv, TimedInv, NEW t \in Tasks, state[t] # "BLOCKED", pool' = pool,
           frame'[t].ticks = NoTimeout \/ frame'[t].ticks \in Nat \ {0},
           \A u \in Tasks : u # t => frame'[u].ticks = frame[u].ticks
    PROVE  TimedInv'
<1>0. FutexTyped /\ OneEntryEach
  BY DEF FutexInv
<1>1. \A i \in Entries : pool[i].in_use => pool[i].task \in Tasks /\ pool[i].task # t
  BY <1>0 DEF FutexTyped, PoolTyped, Entry, OneEntryEach
<1>2. OnTime'
  BY <1>1 DEF TimedInv, OnTime
<1> QED
  BY <1>2 DEF TimedInv

(* Steps that leave the deadlines alone, whoever they wake. *)
LEMMA OnTimeOfFewer ==
    ASSUME FutexInv, TimedInv, \A u \in Tasks : frame'[u].ticks = frame[u].ticks,
           \A i \in Entries : pool'[i].in_use =>
               /\ pool[i].in_use /\ pool'[i].task = pool[i].task
               /\ pool'[i].left = pool[i].left
    PROVE  TimedInv'
<1>1. \A i \in Entries : pool[i].task \in Tasks
  BY DEF FutexInv, FutexTyped, PoolTyped, Entry
<1>2. OnTime'
  BY <1>1 DEF TimedInv, OnTime
<1> QED
  BY <1>2 DEF TimedInv

(* A new entry lies as far ahead as its task asked for. *)
LEMMA OnTimeOfWait ==
    ASSUME OneTaskCpu, FutexInv, TimedInv, NEW t \in Tasks, Wait(t)
    PROVE  TimedInv'
<1> DEFINE q == frame[t].slot
           left == IF frame[t].ticks = NoTimeout THEN NoTimeout ELSE Deadline(frame[t].ticks)
<1>0. FutexTyped /\ InLists /\ OnlyCurrentInside /\ OneEntryEach
  BY DEF FutexInv
<1>1. /\ Current = t /\ pc[t] = "wait" /\ WqWait(t, q, left) /\ frame' = frame
  BY CurrentFacts DEF Wait, At
<1>2. q \in Queues
  BY <1>0, <1>1 DEF OnlyCurrentInside
<1>3. CASE PoolAlloc = Nil
  <2>1. pool' = pool
    BY <1>1, <1>3 DEF WqWait
  <2> QED
    BY <1>1, <2>1, OnTimeOfFewer
<1>4. CASE PoolAlloc # Nil
  <2>1. left = frame[t].ticks /\ left \in Int
    BY DEF TimedInv, Deadline, NoTimeout
  <2> HIDE DEF left
  <2>2. PICK n \in Entries : Added(n, t, q, left)
    BY <1>0, <1>1, <1>2, <1>4, <2>1, WaitAdds
  <2>3. ASSUME NEW i \in Entries, pool'[i].in_use, frame[pool'[i].task].ticks # NoTimeout
        PROVE  pool'[i].left \in 1 .. frame[pool'[i].task].ticks
    <3>1. CASE i = n
      <4>1. pool'[i].task = t /\ pool'[i].left = frame[t].ticks
        BY <2>1, <2>2, <3>1 DEF Added
      <4> QED
        BY <2>3, <4>1 DEF TimedInv
    <3>2. CASE i # n
      <4>1. pool[i].in_use /\ pool'[i].task = pool[i].task /\ pool'[i].left = pool[i].left
        BY <2>2, <2>3, <3>2 DEF Added
      <4> QED
        BY <2>3, <4>1 DEF TimedInv, OnTime
    <3> QED
      BY <3>1, <3>2
  <2>4. OnTime'
    BY <1>1, <2>3 DEF OnTime
  <2> QED
    BY <1>1, <2>4 DEF TimedInv
<1> QED
  BY <1>3, <1>4

(* The tick releases what it would leave without a tick to go. *)
LEMMA OnTimeOfTick ==
    ASSUME FutexInv, TimedInv, Tick
    PROVE  TimedInv'
<1>0. FutexTyped /\ InLists /\ OneEntryEach
  BY DEF FutexInv
<1>1. WqTick /\ frame' = Settle(frame, TimedOut)
  BY DEF Tick
<1>2. \A u \in Tasks : frame'[u].ticks = frame[u].ticks
  BY <1>0, <1>1, SettleFacts DEF FutexTyped
<1>3. /\ Freed(Expiring)
      /\ \A i \in Entries : pool'[i].in_use =>
            pool'[i].left = IF pool[i].left > 0 THEN pool[i].left - 1 ELSE pool[i].left
  BY <1>0, <1>1, TickFrees
<1>4. ASSUME NEW i \in Entries, pool'[i].in_use, frame'[pool'[i].task].ticks # NoTimeout
      PROVE  pool'[i].left \in 1 .. frame'[pool'[i].task].ticks
  <2>1. pool[i].in_use /\ i \notin Expiring /\ pool'[i].task = pool[i].task /\ pool[i].task \in Tasks
    BY <1>0, <1>3, <1>4 DEF Freed, FutexTyped, PoolTyped, Entry
  <2>2. frame'[pool'[i].task].ticks = frame[pool[i].task].ticks
    BY <1>2, <2>1
  <2>3. /\ pool[i].left \in 1 .. frame[pool[i].task].ticks
        /\ frame[pool[i].task].ticks \in Nat
    BY <1>4, <2>1, <2>2 DEF TimedInv, OnTime
  <2>4. pool[i].left \notin {0, 1}
    BY <2>1 DEF Expiring
  <2>5. pool'[i].left = pool[i].left - 1
    BY <1>3, <1>4, <2>3
  <2> QED
    BY <2>2, <2>3, <2>4, <2>5
<1>5. OnTime'
  BY <1>4 DEF OnTime
<1> QED
  BY <1>2, <1>5 DEF TimedInv

(* Every step keeps the deadlines. *)
LEMMA TimedInvNext ==
    ASSUME OneTaskCpu, PositiveTimeouts, FutexInv, TimedInv, [FutexNext]_futexVars
    PROVE  TimedInv'
<1>0. FutexTyped /\ InLists /\ OnlyCurrentInside /\ OneEntryEach /\ SlotsKept
  BY DEF FutexInv
<1>1. \A t \in Tasks : Executes(t) /\ pc[t] # "schedule" => state[t] # "BLOCKED"
  BY <1>0, CurrentFacts DEF OnlyCurrentInside
<1>2. ASSUME NEW t \in Tasks, Executes(t), pc[t] # "schedule", pool' = pool, NEW f,
             frame' = [frame EXCEPT ![t] = f], f.ticks = NoTimeout \/ f.ticks \in Nat \ {0}
      PROVE  TimedInv'
  <2>1. frame'[t] = f /\ \A u \in Tasks : u # t => frame'[u] = frame[u]
    BY <1>0, <1>2 DEF FutexTyped
  <2> QED
    BY <1>1, <1>2, <2>1, OnTimeKept
<1>3. ASSUME frame' = frame, pool' = pool PROVE TimedInv'
  BY <1>3, OnTimeOfFewer
<1>4. ASSUME NEW n, NEW t \in Tasks, NEW s, NEW a, NEW v
      PROVE  [NoFrame EXCEPT !.slot = s, !.addr = a, !.expected = v, !.ticks = n].ticks = n
  BY NoFrameFacts DEF Frame
<1>5. ASSUME NEW t \in Tasks, Proceed(t) PROVE TimedInv'
  <2>1. CASE FutexRecheck(t)
    <3>1. CASE word[frame[t].addr] # frame[t].expected
      BY <1>2, <2>1, <3>1, NoFrameFacts DEF FutexRecheck, Return, At, wqVars
    <3>2. CASE word[frame[t].addr] = frame[t].expected
      BY <1>3, <2>1, <3>2 DEF FutexRecheck, wqVars
    <3> QED
      BY <3>1, <3>2
  <2>2. CASE Wait(t)
    BY <2>2, OnTimeOfWait
  <2>3. CASE Waited(t)
    BY <1>2, <2>3, NoFrameFacts DEF Waited, Return, At
  <2>4. CASE WakeLoop(t)
    BY <1>3, <2>4 DEF WakeLoop, wqVars
  <2>5. CASE WakeOne(t)
    <3> DEFINE q == frame[t].slot
               g == [frame EXCEPT ![t].woken = @ + 1]
    <3>1. pc[t] = "wakeone" /\ WqWakeOne(q) /\ frame' = Settle(g, Woken(q))
      BY <2>5 DEF WakeOne, At
    <3>2. q \in Queues
      BY <1>0, <3>1, QueueFacts DEF SlotsKept, Waking
    <3>3. /\ Freed(Front(q))
          /\ \A i \in Entries : pool'[i].in_use => pool'[i].left = pool[i].left
      BY <1>0, <3>1, <3>2, WakeOneFrees
    <3>4. g \in [Tasks -> Frame] /\ \A u \in Tasks : g[u].ticks = frame[u].ticks
      <4>1. frame[t] \in Frame /\ frame \in [Tasks -> Frame]
        BY <1>0 DEF FutexTyped
      <4>2. ASSUME NEW f, f = [frame[t] EXCEPT !.woken = @ + 1]
            PROVE  f \in Frame /\ f.ticks = frame[t].ticks
        BY <4>1, <4>2 DEF Frame
      <4>3. g = [frame EXCEPT ![t] = [frame[t] EXCEPT !.woken = @ + 1]]
        OBVIOUS
      <4> HIDE DEF g
      <4> QED
        BY <4>1, <4>2, <4>3
    <3> HIDE DEF g
    <3>5. \A u \in Tasks : frame'[u].ticks = frame[u].ticks
      BY <3>1, <3>4, SettleFacts
    <3> QED
      BY <3>3, <3>5, OnTimeOfFewer DEF Freed
  <2>6. CASE WakeDone(t)
    BY <1>2, <2>6, NoFrameFacts DEF WakeDone, Return, At, wqVars
  <2> QED
    BY <1>5, <2>1, <2>2, <2>3, <2>4, <2>5, <2>6 DEF Proceed
<1>6. ASSUME NEW t \in Tasks, NEW n \in Nat, SleepTicks(t, n) PROVE TimedInv'
  <2> DEFINE f == [NoFrame EXCEPT !.slot = SleepQueue, !.ticks = n]
  <2>1. f.ticks = n /\ n # 0
    BY <1>6, NoFrameFacts DEF SleepTicks, Frame
  <2>2. frame' = [frame EXCEPT ![t] = f] /\ Executes(t) /\ pc[t] = "user" /\ pool' = pool
    BY <1>6 DEF SleepTicks, At, wqVars
  <2> HIDE DEF f
  <2> QED
    BY <1>2, <2>1, <2>2
<1>7. ASSUME NEW t \in Tasks, Suspend(t) PROVE TimedInv'
  <2>1. CASE Yield(t)
    BY <1>3, <2>1 DEF Yield, wqVars
  <2>2. CASE EventWait(t)
    <3> DEFINE f == [NoFrame EXCEPT !.slot = EventQueue]
    <3>1. f.ticks = NoTimeout
      BY NoFrameFacts DEF Frame
    <3>2. frame' = [frame EXCEPT ![t] = f] /\ Executes(t) /\ pc[t] = "user" /\ pool' = pool
      BY <2>2 DEF EventWait, At, wqVars
    <3> HIDE DEF f
    <3> QED
      BY <1>2, <3>1, <3>2
  <2>3. ASSUME NEW n \in Timeouts, SleepTicks(t, n) PROVE TimedInv'
    BY <1>6, <2>3, CallsAssumption
  <2>4. ASSUME NEW ms \in Millis, SleepMs(t, ms) PROVE TimedInv'
    <3>1. MsToTicks(ms) \in Nat
      BY CallsAssumption DEF MsToTicks
    <3> QED
      BY <1>6, <2>4, <3>1 DEF SleepMs
  <2>5. ASSUME NEW a \in Addrs, NEW v \in Values, NEW n \in Timeouts \cup {NoTimeout},
               FutexWait(t, a, v, n)
        PROVE  TimedInv'
    <3> DEFINE s == IF FindSlot(a) # Nil THEN FindSlot(a) ELSE FreeSlot
               f == [NoFrame EXCEPT !.slot = s, !.addr = a, !.expected = v, !.ticks = n]
    <3>1. frame' = [frame EXCEPT ![t] = f] /\ Executes(t) /\ pc[t] = "user" /\ pool' = pool
      BY <2>5 DEF FutexWait, At
    <3> HIDE DEF s
    <3>2. f.ticks = n
      BY <1>4
    <3>3. n = NoTimeout \/ n \in Nat \ {0}
      BY CallsAssumption DEF PositiveTimeouts
    <3> HIDE DEF f
    <3> QED
      BY <1>2, <3>1, <3>2, <3>3
  <2> QED
    BY <1>7, <2>1, <2>2, <2>3, <2>4, <2>5 DEF Suspend
<1>8. ASSUME NEW t \in Tasks, Continue(t) PROVE TimedInv'
  <2>1. ASSUME NEW a \in Addrs, NEW n \in Counts, FutexWake(t, a, n) PROVE TimedInv'
    <3> DEFINE f == [NoFrame EXCEPT !.slot = FindSlot(a), !.addr = a, !.count = n,
                                    !.owed = WaitingOn(a)]
    <3>1. f.ticks = NoTimeout
      BY NoFrameFacts DEF Frame
    <3>2. frame' = [frame EXCEPT ![t] = f] /\ Executes(t) /\ pc[t] = "user" /\ pool' = pool
      BY <2>1 DEF FutexWake, At, wqVars
    <3> HIDE DEF f
    <3> QED
      BY <1>2, <3>1, <3>2
  <2>2. ASSUME NEW a \in Addrs, NEW v \in Values, Store(t, a, v) PROVE TimedInv'
    BY <1>3, <2>2 DEF Store, wqVars
  <2>3. CASE EventWakeAll(t)
    <3>1. WqWakeAll(EventQueue) /\ frame' = frame
      BY <2>3 DEF EventWakeAll
    <3>2. /\ Freed(Members(EventQueue))
          /\ \A i \in Entries : pool'[i].in_use => pool'[i].left = pool[i].left
      BY <1>0, <3>1, WakeAllFrees, QueueFacts
    <3> QED
      BY <3>1, <3>2, OnTimeOfFewer DEF Freed
  <2> QED
    BY <1>8, <2>1, <2>2, <2>3 DEF Continue
<1>9. ASSUME NEW c \in TaskCPUs, Schedule(c) PROVE TimedInv'
  BY <1>3, <1>9 DEF Schedule
<1>10. CASE Tick
  BY <1>10, OnTimeOfTick
<1>11. CASE UNCHANGED futexVars
  BY <1>3, <1>11 DEF futexVars, wqVars
<1> QED
  BY <1>5, <1>7, <1>8, <1>9, <1>10, <1>11 DEF FutexNext

(* No timed wait outlives its timeout. *)
THEOREM WaitsStayOnTime == OneTaskCpu /\ PositiveTimeouts => (FutexSpec => []OnTime)
<1> SUFFICES ASSUME OneTaskCpu, PositiveTimeouts PROVE FutexSpec => []OnTime
  OBVIOUS
<1>1. FutexInit => TimedInv
  <2> SUFFICES ASSUME FutexInit PROVE TimedInv
    OBVIOUS
  <2>1. \A t \in Tasks : frame[t].ticks = NoTimeout
    BY NoFrameFacts DEF FutexInit
  <2>2. \A i \in Entries : ~pool[i].in_use
    BY FreeEntryFacts DEF FutexInit, WqInit
  <2> QED
    BY <2>1, <2>2 DEF TimedInv, OnTime
<1>2. FutexInv /\ TimedInv /\ [FutexNext]_futexVars => TimedInv'
  BY TimedInvNext
<1>3. TimedInv => OnTime
  BY DEF TimedInv
<1>4. FutexSpec => []FutexInv
  BY FutexInvariant
<1> QED
  BY <1>1, <1>2, <1>3, <1>4, PTL DEF FutexSpec
=============================================================================
