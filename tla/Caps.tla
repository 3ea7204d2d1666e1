-------------------------------- MODULE Caps --------------------------------
(***************************************************************************)
(* The capability pool (kernel/cap.c) as operators on the record of its    *)
(* static variables: the slots in use, what each holds, and who holds      *)
(* cap_lock.  A capability is its type; the payload comes and goes with    *)
(* it.  A call that takes the lock is one step, but for cap_alloc, which   *)
(* scans in one and fills the slot in another.                             *)
(***************************************************************************)
EXTENDS Integers

CONSTANT CAP_POOL_SIZE      \* 256 in the code

ASSUME CapsAssumption == CAP_POOL_SIZE \in Nat \ {0}

Free == -1      \* nobody holds cap_lock
CapSlots == 0 .. CAP_POOL_SIZE - 1
\* What SYS_CAP_CREATE makes; it refuses the other types.
SysCapTypes == {"MEMORY", "IO"}

\* cap_init.
cap_init ==
    [used |-> {}, lock |-> Free,
     pool |-> [i \in CapSlots |-> [type |-> "NONE", refcount |-> 0]]]

FreeSlots(p) == CapSlots \ p.used
FirstFree(p) == CHOOSE i \in FreeSlots(p) : \A j \in FreeSlots(p) : i <= j

\* Mutant: the scan runs without the lock.
ScanUnlocked(p, c) == p.lock \in Int

\* cap_alloc waits for cap_lock before it scans.
LockForScan(p, c) == p.lock = Free

\* The rest of cap_alloc, under the lock: the slot found is marked, filled and referenced.
CapFill(p, i, type) ==
    [p EXCEPT !.used = @ \cup {i}, !.pool[i] = [type |-> type, refcount |-> 1], !.lock = Free]

\* cap_destroy, for an id in range: a reference goes, and with the last one the slot.
CapDrop(p, i) ==
    IF i \notin p.used THEN p
    ELSE IF p.pool[i].refcount - 1 = 0
    THEN [p EXCEPT !.used = @ \ {i}, !.pool[i] = [type |-> "NONE", refcount |-> 0]]
    ELSE [p EXCEPT !.pool[i].refcount = @ - 1]

\* cap_lookup, which takes no lock.
cap_lookup(p, i) == IF i \in p.used THEN p.pool[i].type ELSE "NULL"

=============================================================================
