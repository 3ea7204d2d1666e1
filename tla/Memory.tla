------------------------------- MODULE Memory -------------------------------
(***************************************************************************)
(* Who owns physical memory: the bitmap allocator and mm_map_page of       *)
(* kernel/mm.c, the address spaces and ASIDs of kernel/vm.c, the way       *)
(* task_create and task_destroy use them (kernel/task.c), and the slab of  *)
(* kmalloc (linux/compat.c).                                               *)
(*                                                                         *)
(* Every call of page_alloc or pages_alloc is a step of its own, because   *)
(* mm_lock is released after each: other CPUs allocate and free between    *)
(* the steps of task_create and of a table walk.  Memory is kept as the    *)
(* set of pages marked in the bitmap and the contents of the pages that    *)
(* serve as page tables; a page index stands for its address.              *)
(***************************************************************************)
EXTENDS Integers, FiniteSets

CONSTANTS
    MAX_PAGES,      \* pages of RAM: 32768 in the code
    KernelPages,    \* pages of the kernel image, from page 0
    MAX_TASKS,      \* 32 in the code
    StackPages,     \* TASK_STACK_SIZE / PAGE_SIZE: 4 in the code
    ASID_MAX,       \* 256 in the code
    FanOut,         \* entries of a page table: 512 in the code
    Vaddrs,         \* page numbers of the virtual addresses that get mapped: 36 bits (T0SZ)
    Frames,         \* what they are mapped to
    PageUnits,      \* a page in units of kmalloc's alignment: 256 in the code
    Sizes,          \* what kmalloc is called with, in those units
    ClientSizes,    \* what other clients call pages_alloc with
    MaxClients,     \* bound: runs of pages that other clients hold at a time
    MaxObjects,     \* bound: objects that kmalloc hands out
    KfreeSmall      \* whether drivers call kfree on small objects: FALSE in the code

ASSUME MemoryAssumption ==
    /\ {MAX_PAGES, MAX_TASKS, StackPages, ASID_MAX, FanOut, PageUnits} \subseteq Nat \ {0}
    /\ KernelPages \in 2 .. MAX_PAGES
    /\ FanOut > 1
    /\ Vaddrs \subseteq 0 .. FanOut * FanOut * FanOut * FanOut - 1
    /\ Sizes \cup ClientSizes \subseteq Nat
    /\ KfreeSmall \in BOOLEAN

Pages == 0 .. MAX_PAGES - 1
Tasks == 0 .. MAX_TASKS - 1
Slots == 0 .. FanOut - 1        \* indices of a page table
Nil == -1                       \* NULL, or no task

VARIABLES
    used,       \* page_bitmap: the pages marked
    used_pages, \* the count kept beside it
    pt,         \* what each page holds, read as a page table
    asids,      \* asid_bitmap
    live,       \* tasks[].state # TASK_DEAD
    as,         \* tasks[].as and stack_base
    create,     \* task_create under way: its slot and its next step
    walk,       \* mm_map_page under way
    clients,    \* runs of pages held by the other callers of pages_alloc
    objects,    \* what kmalloc has handed out
    slab,       \* slab_page and slab_offset
    leaked      \* pages that no kernel data structure leads to any more

vars == <<used, used_pages, pt, asids, live, as, create, walk, clients, objects,
          slab, leaked>>

Invalid == [kind |-> "invalid", to |-> Nil]
TableAt(p) == [kind |-> "table", to |-> p]
Block == [kind |-> "block", to |-> Nil]
Leaf(f) == [kind |-> "page", to |-> f]

EmptyTable == [i \in Slots |-> Invalid]

NoSpace == [pgd |-> Nil, asid |-> 0, stack |-> Nil]
NoCreate == [task |-> Nil, step |-> "none"]
NoWalk == [task |-> Nil, va |-> 0, frame |-> 0, level |-> 0, table |-> Nil]

\* The kernel's own tables: an L1 table, and one L2 table that stands for those of
\* the devices and of RAM, with blocks in front and free entries behind.
KernelL1 == 0
KernelL2 == 1

\* mm_init and mm_create_page_tables.
Init ==
    /\ used = 0 .. KernelPages - 1
    /\ used_pages = KernelPages
    /\ pt = [p \in Pages |->
                IF p = KernelL1 THEN [EmptyTable EXCEPT ![0] = TableAt(KernelL2)]
                ELSE IF p = KernelL2 THEN [EmptyTable EXCEPT ![0] = Block]
                ELSE EmptyTable]
    /\ asids = {}
    /\ live = [t \in Tasks |-> FALSE]
    /\ as = [t \in Tasks |-> NoSpace]
    /\ create = NoCreate
    /\ walk = NoWalk
    /\ clients = {}
    /\ objects = {}
    /\ slab = [page |-> Nil, offset |-> 0]
    /\ leaked = {}
-----------------------------------------------------------------------------
Run(p, n) == p .. p + n - 1

\* Mutant: the run may be one page short.
FirstRunShort(n) ==
    LET free == {p \in Pages : p + n <= MAX_PAGES /\ Run(p, n - 1) \cap used = {}}
    IN  IF free = {} THEN Nil ELSE CHOOSE p \in free : \A q \in free : p <= q

\* Where pages_alloc finds n free pages in a row, or page_alloc one.
FirstRun(n) ==
    LET free == {p \in Pages : p + n <= MAX_PAGES /\ Run(p, n) \cap used = {}}
    IN  IF free = {} THEN Nil ELSE CHOOSE p \in free : \A q \in free : p <= q

\* Mutant: a page keeps what its last owner left there.
FreshDirty(p) == [EmptyTable EXCEPT ![0] = Leaf(0)]

\* A page that page_alloc or pages_alloc returns is zeroed.
Fresh(p) == EmptyTable

\* The bitmap and the count after n pages from p have been taken.
Allocate(p, n) ==
    /\ used' = used \cup Run(p, n)
    /\ used_pages' = used_pages + n

\* ... by somebody who does not use them as page tables.
AllocateFresh(p, n) ==
    /\ Allocate(p, n)
    /\ pt' = [q \in Pages |-> IF q \in Run(p, n) THEN Fresh(q) ELSE pt[q]]

\* page_free and pages_free: only pages that are marked count.  What a free page
\* holds is never read (it is zeroed when it is allocated) and is reset here.
Free(ps) ==
    /\ used' = used \ ps
    /\ used_pages' = used_pages - Cardinality(used \cap ps)
    /\ pt' = [p \in Pages |-> IF p \in ps THEN EmptyTable ELSE pt[p]]
-----------------------------------------------------------------------------
Targets(p, from) == {pt[p][i].to : i \in {j \in from : pt[p][j].kind = "table"}}

\* The pages vm_free_subtree frees for the entries from of root: the L1, L2 and L3
\* tables below it.  Leaf pages are not freed.
Subtree(root, from) ==
    LET l1 == Targets(root, from)
        l2 == UNION {Targets(p, Slots) : p \in l1}
        l3 == UNION {Targets(p, Slots) : p \in l2}
    IN  l1 \cup l2 \cup l3

\* What vm_destroy frees.  Entry 0 is the shared kernel mapping.
SpacePages(t) ==
    IF as[t].pgd = Nil THEN {} ELSE {as[t].pgd} \cup Subtree(as[t].pgd, Slots \ {0})

StackOf(t) == IF as[t].stack = Nil THEN {} ELSE Run(as[t].stack, StackPages)

\* The kernel image, and the tables mm_map_page has added below its L1 table.
KernelOwned ==
    LET l2 == Targets(KernelL1, Slots)
    IN  (0 .. KernelPages - 1) \cup l2 \cup UNION {Targets(p, Slots) : p \in l2}
-----------------------------------------------------------------------------
\* task_create: the first DEAD slot.  What an exited task left in it is forgotten:
\* nothing else knows its pages.  Then vm_create allocates the L0 table and shares
\* the kernel's entry 0.
CreateVm ==
    LET dead == {t \in Tasks : ~live[t]}
        t == CHOOSE x \in dead : \A y \in dead : x <= y
        p == FirstRun(1)
    IN  /\ create = NoCreate
        /\ dead # {}
        /\ leaked' = leaked \cup SpacePages(t) \cup StackOf(t)
        /\ as' = [as EXCEPT ![t] = [NoSpace EXCEPT !.pgd = p]]
        /\ IF p = Nil THEN UNCHANGED <<used, used_pages, pt, create>>
           ELSE /\ Allocate(p, 1)
                /\ pt' = [pt EXCEPT ![p] = [Fresh(p) EXCEPT ![0] = TableAt(KernelL1)]]
                /\ create' = [task |-> t, step |-> "asid"]
        /\ UNCHANGED <<asids, live, walk, clients, objects, slab>>

MarkAsid(a) == asids \cup ({a} \ {0})

\* The end of vm_create: asid_alloc, with 0 to fall back on.
CreateAsid ==
    LET free == (1 .. ASID_MAX - 1) \ asids
        a == IF free = {} THEN 0 ELSE CHOOSE i \in free : \A j \in free : i <= j
    IN  /\ create.step = "asid"
        /\ asids' = MarkAsid(a)
        /\ as' = [as EXCEPT ![create.task].asid = a]
        /\ create' = [create EXCEPT !.step = "stack"]
        /\ UNCHANGED <<used, used_pages, pt, live, walk, clients, objects, slab, leaked>>

\* task_create: the stack, and the task is READY; or all is to be undone.
CreateStack ==
    LET p == FirstRun(StackPages)
    IN  /\ create.step = "stack"
        /\ IF p = Nil
           THEN /\ create' = [create EXCEPT !.step = "undo"]
                /\ UNCHANGED <<used, used_pages, pt, live, as>>
           ELSE /\ AllocateFresh(p, StackPages)
                /\ as' = [as EXCEPT ![create.task].stack = p]
                /\ live' = [live EXCEPT ![create.task] = TRUE]
                /\ create' = NoCreate
        /\ UNCHANGED <<asids, walk, clients, objects, slab, leaked>>

\* Mutant: the ASID is given back but not the L0 table.
CreateUndoAsidOnly ==
    /\ create.step = "undo"
    /\ asids' = asids \ {as[create.task].asid}
    /\ as' = [as EXCEPT ![create.task] = NoSpace]
    /\ create' = NoCreate
    /\ UNCHANGED <<used, used_pages, pt, live, walk, clients, objects, slab, leaked>>

\* task_create without a stack: vm_destroy, and the slot stays DEAD.
CreateUndo ==
    /\ create.step = "undo"
    /\ Free(SpacePages(create.task))
    /\ asids' = asids \ {as[create.task].asid}
    /\ as' = [as EXCEPT ![create.task] = NoSpace]
    /\ create' = NoCreate
    /\ UNCHANGED <<live, walk, clients, objects, slab, leaked>>

\* A task that has its stack: a caller of task_destroy must see to it that the
\* task it takes apart executes no more, and that nobody maps pages for it.
Whole(t) == live[t] /\ as[t].stack # Nil

\* task_exit_handler: the task is DEAD and keeps what it had.
Exit(t) ==
    /\ Whole(t) /\ walk.task # t
    /\ live' = [live EXCEPT ![t] = FALSE]
    /\ UNCHANGED <<used, used_pages, pt, asids, as, create, walk, clients, objects,
                   slab, leaked>>

\* task_destroy: the stack is free while the task is not DEAD yet ...
DestroyStack(t) ==
    /\ Whole(t) /\ walk.task # t
    /\ Free(StackOf(t))
    /\ as' = [as EXCEPT ![t].stack = Nil]
    /\ UNCHANGED <<asids, live, create, walk, clients, objects, slab, leaked>>

\* ... until vm_destroy has freed the tables and the ASID.
DestroySpace(t) ==
    /\ live[t] /\ as[t].stack = Nil /\ walk.task # t
    /\ Free(SpacePages(t))
    /\ asids' = asids \ {as[t].asid}
    /\ as' = [as EXCEPT ![t] = NoSpace]
    /\ live' = [live EXCEPT ![t] = FALSE]
    /\ UNCHANGED <<create, walk, clients, objects, slab, leaked>>

TaskDestroy(t) == DestroyStack(t) \/ DestroySpace(t)
-----------------------------------------------------------------------------
\* How many pages an entry of a table at a level stands for.
Span(level) ==
    CASE level = 0 -> FanOut * FanOut * FanOut
      [] level = 1 -> FanOut * FanOut
      [] level = 2 -> FanOut
      [] level = 3 -> 1

\* The index that a virtual page number has at a level: 9 bits each in the code.
Index(va, level) == (va \div Span(level)) % FanOut

\* mm_map_page(t->as.pgd, va, frame): start at the L0 table.
MapStart(t, va, frame) ==
    /\ Whole(t) /\ walk = NoWalk
    /\ walk' = [task |-> t, va |-> va, frame |-> frame, level |-> 0, table |-> as[t].pgd]
    /\ UNCHANGED <<used, used_pages, pt, asids, live, as, create, clients, objects,
                   slab, leaked>>

Descend(p) == walk' = [walk EXCEPT !.level = @ + 1, !.table = p]

\* One level of the walk: follow the entry, or allocate a table for it.  Without a
\* page, or at a block, mm_map_page returns; what it has linked so far stays.
MapWalk ==
    LET i == Index(walk.va, walk.level)
        entry == pt[walk.table][i]
        p == FirstRun(1)
    IN  /\ walk.task # Nil /\ walk.level < 3
        /\ \/ /\ entry.kind = "invalid" /\ p # Nil
              /\ Allocate(p, 1)
              /\ pt' = [pt EXCEPT ![p] = Fresh(p), ![walk.table][i] = TableAt(p)]
              /\ Descend(p)
           \/ /\ entry.kind = "table"
              /\ Descend(entry.to)
              /\ UNCHANGED <<used, used_pages, pt>>
           \/ /\ entry.kind = "block" \/ (entry.kind = "invalid" /\ p = Nil)
              /\ walk' = NoWalk
              /\ UNCHANGED <<used, used_pages, pt>>
        /\ UNCHANGED <<asids, live, as, create, clients, objects, slab, leaked>>

\* The leaf: l3[l3_idx] = paddr | flags.
MapLeaf ==
    /\ walk.task # Nil /\ walk.level = 3
    /\ pt' = [pt EXCEPT ![walk.table][Index(walk.va, 3)] = Leaf(walk.frame)]
    /\ walk' = NoWalk
    /\ UNCHANGED <<used, used_pages, asids, live, as, create, clients, objects, slab,
                   leaked>>
-----------------------------------------------------------------------------
\* pages_alloc and pages_free by windows, framebuffers, queues and CPU stacks.
ClientAlloc(n) ==
    LET p == FirstRun(n)
    IN  /\ Cardinality(clients) < MaxClients
        /\ p # Nil
        /\ AllocateFresh(p, n)
        /\ clients' = clients \cup {Run(p, n)}
        /\ UNCHANGED <<asids, live, as, create, walk, objects, slab, leaked>>

ClientFree(run) ==
    /\ Free(run)
    /\ clients' = clients \ {run}
    /\ UNCHANGED <<asids, live, as, create, walk, objects, slab, leaked>>

IsSmall(size) == 2 * size <= PageUnits

\* kmalloc of a small object that fits behind the last one.
KmallocSlab(size) ==
    /\ Cardinality(objects) < MaxObjects
    /\ IsSmall(size)
    /\ slab.page # Nil /\ slab.offset + size <= PageUnits
    /\ objects' = objects \cup {[page |-> slab.page, offset |-> slab.offset, size |-> size]}
    /\ slab' = [slab EXCEPT !.offset = @ + size]
    /\ UNCHANGED <<used, used_pages, pt, asids, live, as, create, walk, clients, leaked>>

\* kmalloc that needs a page: a new slab page, or a page for a large object.
KmallocPage(size) ==
    LET p == FirstRun(1)
    IN  /\ Cardinality(objects) < MaxObjects
        /\ size <= PageUnits
        /\ IsSmall(size) => slab.page = Nil \/ slab.offset + size > PageUnits
        /\ p # Nil
        /\ AllocateFresh(p, 1)
        /\ objects' = objects \cup {[page |-> p, offset |-> 0, size |-> size]}
        /\ slab' = IF IsSmall(size) THEN [page |-> p, offset |-> size] ELSE slab
        /\ UNCHANGED <<asids, live, as, create, walk, clients, leaked>>

\* kfree: a page-aligned pointer frees its page, any other does nothing.
Kfree(o) ==
    /\ o.offset = 0
    /\ IsSmall(o.size) => KfreeSmall
    /\ Free({o.page})
    /\ objects' = objects \ {o}
    /\ UNCHANGED <<asids, live, as, create, walk, clients, slab, leaked>>

TaskCreate == CreateVm \/ CreateAsid \/ CreateStack \/ CreateUndo

Next ==
    \/ TaskCreate
    \/ \E t \in Tasks : Exit(t) \/ TaskDestroy(t)
    \/ \E t \in Tasks, va \in Vaddrs, f \in Frames : MapStart(t, va, f)
    \/ MapWalk
    \/ MapLeaf
    \/ \E n \in ClientSizes : ClientAlloc(n)
    \/ \E run \in clients : ClientFree(run)
    \/ \E size \in Sizes : KmallocSlab(size) \/ KmallocPage(size)
    \/ \E o \in objects : Kfree(o)

Spec == Init /\ [][Next]_vars
-----------------------------------------------------------------------------
\* The pages of the slab, and those that are large objects.
SlabPages == {o.page : o \in {x \in objects : IsSmall(x.size)}} \cup ({slab.page} \ {Nil})
Large == {o.page : o \in {x \in objects : ~IsSmall(x.size)}}

\* Each owner and its pages.  Two clients are told apart by what they hold.
Holdings ==
    {<<"kernel", Nil, KernelOwned>>, <<"slab", Nil, SlabPages>>, <<"objects", Nil, Large>>}
    \cup {<<"tables", t, SpacePages(t)>> : t \in Tasks}
    \cup {<<"stack", t, StackOf(t)>> : t \in Tasks}
    \cup {<<"client", Nil, run>> : run \in clients}

\* No ASID is that of two address spaces, except for the 0 that asid_alloc returns when
\* all are taken, and none in use is marked free.
AsidsDistinct ==
    \A t \in Tasks :
        as[t].asid # 0 =>
            /\ as[t].asid \in asids
            /\ \A u \in Tasks \ {t} : as[u].asid # as[t].asid

(* Exclusive: no page has two owners - the kernel image, the page tables of  *)
(* an address space, a task stack, a run of pages of another client, a large *)
(* object, the slab - whatever was allocated, failed half-way, freed and     *)
(* allocated again before; the objects of a slab page do not overlap; and    *)
(* no ASID but the fall-back 0 has two owners either.                        *)
Exclusive ==
    /\ \A h, k \in Holdings : h # k => h[3] \cap k[3] = {}
    /\ \A o, x \in objects :
          o # x /\ o.page = x.page => \/ o.offset + o.size <= x.offset
                                     \/ x.offset + x.size <= o.offset
    /\ AsidsDistinct

(* BitmapExact: exactly the pages that have an owner are marked in the       *)
(* bitmap, apart from those an exited task left behind in a slot that was    *)
(* used again, and used_pages counts the marks: no path of task_create,      *)
(* vm_destroy or kmalloc drops a page or frees one that is in use.           *)
BitmapExact ==
    /\ used \ leaked = UNION {h[3] : h \in Holdings}
    /\ used_pages = Cardinality(used)

\* What the hardware finds for va when TTBR0 points to root and memory holds m.
Translate(m, root, va) ==
    LET Follow(e, level) == IF e.kind = "table" THEN m[e.to][Index(va, level)] ELSE e
    IN  Follow(Follow(Follow(Follow(TableAt(root), 0), 1), 2), 3)

Translates(m, t, va) == Translate(m, as[t].pgd, va).kind \in {"page", "block"}

(* MapIsLocal: whatever happens to other tasks and pages, the translation of *)
(* an address of a live task changes only when the last step of mm_map_page  *)
(* for that very address sets it, in that task or, for addresses below the   *)
(* shared entry 0, in all: tables are linked empty, and no table in use is   *)
(* handed to somebody else.                                                  *)
MapIsLocal ==
    [][pt' # pt => \A t \in Tasks, va \in Vaddrs :
          /\ live[t] /\ live'[t]
          /\ Translates(pt, t, va) \/ Translates(pt', t, va)
          /\ Translate(pt', as[t].pgd, va) # Translate(pt, as[t].pgd, va)
          => /\ walk.va = va /\ walk.level = 3
             /\ walk.task = t \/ Index(va, 0) = 0]_vars
=============================================================================
