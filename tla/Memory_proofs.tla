--------------------------- MODULE Memory_proofs ---------------------------
(***************************************************************************)
(* Proofs about Memory: however task_create, its failure paths, exits,     *)
(* table walks and the other users of the allocator interleave, no page    *)
(* has two owners, the bitmap marks exactly the pages that have one, and   *)
(* no translation changes but the one that mm_map_page is called for.      *)
(*                                                                         *)
(* The page tables of an address space are a tree, and so are those of the *)
(* kernel: their levels are disjoint sets of pages.  Every page has a kind *)
(* and an owner of that kind; an allocation gives a kind to pages that had *)
(* none, a release takes it away.  No table but the kernel's is linked     *)
(* twice, so a table of the last level is reached for one run of addresses *)
(* only.                                                                   *)
(***************************************************************************)
EXTENDS Memory, FiniteSetTheorems, WellFoundedInduction, NaturalsInduction, TLAPS

(* What the descriptors of a page table can be. *)
Entries ==
    [kind : {"invalid", "block", "page"}, to : {Nil} \cup Frames]
    \cup [kind : {"table"}, to : Pages]

Memories == [Pages -> [Slots -> Entries]]

Spaces == [pgd : Pages \cup {Nil}, asid : 0 .. ASID_MAX - 1, stack : Pages \cup {Nil}]

(* The tables at each level of the tree with L0 table g in memory m; Shared  *)
(* stands for the tables of the kernel, which begin with an L1 table.        *)
Shared == -2

TargetsIn(m, p, from) == {m[p][i].to : i \in {j \in from : m[p][j].kind = "table"}}

BelowIn(m, S) == UNION {TargetsIn(m, p, Slots) : p \in S}

L0(g) == IF g \in Pages THEN {g} ELSE {}
L1(m, g) ==
    IF g = Shared THEN {KernelL1}
    ELSE IF g \in Pages THEN TargetsIn(m, g, Slots \ {0}) ELSE {}
L2(m, g) == BelowIn(m, L1(m, g))
L3(m, g) == BelowIn(m, L2(m, g))

Level(m, g, k) ==
    IF k = 0 THEN L0(g)
    ELSE IF k = 1 THEN L1(m, g) ELSE IF k = 2 THEN L2(m, g) ELSE L3(m, g)

AllTables(m, g) == L0(g) \cup L1(m, g) \cup L2(m, g) \cup L3(m, g)

(* The levels are disjoint, the last one has no table below it, and entry 0  *)
(* of an L0 table leads to the kernel's tables.                              *)
Tree(m, g) ==
    /\ L0(g) \cap (L1(m, g) \cup L2(m, g) \cup L3(m, g)) = {}
    /\ L1(m, g) \cap (L2(m, g) \cup L3(m, g)) = {}
    /\ L2(m, g) \cap L3(m, g) = {}
    /\ \A p \in L3(m, g), i \in Slots : m[p][i].kind # "table"
    /\ \A p \in L0(g) : m[p][0] = TableAt(KernelL1)

(* The trees there are: one for each task, and that of the kernel. *)
Roots == Tasks \cup {Nil}
Root(r) == IF r = Nil THEN Shared ELSE as[r].pgd

Kinds == {"none", "kernel", "tables", "stack", "client", "large", "slab"}

(* Assigned: kind and of give every page at most one owner, and these are    *)
(* the owners of the sets of pages kernel, tables[t], stack[t] and so on.    *)
Assigned(kind, of, kernel, tables, stacks, runs, large, small, marked) ==
    \A p \in Pages :
        /\ kind[p] \in Kinds
        /\ p \in kernel <=> kind[p] = "kernel"
        /\ \A t \in Tasks : p \in tables[t] <=> (kind[p] = "tables" /\ of[p] = t)
        /\ \A t \in Tasks : p \in stacks[t] <=> (kind[p] = "stack" /\ of[p] = t)
        /\ \A r \in runs : p \in r <=> (kind[p] = "client" /\ of[p] = r)
        /\ kind[p] = "client" => of[p] \in runs
        /\ kind[p] \in {"tables", "stack"} => of[p] \in Tasks
        /\ p \in large <=> kind[p] = "large"
        /\ p \in small <=> kind[p] = "slab"
        /\ p \in marked <=> kind[p] # "none"

AllSpaces == [t \in Tasks |-> SpacePages(t)]
AllStacks == [t \in Tasks |-> StackOf(t)]

(* The parts of the inductive invariant. *)
Typed ==
    /\ used \subseteq Pages /\ leaked \subseteq used
    /\ used_pages = Cardinality(used)
    /\ pt \in Memories
    /\ live \in [Tasks -> BOOLEAN]
    /\ as \in [Tasks -> Spaces]
    /\ \A t \in Tasks : live[t] => as[t].pgd \in Pages
    /\ \A t \in Tasks : as[t].stack # Nil => as[t].stack + StackPages <= MAX_PAGES
    /\ clients \subseteq SUBSET Pages
    /\ objects \subseteq [page : Pages, offset : Nat, size : Nat]
    /\ slab \in [page : Pages \cup {Nil}, offset : Nat]

Trees == \A r \in Roots : Tree(pt, Root(r))

Owned ==
    \E kind, of :
        Assigned(kind, of, KernelOwned, AllSpaces, AllStacks, clients, Large, SlabPages,
                 used \ leaked)

CreateOK ==
    \/ create = NoCreate
    \/ /\ create \in [task : Tasks, step : {"asid", "stack", "undo"}]
       /\ ~ live[create.task]
       /\ as[create.task].pgd \in Pages /\ as[create.task].stack = Nil

WalkRoot == IF walk.level = 0 \/ Index(walk.va, 0) # 0 THEN walk.task ELSE Nil

WalkOK ==
    \/ walk = NoWalk
    \/ /\ walk \in [task : Tasks, va : Vaddrs, frame : Frames, level : 0 .. 3, table : Pages]
       /\ live[walk.task]
       /\ walk.table \in Level(pt, Root(WalkRoot), walk.level)

ObjectsOK ==
    /\ \A o \in objects :
          IsSmall(o.size) /\ o.page = slab.page => o.offset + o.size <= slab.offset
    /\ \A o \in objects : ~ IsSmall(o.size) => \A x \in objects : x.page = o.page => x = o
    /\ \A o, x \in objects :
          o # x /\ o.page = x.page => \/ o.offset + o.size <= x.offset
                                     \/ x.offset + x.size <= o.offset
    /\ slab.page # Nil => \E o \in objects : IsSmall(o.size) /\ o.page = slab.page

MemInv ==
    /\ Typed
    /\ Trees
    /\ Owned
    /\ CreateOK
    /\ WalkOK
    /\ ObjectsOK
    /\ AsidsDistinct

-----------------------------------------------------------------------------
(* Constants, and the first element of a set.                                *)

(* The sizes as numbers, and what is a page. *)
LEMMA ConstantFacts ==
    /\ MAX_PAGES \in Nat /\ MAX_TASKS \in Nat /\ StackPages \in Nat /\ ASID_MAX \in Nat
    /\ FanOut \in Nat /\ PageUnits \in Nat /\ KernelPages \in Nat
    /\ MAX_PAGES >= 2 /\ MAX_TASKS > 0 /\ StackPages > 0 /\ ASID_MAX > 0 /\ FanOut > 1
    /\ KernelPages >= 2 /\ KernelPages <= MAX_PAGES
    /\ Vaddrs \subseteq Nat /\ Sizes \subseteq Nat /\ ClientSizes \subseteq Nat
    /\ KernelL1 \in Pages /\ KernelL2 \in Pages /\ Nil \notin Pages /\ Shared \notin Pages
    /\ Nil \notin Tasks /\ 0 \in Slots /\ Pages \subseteq Nat /\ Tasks \subseteq Nat
    /\ Slots \subseteq Nat /\ IsFiniteSet(Pages)
<1>1. /\ MAX_PAGES \in Nat /\ MAX_TASKS \in Nat /\ StackPages \in Nat /\ ASID_MAX \in Nat
      /\ FanOut \in Nat /\ PageUnits \in Nat /\ KernelPages \in Nat
      /\ MAX_PAGES >= 2 /\ MAX_TASKS > 0 /\ StackPages > 0 /\ ASID_MAX > 0 /\ FanOut > 1
      /\ KernelPages >= 2 /\ KernelPages <= MAX_PAGES
  BY MemoryAssumption
<1>2. Vaddrs \subseteq Nat /\ Sizes \subseteq Nat /\ ClientSizes \subseteq Nat
  BY MemoryAssumption
<1>3. IsFiniteSet(Pages)
  BY <1>1, FS_Interval DEF Pages
<1> QED
  BY <1>1, <1>2, <1>3 DEF Pages, Tasks, Slots, Nil, Shared, KernelL1, KernelL2

(* A nonempty set of naturals has a least element. *)
LEMMA LeastNatural ==
    ASSUME NEW S, S \subseteq Nat, S # {}
    PROVE  \E m \in S : \A j \in S : m <= j
<1>1. PICK m \in S : \A j \in S : ~ (<<j, m>> \in OpToRel(<, Nat))
  BY NatLessThanWellFounded, WFMin
<1>2. \A j \in S : ~ (j < m)
  BY <1>1 DEF OpToRel
<1> QED
  BY <1>2

(* ... which is the one the code's scans find. *)
LEMMA LeastChosen ==
    ASSUME NEW S, S \subseteq Nat, S # {}
    PROVE  (CHOOSE x \in S : \A y \in S : x <= y) \in S
BY LeastNatural

(* An index is one of the slots of a table. *)
LEMMA IndexIsSlot ==
    ASSUME NEW va \in Nat, NEW k \in 0 .. 3
    PROVE  Index(va, k) \in Slots
<1>1. Span(k) \in Nat /\ Span(k) > 0
  <2>1. FanOut \in Nat /\ FanOut > 1
    BY ConstantFacts
  <2>2. FanOut * FanOut \in Nat /\ FanOut * FanOut > 0
    BY <2>1
  <2>3. FanOut * FanOut * FanOut \in Nat /\ FanOut * FanOut * FanOut > 0
    <3> DEFINE f2 == FanOut * FanOut
    <3>1. f2 \in Nat /\ f2 > 0
      BY <2>2
    <3> HIDE DEF f2
    <3>2. f2 * FanOut \in Nat /\ f2 * FanOut > 0
      BY <3>1, <2>1
    <3> QED
      BY <3>2 DEF f2
  <2> QED
    BY <2>1, <2>2, <2>3 DEF Span
<1>2. (va \div Span(k)) \in Nat
  BY <1>1
<1> DEFINE d == va \div Span(k)
<1>3. d \in Nat
  BY <1>2
<1> HIDE DEF d
<1>4. d % FanOut \in 0 .. FanOut - 1
  BY <1>3, ConstantFacts
<1> QED
  BY <1>4 DEF Index, Slots, d

-----------------------------------------------------------------------------
(* Trees of page tables.                                                     *)

(* What a table entry leads to is a page. *)
LEMMA TargetsArePages ==
    ASSUME NEW m \in Memories, NEW p \in Pages, NEW S, S \subseteq Slots
    PROVE  TargetsIn(m, p, S) \subseteq Pages
BY DEF TargetsIn, Memories, Entries

(* All tables of a tree are pages. *)
LEMMA TablesArePages ==
    ASSUME NEW m \in Memories, NEW g
    PROVE  /\ L0(g) \subseteq Pages /\ L1(m, g) \subseteq Pages
           /\ L2(m, g) \subseteq Pages /\ L3(m, g) \subseteq Pages
           /\ AllTables(m, g) \subseteq Pages
           /\ \A k : Level(m, g, k) \subseteq Pages /\ Level(m, g, k) \subseteq AllTables(m, g)
<1>1. L0(g) \subseteq Pages
  BY DEF L0
<1>2. L1(m, g) \subseteq Pages
  <2>1. Slots \ {0} \subseteq Slots
    OBVIOUS
  <2> QED
    BY <2>1, TargetsArePages, ConstantFacts DEF L1
<1>3. ASSUME NEW S, S \subseteq Pages
      PROVE  BelowIn(m, S) \subseteq Pages
  BY <1>3, TargetsArePages DEF BelowIn
<1>4. L2(m, g) \subseteq Pages
  BY <1>2, <1>3 DEF L2
<1>5. L3(m, g) \subseteq Pages
  BY <1>4, <1>3 DEF L3
<1> QED
  BY <1>1, <1>2, <1>4, <1>5 DEF AllTables, Level

(* A tree whose tables keep their contents, its last level apart from leaves,*)
(* is as it was.                                                             *)
LEMMA TreeSame ==
    ASSUME NEW m, NEW n, NEW g, Tree(m, g),
           \A q \in L0(g) \cup L1(m, g) \cup L2(m, g) : n[q] = m[q],
           \A q \in L3(m, g), i \in Slots : n[q][i].kind # "table"
    PROVE  /\ Tree(n, g)
           /\ \A k : Level(n, g, k) = Level(m, g, k)
           /\ AllTables(n, g) = AllTables(m, g)
<1>1. ASSUME NEW q, NEW S, n[q] = m[q]
      PROVE  TargetsIn(n, q, S) = TargetsIn(m, q, S)
  BY <1>1 DEF TargetsIn
<1>2. ASSUME NEW S, \A q \in S : n[q] = m[q]
      PROVE  BelowIn(n, S) = BelowIn(m, S)
  BY <1>1, <1>2 DEF BelowIn
<1>3. L1(n, g) = L1(m, g)
  BY <1>1 DEF L1, L0
<1>4. L2(n, g) = L2(m, g)
  BY <1>3, <1>2 DEF L2
<1>5. L3(n, g) = L3(m, g)
  BY <1>4, <1>2 DEF L3
<1> QED
  BY <1>3, <1>4, <1>5 DEF Tree, Level, AllTables

(* Entry i of table w is linked to the empty page p. *)
Linked(m, n, w, i, p) ==
    /\ n[w] = [m[w] EXCEPT ![i] = TableAt(p)]
    /\ n[p] = EmptyTable
    /\ \A q \in Pages : q # w /\ q # p => n[q] = m[q]

(* What this does to the entries of the tables. *)
TargetsLinked(m, n, w, i, p) ==
    /\ \A q \in Pages, S \in SUBSET Slots :
          q # w /\ q # p => TargetsIn(n, q, S) = TargetsIn(m, q, S)
    /\ \A S \in SUBSET Slots : TargetsIn(n, p, S) = {}
    /\ \A S \in SUBSET Slots : i \in S => TargetsIn(n, w, S) = TargetsIn(m, w, S) \cup {p}

(* Linking an entry to an empty page adds that page to what its table leads  *)
(* to, and nothing below it.                                                 *)
LEMMA LinkedTargets ==
    ASSUME NEW m \in Memories, NEW n, NEW w \in Pages, NEW i \in Slots, NEW p \in Pages, p # w,
           m[w][i].kind # "table", Linked(m, n, w, i, p)
    PROVE  TargetsLinked(m, n, w, i, p)
<1>1. ASSUME NEW q \in Pages, NEW S \in SUBSET Slots, q # w, q # p
      PROVE  TargetsIn(n, q, S) = TargetsIn(m, q, S)
  BY <1>1 DEF TargetsIn, Linked
<1>2. ASSUME NEW S \in SUBSET Slots
      PROVE  TargetsIn(n, p, S) = {}
  BY DEF TargetsIn, Linked, EmptyTable, Invalid
<1>3. ASSUME NEW S \in SUBSET Slots, i \in S
      PROVE  TargetsIn(n, w, S) = TargetsIn(m, w, S) \cup {p}
  <2>1. n[w][i].kind = "table" /\ n[w][i].to = p
    BY DEF Linked, TableAt, Memories
  <2>2. \A j \in S : j # i => n[w][j] = m[w][j]
    BY DEF Linked, Memories
  <2> QED
    BY <1>3, <2>1, <2>2 DEF TargetsIn
<1> QED
  BY <1>1, <1>2, <1>3 DEF TargetsLinked

(* The same for the tables below a set of tables. *)
BelowLinked(m, n, w, p, S) ==
    /\ p \notin S /\ w \notin S => BelowIn(n, S) = BelowIn(m, S)
    /\ p \notin S /\ w \in S => BelowIn(n, S) = BelowIn(m, S) \cup {p}
    /\ p \notin S /\ w \notin S => BelowIn(n, S \cup {p}) = BelowIn(m, S)

LEMMA LinkedBelow ==
    ASSUME NEW m \in Memories, NEW n, NEW w \in Pages, NEW i \in Slots, NEW p \in Pages, p # w,
           m[w][i].kind # "table", Linked(m, n, w, i, p), NEW S \in SUBSET Pages
    PROVE  BelowLinked(m, n, w, p, S)
<1> DEFINE f(q) == TargetsIn(m, q, Slots)
           h(q) == TargetsIn(n, q, Slots)
<1>1. /\ \A q \in Pages : q # w /\ q # p => h(q) = f(q)
      /\ h(p) = {}
      /\ h(w) = f(w) \cup {p}
  <2>1. Slots \in SUBSET Slots
    OBVIOUS
  <2>2. /\ \A q \in Pages, T \in SUBSET Slots :
              q # w /\ q # p => TargetsIn(n, q, T) = TargetsIn(m, q, T)
        /\ \A T \in SUBSET Slots : TargetsIn(n, p, T) = {}
        /\ \A T \in SUBSET Slots : i \in T => TargetsIn(n, w, T) = TargetsIn(m, w, T) \cup {p}
    <3>1. TargetsLinked(m, n, w, i, p)
      BY LinkedTargets
    <3> QED
      BY <3>1 DEF TargetsLinked
  <2>3. TargetsIn(n, w, Slots) = TargetsIn(m, w, Slots) \cup {p}
    BY <2>1, <2>2
  <2>4. TargetsIn(n, p, Slots) = {}
    BY <2>1, <2>2
  <2>5. \A q \in Pages : q # w /\ q # p => TargetsIn(n, q, Slots) = TargetsIn(m, q, Slots)
    BY <2>1, <2>2
  <2> QED
    BY <2>3, <2>4, <2>5
<1>2. \A T, x : /\ x \in BelowIn(m, T) <=> \E q \in T : x \in f(q)
                /\ x \in BelowIn(n, T) <=> \E q \in T : x \in h(q)
  BY DEF BelowIn
<1> HIDE DEF f, h
<1>3. ASSUME p \notin S, w \notin S
      PROVE  \A x : x \in BelowIn(n, S) <=> x \in BelowIn(m, S)
  BY <1>1, <1>2, <1>3
<1>4. ASSUME p \notin S, w \in S
      PROVE  \A x : x \in BelowIn(n, S) <=> x \in BelowIn(m, S) \cup {p}
  BY <1>1, <1>2, <1>4
<1>5. ASSUME p \notin S, w \notin S
      PROVE  \A x : x \in BelowIn(n, S \cup {p}) <=> x \in BelowIn(m, S)
  BY <1>1, <1>2, <1>5
<1> QED
  BY <1>3, <1>4, <1>5 DEF BelowLinked

(* A tree grows by the page linked, one level below the table it hangs from. *)
LEMMA TreeGrows ==
    ASSUME NEW m \in Memories, NEW n, NEW g, Tree(m, g), NEW k \in 0 .. 2, NEW w \in Level(m, g, k),
           NEW i \in Slots, m[w][i].kind # "table", NEW p \in Pages, p \notin AllTables(m, g),
           Linked(m, n, w, i, p)
    PROVE  /\ Tree(n, g)
           /\ Level(n, g, k + 1) = Level(m, g, k + 1) \cup {p}
           /\ \A j \in 0 .. 3 : j # k + 1 => Level(n, g, j) = Level(m, g, j)
           /\ AllTables(n, g) = AllTables(m, g) \cup {p}
<1>1. /\ L0(g) \in SUBSET Pages /\ L1(m, g) \in SUBSET Pages
      /\ L2(m, g) \in SUBSET Pages /\ L3(m, g) \in SUBSET Pages
      /\ w \in Pages /\ w # p
      /\ p \notin L0(g) /\ p \notin L1(m, g) /\ p \notin L2(m, g) /\ p \notin L3(m, g)
  BY TablesArePages DEF AllTables
<1>2. /\ L0(g) \cap (L1(m, g) \cup L2(m, g) \cup L3(m, g)) = {}
      /\ L1(m, g) \cap (L2(m, g) \cup L3(m, g)) = {}
      /\ L2(m, g) \cap L3(m, g) = {}
      /\ \A q \in L3(m, g), j \in Slots : m[q][j].kind # "table"
      /\ \A q \in L0(g) : m[q][0] = TableAt(KernelL1)
  BY DEF Tree
<1>3. /\ \A q \in L3(m, g), j \in Slots : q # w => n[q][j].kind # "table"
      /\ \A j \in Slots : n[p][j].kind # "table"
  BY <1>1, <1>2 DEF Linked, EmptyTable, Invalid
<1>T. /\ \A q \in Pages, S \in SUBSET Slots :
            q # w /\ q # p => TargetsIn(n, q, S) = TargetsIn(m, q, S)
      /\ \A S \in SUBSET Slots : i \in S => TargetsIn(n, w, S) = TargetsIn(m, w, S) \cup {p}
  <2>1. w \in Pages /\ p # w
    BY <1>1
  <2>2. TargetsLinked(m, n, w, i, p)
    BY <2>1, LinkedTargets
  <2> QED
    BY <2>2 DEF TargetsLinked
<1>B. ASSUME NEW S \in SUBSET Pages
      PROVE  /\ p \notin S /\ w \notin S => BelowIn(n, S) = BelowIn(m, S)
             /\ p \notin S /\ w \in S => BelowIn(n, S) = BelowIn(m, S) \cup {p}
             /\ p \notin S /\ w \notin S => BelowIn(n, S \cup {p}) = BelowIn(m, S)
  <2>1. w \in Pages /\ p # w
    BY <1>1
  <2>2. BelowLinked(m, n, w, p, S)
    BY <2>1, LinkedBelow
  <2> QED
    BY <2>2 DEF BelowLinked
<1>4. CASE k = 0
  <2>1. g \in Pages /\ w = g /\ g # Shared
    BY <1>4, ConstantFacts DEF Level, L0
  <2>2. i # 0
    BY <1>2, <2>1 DEF TableAt, L0
  <2>3. Slots \ {0} \in SUBSET Slots
    OBVIOUS
  <2>4. L1(n, g) = L1(m, g) \cup {p}
    BY <2>1, <2>2, <2>3, <1>1, <1>T DEF L1
  <2>5. w \notin L1(m, g) /\ w \notin L2(m, g) /\ w \notin L3(m, g)
    BY <2>1, <1>2 DEF L0
  <2>6. L2(n, g) = L2(m, g)
    BY <2>4, <2>5, <1>1, <1>B DEF L2
  <2>7. L3(n, g) = L3(m, g)
    BY <2>6, <2>5, <1>1, <1>B DEF L3
  <2>8. n[g][0] = m[g][0]
    BY <2>1, <2>2, ConstantFacts DEF Linked, Memories
  <2>9. Tree(n, g)
    <3>1. \A q \in L0(g) : n[q][0] = TableAt(KernelL1)
      BY <2>8, <1>2, <2>1 DEF L0
    <3>2. \A q \in L3(n, g), j \in Slots : n[q][j].kind # "table"
      BY <2>7, <2>5, <1>3
    <3> QED
      BY <3>1, <3>2, <1>1, <1>2, <2>4, <2>6, <2>7 DEF Tree
  <2> QED
    BY <2>4, <2>6, <2>7, <2>9, <1>4 DEF Level, AllTables
<1>5. CASE k = 1
  <2>1. w \in L1(m, g)
    BY <1>5 DEF Level
  <2>2. w \notin L0(g) /\ w \notin L2(m, g) /\ w \notin L3(m, g)
    BY <2>1, <1>2
  <2>3. L1(n, g) = L1(m, g)
    <3>1. CASE g \in Pages /\ g # Shared
      <4>1. Slots \ {0} \in SUBSET Slots /\ g # w /\ g # p
        BY <3>1, <1>1, <2>2 DEF L0
      <4> QED
        BY <3>1, <4>1, <1>1, <1>T DEF L1
    <3>2. CASE ~ (g \in Pages /\ g # Shared)
      BY <3>2 DEF L1
    <3> QED
      BY <3>1, <3>2
  <2>4. L2(n, g) = L2(m, g) \cup {p}
    BY <2>3, <2>1, <1>1, <1>B DEF L2
  <2>5. L3(n, g) = L3(m, g)
    BY <2>4, <2>2, <1>1, <1>B DEF L3
  <2>6. Tree(n, g)
    <3>1. \A q \in L0(g) : n[q] = m[q]
      BY <1>1, <2>2 DEF Linked
    <3>2. \A q \in L3(n, g), j \in Slots : n[q][j].kind # "table"
      BY <2>5, <2>2, <1>3
    <3> QED
      BY <3>1, <3>2, <1>1, <1>2, <2>3, <2>4, <2>5 DEF Tree
  <2> QED
    BY <2>3, <2>4, <2>5, <2>6, <1>5 DEF Level, AllTables
<1>6. CASE k = 2
  <2>1. w \in L2(m, g)
    BY <1>6 DEF Level
  <2>2. w \notin L0(g) /\ w \notin L1(m, g) /\ w \notin L3(m, g)
    BY <2>1, <1>2
  <2>3. L1(n, g) = L1(m, g)
    <3>1. CASE g \in Pages /\ g # Shared
      <4>1. Slots \ {0} \in SUBSET Slots /\ g # w /\ g # p
        BY <3>1, <1>1, <2>2 DEF L0
      <4> QED
        BY <3>1, <4>1, <1>1, <1>T DEF L1
    <3>2. CASE ~ (g \in Pages /\ g # Shared)
      BY <3>2 DEF L1
    <3> QED
      BY <3>1, <3>2
  <2>4. L2(n, g) = L2(m, g)
    BY <2>3, <2>2, <1>1, <1>B DEF L2
  <2>5. L3(n, g) = L3(m, g) \cup {p}
    BY <2>4, <2>1, <1>1, <1>B DEF L3
  <2>6. Tree(n, g)
    <3>1. \A q \in L0(g) : n[q] = m[q]
      BY <1>1, <2>2 DEF Linked
    <3>2. \A q \in L3(n, g), j \in Slots : n[q][j].kind # "table"
      BY <2>5, <2>2, <1>3
    <3> QED
      BY <3>1, <3>2, <1>1, <1>2, <2>3, <2>4, <2>5 DEF Tree
  <2> QED
    BY <2>3, <2>4, <2>5, <2>6, <1>6 DEF Level, AllTables
<1> QED
  BY <1>4, <1>5, <1>6


-----------------------------------------------------------------------------
(* What is held, and by whom.                                                *)

(* The pages of an address space are the tables of its tree; those of the    *)
(* kernel are its image and the tables of its own.                           *)
LEMMA HoldingsAreTables ==
    ASSUME Typed
    PROVE  /\ \A t \in Tasks : SpacePages(t) = AllTables(pt, Root(t))
           /\ KernelOwned = (0 .. KernelPages - 1) \cup AllTables(pt, Root(Nil))
<1>1. \A q, S : Targets(q, S) = TargetsIn(pt, q, S)
  BY DEF Targets, TargetsIn
<1>2. ASSUME NEW t \in Tasks
      PROVE  SpacePages(t) = AllTables(pt, Root(t))
  <2>1. Root(t) = as[t].pgd /\ as[t].pgd \in Pages \cup {Nil} /\ Nil \notin Pages /\ Shared \notin Pages
    BY ConstantFacts DEF Root, Typed, Spaces
  <2>2. CASE as[t].pgd = Nil
    <3>1. L0(Nil) = {} /\ L1(pt, Nil) = {}
      BY <2>1 DEF L0, L1, Nil, Shared
    <3>2. L2(pt, Nil) = {} /\ L3(pt, Nil) = {}
      BY <3>1 DEF L2, L3, BelowIn
    <3> QED
      BY <2>1, <2>2, <3>1, <3>2 DEF SpacePages, AllTables
  <2>3. CASE as[t].pgd \in Pages
    <3> DEFINE g == as[t].pgd
    <3>1. L0(g) = {g} /\ L1(pt, g) = Targets(g, Slots \ {0})
      BY <2>1, <2>3, <1>1 DEF L0, L1
    <3>2. L2(pt, g) = UNION {Targets(p, Slots) : p \in L1(pt, g)}
      BY <1>1 DEF L2, BelowIn
    <3>3. L3(pt, g) = UNION {Targets(p, Slots) : p \in L2(pt, g)}
      BY <1>1 DEF L3, BelowIn
    <3>4. Subtree(g, Slots \ {0}) = L1(pt, g) \cup L2(pt, g) \cup L3(pt, g)
      BY <3>1, <3>2, <3>3 DEF Subtree
    <3> QED
      BY <2>1, <2>3, <3>1, <3>4 DEF SpacePages, AllTables
  <2> QED
    BY <2>1, <2>2, <2>3
<1>3. KernelOwned = (0 .. KernelPages - 1) \cup AllTables(pt, Root(Nil))
  <2>1. Root(Nil) = Shared /\ L0(Shared) = {} /\ L1(pt, Shared) = {KernelL1}
    BY ConstantFacts DEF Root, L0, L1
  <2>2. L2(pt, Shared) = Targets(KernelL1, Slots)
    BY <2>1, <1>1 DEF L2, BelowIn
  <2>3. L3(pt, Shared) = UNION {Targets(p, Slots) : p \in L2(pt, Shared)}
    BY <1>1 DEF L3, BelowIn
  <2>4. KernelL1 \in 0 .. KernelPages - 1
    BY ConstantFacts DEF KernelL1
  <2> QED
    BY <2>1, <2>2, <2>3, <2>4 DEF KernelOwned, AllTables
<1> QED
  BY <1>2, <1>3

(* The same in the next state. *)
LEMMA NextHoldingsAreTables ==
    ASSUME Typed'
    PROVE  /\ \A t \in Tasks : SpacePages(t)' = AllTables(pt', Root(t)')
           /\ KernelOwned' = (0 .. KernelPages - 1) \cup AllTables(pt', Root(Nil)')
<1>1. \A q, S : Targets(q, S)' = TargetsIn(pt', q, S)
  BY DEF Targets, TargetsIn
<1>2. ASSUME NEW t \in Tasks
      PROVE  SpacePages(t)' = AllTables(pt', Root(t)')
  <2>1. /\ Root(t)' = as'[t].pgd /\ as'[t].pgd \in Pages \cup {Nil}
        /\ Nil \notin Pages /\ Shared \notin Pages
    BY ConstantFacts DEF Root, Typed, Spaces
  <2>2. CASE as'[t].pgd = Nil
    <3>1. L0(Nil) = {} /\ L1(pt', Nil) = {}
      BY <2>1 DEF L0, L1, Nil, Shared
    <3>2. L2(pt', Nil) = {} /\ L3(pt', Nil) = {}
      BY <3>1 DEF L2, L3, BelowIn
    <3> QED
      BY <2>1, <2>2, <3>1, <3>2 DEF SpacePages, AllTables
  <2>3. CASE as'[t].pgd \in Pages
    <3> DEFINE g == as'[t].pgd
    <3>1. L0(g) = {g} /\ L1(pt', g) = Targets(as[t].pgd, Slots \ {0})'
      BY <2>1, <2>3 DEF L0, L1, Targets, TargetsIn
    <3>2. L2(pt', g) = UNION {Targets(p, Slots)' : p \in L1(pt', g)}
      BY <1>1 DEF L2, BelowIn
    <3>3. L3(pt', g) = UNION {Targets(p, Slots)' : p \in L2(pt', g)}
      BY <1>1 DEF L3, BelowIn
    <3>4. Subtree(as[t].pgd, Slots \ {0})' = L1(pt', g) \cup L2(pt', g) \cup L3(pt', g)
      BY <3>1, <3>2, <3>3 DEF Subtree
    <3> QED
      BY <2>1, <2>3, <3>1, <3>4 DEF SpacePages, AllTables
  <2> QED
    BY <2>1, <2>2, <2>3
<1>3. KernelOwned' = (0 .. KernelPages - 1) \cup AllTables(pt', Root(Nil)')
  <2>1. Root(Nil)' = Shared /\ L0(Shared) = {} /\ L1(pt', Shared) = {KernelL1}
    BY ConstantFacts DEF Root, L0, L1
  <2>2. L2(pt', Shared) = Targets(KernelL1, Slots)'
    BY <2>1, <1>1 DEF L2, BelowIn
  <2>3. L3(pt', Shared) = UNION {Targets(p, Slots)' : p \in L2(pt', Shared)}
    BY <1>1 DEF L3, BelowIn
  <2>4. KernelL1 \in 0 .. KernelPages - 1
    BY ConstantFacts DEF KernelL1
  <2> QED
    BY <2>1, <2>2, <2>3, <2>4 DEF KernelOwned, AllTables
<1> QED
  BY <1>2, <1>3

(* Whatever is held are pages. *)
LEMMA HeldArePages ==
    ASSUME Typed
    PROVE  /\ KernelOwned \subseteq Pages /\ Large \subseteq Pages /\ SlabPages \subseteq Pages
           /\ \A t \in Tasks : SpacePages(t) \subseteq Pages /\ StackOf(t) \subseteq Pages
           /\ \A r \in clients : r \subseteq Pages
<1>1. KernelOwned \subseteq Pages
  <2>1. 0 .. KernelPages - 1 \subseteq Pages
    BY ConstantFacts DEF Pages
  <2> QED
    BY <2>1, HoldingsAreTables, TablesArePages DEF Typed
<1>2. \A t \in Tasks : SpacePages(t) \subseteq Pages
  <2>1. pt \in Memories
    BY DEF Typed
  <2>2. \A g : AllTables(pt, g) \subseteq Pages
    BY <2>1, TablesArePages
  <2> QED
    BY <2>2, HoldingsAreTables
<1>3. \A t \in Tasks : StackOf(t) \subseteq Pages
  <2> SUFFICES ASSUME NEW t \in Tasks, as[t].stack # Nil
               PROVE  Run(as[t].stack, StackPages) \subseteq Pages
    BY DEF StackOf
  <2>1. as[t].stack \in Pages /\ as[t].stack + StackPages <= MAX_PAGES
    <3>1. as \in [Tasks -> Spaces] /\ (as[t].stack # Nil => as[t].stack + StackPages <= MAX_PAGES)
      BY DEF Typed
    <3>2. as[t] \in Spaces
      BY <3>1
    <3> QED
      BY <3>1, <3>2 DEF Spaces
  <2>2. MAX_PAGES \in Nat /\ StackPages \in Nat
    BY ConstantFacts
  <2> DEFINE b == as[t].stack
  <2>3. b \in 0 .. MAX_PAGES - 1 /\ b + StackPages <= MAX_PAGES
    BY <2>1 DEF Pages
  <2> HIDE DEF b
  <2>4. b .. b + StackPages - 1 \subseteq 0 .. MAX_PAGES - 1
    BY <2>2, <2>3
  <2> QED
    BY <2>4 DEF Run, Pages, b
<1>4. Large \subseteq Pages /\ SlabPages \subseteq Pages
  BY DEF Typed, Large, SlabPages
<1> QED
  BY <1>1, <1>2, <1>3, <1>4 DEF Typed

(* No two holders share a page, and what is held is marked. *)
Apart(p) ==
    /\ p \in KernelOwned =>
          \A t \in Tasks : p \notin SpacePages(t) /\ p \notin StackOf(t)
    /\ \A t, u \in Tasks :
          /\ p \in SpacePages(t) /\ p \in SpacePages(u) => t = u
          /\ p \in StackOf(t) /\ p \in StackOf(u) => t = u
          /\ ~ (p \in SpacePages(t) /\ p \in StackOf(u))
    /\ \A r \in clients : p \in r =>
          /\ p \notin KernelOwned /\ p \notin Large /\ p \notin SlabPages
          /\ \A t \in Tasks : p \notin SpacePages(t) /\ p \notin StackOf(t)
          /\ \A s \in clients : p \in s => s = r
    /\ p \in Large \cup SlabPages =>
          /\ p \notin KernelOwned
          /\ \A t \in Tasks : p \notin SpacePages(t) /\ p \notin StackOf(t)
    /\ ~ (p \in Large /\ p \in SlabPages)
    /\ \/ p \in KernelOwned \cup Large \cup SlabPages
       \/ \E t \in Tasks : p \in SpacePages(t) \cup StackOf(t)
       \/ \E r \in clients : p \in r
       => p \in used /\ p \notin leaked

(* This is what Owned says, pairwise. *)
LEMMA HoldersApart ==
    ASSUME Owned
    PROVE  \A p \in Pages : Apart(p)
<1>1. PICK kind, of :
        Assigned(kind, of, KernelOwned, AllSpaces, AllStacks, clients, Large, SlabPages,
                 used \ leaked)
  BY DEF Owned
<1>2. \A t \in Tasks : AllSpaces[t] = SpacePages(t) /\ AllStacks[t] = StackOf(t)
  BY DEF AllSpaces, AllStacks
<1> SUFFICES ASSUME NEW p \in Pages PROVE Apart(p)
  OBVIOUS
<1>3. /\ kind[p] \in Kinds
      /\ p \in KernelOwned <=> kind[p] = "kernel"
      /\ \A t \in Tasks : p \in SpacePages(t) <=> (kind[p] = "tables" /\ of[p] = t)
      /\ \A t \in Tasks : p \in StackOf(t) <=> (kind[p] = "stack" /\ of[p] = t)
      /\ \A r \in clients : p \in r <=> (kind[p] = "client" /\ of[p] = r)
      /\ p \in Large <=> kind[p] = "large"
      /\ p \in SlabPages <=> kind[p] = "slab"
      /\ p \in used \ leaked <=> kind[p] # "none"
  BY <1>1, <1>2 DEF Assigned
<1> QED
  BY <1>3 DEF Apart


(* A step that gives the pages A, not marked before, to a holder and takes   *)
(* the pages R from theirs.                                                  *)
Transfer(A, R, what, who) ==
    /\ A \subseteq Pages \ used
    /\ what \in Kinds \ {"none"}
    /\ what \in {"tables", "stack"} => who \in Tasks
    /\ used' \ leaked' = ((used \ leaked) \ R) \cup A
    /\ R \cap KernelOwned = {}
    /\ KernelOwned' = KernelOwned \cup (IF what = "kernel" THEN A ELSE {})
    /\ \A t \in Tasks :
          /\ SpacePages(t)' = (SpacePages(t) \ R) \cup (IF what = "tables" /\ who = t THEN A ELSE {})
          /\ StackOf(t)' = (StackOf(t) \ R) \cup (IF what = "stack" /\ who = t THEN A ELSE {})
    /\ \A r \in clients : (r \cap R = {} /\ r \in clients') \/ r \subseteq R
    /\ \A r \in clients' : (r \in clients /\ r \cap R = {}) \/ (what = "client" /\ r = A)
    /\ what = "client" => who = A /\ A \in clients'
    /\ Large' = (Large \ R) \cup (IF what = "large" THEN A ELSE {})
    /\ SlabPages' = (SlabPages \ R) \cup (IF what = "slab" THEN A ELSE {})

(* Such a step leaves every page with at most one owner. *)
LEMMA TransferKeepsOwned ==
    ASSUME Owned, NEW A, NEW R, NEW what, NEW who, Transfer(A, R, what, who)
    PROVE  Owned'
<1>1. PICK kind, of :
        Assigned(kind, of, KernelOwned, AllSpaces, AllStacks, clients, Large, SlabPages,
                 used \ leaked)
  BY DEF Owned
<1>2. \A t \in Tasks : AllSpaces[t] = SpacePages(t) /\ AllStacks[t] = StackOf(t)
  BY DEF AllSpaces, AllStacks
<1>3. \A t \in Tasks : AllSpaces'[t] = SpacePages(t)' /\ AllStacks'[t] = StackOf(t)'
  BY DEF AllSpaces, AllStacks
<1> DEFINE kind2 == [p \in Pages |-> IF p \in A THEN what ELSE IF p \in R THEN "none" ELSE kind[p]]
           of2 == [p \in Pages |-> IF p \in A THEN who ELSE of[p]]
<1>4. ASSUME NEW p \in Pages
      PROVE  /\ kind2[p] \in Kinds
             /\ p \in KernelOwned' <=> kind2[p] = "kernel"
             /\ \A t \in Tasks : p \in SpacePages(t)' <=> (kind2[p] = "tables" /\ of2[p] = t)
             /\ \A t \in Tasks : p \in StackOf(t)' <=> (kind2[p] = "stack" /\ of2[p] = t)
             /\ \A r \in clients' : p \in r <=> (kind2[p] = "client" /\ of2[p] = r)
             /\ kind2[p] = "client" => of2[p] \in clients'
             /\ kind2[p] \in {"tables", "stack"} => of2[p] \in Tasks
             /\ p \in Large' <=> kind2[p] = "large"
             /\ p \in SlabPages' <=> kind2[p] = "slab"
             /\ p \in used' \ leaked' <=> kind2[p] # "none"
  <2>1. /\ kind[p] \in Kinds
        /\ p \in KernelOwned <=> kind[p] = "kernel"
        /\ \A t \in Tasks : p \in SpacePages(t) <=> (kind[p] = "tables" /\ of[p] = t)
        /\ \A t \in Tasks : p \in StackOf(t) <=> (kind[p] = "stack" /\ of[p] = t)
        /\ \A r \in clients : p \in r <=> (kind[p] = "client" /\ of[p] = r)
        /\ kind[p] = "client" => of[p] \in clients
        /\ kind[p] \in {"tables", "stack"} => of[p] \in Tasks
        /\ p \in Large <=> kind[p] = "large"
        /\ p \in SlabPages <=> kind[p] = "slab"
        /\ p \in used \ leaked <=> kind[p] # "none"
    BY <1>1, <1>2 DEF Assigned
  <2>2. /\ kind2[p] = (IF p \in A THEN what ELSE IF p \in R THEN "none" ELSE kind[p])
        /\ of2[p] = (IF p \in A THEN who ELSE of[p])
    OBVIOUS
  <2> HIDE DEF kind2, of2
  <2>3. p \in A => kind[p] = "none"
    BY <2>1 DEF Transfer
  <2>4. kind2[p] \in Kinds
    BY <2>1, <2>2 DEF Transfer, Kinds
  <2>5. p \in KernelOwned' <=> kind2[p] = "kernel"
    BY <2>1, <2>2, <2>3 DEF Transfer
  <2>6. \A t \in Tasks : p \in SpacePages(t)' <=> (kind2[p] = "tables" /\ of2[p] = t)
    BY <2>1, <2>2, <2>3 DEF Transfer
  <2>7. \A t \in Tasks : p \in StackOf(t)' <=> (kind2[p] = "stack" /\ of2[p] = t)
    BY <2>1, <2>2, <2>3 DEF Transfer
  <2>8. \A r \in clients' : p \in r <=> (kind2[p] = "client" /\ of2[p] = r)
    BY <2>1, <2>2, <2>3 DEF Transfer
  <2>9. kind2[p] = "client" => of2[p] \in clients'
    BY <2>1, <2>2, <2>3 DEF Transfer
  <2>10. kind2[p] \in {"tables", "stack"} => of2[p] \in Tasks
    BY <2>1, <2>2, <2>3 DEF Transfer
  <2>11. (p \in Large' <=> kind2[p] = "large") /\ (p \in SlabPages' <=> kind2[p] = "slab")
    BY <2>1, <2>2, <2>3 DEF Transfer
  <2>12. p \in used' \ leaked' <=> kind2[p] # "none"
    BY <2>1, <2>2, <2>3 DEF Transfer
  <2> QED
    BY <2>4, <2>5, <2>6, <2>7, <2>8, <2>9, <2>10, <2>11, <2>12
<1> HIDE DEF kind2, of2
<1>5. Assigned(kind2, of2, KernelOwned', AllSpaces', AllStacks', clients', Large', SlabPages',
               used' \ leaked')
  BY <1>3, <1>4 DEF Assigned
<1> QED
  BY <1>5 DEF Owned

(* A tree that keeps its root, its tables and their levels. *)
Kept(r) ==
    /\ Root(r)' = Root(r)
    /\ Tree(pt', Root(r))
    /\ \A k : Level(pt', Root(r), k) = Level(pt, Root(r), k)
    /\ AllTables(pt', Root(r)) = AllTables(pt, Root(r))

(* A tree is kept when its root and the contents of its tables are. *)
LEMMA KeptWhenUntouched ==
    ASSUME Trees, NEW r \in Roots, Root(r)' = Root(r),
           \A q \in AllTables(pt, Root(r)) : pt'[q] = pt[q]
    PROVE  Kept(r)
<1> DEFINE g == Root(r)
<1>1. Tree(pt, g)
  BY DEF Trees
<1>2. \A q \in AllTables(pt, g) : pt'[q] = pt[q]
  OBVIOUS
<1>3. Root(r)' = g
  OBVIOUS
<1> HIDE DEF g
<1>4. \A q \in L0(g) \cup L1(pt, g) \cup L2(pt, g) : pt'[q] = pt[q]
  BY <1>2 DEF AllTables
<1>5. \A q \in L3(pt, g), i \in Slots : pt'[q][i].kind # "table"
  BY <1>1, <1>2 DEF AllTables, Tree
<1>6. /\ Tree(pt', g)
      /\ \A k : Level(pt', g, k) = Level(pt, g, k)
      /\ AllTables(pt', g) = AllTables(pt, g)
  BY <1>1, <1>4, <1>5, TreeSame
<1> QED
  BY <1>6 DEF Kept, g

(* The pages of a tree that is kept stay with their owner. *)
LEMMA KeptHoldings ==
    ASSUME Typed, Typed'
    PROVE  /\ \A t \in Tasks : Kept(t) => SpacePages(t)' = SpacePages(t)
           /\ Kept(Nil) => KernelOwned' = KernelOwned
BY HoldingsAreTables, NextHoldingsAreTables DEF Kept

(* A walk in a tree that is kept stays where it is. *)
LEMMA KeptWalk ==
    ASSUME WalkOK, walk' = walk,
           walk # NoWalk => live'[walk.task] /\ Kept(WalkRoot)
    PROVE  WalkOK'
<1>1. CASE walk = NoWalk
  BY <1>1 DEF WalkOK
<1>2. CASE walk # NoWalk
  <2>1. WalkRoot' = WalkRoot
    BY DEF WalkRoot
  <2>2. Root(WalkRoot)' = Root(WalkRoot) /\ \A k : Level(pt', Root(WalkRoot), k) = Level(pt, Root(WalkRoot), k)
    BY <1>2 DEF Kept
  <2>3. walk.table \in Level(pt', Root(WalkRoot), walk.level)
    BY <1>2, <2>2 DEF WalkOK
  <2> QED
    BY <1>2, <2>1, <2>2, <2>3 DEF WalkOK
<1> QED
  BY <1>1, <1>2

(* A walk is in the tree of a task or in that of the kernel. *)
LEMMA WalkIsSomewhere ==
    ASSUME WalkOK, walk # NoWalk
    PROVE  /\ walk \in [task : Tasks, va : Vaddrs, frame : Frames, level : 0 .. 3, table : Pages]
           /\ live[walk.task] /\ walk.task \in Tasks /\ walk.va \in Nat
           /\ WalkRoot \in Roots /\ WalkRoot \in {walk.task, Nil}
           /\ walk.table \in Level(pt, Root(WalkRoot), walk.level)
BY ConstantFacts DEF WalkOK, WalkRoot, Roots


-----------------------------------------------------------------------------
(* The allocator.                                                            *)

(* A run of pages is counted by its length. *)
LEMMA RunFacts ==
    ASSUME NEW p \in Pages, NEW n \in Nat, p + n <= MAX_PAGES
    PROVE  /\ Run(p, n) \subseteq Pages
           /\ IsFiniteSet(Run(p, n)) /\ Cardinality(Run(p, n)) = n
<1>1. MAX_PAGES \in Nat /\ p \in Nat
  BY ConstantFacts
<1>2. p \in Int /\ p + n - 1 \in Int
  BY <1>1
<1>3. /\ IsFiniteSet(p .. p + n - 1)
      /\ Cardinality(p .. p + n - 1) = IF p > p + n - 1 THEN 0 ELSE p + n - 1 - p + 1
  BY <1>2, FS_Interval
<1>4. p .. p + n - 1 \subseteq 0 .. MAX_PAGES - 1
  BY <1>1
<1>5. (IF p > p + n - 1 THEN 0 ELSE p + n - 1 - p + 1) = n
  BY <1>1
<1> QED
  BY <1>3, <1>4, <1>5 DEF Run, Pages

(* page_alloc takes a single page. *)
LEMMA SingleRun ==
    ASSUME NEW p \in Pages
    PROVE  Run(p, 1) = {p}
<1>1. p \in Int
  BY ConstantFacts
<1> QED
  BY <1>1 DEF Run

(* page_alloc and pages_alloc find pages that are not marked. *)
LEMMA FirstRunIsFree ==
    ASSUME NEW n \in Nat, FirstRun(n) # Nil
    PROVE  /\ FirstRun(n) \in Pages /\ FirstRun(n) + n <= MAX_PAGES
           /\ Run(FirstRun(n), n) \cap used = {}
           /\ Run(FirstRun(n), n) \subseteq Pages \ used
<1> DEFINE free == {p \in Pages : p + n <= MAX_PAGES /\ Run(p, n) \cap used = {}}
<1>1. free # {} /\ FirstRun(n) = CHOOSE p \in free : \A q \in free : p <= q
  BY DEF FirstRun
<1>2. free \subseteq Nat
  BY ConstantFacts
<1>3. FirstRun(n) \in free
  <2> HIDE DEF free
  <2> QED
    BY <1>1, <1>2, LeastChosen
<1>4. /\ FirstRun(n) \in Pages /\ FirstRun(n) + n <= MAX_PAGES
      /\ Run(FirstRun(n), n) \cap used = {}
  BY <1>3
<1> QED
  BY <1>4, RunFacts

(* The count is right after pages were marked ... *)
LEMMA AllocateCounts ==
    ASSUME Typed, NEW p \in Pages, NEW n \in Nat, p + n <= MAX_PAGES,
           Run(p, n) \cap used = {}, Allocate(p, n)
    PROVE  /\ used' = used \cup Run(p, n) /\ used' \subseteq Pages
           /\ used_pages' = Cardinality(used')
<1>1. used \subseteq Pages /\ used_pages = Cardinality(used) /\ IsFiniteSet(Pages)
  BY ConstantFacts DEF Typed
<1>2. IsFiniteSet(used) /\ Cardinality(used) \in Nat
  BY <1>1, FS_Subset, FS_CardinalityType
<1>3. /\ Run(p, n) \subseteq Pages
      /\ IsFiniteSet(Run(p, n)) /\ Cardinality(Run(p, n)) = n
  BY RunFacts
<1>4. Cardinality(used \cup Run(p, n))
        = Cardinality(used) + Cardinality(Run(p, n)) - Cardinality(used \cap Run(p, n))
  BY <1>2, <1>3, FS_Union
<1>5. Cardinality(used \cap Run(p, n)) = 0
  <2>1. used \cap Run(p, n) = {}
    OBVIOUS
  <2> QED
    BY <2>1, FS_EmptySet
<1>6. Cardinality(used \cup Run(p, n)) = Cardinality(used) + n
  BY <1>2, <1>3, <1>4, <1>5
<1> QED
  BY <1>1, <1>3, <1>6 DEF Allocate

(* ... and after marks were cleared. *)
LEMMA FreeCounts ==
    ASSUME Typed, NEW R, Free(R)
    PROVE  /\ used' = used \ R /\ used' \subseteq Pages
           /\ used_pages' = Cardinality(used')
<1>1. used \subseteq Pages /\ used_pages = Cardinality(used) /\ IsFiniteSet(Pages)
  BY ConstantFacts DEF Typed
<1>2. IsFiniteSet(used)
  BY <1>1, FS_Subset
<1>3. Cardinality(used \ R) = Cardinality(used) - Cardinality(used \cap R)
  BY <1>2, FS_Difference
<1> QED
  BY <1>1, <1>3 DEF Free

(* An empty table is a table. *)
LEMMA EmptyIsTable == EmptyTable \in [Slots -> Entries]
BY DEF EmptyTable, Entries, Invalid

(* What is in memory after pages were handed out or taken back. *)
LEMMA MemoryAfter ==
    ASSUME pt \in Memories, NEW S, pt' = [q \in Pages |-> IF q \in S THEN EmptyTable ELSE pt[q]]
    PROVE  /\ pt' \in Memories
           /\ \A q \in Pages : q \notin S => pt'[q] = pt[q]
<1>1. \A q \in Pages : pt[q] \in [Slots -> Entries]
  BY DEF Memories
<1>2. \A q \in Pages : (IF q \in S THEN EmptyTable ELSE pt[q]) \in [Slots -> Entries]
  BY <1>1, EmptyIsTable
<1> QED
  BY <1>2 DEF Memories

(* All tables are marked pages. *)
LEMMA TablesAreMarked ==
    ASSUME Typed, Owned, NEW r \in Roots
    PROVE  /\ AllTables(pt, Root(r)) \subseteq Pages
           /\ AllTables(pt, Root(r)) \subseteq used \ leaked
<1>1. AllTables(pt, Root(r)) \subseteq Pages
  BY TablesArePages DEF Typed
<1>2. \A p \in Pages : Apart(p)
  BY HoldersApart
<1>3. CASE r = Nil
  BY <1>1, <1>2, <1>3, HoldingsAreTables DEF Apart
<1>4. CASE r \in Tasks
  BY <1>1, <1>2, <1>4, HoldingsAreTables DEF Apart
<1> QED
  BY <1>1, <1>3, <1>4 DEF Roots

(* pages_alloc by somebody else leaves all trees alone. *)
LEMMA FreshKeepsTrees ==
    ASSUME Typed, Trees, Owned, NEW p \in Pages, NEW n \in Nat, Run(p, n) \cap used = {},
           AllocateFresh(p, n), \A t \in Tasks : as'[t].pgd = as[t].pgd
    PROVE  /\ pt' \in Memories
           /\ \A r \in Roots : Kept(r)
<1>1. pt \in Memories
  BY DEF Typed
<1>2. pt' = [q \in Pages |-> IF q \in Run(p, n) THEN EmptyTable ELSE pt[q]]
  BY DEF AllocateFresh, Fresh
<1>3. pt' \in Memories /\ \A q \in Pages : q \notin Run(p, n) => pt'[q] = pt[q]
  BY <1>1, <1>2, MemoryAfter
<1>4. ASSUME NEW r \in Roots
      PROVE  Kept(r)
  <2>1. Root(r)' = Root(r)
    BY DEF Root, Roots
  <2>2. \A q \in AllTables(pt, Root(r)) : pt'[q] = pt[q]
    BY <1>3, TablesAreMarked
  <2> QED
    BY <2>1, <2>2, KeptWhenUntouched
<1> QED
  BY <1>3, <1>4

(* pages_free of the pages R keeps the trees that have no table there. *)
LEMMA FreeKeepsTrees ==
    ASSUME Typed, Trees, Owned, NEW R, Free(R)
    PROVE  /\ pt' \in Memories
           /\ \A r \in Roots :
                 Root(r)' = Root(r) /\ AllTables(pt, Root(r)) \cap R = {} => Kept(r)
<1>1. pt \in Memories
  BY DEF Typed
<1>2. pt' = [q \in Pages |-> IF q \in R THEN EmptyTable ELSE pt[q]]
  BY DEF Free
<1>3. pt' \in Memories /\ \A q \in Pages : q \notin R => pt'[q] = pt[q]
  BY <1>1, <1>2, MemoryAfter
<1>4. ASSUME NEW r \in Roots, Root(r)' = Root(r), AllTables(pt, Root(r)) \cap R = {}
      PROVE  Kept(r)
  <2>1. \A q \in AllTables(pt, Root(r)) : pt'[q] = pt[q]
    BY <1>3, <1>4, TablesAreMarked
  <2> QED
    BY <1>4, <2>1, KeptWhenUntouched
<1> QED
  BY <1>3, <1>4


-----------------------------------------------------------------------------
(* The steps.                                                                *)

(* When every tree is kept, all trees are as they should be. *)
LEMMA AllKept ==
    ASSUME \A r \in Roots : Kept(r)
    PROVE  Trees'
BY DEF Trees, Kept

(* A step that touches neither tasks nor page tables. *)
LEMMA TasksUntouched ==
    ASSUME MemInv, Typed', as' = as, live' = live, create' = create, walk' = walk,
           asids' = asids, \A r \in Roots : Kept(r)
    PROVE  /\ Trees' /\ WalkOK' /\ CreateOK' /\ AsidsDistinct'
           /\ KernelOwned' = KernelOwned
           /\ \A t \in Tasks : SpacePages(t)' = SpacePages(t) /\ StackOf(t)' = StackOf(t)
<1>1. Typed /\ WalkOK /\ CreateOK /\ AsidsDistinct
  BY DEF MemInv
<1>2. Nil \in Roots /\ \A t \in Tasks : t \in Roots
  BY DEF Roots
<1>3. Trees'
  BY AllKept
<1>4. WalkOK'
  <2>1. walk # NoWalk => live'[walk.task] /\ Kept(WalkRoot)
    BY <1>1, WalkIsSomewhere
  <2> QED
    BY <1>1, <2>1, KeptWalk
<1>5. CreateOK' /\ AsidsDistinct'
  BY <1>1 DEF CreateOK, AsidsDistinct
<1>6. /\ KernelOwned' = KernelOwned
      /\ \A t \in Tasks : SpacePages(t)' = SpacePages(t)
  BY <1>1, <1>2, KeptHoldings
<1>7. \A t \in Tasks : StackOf(t)' = StackOf(t)
  BY DEF StackOf
<1> QED
  BY <1>3, <1>4, <1>5, <1>6, <1>7

(* pages_alloc by another client. *)
LEMMA ClientAllocKeeps ==
    ASSUME MemInv, NEW n \in ClientSizes, ClientAlloc(n)
    PROVE  MemInv'
<1> DEFINE p == FirstRun(n)
<1>1. Typed /\ Trees /\ Owned /\ ObjectsOK
  BY DEF MemInv
<1>2. /\ p # Nil /\ AllocateFresh(p, n) /\ Allocate(p, n)
      /\ clients' = clients \cup {Run(p, n)}
      /\ asids' = asids /\ live' = live /\ as' = as /\ create' = create /\ walk' = walk
      /\ objects' = objects /\ slab' = slab /\ leaked' = leaked
  BY DEF ClientAlloc, AllocateFresh
<1>3. n \in Nat
  BY ConstantFacts
<1>4. /\ p \in Pages /\ p + n <= MAX_PAGES /\ Run(p, n) \cap used = {}
      /\ Run(p, n) \subseteq Pages \ used
  BY <1>2, <1>3, FirstRunIsFree
<1> HIDE DEF p
<1>5. /\ used' = used \cup Run(p, n) /\ used' \subseteq Pages
      /\ used_pages' = Cardinality(used')
  BY <1>1, <1>2, <1>3, <1>4, AllocateCounts
<1>6. pt' \in Memories /\ \A r \in Roots : Kept(r)
  BY <1>1, <1>2, <1>3, <1>4, FreshKeepsTrees
<1>7. Typed'
  BY <1>1, <1>2, <1>4, <1>5, <1>6, ZenonT(60) DEF Typed
<1>8. /\ Trees' /\ WalkOK' /\ CreateOK' /\ AsidsDistinct'
      /\ KernelOwned' = KernelOwned
      /\ \A t \in Tasks : SpacePages(t)' = SpacePages(t) /\ StackOf(t)' = StackOf(t)
  BY <1>2, <1>6, <1>7, TasksUntouched
<1>9. Large' = Large /\ SlabPages' = SlabPages
  BY <1>2 DEF Large, SlabPages
<1>10. Transfer(Run(p, n), {}, "client", Run(p, n))
  <2>1. used' \ leaked' = ((used \ leaked) \ {}) \cup Run(p, n)
    BY <1>1, <1>2, <1>4, <1>5 DEF Typed
  <2> QED
    BY <2>1, <1>2, <1>4, <1>8, <1>9 DEF Transfer, Kinds
<1>11. Owned'
  BY <1>1, <1>10, TransferKeepsOwned
<1>12. ObjectsOK'
  BY <1>1, <1>2 DEF ObjectsOK
<1> QED
  BY <1>7, <1>8, <1>11, <1>12 DEF MemInv

(* pages_free by another client. *)
LEMMA ClientFreeKeeps ==
    ASSUME MemInv, NEW run \in clients, ClientFree(run)
    PROVE  MemInv'
<1>1. Typed /\ Trees /\ Owned /\ ObjectsOK
  BY DEF MemInv
<1>2. /\ Free(run) /\ clients' = clients \ {run}
      /\ asids' = asids /\ live' = live /\ as' = as /\ create' = create /\ walk' = walk
      /\ objects' = objects /\ slab' = slab /\ leaked' = leaked
  BY DEF ClientFree
<1>3. /\ used' = used \ run /\ used' \subseteq Pages /\ used_pages' = Cardinality(used')
  BY <1>1, <1>2, FreeCounts
<1>4. \A p \in Pages : Apart(p)
  BY <1>1, HoldersApart
<1>5. /\ run \subseteq Pages /\ run \cap leaked = {} /\ run \cap KernelOwned = {}
      /\ run \cap Large = {} /\ run \cap SlabPages = {}
      /\ \A t \in Tasks : run \cap SpacePages(t) = {} /\ run \cap StackOf(t) = {}
      /\ \A r \in clients : r # run => r \cap run = {}
  <2>1. run \subseteq Pages
    BY <1>1 DEF Typed
  <2>2. ASSUME NEW p \in run
        PROVE  /\ p \notin leaked /\ p \notin KernelOwned /\ p \notin Large /\ p \notin SlabPages
               /\ \A t \in Tasks : p \notin SpacePages(t) /\ p \notin StackOf(t)
               /\ \A r \in clients : p \in r => r = run
    <3>1. Apart(p)
      BY <2>1, <1>4
    <3> QED
      BY <3>1 DEF Apart
  <2> QED
    BY <2>1, <2>2
<1>6. pt' \in Memories /\ \A r \in Roots : Kept(r)
  <2>1. ASSUME NEW r \in Roots PROVE Root(r)' = Root(r) /\ AllTables(pt, Root(r)) \cap run = {}
    <3>1. Root(r)' = Root(r)
      BY <1>2 DEF Root
    <3>2. CASE r = Nil
      BY <3>1, <3>2, <1>1, <1>5, HoldingsAreTables
    <3>3. CASE r \in Tasks
      BY <3>1, <3>3, <1>1, <1>5, HoldingsAreTables
    <3> QED
      BY <3>2, <3>3 DEF Roots
  <2> QED
    BY <1>1, <1>2, <2>1, FreeKeepsTrees
<1>7. Typed'
  BY <1>1, <1>2, <1>3, <1>5, <1>6 DEF Typed
<1>8. /\ Trees' /\ WalkOK' /\ CreateOK' /\ AsidsDistinct'
      /\ KernelOwned' = KernelOwned
      /\ \A t \in Tasks : SpacePages(t)' = SpacePages(t) /\ StackOf(t)' = StackOf(t)
  BY <1>2, <1>6, <1>7, TasksUntouched
<1>9. Large' = Large /\ SlabPages' = SlabPages
  BY <1>2 DEF Large, SlabPages
<1>10. Transfer({}, run, "kernel", Nil)
  <2>1. used' \ leaked' = ((used \ leaked) \ run) \cup {}
    BY <1>2, <1>3
  <2> QED
    BY <2>1, <1>2, <1>5, <1>8, <1>9 DEF Transfer, Kinds
<1>11. Owned'
  BY <1>1, <1>10, TransferKeepsOwned
<1>12. ObjectsOK'
  BY <1>1, <1>2 DEF ObjectsOK
<1> QED
  BY <1>7, <1>8, <1>11, <1>12 DEF MemInv


(* Every object is on a page of the slab or on one of its own. *)
LEMMA ObjectsAreHeld ==
    ASSUME Typed, Owned
    PROVE  /\ \A o \in objects : o.page \in Pages /\ o.page \in used /\ o.page \notin leaked
           /\ \A o \in objects : IsSmall(o.size) => o.page \in SlabPages /\ o.page \notin Large
           /\ \A o \in objects : ~ IsSmall(o.size) => o.page \in Large /\ o.page \notin SlabPages
           /\ \A o \in objects : o.offset \in Nat /\ o.size \in Nat
           /\ slab.page # Nil => slab.page \in SlabPages /\ slab.page \notin Large
<1>1. \A p \in Pages : Apart(p)
  BY HoldersApart
<1>2. \A o \in objects : o.page \in Pages /\ o.offset \in Nat /\ o.size \in Nat
  BY DEF Typed
<1>3. slab.page # Nil => slab.page \in Pages
  BY DEF Typed
<1>4. /\ \A o \in objects : IsSmall(o.size) => o.page \in SlabPages
      /\ \A o \in objects : ~ IsSmall(o.size) => o.page \in Large
      /\ slab.page # Nil => slab.page \in SlabPages
  BY DEF Large, SlabPages
<1> QED
  BY <1>1, <1>2, <1>3, <1>4 DEF Apart

(* kmalloc out of the slab page. *)
LEMMA KmallocSlabKeeps ==
    ASSUME MemInv, NEW size \in Sizes, KmallocSlab(size)
    PROVE  MemInv'
<1>1. Typed /\ Trees /\ Owned /\ ObjectsOK
  BY DEF MemInv
<1> DEFINE new == [page |-> slab.page, offset |-> slab.offset, size |-> size]
<1>2. /\ IsSmall(size) /\ slab.page # Nil
      /\ objects' = objects \cup {new}
      /\ slab' = [slab EXCEPT !.offset = @ + size]
      /\ used' = used /\ used_pages' = used_pages /\ pt' = pt /\ clients' = clients
      /\ asids' = asids /\ live' = live /\ as' = as /\ create' = create /\ walk' = walk
      /\ leaked' = leaked
  BY DEF KmallocSlab
<1>3. size \in Nat
  BY ConstantFacts
<1>4. /\ slab \in [page : Pages \cup {Nil}, offset : Nat]
      /\ objects \subseteq [page : Pages, offset : Nat, size : Nat]
  BY <1>1 DEF Typed
<1>5. /\ slab.page \in Pages /\ slab.offset \in Nat
      /\ slab' \in [page : Pages \cup {Nil}, offset : Nat]
      /\ slab'.page = slab.page /\ slab'.offset = slab.offset + size
  BY <1>2, <1>3, <1>4
<1>6. new \in [page : Pages, offset : Nat, size : Nat]
  BY <1>3, <1>5
<1>7. new.page = slab.page /\ new.offset = slab.offset /\ new.size = size
  OBVIOUS
<1> HIDE DEF new
<1>8. Typed'
  BY <1>1, <1>2, <1>5, <1>6 DEF Typed
<1>9. \A r \in Roots : Kept(r)
  <2>1. \A r \in Roots : Root(r)' = Root(r)
    BY <1>2 DEF Root
  <2> QED
    BY <1>1, <1>2, <2>1, KeptWhenUntouched
<1>10. /\ Trees' /\ WalkOK' /\ CreateOK' /\ AsidsDistinct'
       /\ KernelOwned' = KernelOwned
       /\ \A t \in Tasks : SpacePages(t)' = SpacePages(t) /\ StackOf(t)' = StackOf(t)
  BY <1>2, <1>8, <1>9, TasksUntouched
<1>11. Large' = Large /\ SlabPages' = SlabPages
  BY <1>2, <1>5, <1>7 DEF Large, SlabPages
<1>12. Transfer({}, {}, "kernel", Nil)
  BY <1>2, <1>10, <1>11 DEF Transfer, Kinds
<1>13. Owned'
  BY <1>1, <1>12, TransferKeepsOwned
<1>14. ObjectsOK'
  <2>1. \A x \in objects : x.page = slab.page =>
           /\ IsSmall(x.size) /\ x.offset \in Nat /\ x.size \in Nat
           /\ x.offset + x.size <= slab.offset
    BY <1>1, <1>2, ObjectsAreHeld DEF ObjectsOK
  <2>2. \A o \in objects' :
           IsSmall(o.size) /\ o.page = slab'.page => o.offset + o.size <= slab'.offset
    BY <2>1, <1>2, <1>3, <1>5, <1>7
  <2>3. \A o \in objects' : ~ IsSmall(o.size) => \A x \in objects' : x.page = o.page => x = o
    BY <2>1, <1>1, <1>2, <1>7 DEF ObjectsOK
  <2>4. \A o, x \in objects' :
           o # x /\ o.page = x.page => \/ o.offset + o.size <= x.offset
                                      \/ x.offset + x.size <= o.offset
    BY <2>1, <1>1, <1>2, <1>7 DEF ObjectsOK
  <2>5. \E o \in objects' : IsSmall(o.size) /\ o.page = slab'.page
    BY <1>2, <1>5, <1>7
  <2> QED
    BY <2>2, <2>3, <2>4, <2>5 DEF ObjectsOK, IsSmall
<1> QED
  BY <1>8, <1>10, <1>13, <1>14 DEF MemInv

(* kmalloc with a new page. *)
LEMMA KmallocPageKeeps ==
    ASSUME MemInv, NEW size \in Sizes, KmallocPage(size)
    PROVE  MemInv'
<1>1. Typed /\ Trees /\ Owned /\ ObjectsOK
  BY DEF MemInv
<1> DEFINE p == FirstRun(1)
           new == [page |-> p, offset |-> 0, size |-> size]
<1>2. /\ p # Nil /\ AllocateFresh(p, 1) /\ Allocate(p, 1)
      /\ objects' = objects \cup {new}
      /\ slab' = (IF IsSmall(size) THEN [page |-> p, offset |-> size] ELSE slab)
      /\ clients' = clients
      /\ asids' = asids /\ live' = live /\ as' = as /\ create' = create /\ walk' = walk
      /\ leaked' = leaked
  BY DEF KmallocPage, AllocateFresh
<1>3. size \in Nat /\ 1 \in Nat
  BY ConstantFacts
<1>4. p \in Pages /\ p + 1 <= MAX_PAGES /\ Run(p, 1) \cap used = {}
  BY <1>2, <1>3, FirstRunIsFree
<1>5. Run(p, 1) = {p}
  BY <1>4, SingleRun
<1>6. new \in [page : Pages, offset : Nat, size : Nat]
  BY <1>3, <1>4
<1>7. new.page = p /\ new.offset = 0 /\ new.size = size
  OBVIOUS
<1> HIDE DEF new, p
<1>8. p \notin used
  BY <1>4, <1>5
<1>9. /\ used' = used \cup Run(p, 1) /\ used' \subseteq Pages
      /\ used_pages' = Cardinality(used')
  BY <1>1, <1>2, <1>3, <1>4, AllocateCounts
<1>10. pt' \in Memories /\ \A r \in Roots : Kept(r)
  BY <1>1, <1>2, <1>3, <1>4, FreshKeepsTrees
<1>11. slab' \in [page : Pages \cup {Nil}, offset : Nat]
  <2>1. slab \in [page : Pages \cup {Nil}, offset : Nat]
    BY <1>1 DEF Typed
  <2> QED
    BY <2>1, <1>2, <1>3, <1>4
<1>12. Typed'
  BY <1>1, <1>2, <1>6, <1>9, <1>10, <1>11 DEF Typed
<1>13. /\ Trees' /\ WalkOK' /\ CreateOK' /\ AsidsDistinct'
       /\ KernelOwned' = KernelOwned
       /\ \A t \in Tasks : SpacePages(t)' = SpacePages(t) /\ StackOf(t)' = StackOf(t)
  BY <1>2, <1>10, <1>12, TasksUntouched
<1>14. p # Nil /\ Nil \notin Pages
  BY <1>2, ConstantFacts
<1>15. /\ Large' = Large \cup (IF IsSmall(size) THEN {} ELSE {p})
       /\ SlabPages' = SlabPages \cup (IF IsSmall(size) THEN {p} ELSE {})
  <2>1. IsSmall(size)' <=> IsSmall(size)
    BY DEF IsSmall
  <2>2. slab.page # Nil => \E o \in objects : IsSmall(o.size) /\ o.page = slab.page
    BY <1>1 DEF ObjectsOK
  <2>3. Large' = Large \cup (IF IsSmall(size) THEN {} ELSE {p})
    BY <1>2, <1>7 DEF Large, IsSmall
  <2>4. CASE IsSmall(size)
    <3>1. slab'.page = p
      BY <1>2, <2>4
    <3>2. SlabPages = {o.page : o \in {x \in objects : IsSmall(x.size)}}
      BY <2>2 DEF SlabPages
    <3>3. SlabPages' = {o.page : o \in {x \in objects' : IsSmall(x.size)}} \cup {p}
      BY <3>1, <1>14 DEF SlabPages, IsSmall
    <3>4. {o.page : o \in {x \in objects' : IsSmall(x.size)}}
            = {o.page : o \in {x \in objects : IsSmall(x.size)}} \cup {p}
      BY <1>2, <1>7, <2>4
    <3> QED
      BY <3>2, <3>3, <3>4, <2>3, <2>4
  <2>5. CASE ~ IsSmall(size)
    <3>1. slab' = slab
      BY <1>2, <2>5
    <3>2. {o.page : o \in {x \in objects' : IsSmall(x.size)}}
            = {o.page : o \in {x \in objects : IsSmall(x.size)}}
      BY <1>2, <1>7, <2>5
    <3>3. SlabPages' = SlabPages
      BY <3>1, <3>2 DEF SlabPages, IsSmall
    <3> QED
      BY <3>3, <2>3, <2>5
  <2> QED
    BY <2>4, <2>5
<1>16. Transfer({p}, {}, IF IsSmall(size) THEN "slab" ELSE "large", Nil)
  <2>1. used' \ leaked' = ((used \ leaked) \ {}) \cup {p}
    BY <1>1, <1>2, <1>5, <1>8, <1>9 DEF Typed
  <2> QED
    BY <2>1, <1>2, <1>4, <1>8, <1>13, <1>15 DEF Transfer, Kinds
<1>17. Owned'
  BY <1>1, <1>16, TransferKeepsOwned
<1>18. ObjectsOK'
  <2>1. \A x \in objects : x.page # p /\ x.offset \in Nat /\ x.size \in Nat
    BY <1>1, <1>8, ObjectsAreHeld
  <2>2. \A o \in objects' :
           IsSmall(o.size) /\ o.page = slab'.page => o.offset + o.size <= slab'.offset
    <3>1. CASE IsSmall(size)
      BY <3>1, <2>1, <1>2, <1>3, <1>7
    <3>2. CASE ~ IsSmall(size)
      BY <3>2, <1>1, <1>2, <1>7 DEF ObjectsOK
    <3> QED
      BY <3>1, <3>2
  <2>3. \A o \in objects' : ~ IsSmall(o.size) => \A x \in objects' : x.page = o.page => x = o
    BY <2>1, <1>1, <1>2, <1>7 DEF ObjectsOK
  <2>4. \A o, x \in objects' :
           o # x /\ o.page = x.page => \/ o.offset + o.size <= x.offset
                                      \/ x.offset + x.size <= o.offset
    BY <2>1, <1>1, <1>2, <1>7 DEF ObjectsOK
  <2>5. slab'.page # Nil => \E o \in objects' : IsSmall(o.size) /\ o.page = slab'.page
    <3>1. CASE IsSmall(size)
      BY <3>1, <1>2, <1>7
    <3>2. CASE ~ IsSmall(size)
      BY <3>2, <1>1, <1>2 DEF ObjectsOK
    <3> QED
      BY <3>1, <3>2
  <2> QED
    BY <2>2, <2>3, <2>4, <2>5 DEF ObjectsOK, IsSmall
<1> QED
  BY <1>12, <1>13, <1>17, <1>18 DEF MemInv

(* kfree of a large object. *)
LEMMA KfreeKeeps ==
    ASSUME KfreeSmall = FALSE, MemInv, NEW o \in objects, Kfree(o)
    PROVE  MemInv'
<1>1. Typed /\ Trees /\ Owned /\ ObjectsOK
  BY DEF MemInv
<1> DEFINE R == {o.page}
<1>2. /\ Free(R) /\ ~ IsSmall(o.size) /\ objects' = objects \ {o}
      /\ clients' = clients /\ slab' = slab
      /\ asids' = asids /\ live' = live /\ as' = as /\ create' = create /\ walk' = walk
      /\ leaked' = leaked
  BY DEF Kfree
<1>3. /\ used' = used \ R /\ used' \subseteq Pages /\ used_pages' = Cardinality(used')
  <2> HIDE DEF R
  <2> QED
    BY <1>1, <1>2, FreeCounts
<1>4. o.page \in Pages /\ o.page \in Large /\ Apart(o.page)
  BY <1>1, <1>2, ObjectsAreHeld, HoldersApart
<1>5. /\ R \cap leaked = {} /\ R \cap KernelOwned = {} /\ R \cap SlabPages = {}
      /\ \A t \in Tasks : R \cap SpacePages(t) = {} /\ R \cap StackOf(t) = {}
      /\ \A r \in clients : r \cap R = {}
  BY <1>4 DEF Apart
<1>6. Large' = Large \ R
  <2>1. \A x \in objects : x.page = o.page => x = o
    BY <1>1, <1>2 DEF ObjectsOK
  <2> QED
    BY <2>1, <1>2 DEF Large, IsSmall
<1>7. SlabPages' = SlabPages
  <2>1. {x.page : x \in {y \in objects' : IsSmall(y.size)}}
          = {x.page : x \in {y \in objects : IsSmall(y.size)}}
    BY <1>2
  <2> QED
    BY <2>1, <1>2 DEF SlabPages, IsSmall
<1> HIDE DEF R
<1>8. pt' \in Memories /\ \A r \in Roots : Kept(r)
  <2>1. ASSUME NEW r \in Roots PROVE Root(r)' = Root(r) /\ AllTables(pt, Root(r)) \cap R = {}
    <3>1. Root(r)' = Root(r)
      BY <1>2 DEF Root
    <3>2. CASE r = Nil
      BY <3>1, <3>2, <1>1, <1>5, HoldingsAreTables
    <3>3. CASE r \in Tasks
      BY <3>1, <3>3, <1>1, <1>5, HoldingsAreTables
    <3> QED
      BY <3>2, <3>3 DEF Roots
  <2> QED
    BY <1>1, <1>2, <2>1, FreeKeepsTrees
<1>9. Typed'
  BY <1>1, <1>2, <1>3, <1>5, <1>8 DEF Typed
<1>10. /\ Trees' /\ WalkOK' /\ CreateOK' /\ AsidsDistinct'
       /\ KernelOwned' = KernelOwned
       /\ \A t \in Tasks : SpacePages(t)' = SpacePages(t) /\ StackOf(t)' = StackOf(t)
  BY <1>2, <1>8, <1>9, TasksUntouched
<1>11. Transfer({}, R, "kernel", Nil)
  <2>1. used' \ leaked' = ((used \ leaked) \ R) \cup {}
    BY <1>2, <1>3
  <2> QED
    BY <2>1, <1>2, <1>5, <1>6, <1>7, <1>10 DEF Transfer, Kinds
<1>12. Owned'
  BY <1>1, <1>11, TransferKeepsOwned
<1>13. ObjectsOK'
  <2>1. \A x, y \in objects' : x \in objects /\ y \in objects
    BY <1>2
  <2>2. slab.page # Nil => \E x \in objects' : IsSmall(x.size) /\ x.page = slab.page
    BY <1>1, <1>2 DEF ObjectsOK
  <2> QED
    BY <2>1, <2>2, <1>1, <1>2 DEF ObjectsOK, IsSmall
<1> QED
  BY <1>9, <1>10, <1>12, <1>13 DEF MemInv


(* Without an L0 table there is no tree. *)
LEMMA NoTree ==
    ASSUME NEW m
    PROVE  Tree(m, Nil) /\ AllTables(m, Nil) = {}
<1>1. Nil \notin Pages /\ Nil # Shared
  BY ConstantFacts DEF Nil, Shared
<1>2. L0(Nil) = {} /\ L1(m, Nil) = {}
  BY <1>1 DEF L0, L1
<1>3. L2(m, Nil) = {} /\ L3(m, Nil) = {}
  BY <1>2 DEF L2, L3, BelowIn
<1> QED
  BY <1>2, <1>3 DEF Tree, AllTables

(* The L0 table that vm_create sets up is a tree of its own. *)
LEMMA NewTree ==
    ASSUME NEW m, NEW p \in Pages, m[p] = [EmptyTable EXCEPT ![0] = TableAt(KernelL1)]
    PROVE  Tree(m, p) /\ AllTables(m, p) = {p}
<1>1. p # Shared /\ 0 \in Slots
  BY ConstantFacts
<1>2. m[p][0] = TableAt(KernelL1) /\ \A i \in Slots \ {0} : m[p][i].kind = "invalid"
  BY <1>1 DEF EmptyTable, Invalid
<1>3. L0(p) = {p} /\ L1(m, p) = {}
  BY <1>1, <1>2 DEF L0, L1, TargetsIn
<1>4. L2(m, p) = {} /\ L3(m, p) = {}
  BY <1>3 DEF L2, L3, BelowIn
<1> QED
  BY <1>2, <1>3, <1>4 DEF Tree, AllTables

(* The pages of a task are nobody else's, and no other tree has a table there. *)
LEMMA TaskApart ==
    ASSUME Typed, Owned, NEW t \in Tasks, NEW R, R = SpacePages(t) \cup StackOf(t)
    PROVE  /\ R \subseteq Pages /\ R \subseteq used \ leaked
           /\ R \cap KernelOwned = {} /\ R \cap Large = {} /\ R \cap SlabPages = {}
           /\ \A u \in Tasks : u # t => R \cap SpacePages(u) = {} /\ R \cap StackOf(u) = {}
           /\ \A r \in clients : r \cap R = {}
           /\ \A r \in Roots : r # t => AllTables(pt, Root(r)) \cap R = {}
<1>1. R \subseteq Pages
  BY HeldArePages
<1>2. ASSUME NEW p \in R
      PROVE  /\ p \in used \ leaked /\ p \notin KernelOwned /\ p \notin Large /\ p \notin SlabPages
             /\ \A u \in Tasks : u # t => p \notin SpacePages(u) /\ p \notin StackOf(u)
             /\ \A r \in clients : p \notin r
  <2>1. Apart(p)
    BY <1>1, HoldersApart
  <2> QED
    BY <2>1 DEF Apart
<1>3. ASSUME NEW r \in Roots, r # t
      PROVE  AllTables(pt, Root(r)) \cap R = {}
  <2>1. CASE r = Nil
    BY <2>1, <1>2, HoldingsAreTables
  <2>2. CASE r \in Tasks
    BY <2>2, <1>2, <1>3, HoldingsAreTables
  <2> QED
    BY <2>1, <2>2 DEF Roots
<1> QED
  BY <1>1, <1>2, <1>3

(* A space without tables, an ASID or a stack, or with tables only. *)
LEMMA SpaceFacts ==
    /\ NoSpace \in Spaces /\ NoSpace.pgd = Nil /\ NoSpace.asid = 0 /\ NoSpace.stack = Nil
    /\ \A p \in Pages \cup {Nil} :
          LET s == [NoSpace EXCEPT !.pgd = p]
          IN  s \in Spaces /\ s.pgd = p /\ s.asid = 0 /\ s.stack = Nil
<1>1. 0 \in 0 .. ASID_MAX - 1
  BY ConstantFacts
<1> QED
  BY <1>1 DEF NoSpace, Spaces

(* task_destroy, or vm_destroy when task_create fails: the pages of the task *)
(* are free and so is its ASID.                                              *)
LEMMA SpaceReleased ==
    ASSUME MemInv, NEW t \in Tasks, walk.task # t, Free(StackOf(t) \cup SpacePages(t)),
           asids' = asids \ {as[t].asid}, as' = [as EXCEPT ![t] = NoSpace],
           live' = [live EXCEPT ![t] = FALSE], walk' = walk, clients' = clients,
           objects' = objects, slab' = slab, leaked' = leaked
    PROVE  Typed' /\ Trees' /\ Owned' /\ WalkOK' /\ ObjectsOK' /\ AsidsDistinct'
<1>1. Typed /\ Trees /\ Owned /\ WalkOK /\ ObjectsOK /\ AsidsDistinct
  BY DEF MemInv
<1> DEFINE R == SpacePages(t) \cup StackOf(t)
<1>2. Free(R)
  <2>1. R = StackOf(t) \cup SpacePages(t)
    OBVIOUS
  <2> QED
    BY <2>1, Zenon
<1>3. /\ R \subseteq Pages /\ R \subseteq used \ leaked
      /\ R \cap KernelOwned = {} /\ R \cap Large = {} /\ R \cap SlabPages = {}
      /\ \A u \in Tasks : u # t => R \cap SpacePages(u) = {} /\ R \cap StackOf(u) = {}
      /\ \A r \in clients : r \cap R = {}
      /\ \A r \in Roots : r # t => AllTables(pt, Root(r)) \cap R = {}
  BY <1>1, TaskApart
<1>4. SpacePages(t) \ R = {} /\ StackOf(t) \ R = {}
  OBVIOUS
<1> HIDE DEF R
<1>5. /\ used' = used \ R /\ used' \subseteq Pages /\ used_pages' = Cardinality(used')
  BY <1>1, <1>2, FreeCounts
<1>6. /\ as \in [Tasks -> Spaces] /\ as' \in [Tasks -> Spaces]
      /\ as'[t].pgd = Nil /\ as'[t].asid = 0 /\ as'[t].stack = Nil
      /\ \A u \in Tasks : u # t => as'[u] = as[u]
  <2>1. as \in [Tasks -> Spaces]
    BY <1>1 DEF Typed
  <2> QED
    BY <2>1, SpaceFacts
<1>7. live' \in [Tasks -> BOOLEAN] /\ ~ live'[t] /\ \A u \in Tasks : u # t => live'[u] = live[u]
  BY <1>1 DEF Typed
<1>8. \A r \in Roots : r # t => Root(r)' = Root(r)
  BY <1>6 DEF Root, Roots
<1>9. pt' \in Memories /\ \A r \in Roots : r # t => Kept(r)
  BY <1>1, <1>2, <1>3, <1>8, FreeKeepsTrees
<1>10. Root(t)' = Nil
  BY <1>6, ConstantFacts DEF Root
<1>11. Typed'
  <2>1. leaked' \subseteq used'
    BY <1>1, <1>3, <1>5 DEF Typed
  <2>2. \A u \in Tasks : live'[u] => as'[u].pgd \in Pages
    BY <1>1, <1>6, <1>7 DEF Typed
  <2>3. \A u \in Tasks : as'[u].stack # Nil => as'[u].stack + StackPages <= MAX_PAGES
    BY <1>1, <1>6 DEF Typed
  <2> QED
    BY <2>1, <2>2, <2>3, <1>1, <1>5, <1>6, <1>7, <1>9 DEF Typed
<1>12. Trees'
  <2>1. \A r \in Roots : r # t => Tree(pt', Root(r)')
    BY <1>9 DEF Kept
  <2>2. Tree(pt', Root(t)')
    BY <1>10, NoTree
  <2> QED
    BY <2>1, <2>2 DEF Trees
<1>13. Owned'
  <2>1. KernelOwned' = KernelOwned
    BY <1>1, <1>9, <1>11, KeptHoldings, ConstantFacts DEF Roots
  <2>2. \A u \in Tasks : u # t => SpacePages(u)' = SpacePages(u) /\ StackOf(u)' = StackOf(u)
    <3>1. \A u \in Tasks : u # t => SpacePages(u)' = SpacePages(u)
      BY <1>1, <1>9, <1>11, KeptHoldings DEF Roots
    <3>2. \A u \in Tasks : u # t => StackOf(u)' = StackOf(u)
      BY <1>6 DEF StackOf
    <3> QED
      BY <3>1, <3>2
  <2>3. SpacePages(t)' = {} /\ StackOf(t)' = {}
    BY <1>6 DEF SpacePages, StackOf
  <2>4. Large' = Large /\ SlabPages' = SlabPages
    BY DEF Large, SlabPages
  <2>5. \A u \in Tasks : SpacePages(u)' = SpacePages(u) \ R /\ StackOf(u)' = StackOf(u) \ R
    BY <2>2, <2>3, <1>3, <1>4
  <2>6. used' \ leaked' = ((used \ leaked) \ R) \cup {}
    BY <1>5
  <2>7. Transfer({}, R, "kernel", Nil)
    BY <2>1, <2>4, <2>5, <2>6, <1>3 DEF Transfer, Kinds
  <2> QED
    BY <1>1, <2>7, TransferKeepsOwned
<1>14. WalkOK'
  <2>1. walk # NoWalk => live'[walk.task] /\ Kept(WalkRoot)
    <3> SUFFICES ASSUME walk # NoWalk PROVE live'[walk.task] /\ Kept(WalkRoot)
      OBVIOUS
    <3>1. /\ live[walk.task] /\ walk.task \in Tasks
          /\ WalkRoot \in Roots /\ WalkRoot \in {walk.task, Nil}
      BY <1>1, WalkIsSomewhere
    <3>2. WalkRoot # t
      BY <3>1, ConstantFacts
    <3> QED
      BY <3>1, <3>2, <1>7, <1>9
  <2> QED
    BY <1>1, <2>1, KeptWalk
<1>15. ObjectsOK'
  BY <1>1 DEF ObjectsOK
<1>16. AsidsDistinct'
  BY <1>1, <1>6 DEF AsidsDistinct
<1> QED
  BY <1>11, <1>12, <1>13, <1>14, <1>15, <1>16

(* A slot that task_create works on is not that of a live task. *)
LEMMA CreateElsewhere ==
    ASSUME Typed, CreateOK, NEW t \in Tasks, live[t], create' = create,
           live' \in [Tasks -> BOOLEAN],
           \A u \in Tasks : u # t => as'[u] = as[u] /\ live'[u] = live[u]
    PROVE  CreateOK'
<1>1. CASE create = NoCreate
  BY <1>1 DEF CreateOK
<1>2. CASE create # NoCreate
  <2>1. create.task \in Tasks /\ create.task # t
    BY <1>2 DEF CreateOK
  <2>2. as'[create.task] = as[create.task] /\ live'[create.task] = live[create.task]
    BY <2>1
  <2> QED
    BY <1>2, <2>2 DEF CreateOK
<1> QED
  BY <1>1, <1>2

(* task_destroy frees the stack. *)
LEMMA DestroyStackKeeps ==
    ASSUME MemInv, NEW t \in Tasks, DestroyStack(t)
    PROVE  MemInv'
<1>1. Typed /\ Trees /\ Owned /\ WalkOK /\ CreateOK /\ ObjectsOK /\ AsidsDistinct
  BY DEF MemInv
<1> DEFINE R == StackOf(t)
<1>2. /\ Free(R) /\ live[t] /\ as' = [as EXCEPT ![t].stack = Nil]
      /\ asids' = asids /\ live' = live /\ create' = create /\ walk' = walk
      /\ clients' = clients /\ objects' = objects /\ slab' = slab /\ leaked' = leaked
  BY DEF DestroyStack, Whole
<1>3. /\ as \in [Tasks -> Spaces] /\ as' \in [Tasks -> Spaces]
      /\ as'[t].stack = Nil /\ as'[t].pgd = as[t].pgd /\ as'[t].asid = as[t].asid
      /\ \A u \in Tasks : u # t => as'[u] = as[u]
  <2>1. as \in [Tasks -> Spaces]
    BY <1>1 DEF Typed
  <2> DEFINE s == [as[t] EXCEPT !.stack = Nil]
  <2>2. s \in Spaces /\ s.stack = Nil /\ s.pgd = as[t].pgd /\ s.asid = as[t].asid
    BY <2>1 DEF Spaces
  <2>3. as' = [as EXCEPT ![t] = s]
    BY <1>2
  <2> HIDE DEF s
  <2> QED
    BY <2>1, <2>2, <2>3
<1>4. \A u \in Tasks : as'[u].pgd = as[u].pgd /\ as'[u].asid = as[u].asid
  BY <1>3
<1>5. /\ R \subseteq Pages /\ R \subseteq used \ leaked /\ R \cap KernelOwned = {}
      /\ R \cap Large = {} /\ R \cap SlabPages = {}
      /\ \A u \in Tasks : R \cap SpacePages(u) = {} /\ (u # t => R \cap StackOf(u) = {})
      /\ \A r \in clients : r \cap R = {}
  <2>1. R \subseteq Pages
    BY <1>1, HeldArePages
  <2>2. ASSUME NEW p \in R
        PROVE  /\ p \in used \ leaked /\ p \notin KernelOwned
               /\ p \notin Large /\ p \notin SlabPages
               /\ \A u \in Tasks : p \notin SpacePages(u) /\ (u # t => p \notin StackOf(u))
               /\ \A r \in clients : p \notin r
    <3>1. Apart(p)
      BY <1>1, <2>1, HoldersApart
    <3> QED
      BY <3>1 DEF Apart
  <2> QED
    BY <2>1, <2>2
<1> HIDE DEF R
<1>6. /\ used' = used \ R /\ used' \subseteq Pages /\ used_pages' = Cardinality(used')
  BY <1>1, <1>2, FreeCounts
<1>7. pt' \in Memories /\ \A r \in Roots : Kept(r)
  <2>1. ASSUME NEW r \in Roots PROVE Root(r)' = Root(r) /\ AllTables(pt, Root(r)) \cap R = {}
    <3>1. Root(r)' = Root(r)
      BY <1>4 DEF Root, Roots
    <3>2. AllTables(pt, Root(r)) \cap R = {}
      BY <1>1, <1>5, HoldingsAreTables DEF Roots
    <3> QED
      BY <3>1, <3>2
  <2> QED
    BY <1>1, <1>2, <2>1, FreeKeepsTrees
<1>8. Typed'
  <2>1. leaked' \subseteq used'
    BY <1>1, <1>2, <1>5, <1>6 DEF Typed
  <2>2. \A u \in Tasks : live'[u] => as'[u].pgd \in Pages
    BY <1>1, <1>2, <1>4 DEF Typed
  <2>3. \A u \in Tasks : as'[u].stack # Nil => as'[u].stack + StackPages <= MAX_PAGES
    BY <1>1, <1>3 DEF Typed
  <2> QED
    BY <2>1, <2>2, <2>3, <1>1, <1>2, <1>3, <1>6, <1>7 DEF Typed
<1>9. Trees'
  BY <1>7, AllKept
<1>10. /\ KernelOwned' = KernelOwned
       /\ \A u \in Tasks : SpacePages(u)' = SpacePages(u)
  BY <1>1, <1>7, <1>8, KeptHoldings DEF Roots
<1>11. Owned'
  <2>1. \A u \in Tasks : StackOf(u)' = StackOf(u) \ R
    <3>1. StackOf(t)' = {}
      BY <1>3 DEF StackOf
    <3>2. \A u \in Tasks : u # t => StackOf(u)' = StackOf(u)
      BY <1>3 DEF StackOf
    <3>3. StackOf(t) \ R = {}
      BY DEF R
    <3> QED
      BY <3>1, <3>2, <3>3, <1>5
  <2>2. Large' = Large /\ SlabPages' = SlabPages
    BY <1>2 DEF Large, SlabPages
  <2>3. used' \ leaked' = ((used \ leaked) \ R) \cup {}
    BY <1>2, <1>6
  <2>4. Transfer({}, R, "kernel", Nil)
    BY <1>2, <1>5, <1>10, <2>1, <2>2, <2>3 DEF Transfer, Kinds
  <2> QED
    BY <1>1, <2>4, TransferKeepsOwned
<1>12. WalkOK'
  <2>1. walk # NoWalk => live'[walk.task] /\ Kept(WalkRoot)
    BY <1>1, <1>2, <1>7, WalkIsSomewhere
  <2> QED
    BY <1>1, <1>2, <2>1, KeptWalk
<1>13. CreateOK'
  <2>1. live' \in [Tasks -> BOOLEAN] /\ \A u \in Tasks : live'[u] = live[u]
    BY <1>1, <1>2 DEF Typed
  <2> QED
    BY <1>1, <1>2, <1>3, <2>1, CreateElsewhere
<1>14. ObjectsOK'
  BY <1>1, <1>2 DEF ObjectsOK
<1>15. AsidsDistinct'
  <2>1. asids' = asids /\ AsidsDistinct
    BY <1>1, <1>2
  <2> QED
    BY <2>1, <1>4 DEF AsidsDistinct
<1> QED
  BY <1>8, <1>9, <1>11, <1>12, <1>13, <1>14, <1>15 DEF MemInv

(* ... and then the rest. *)
LEMMA DestroySpaceKeeps ==
    ASSUME MemInv, NEW t \in Tasks, DestroySpace(t)
    PROVE  MemInv'
<1>1. /\ live[t] /\ as[t].stack = Nil /\ walk.task # t /\ Free(SpacePages(t))
      /\ asids' = asids \ {as[t].asid} /\ as' = [as EXCEPT ![t] = NoSpace]
      /\ live' = [live EXCEPT ![t] = FALSE]
      /\ create' = create /\ walk' = walk /\ clients' = clients
      /\ objects' = objects /\ slab' = slab /\ leaked' = leaked
  BY DEF DestroySpace
<1>2. Free(StackOf(t) \cup SpacePages(t))
  <2>1. StackOf(t) \cup SpacePages(t) = SpacePages(t)
    BY <1>1 DEF StackOf
  <2> QED
    BY <1>1, <2>1, Zenon
<1>3. Typed' /\ Trees' /\ Owned' /\ WalkOK' /\ ObjectsOK' /\ AsidsDistinct'
  BY <1>1, <1>2, SpaceReleased
<1>4. CreateOK'
  <2>1. Typed /\ CreateOK /\ as \in [Tasks -> Spaces] /\ live \in [Tasks -> BOOLEAN]
    BY DEF MemInv, Typed
  <2>2. \A u \in Tasks : u # t => as'[u] = as[u] /\ live'[u] = live[u]
    BY <1>1, <2>1
  <2>3. live' \in [Tasks -> BOOLEAN]
    BY <1>3 DEF Typed
  <2> QED
    BY <1>1, <2>1, <2>2, <2>3, CreateElsewhere
<1> QED
  BY <1>3, <1>4 DEF MemInv

(* task_create without a stack. *)
LEMMA CreateUndoKeeps ==
    ASSUME MemInv, CreateUndo
    PROVE  MemInv'
<1> DEFINE t == create.task
<1>1. /\ create.step = "undo" /\ Free(SpacePages(t)) /\ asids' = asids \ {as[t].asid}
      /\ as' = [as EXCEPT ![t] = NoSpace] /\ create' = NoCreate /\ live' = live
      /\ walk' = walk /\ clients' = clients /\ objects' = objects /\ slab' = slab
      /\ leaked' = leaked
  BY DEF CreateUndo
<1>2. create # NoCreate
  BY <1>1 DEF NoCreate
<1>3. t \in Tasks /\ ~ live[t] /\ as[t].stack = Nil
  BY <1>2 DEF MemInv, CreateOK
<1>4. walk.task # t
  <2>1. walk # NoWalk => live[walk.task]
    BY WalkIsSomewhere DEF MemInv
  <2>2. walk = NoWalk => walk.task = Nil
    BY DEF NoWalk
  <2> QED
    BY <1>3, <2>1, <2>2, ConstantFacts
<1>5. live' = [live EXCEPT ![t] = FALSE]
  BY <1>1, <1>3 DEF MemInv, Typed
<1>6. Free(StackOf(t) \cup SpacePages(t))
  <2>1. StackOf(t) = {}
    BY <1>3 DEF StackOf
  <2>2. StackOf(t) \cup SpacePages(t) = SpacePages(t)
    BY <2>1
  <2> QED
    BY <1>1, <2>2, Zenon
<1> HIDE DEF t
<1>7. Typed' /\ Trees' /\ Owned' /\ WalkOK' /\ ObjectsOK' /\ AsidsDistinct'
  BY <1>1, <1>3, <1>4, <1>5, <1>6, SpaceReleased
<1>8. CreateOK'
  BY <1>1 DEF CreateOK
<1> QED
  BY <1>7, <1>8 DEF MemInv


(* task_create takes a slot, whatever an exited task left in it, and         *)
(* vm_create allocates the L0 table.                                         *)
LEMMA CreateVmKeeps ==
    ASSUME MemInv, CreateVm
    PROVE  MemInv'
<1>1. Typed /\ Trees /\ Owned /\ WalkOK /\ ObjectsOK /\ AsidsDistinct
  BY DEF MemInv
<1> DEFINE p == FirstRun(1)
<1>2. PICK t \in Tasks :
        /\ ~ live[t]
        /\ leaked' = leaked \cup SpacePages(t) \cup StackOf(t)
        /\ as' = [as EXCEPT ![t] = [NoSpace EXCEPT !.pgd = p]]
        /\ IF p = Nil THEN UNCHANGED <<used, used_pages, pt, create>>
           ELSE /\ Allocate(p, 1)
                /\ pt' = [pt EXCEPT ![p] = [Fresh(p) EXCEPT ![0] = TableAt(KernelL1)]]
                /\ create' = [task |-> t, step |-> "asid"]
        /\ create = NoCreate
        /\ asids' = asids /\ live' = live /\ walk' = walk /\ clients' = clients
        /\ objects' = objects /\ slab' = slab
  <2> DEFINE dead == {x \in Tasks : ~live[x]}
             u == CHOOSE x \in dead : \A y \in dead : x <= y
  <2>1. /\ dead # {}
        /\ leaked' = leaked \cup SpacePages(u) \cup StackOf(u)
        /\ as' = [as EXCEPT ![u] = [NoSpace EXCEPT !.pgd = p]]
        /\ IF p = Nil THEN UNCHANGED <<used, used_pages, pt, create>>
           ELSE /\ Allocate(p, 1)
                /\ pt' = [pt EXCEPT ![p] = [Fresh(p) EXCEPT ![0] = TableAt(KernelL1)]]
                /\ create' = [task |-> u, step |-> "asid"]
        /\ create = NoCreate
        /\ asids' = asids /\ live' = live /\ walk' = walk /\ clients' = clients
        /\ objects' = objects /\ slab' = slab
    BY DEF CreateVm
  <2>2. dead \subseteq Nat
    BY ConstantFacts
  <2>3. u \in dead
    <3> HIDE DEF dead
    <3> QED
      BY <2>1, <2>2, LeastChosen
  <2>4. u \in Tasks /\ ~ live[u]
    BY <2>3
  <2> HIDE DEF dead, u, p
  <2> QED
    BY <2>1, <2>4
<1> DEFINE R == SpacePages(t) \cup StackOf(t)
<1>3. t \in Tasks /\ ~ live[t]
  BY <1>2
<1>4. p # Nil => p \in Pages /\ p + 1 <= MAX_PAGES /\ Run(p, 1) \cap used = {}
  BY FirstRunIsFree
<1> HIDE DEF p
<1>5. /\ R \subseteq Pages /\ R \subseteq used \ leaked
      /\ R \cap KernelOwned = {} /\ R \cap Large = {} /\ R \cap SlabPages = {}
      /\ \A u \in Tasks : u # t => R \cap SpacePages(u) = {} /\ R \cap StackOf(u) = {}
      /\ \A r \in clients : r \cap R = {}
      /\ \A r \in Roots : r # t => AllTables(pt, Root(r)) \cap R = {}
  BY <1>1, <1>3, TaskApart
<1>6. SpacePages(t) \ R = {} /\ StackOf(t) \ R = {} /\ leaked' = leaked \cup R
  BY <1>2
<1> HIDE DEF R
<1>7. p \in Pages \cup {Nil}
  BY <1>4
<1>8. /\ as \in [Tasks -> Spaces] /\ as' \in [Tasks -> Spaces]
      /\ as'[t].pgd = p /\ as'[t].asid = 0 /\ as'[t].stack = Nil
      /\ \A u \in Tasks : u # t => as'[u] = as[u]
  <2>1. as \in [Tasks -> Spaces]
    BY <1>1 DEF Typed
  <2> DEFINE s == [NoSpace EXCEPT !.pgd = p]
  <2>2. s \in Spaces /\ s.pgd = p /\ s.asid = 0 /\ s.stack = Nil
    BY <1>7, SpaceFacts
  <2>3. as' = [as EXCEPT ![t] = s]
    BY <1>2
  <2> HIDE DEF s
  <2> QED
    BY <2>1, <2>2, <2>3, <1>3
<1>9. \A r \in Roots : r # t => Root(r)' = Root(r)
  BY <1>8 DEF Root, Roots
<1>10. Root(t)' = p
  BY <1>3, <1>8, ConstantFacts DEF Root
<1>11. /\ pt' \in Memories /\ used' \subseteq Pages /\ used_pages' = Cardinality(used')
       /\ used \subseteq used'
       /\ \A r \in Roots : r # t => Kept(r)
       /\ Tree(pt', p) /\ AllTables(pt', p) = (IF p = Nil THEN {} ELSE {p})
       /\ used' \ leaked' = ((used \ leaked) \ R) \cup (IF p = Nil THEN {} ELSE {p})
       /\ (IF p = Nil THEN {} ELSE {p}) \subseteq Pages \ used
       /\ CreateOK'
  <2>1. CASE p = Nil
    <3>1. used' = used /\ used_pages' = used_pages /\ pt' = pt /\ create' = create
      BY <1>2, <2>1
    <3>2. \A r \in Roots : r # t => Kept(r)
      BY <1>1, <1>9, <3>1, KeptWhenUntouched
    <3>3. Tree(pt', p) /\ AllTables(pt', p) = {}
      BY <2>1, NoTree
    <3>4. used' \ leaked' = ((used \ leaked) \ R) \cup {}
      BY <1>6, <3>1
    <3>5. CreateOK'
      BY <3>1, <1>2 DEF CreateOK
    <3> QED
      BY <2>1, <3>1, <3>2, <3>3, <3>4, <3>5, <1>1 DEF Typed
  <2>2. CASE p # Nil
    <3>1. p \in Pages /\ p + 1 <= MAX_PAGES /\ Run(p, 1) = {p} /\ p \notin used
      BY <1>4, <2>2, SingleRun
    <3>2. /\ Allocate(p, 1)
          /\ pt' = [pt EXCEPT ![p] = [EmptyTable EXCEPT ![0] = TableAt(KernelL1)]]
          /\ create' = [task |-> t, step |-> "asid"]
      BY <1>2, <2>2 DEF Fresh
    <3>3. used' = used \cup {p} /\ used' \subseteq Pages /\ used_pages' = Cardinality(used')
      <4>1. 1 \in Nat
        OBVIOUS
      <4> QED
        BY <1>1, <1>4, <2>2, <3>1, <3>2, <4>1, AllocateCounts
    <3>4. /\ pt' \in Memories /\ pt'[p] = [EmptyTable EXCEPT ![0] = TableAt(KernelL1)]
          /\ \A q \in Pages : q # p => pt'[q] = pt[q]
      <4>1. [EmptyTable EXCEPT ![0] = TableAt(KernelL1)] \in [Slots -> Entries]
        <5>1. TableAt(KernelL1) \in Entries
          BY ConstantFacts DEF TableAt, Entries
        <5> QED
          BY <5>1, EmptyIsTable
      <4> DEFINE e == [EmptyTable EXCEPT ![0] = TableAt(KernelL1)]
      <4>2. e \in [Slots -> Entries] /\ pt' = [pt EXCEPT ![p] = e] /\ pt \in Memories
        BY <4>1, <3>2, <1>1 DEF Typed
      <4> HIDE DEF e
      <4>3. pt' \in Memories /\ pt'[p] = e /\ \A q \in Pages : q # p => pt'[q] = pt[q]
        BY <4>2, <3>1 DEF Memories
      <4> QED
        BY <4>3 DEF e
    <3>5. ASSUME NEW r \in Roots, r # t PROVE Kept(r)
      <4>1. \A q \in AllTables(pt, Root(r)) : pt'[q] = pt[q]
        BY <1>1, <3>1, <3>4, TablesAreMarked
      <4> QED
        BY <1>1, <1>9, <3>5, <4>1, KeptWhenUntouched
    <3>6. Tree(pt', p) /\ AllTables(pt', p) = {p}
      BY <3>1, <3>4, NewTree
    <3>7. used' \ leaked' = ((used \ leaked) \ R) \cup {p}
      BY <1>1, <1>5, <1>6, <3>1, <3>3 DEF Typed
    <3>8. CreateOK'
      <4>1. create' \in [task : Tasks, step : {"asid", "stack", "undo"}] /\ create'.task = t
        BY <3>2, <1>3
      <4> QED
        BY <4>1, <1>2, <1>3, <1>8, <3>1 DEF CreateOK
    <3> QED
      BY <2>2, <3>1, <3>3, <3>4, <3>5, <3>6, <3>7, <3>8
  <2> QED
    BY <2>1, <2>2
<1>12. Typed'
  <2>1. leaked' \subseteq used'
    BY <1>1, <1>5, <1>6, <1>11 DEF Typed
  <2>2. live' \in [Tasks -> BOOLEAN] /\ \A u \in Tasks : live'[u] => as'[u].pgd \in Pages
    BY <1>1, <1>2, <1>3, <1>8 DEF Typed
  <2>3. \A u \in Tasks : as'[u].stack # Nil => as'[u].stack + StackPages <= MAX_PAGES
    BY <1>1, <1>8 DEF Typed
  <2> QED
    BY <2>1, <2>2, <2>3, <1>1, <1>2, <1>8, <1>11 DEF Typed
<1>13. Trees'
  BY <1>10, <1>11 DEF Trees, Kept
<1>14. Owned'
  <2> DEFINE A == IF p = Nil THEN {} ELSE {p}
  <2>1. KernelOwned' = KernelOwned
    <3>1. Nil \in Roots /\ Nil # t
      BY <1>3, ConstantFacts DEF Roots
    <3> QED
      BY <3>1, <1>1, <1>11, <1>12, KeptHoldings
  <2>2. \A u \in Tasks : u # t => SpacePages(u)' = SpacePages(u) /\ StackOf(u)' = StackOf(u)
    <3>1. \A u \in Tasks : u # t => SpacePages(u)' = SpacePages(u)
      BY <1>1, <1>11, <1>12, KeptHoldings DEF Roots
    <3>2. \A u \in Tasks : u # t => StackOf(u)' = StackOf(u)
      BY <1>8 DEF StackOf
    <3> QED
      BY <3>1, <3>2
  <2>3. SpacePages(t)' = A /\ StackOf(t)' = {}
    <3>1. SpacePages(t)' = AllTables(pt', Root(t)')
      BY <1>3, <1>12, NextHoldingsAreTables
    <3>2. StackOf(t)' = {}
      BY <1>8 DEF StackOf
    <3> QED
      BY <3>1, <3>2, <1>10, <1>11
  <2>4. Large' = Large /\ SlabPages' = SlabPages
    BY <1>2 DEF Large, SlabPages
  <2>5. A \subseteq Pages \ used /\ used' \ leaked' = ((used \ leaked) \ R) \cup A
    BY <1>11
  <2> HIDE DEF A
  <2>6. \A u \in Tasks :
          /\ SpacePages(u)' = (SpacePages(u) \ R) \cup (IF "tables" = "tables" /\ t = u THEN A ELSE {})
          /\ StackOf(u)' = (StackOf(u) \ R) \cup (IF "tables" = "stack" /\ t = u THEN A ELSE {})
    <3> TAKE u \in Tasks
    <3>1. CASE u = t
      BY <3>1, <2>3, <1>6
    <3>2. CASE u # t
      BY <3>2, <2>2, <1>5
    <3> QED
      BY <3>1, <3>2
  <2>7. Transfer(A, R, "tables", t)
    BY <2>1, <2>4, <2>5, <2>6, <1>2, <1>3, <1>5 DEF Transfer, Kinds
  <2> QED
    BY <1>1, <2>7, TransferKeepsOwned
<1>15. WalkOK'
  <2>1. walk # NoWalk => live'[walk.task] /\ Kept(WalkRoot)
    <3> SUFFICES ASSUME walk # NoWalk PROVE live'[walk.task] /\ Kept(WalkRoot)
      OBVIOUS
    <3>1. /\ live[walk.task] /\ walk.task \in Tasks
          /\ WalkRoot \in Roots /\ WalkRoot \in {walk.task, Nil}
      BY <1>1, WalkIsSomewhere
    <3>2. WalkRoot # t
      BY <3>1, <1>3, ConstantFacts
    <3> QED
      BY <3>1, <3>2, <1>2, <1>11
  <2> QED
    BY <1>1, <1>2, <2>1, KeptWalk
<1>16. ObjectsOK'
  BY <1>1, <1>2 DEF ObjectsOK
<1>17. AsidsDistinct'
  BY <1>1, <1>2, <1>8 DEF AsidsDistinct
<1> QED
  BY <1>11, <1>12, <1>13, <1>14, <1>15, <1>16, <1>17 DEF MemInv

(* A step that leaves the pages, their contents and their holders alone. *)
LEMMA PagesUntouched ==
    ASSUME MemInv, Typed', used' = used, leaked' = leaked, pt' = pt, clients' = clients,
           objects' = objects, slab' = slab,
           \A t \in Tasks : as'[t].pgd = as[t].pgd /\ as'[t].stack = as[t].stack
    PROVE  Trees' /\ Owned' /\ ObjectsOK' /\ \A r \in Roots : Kept(r)
<1>1. Typed /\ Trees /\ Owned /\ ObjectsOK
  BY DEF MemInv
<1>2. \A r \in Roots : Kept(r)
  <2>1. \A r \in Roots : Root(r)' = Root(r)
    BY DEF Root, Roots
  <2> QED
    BY <1>1, <2>1, KeptWhenUntouched
<1>3. Trees'
  BY <1>2, AllKept
<1>4. KernelOwned' = KernelOwned /\ \A t \in Tasks : SpacePages(t)' = SpacePages(t)
  BY <1>1, <1>2, KeptHoldings DEF Roots
<1>5. \A t \in Tasks : StackOf(t)' = StackOf(t)
  BY DEF StackOf
<1>6. Large' = Large /\ SlabPages' = SlabPages
  BY DEF Large, SlabPages
<1>7. Transfer({}, {}, "kernel", Nil)
  BY <1>4, <1>5, <1>6 DEF Transfer, Kinds
<1>8. Owned'
  BY <1>1, <1>7, TransferKeepsOwned
<1>9. ObjectsOK'
  BY <1>1 DEF ObjectsOK
<1> QED
  BY <1>2, <1>3, <1>8, <1>9

(* The end of vm_create. *)
LEMMA CreateAsidKeeps ==
    ASSUME MemInv, CreateAsid
    PROVE  MemInv'
<1>1. Typed /\ WalkOK /\ CreateOK /\ AsidsDistinct
  BY DEF MemInv
<1> DEFINE free == (1 .. ASID_MAX - 1) \ asids
           a == IF free = {} THEN 0 ELSE CHOOSE i \in free : \A j \in free : i <= j
           t == create.task
<1>2. /\ create.step = "asid" /\ asids' = asids \cup ({a} \ {0})
      /\ as' = [as EXCEPT ![t].asid = a]
      /\ create' = [create EXCEPT !.step = "stack"]
      /\ used' = used /\ used_pages' = used_pages /\ pt' = pt /\ live' = live /\ walk' = walk
      /\ clients' = clients /\ objects' = objects /\ slab' = slab /\ leaked' = leaked
  BY DEF CreateAsid, MarkAsid
<1>3. a \in 0 .. ASID_MAX - 1 /\ (a # 0 => a \notin asids)
  <2>1. free # {} => (CHOOSE i \in free : \A j \in free : i <= j) \in free
    <3>1. free \subseteq Nat
      BY ConstantFacts
    <3> HIDE DEF free
    <3> QED
      BY <3>1, LeastChosen
  <2> QED
    BY <2>1, ConstantFacts
<1> HIDE DEF free, a, t
<1>4. /\ create \in [task : Tasks, step : {"asid", "stack", "undo"}] /\ t = create.task
      /\ t \in Tasks /\ ~ live[t] /\ as[t].pgd \in Pages /\ as[t].stack = Nil
  <2>1. create # NoCreate
    BY <1>2 DEF NoCreate
  <2> QED
    BY <2>1, <1>1 DEF CreateOK, t
<1>5. /\ as \in [Tasks -> Spaces] /\ as' \in [Tasks -> Spaces]
      /\ as'[t].asid = a /\ \A u \in Tasks : u # t => as'[u] = as[u]
      /\ \A u \in Tasks : as'[u].pgd = as[u].pgd /\ as'[u].stack = as[u].stack
  <2>1. as \in [Tasks -> Spaces]
    BY <1>1 DEF Typed
  <2>2. as[t] \in Spaces
    BY <2>1, <1>4
  <2> DEFINE s == [as[t] EXCEPT !.asid = a]
  <2>3. s \in Spaces /\ s.asid = a /\ s.pgd = as[t].pgd /\ s.stack = as[t].stack
    BY <2>2, <1>3 DEF Spaces
  <2>4. as' = [as EXCEPT ![t] = s]
    BY <1>2
  <2> HIDE DEF s
  <2> QED
    BY <2>1, <2>3, <2>4, <1>4
<1>6. Typed'
  BY <1>1, <1>2, <1>5 DEF Typed
<1>7. Trees' /\ Owned' /\ ObjectsOK' /\ \A r \in Roots : Kept(r)
  BY <1>2, <1>5, <1>6, PagesUntouched
<1>8. WalkOK'
  BY <1>1, <1>2, <1>7, KeptWalk, WalkIsSomewhere
<1>9. CreateOK'
  <2>1. create' \in [task : Tasks, step : {"asid", "stack", "undo"}] /\ create'.task = t
    BY <1>2, <1>4
  <2> QED
    BY <2>1, <1>2, <1>4, <1>5 DEF CreateOK
<1>10. AsidsDistinct'
  <2>1. \A u \in Tasks : as[u].asid # 0 => /\ as[u].asid \in asids
                                          /\ \A v \in Tasks \ {u} : as[v].asid # as[u].asid
    BY <1>1 DEF AsidsDistinct
  <2>2. \A u \in Tasks : as'[u].asid = IF u = t THEN a ELSE as[u].asid
    BY <1>5
  <2>3. a # 0 => a \in asids' /\ \A u \in Tasks : as[u].asid # a
    BY <2>1, <1>2, <1>3
  <2>4. asids \subseteq asids'
    BY <1>2
  <2> QED
    BY <2>1, <2>2, <2>3, <2>4 DEF AsidsDistinct
<1> QED
  BY <1>6, <1>7, <1>8, <1>9, <1>10 DEF MemInv


(* task_create gets a stack, or is to be undone. *)
LEMMA CreateStackKeeps ==
    ASSUME MemInv, CreateStack
    PROVE  MemInv'
<1>1. Typed /\ Trees /\ Owned /\ WalkOK /\ CreateOK /\ ObjectsOK /\ AsidsDistinct
  BY DEF MemInv
<1> DEFINE p == FirstRun(StackPages)
<1>2. /\ create.step = "stack"
      /\ IF p = Nil
         THEN /\ create' = [create EXCEPT !.step = "undo"]
              /\ UNCHANGED <<used, used_pages, pt, live, as>>
         ELSE /\ AllocateFresh(p, StackPages)
              /\ as' = [as EXCEPT ![create.task].stack = p]
              /\ live' = [live EXCEPT ![create.task] = TRUE]
              /\ create' = NoCreate
      /\ asids' = asids /\ walk' = walk /\ clients' = clients /\ objects' = objects
      /\ slab' = slab /\ leaked' = leaked
  BY DEF CreateStack
<1>3. StackPages \in Nat
  BY ConstantFacts
<1>4. p # Nil => /\ p \in Pages /\ p + StackPages <= MAX_PAGES /\ Run(p, StackPages) \cap used = {}
                 /\ Run(p, StackPages) \subseteq Pages \ used
  BY <1>3, FirstRunIsFree
<1> HIDE DEF p
<1>5. PICK t \in Tasks :
        /\ t = create.task /\ ~ live[t] /\ as[t].pgd \in Pages /\ as[t].stack = Nil
        /\ create \in [task : Tasks, step : {"asid", "stack", "undo"}]
  <2>1. create # NoCreate
    BY <1>2 DEF NoCreate
  <2> QED
    BY <2>1, <1>1 DEF CreateOK
<1>6. CASE p = Nil
  <2>1. /\ create' = [create EXCEPT !.step = "undo"] /\ used' = used /\ used_pages' = used_pages
        /\ pt' = pt /\ live' = live /\ as' = as
    BY <1>2, <1>6
  <2>2. Typed'
    BY <1>1, <1>2, <2>1 DEF Typed
  <2>3. Trees' /\ Owned' /\ ObjectsOK' /\ \A r \in Roots : Kept(r)
    BY <1>2, <2>1, <2>2, PagesUntouched
  <2>4. WalkOK'
    BY <1>1, <1>2, <2>1, <2>3, KeptWalk, WalkIsSomewhere
  <2>5. CreateOK'
    <3>1. create' \in [task : Tasks, step : {"asid", "stack", "undo"}] /\ create'.task = t
      BY <1>5, <2>1
    <3> QED
      BY <3>1, <1>5, <2>1 DEF CreateOK
  <2>6. AsidsDistinct'
    BY <1>1, <1>2, <2>1 DEF AsidsDistinct
  <2> QED
    BY <2>2, <2>3, <2>4, <2>5, <2>6 DEF MemInv
<1>7. CASE p # Nil
  <2> DEFINE A == Run(p, StackPages)
  <2>1. /\ AllocateFresh(p, StackPages) /\ Allocate(p, StackPages)
        /\ as' = [as EXCEPT ![t].stack = p]
        /\ live' = [live EXCEPT ![t] = TRUE] /\ create' = NoCreate
    BY <1>2, <1>5, <1>7 DEF AllocateFresh
  <2>2. /\ used' = used \cup A /\ used' \subseteq Pages /\ used_pages' = Cardinality(used')
    BY <1>1, <1>3, <1>4, <1>7, <2>1, AllocateCounts
  <2>3. /\ as \in [Tasks -> Spaces] /\ as' \in [Tasks -> Spaces]
        /\ as'[t].stack = p /\ \A u \in Tasks : u # t => as'[u] = as[u]
        /\ \A u \in Tasks : as'[u].pgd = as[u].pgd /\ as'[u].asid = as[u].asid
    <3>1. as \in [Tasks -> Spaces]
      BY <1>1 DEF Typed
    <3>2. as[t] \in Spaces
      BY <3>1
    <3> DEFINE s == [as[t] EXCEPT !.stack = p]
    <3>3. s \in Spaces /\ s.asid = as[t].asid /\ s.pgd = as[t].pgd /\ s.stack = p
      BY <3>2, <1>4, <1>7 DEF Spaces
    <3>4. as' = [as EXCEPT ![t] = s]
      BY <2>1
    <3> HIDE DEF s
    <3> QED
      BY <3>1, <3>3, <3>4
  <2>4. pt' \in Memories /\ \A r \in Roots : Kept(r)
    BY <1>1, <1>3, <1>4, <1>7, <2>1, <2>3, FreshKeepsTrees
  <2>5. live' \in [Tasks -> BOOLEAN] /\ live'[t] /\ \A u \in Tasks : live[u] => live'[u]
    BY <1>1, <2>1 DEF Typed
  <2>6. Typed'
    <3>1. \A u \in Tasks : live'[u] => as'[u].pgd \in Pages
      <4>1. \A u \in Tasks : u # t => live'[u] = live[u]
        BY <1>1, <2>1 DEF Typed
      <4> QED
        BY <4>1, <1>1, <1>5, <2>3 DEF Typed
    <3>2. \A u \in Tasks : as'[u].stack # Nil => as'[u].stack + StackPages <= MAX_PAGES
      BY <1>1, <1>4, <1>7, <2>3 DEF Typed
    <3>3. leaked' \subseteq used'
      BY <1>1, <1>2, <2>2 DEF Typed
    <3> QED
      BY <3>1, <3>2, <3>3, <1>1, <1>2, <2>2, <2>3, <2>4, <2>5 DEF Typed
  <2>7. Trees'
    BY <2>4, AllKept
  <2>8. KernelOwned' = KernelOwned /\ \A u \in Tasks : SpacePages(u)' = SpacePages(u)
    BY <1>1, <2>4, <2>6, KeptHoldings DEF Roots
  <2>9. /\ StackOf(t) = {} /\ StackOf(t)' = A
        /\ \A u \in Tasks : u # t => StackOf(u)' = StackOf(u)
    BY <1>5, <1>7, <2>3 DEF StackOf
  <2>10. Large' = Large /\ SlabPages' = SlabPages
    BY <1>2 DEF Large, SlabPages
  <2>11. A \subseteq Pages \ used /\ used' \ leaked' = ((used \ leaked) \ {}) \cup A
    BY <1>1, <1>2, <1>4, <1>7, <2>2 DEF Typed
  <2> HIDE DEF A
  <2>12. Transfer(A, {}, "stack", t)
    BY <2>8, <2>9, <2>10, <2>11, <1>2 DEF Transfer, Kinds
  <2>13. Owned'
    BY <1>1, <2>12, TransferKeepsOwned
  <2>14. WalkOK'
    <3>1. walk # NoWalk => live'[walk.task] /\ Kept(WalkRoot)
      BY <1>1, <2>4, <2>5, WalkIsSomewhere
    <3> QED
      BY <3>1, <1>1, <1>2, KeptWalk
  <2>15. CreateOK'
    BY <2>1 DEF CreateOK
  <2>16. ObjectsOK'
    BY <1>1, <1>2 DEF ObjectsOK
  <2>17. AsidsDistinct'
    <3>1. \A u \in Tasks : as'[u].asid = as[u].asid
      BY <2>3
    <3>2. \A u \in Tasks : as[u].asid # 0 => /\ as[u].asid \in asids
                                            /\ \A v \in Tasks \ {u} : as[v].asid # as[u].asid
      BY <1>1 DEF AsidsDistinct
    <3> QED
      BY <3>1, <3>2, <1>2 DEF AsidsDistinct
  <2> QED
    BY <2>6, <2>7, <2>13, <2>14, <2>15, <2>16, <2>17 DEF MemInv
<1> QED
  BY <1>6, <1>7

(* task_exit_handler. *)
LEMMA ExitKeeps ==
    ASSUME MemInv, NEW t \in Tasks, Exit(t)
    PROVE  MemInv'
<1>1. Typed /\ WalkOK /\ CreateOK /\ AsidsDistinct
  BY DEF MemInv
<1>2. /\ live[t] /\ walk.task # t /\ live' = [live EXCEPT ![t] = FALSE]
      /\ used' = used /\ used_pages' = used_pages /\ pt' = pt /\ asids' = asids /\ as' = as
      /\ create' = create /\ walk' = walk /\ clients' = clients /\ objects' = objects
      /\ slab' = slab /\ leaked' = leaked
  BY DEF Exit, Whole
<1>3. /\ live' \in [Tasks -> BOOLEAN] /\ ~ live'[t]
      /\ \A u \in Tasks : u # t => live'[u] = live[u]
  BY <1>1, <1>2 DEF Typed
<1>4. Typed'
  BY <1>1, <1>2, <1>3 DEF Typed
<1>5. Trees' /\ Owned' /\ ObjectsOK' /\ \A r \in Roots : Kept(r)
  BY <1>2, <1>4, PagesUntouched
<1>6. WalkOK'
  <2>1. walk # NoWalk => live'[walk.task] /\ Kept(WalkRoot)
    BY <1>1, <1>2, <1>3, <1>5, WalkIsSomewhere
  <2> QED
    BY <2>1, <1>1, <1>2, KeptWalk
<1>7. CreateOK'
  BY <1>1, <1>2, <1>3 DEF CreateOK
<1>8. AsidsDistinct'
  BY <1>1, <1>2 DEF AsidsDistinct
<1> QED
  BY <1>4, <1>5, <1>6, <1>7, <1>8 DEF MemInv

(* The start of mm_map_page. *)
LEMMA MapStartKeeps ==
    ASSUME MemInv, NEW t \in Tasks, NEW va \in Vaddrs, NEW f \in Frames, MapStart(t, va, f)
    PROVE  MemInv'
<1>1. Typed /\ CreateOK /\ AsidsDistinct
  BY DEF MemInv
<1>2. /\ live[t]
      /\ walk' = [task |-> t, va |-> va, frame |-> f, level |-> 0, table |-> as[t].pgd]
      /\ used' = used /\ used_pages' = used_pages /\ pt' = pt /\ asids' = asids /\ as' = as
      /\ create' = create /\ live' = live /\ clients' = clients /\ objects' = objects
      /\ slab' = slab /\ leaked' = leaked
  BY DEF MapStart, Whole
<1>3. Typed'
  BY <1>1, <1>2 DEF Typed
<1>4. Trees' /\ Owned' /\ ObjectsOK'
  BY <1>2, <1>3, PagesUntouched
<1>5. WalkOK'
  <2>1. as[t].pgd \in Pages
    BY <1>1, <1>2 DEF Typed
  <2>2. walk' \in [task : Tasks, va : Vaddrs, frame : Frames, level : 0 .. 3, table : Pages]
    <3> DEFINE g == as[t].pgd
    <3>1. g \in Pages /\ walk' = [task |-> t, va |-> va, frame |-> f, level |-> 0, table |-> g]
      BY <1>2, <2>1
    <3>2. 0 \in 0 .. 3
      OBVIOUS
    <3> HIDE DEF g
    <3> QED
      BY <3>1, <3>2
  <2>3. walk'.level = 0 /\ walk'.task = t /\ walk'.table = as[t].pgd
    BY <1>2
  <2>4. WalkRoot' = t
    BY <2>3 DEF WalkRoot
  <2>5. Root(WalkRoot)' = as[t].pgd
    BY <2>4, <1>2, ConstantFacts DEF Root
  <2>6. walk'.table \in Level(pt', as[t].pgd, 0)
    BY <2>1, <2>3 DEF Level, L0
  <2>7. live'[walk'.task]
    BY <1>2, <2>3
  <2> QED
    BY <2>2, <2>3, <2>5, <2>6, <2>7 DEF WalkOK
<1>6. CreateOK' /\ AsidsDistinct'
  BY <1>1, <1>2 DEF CreateOK, AsidsDistinct
<1> QED
  BY <1>3, <1>4, <1>5, <1>6 DEF MemInv


(* The tree a walk is in keeps its own pages apart from those of the others. *)
LEMMA OtherTrees ==
    ASSUME Typed, Owned, NEW r \in Roots, NEW u \in Roots, r # u
    PROVE  AllTables(pt, Root(r)) \cap AllTables(pt, Root(u)) = {}
<1>1. /\ AllTables(pt, Root(r)) \subseteq Pages
      /\ \A p \in Pages : Apart(p)
  BY TablesAreMarked, HoldersApart
<1>2. \A x \in Roots : x = Nil \/ x \in Tasks
  BY DEF Roots
<1>3. ASSUME NEW p \in AllTables(pt, Root(r)), p \in AllTables(pt, Root(u))
      PROVE  FALSE
  <2>1. Apart(p)
    BY <1>1
  <2>2. CASE r \in Tasks /\ u \in Tasks
    BY <2>1, <2>2, <1>3, HoldingsAreTables DEF Apart
  <2>3. CASE r = Nil /\ u \in Tasks
    BY <2>1, <2>3, <1>3, HoldingsAreTables DEF Apart
  <2>4. CASE r \in Tasks /\ u = Nil
    BY <2>1, <2>4, <1>3, HoldingsAreTables DEF Apart
  <2> QED
    BY <1>2, <2>2, <2>3, <2>4
<1> QED
  BY <1>3

(* One level of mm_map_page finds a table and goes on there. *)
LEMMA WalkDescends ==
    ASSUME MemInv, walk # NoWalk, walk.level < 3,
           NEW i, i = Index(walk.va, walk.level), pt[walk.table][i].kind = "table",
           walk' = [walk EXCEPT !.level = @ + 1, !.table = pt[walk.table][i].to],
           pt' = pt, as' = as, live' = live
    PROVE  WalkOK'
<1>1. Typed /\ Trees /\ WalkOK
  BY DEF MemInv
<1>2. /\ walk \in [task : Tasks, va : Vaddrs, frame : Frames, level : 0 .. 3, table : Pages]
      /\ live[walk.task] /\ walk.va \in Nat /\ walk.task \in Tasks /\ walk.level \in 0 .. 2
      /\ WalkRoot \in Roots /\ walk.table \in Level(pt, Root(WalkRoot), walk.level)
  BY <1>1, WalkIsSomewhere
<1>3. i \in Slots
  <2>1. walk.level \in 0 .. 3
    BY <1>2
  <2> QED
    BY <1>2, <2>1, IndexIsSlot
<1> DEFINE w == walk.table
           k == walk.level
           q == pt[w][i].to
<1>4. w \in Pages /\ k \in 0 .. 2 /\ w \in Level(pt, Root(WalkRoot), k) /\ pt[w][i].kind = "table"
  BY <1>2
<1>5. q \in Pages
  <2>1. pt[w][i] \in Entries
    BY <1>1, <1>3, <1>4 DEF Typed, Memories
  <2> QED
    BY <2>1, <1>4 DEF Entries
<1>6. walk' = [walk EXCEPT !.level = k + 1, !.table = q]
  OBVIOUS
<1>7. q \in TargetsIn(pt, w, Slots) /\ (i # 0 => q \in TargetsIn(pt, w, Slots \ {0}))
  BY <1>3, <1>4 DEF TargetsIn
<1> HIDE DEF w, k, q
<1>8. /\ walk' \in [task : Tasks, va : Vaddrs, frame : Frames, level : 0 .. 3, table : Pages]
      /\ walk'.level = k + 1 /\ walk'.table = q /\ walk'.task = walk.task /\ walk'.va = walk.va
  <2>1. k + 1 \in 0 .. 3
    BY <1>4
  <2> QED
    BY <2>1, <1>2, <1>5, <1>6
<1>9. WalkRoot' = (IF Index(walk.va, 0) # 0 THEN walk.task ELSE Nil)
  BY <1>4, <1>8 DEF WalkRoot
<1>10. /\ Root(walk.task)' = Root(walk.task) /\ Root(Nil)' = Root(Nil)
       /\ Root(Nil) = Shared /\ Root(WalkRoot) \in {Root(walk.task), Shared}
  BY <1>8 DEF Root, WalkRoot
<1>11. q \in Level(pt, Root(WalkRoot)', k + 1)
  <2>1. CASE k = 0
    <3>1. WalkRoot = walk.task /\ i = Index(walk.va, 0)
      BY <2>1 DEF WalkRoot, k
    <3>2. w \in L0(Root(walk.task))
      BY <1>4, <2>1, <3>1 DEF Level
    <3>3. w = Root(walk.task) /\ Root(walk.task) \in Pages /\ Root(walk.task) # Shared
      BY <3>2, ConstantFacts DEF L0
    <3>4. CASE i = 0
      <4>1. Tree(pt, Root(walk.task))
        BY <1>1, <1>2, <3>1 DEF Trees
      <4>2. q = KernelL1
        BY <4>1, <3>2, <3>4 DEF Tree, TableAt, q
      <4>3. WalkRoot' = Nil
        BY <1>9, <3>1, <3>4
      <4>4. Root(WalkRoot)' = Shared
        BY <4>3, <1>10 DEF Root
      <4> QED
        BY <4>2, <4>4, <2>1 DEF Level, L1
    <3>5. CASE i # 0
      <4>1. Root(WalkRoot)' = Root(walk.task)
        BY <1>9, <1>10, <3>1, <3>5, <1>8 DEF Root
      <4> QED
        BY <4>1, <1>7, <2>1, <3>3, <3>5 DEF Level, L1
    <3> QED
      BY <3>4, <3>5
  <2>2. CASE k # 0
    <3>1. WalkRoot' = WalkRoot
      BY <1>9, <2>2 DEF WalkRoot, k
    <3>2. Root(WalkRoot)' = Root(WalkRoot)
      BY <3>1 DEF Root
    <3>3. CASE k = 1
      BY <3>2, <3>3, <1>4, <1>7 DEF Level, L2, BelowIn
    <3>4. CASE k = 2
      BY <3>2, <3>4, <1>4, <1>7 DEF Level, L3, BelowIn
    <3> QED
      BY <2>2, <3>3, <3>4, <1>4
  <2> QED
    BY <2>1, <2>2
<1>12. live'[walk'.task]
  BY <1>2, <1>8
<1> QED
  BY <1>8, <1>11, <1>12 DEF WalkOK


(* One level of mm_map_page: a table is added, found, or the walk ends. *)
LEMMA MapWalkKeeps ==
    ASSUME MemInv, MapWalk
    PROVE  MemInv'
<1>1. Typed /\ Trees /\ Owned /\ WalkOK /\ CreateOK /\ ObjectsOK /\ AsidsDistinct
  BY DEF MemInv
<1>2. PICK i : i = Index(walk.va, walk.level)
  OBVIOUS
<1>3. PICK p : p = FirstRun(1)
  OBVIOUS
<1>4. /\ walk.task # Nil /\ walk.level < 3
      /\ \/ /\ pt[walk.table][i].kind = "invalid" /\ p # Nil
            /\ Allocate(p, 1)
            /\ pt' = [pt EXCEPT ![p] = Fresh(p), ![walk.table][i] = TableAt(p)]
            /\ walk' = [walk EXCEPT !.level = @ + 1, !.table = p]
         \/ /\ pt[walk.table][i].kind = "table"
            /\ walk' = [walk EXCEPT !.level = @ + 1, !.table = pt[walk.table][i].to]
            /\ used' = used /\ used_pages' = used_pages /\ pt' = pt
         \/ /\ walk' = NoWalk
            /\ used' = used /\ used_pages' = used_pages /\ pt' = pt
      /\ asids' = asids /\ live' = live /\ as' = as /\ create' = create
      /\ clients' = clients /\ objects' = objects /\ slab' = slab /\ leaked' = leaked
  BY <1>2, <1>3 DEF MapWalk, Descend
<1>5. walk # NoWalk
  BY <1>4 DEF NoWalk
<1>6. /\ walk \in [task : Tasks, va : Vaddrs, frame : Frames, level : 0 .. 3, table : Pages]
      /\ live[walk.task] /\ walk.va \in Nat /\ walk.task \in Tasks /\ walk.level \in 0 .. 2
      /\ WalkRoot \in Roots /\ WalkRoot \in {walk.task, Nil}
      /\ walk.table \in Level(pt, Root(WalkRoot), walk.level)
  BY <1>1, <1>4, <1>5, WalkIsSomewhere
<1>7. i \in Slots
  <2>1. walk.level \in 0 .. 3
    BY <1>6
  <2> QED
    BY <1>2, <1>6, <2>1, IndexIsSlot
<1>8. CreateOK' /\ AsidsDistinct' /\ ObjectsOK'
  BY <1>1, <1>4 DEF CreateOK, AsidsDistinct, ObjectsOK
<1>9. CASE used' = used /\ used_pages' = used_pages /\ pt' = pt
  <2>1. Typed'
    BY <1>1, <1>4, <1>9 DEF Typed
  <2>2. Trees' /\ Owned'
    BY <2>1, <1>4, <1>9, PagesUntouched
  <2>3. WalkOK'
    <3>1. CASE walk' = NoWalk
      BY <3>1 DEF WalkOK
    <3>2. CASE /\ pt[walk.table][i].kind = "table"
               /\ walk' = [walk EXCEPT !.level = @ + 1, !.table = pt[walk.table][i].to]
      BY <3>2, <1>2, <1>4, <1>5, <1>9, WalkDescends
    <3>3. CASE pt[walk.table][i].kind = "invalid" /\ p # Nil /\ Allocate(p, 1)
      <4>1. 1 \in Nat /\ p \in Pages /\ p \notin used /\ Run(p, 1) = {p}
        BY <3>3, <1>3, FirstRunIsFree, SingleRun
      <4>2. p \in used'
        BY <3>3, <4>1 DEF Allocate
      <4> QED
        BY <1>9, <4>1, <4>2
    <3> QED
      BY <1>4, <3>1, <3>2, <3>3
  <2> QED
    BY <2>1, <2>2, <2>3, <1>8 DEF MemInv
<1>10. CASE /\ pt[walk.table][i].kind = "invalid" /\ p # Nil
            /\ Allocate(p, 1)
            /\ pt' = [pt EXCEPT ![p] = Fresh(p), ![walk.table][i] = TableAt(p)]
            /\ walk' = [walk EXCEPT !.level = @ + 1, !.table = p]
  <2>1. PICK w \in Pages : w = walk.table
    BY <1>6
  <2>2. PICK k \in 0 .. 2 : k = walk.level
    BY <1>6
  <2>3. PICK r \in Roots : r = WalkRoot
    BY <1>6
  <2>4. 1 \in Nat /\ p \in Pages /\ p + 1 <= MAX_PAGES /\ Run(p, 1) \cap used = {}
    BY <1>3, <1>10, FirstRunIsFree
  <2>5. Run(p, 1) = {p} /\ p \notin used
    BY <2>4, SingleRun
  <2>6. used' = used \cup {p} /\ used' \subseteq Pages /\ used_pages' = Cardinality(used')
    BY <1>1, <1>10, <2>4, <2>5, AllocateCounts
  <2>7. w \in Level(pt, Root(r), k) /\ w \in AllTables(pt, Root(r)) /\ pt \in Memories
    <3>1. pt \in Memories
      BY <1>1 DEF Typed
    <3>2. w \in Level(pt, Root(r), k)
      BY <1>6, <2>1, <2>2, <2>3
    <3> QED
      BY <3>1, <3>2, TablesArePages
  <2>8. /\ \A u \in Roots : AllTables(pt, Root(u)) \subseteq Pages /\ p \notin AllTables(pt, Root(u))
        /\ w # p
    BY <1>1, <2>5, <2>7, TablesAreMarked
  <2>9. Linked(pt, pt', w, i, p) /\ pt' \in Memories
    <3>1. pt' = [pt EXCEPT ![p] = EmptyTable, ![w][i] = TableAt(p)]
      BY <1>10, <2>1 DEF Fresh
    <3>2. TableAt(p) \in Entries
      BY <2>4 DEF TableAt, Entries
    <3>3. /\ pt'[w] = [pt[w] EXCEPT ![i] = TableAt(p)] /\ pt'[p] = EmptyTable
          /\ \A q \in Pages : q # w /\ q # p => pt'[q] = pt[q]
          /\ DOMAIN pt' = Pages /\ pt' = [q \in Pages |-> pt'[q]]
      BY <3>1, <2>4, <2>7, <2>8 DEF Memories
    <3>4. [pt[w] EXCEPT ![i] = TableAt(p)] \in [Slots -> Entries]
      BY <3>2, <2>7, <1>7 DEF Memories
    <3>5. \A q \in Pages : pt'[q] \in [Slots -> Entries]
      BY <3>3, <3>4, <2>7, EmptyIsTable DEF Memories
    <3> QED
      BY <3>3, <3>5 DEF Linked, Memories
  <2>10. /\ Tree(pt', Root(r))
         /\ Level(pt', Root(r), k + 1) = Level(pt, Root(r), k + 1) \cup {p}
         /\ AllTables(pt', Root(r)) = AllTables(pt, Root(r)) \cup {p}
    <3>1. Tree(pt, Root(r)) /\ pt[w][i].kind # "table"
      BY <1>1, <1>10, <2>1 DEF Trees
    <3>2. p \notin AllTables(pt, Root(r)) /\ w \in Level(pt, Root(r), k) /\ pt \in Memories
      BY <2>7, <2>8
    <3> DEFINE g == Root(r)
    <3>3. /\ Tree(pt, g) /\ p \notin AllTables(pt, g) /\ w \in Level(pt, g, k)
      BY <3>1, <3>2
    <3> HIDE DEF g
    <3>4. /\ Tree(pt', g)
          /\ Level(pt', g, k + 1) = Level(pt, g, k + 1) \cup {p}
          /\ AllTables(pt', g) = AllTables(pt, g) \cup {p}
      BY <3>1, <3>2, <3>3, <2>4, <2>9, <1>7, TreeGrows
    <3> QED
      BY <3>4 DEF g
  <2>11. \A u \in Roots : Root(u)' = Root(u)
    BY <1>4 DEF Root
  <2>12. ASSUME NEW u \in Roots, u # r PROVE Kept(u)
    <3>1. AllTables(pt, Root(r)) \cap AllTables(pt, Root(u)) = {}
      BY <1>1, <2>12, OtherTrees
    <3>2. \A q \in AllTables(pt, Root(u)) : pt'[q] = pt[q]
      BY <3>1, <2>7, <2>8, <2>9 DEF Linked
    <3> QED
      BY <3>2, <1>1, <2>11, KeptWhenUntouched
  <2>13. Typed'
    BY <1>1, <1>4, <2>6, <2>9 DEF Typed
  <2>14. Trees'
    BY <2>10, <2>11, <2>12 DEF Trees, Kept
  <2>15. Owned'
    <3>1. \A t \in Tasks : StackOf(t)' = StackOf(t)
      BY <1>4 DEF StackOf
    <3>2. Large' = Large /\ SlabPages' = SlabPages
      BY <1>4 DEF Large, SlabPages
    <3>3. used' \ leaked' = ((used \ leaked) \ {}) \cup {p}
      BY <1>1, <1>4, <2>5, <2>6 DEF Typed
    <3>4. CASE r = Nil
      <4>1. Nil \notin Tasks
        BY ConstantFacts
      <4>2. KernelOwned' = KernelOwned \cup {p}
        BY <1>1, <2>10, <2>11, <2>13, <3>4, HoldingsAreTables, NextHoldingsAreTables
      <4>3. \A t \in Tasks : SpacePages(t)' = SpacePages(t)
        BY <4>1, <1>1, <2>12, <2>13, <3>4, KeptHoldings DEF Roots
      <4>4. Transfer({p}, {}, "kernel", Nil)
        BY <4>2, <4>3, <3>1, <3>2, <3>3, <1>4, <2>4, <2>5 DEF Transfer, Kinds
      <4> QED
        BY <4>4, <1>1, TransferKeepsOwned
    <3>5. CASE r \in Tasks
      <4>1. r # Nil /\ Nil \in Roots
        BY <3>5, ConstantFacts DEF Roots
      <4>2. KernelOwned' = KernelOwned
        BY <4>1, <1>1, <2>12, <2>13, KeptHoldings
      <4>3. \A t \in Tasks : t # r => SpacePages(t)' = SpacePages(t)
        BY <1>1, <2>12, <2>13, KeptHoldings DEF Roots
      <4>4. SpacePages(r)' = SpacePages(r) \cup {p}
        BY <3>5, <1>1, <2>10, <2>11, <2>13, HoldingsAreTables, NextHoldingsAreTables
      <4>5. Transfer({p}, {}, "tables", r)
        BY <4>2, <4>3, <4>4, <3>1, <3>2, <3>3, <3>5, <1>4, <2>4, <2>5 DEF Transfer, Kinds
      <4> QED
        BY <4>5, <1>1, TransferKeepsOwned
    <3> QED
      BY <3>4, <3>5 DEF Roots
  <2>16. WalkOK'
    <3>1. k + 1 \in 0 .. 3
      OBVIOUS
    <3>2. walk' = [walk EXCEPT !.level = k + 1, !.table = p]
      BY <1>10, <2>2
    <3>3. /\ walk' \in [task : Tasks, va : Vaddrs, frame : Frames, level : 0 .. 3, table : Pages]
          /\ walk'.level = k + 1 /\ walk'.table = p /\ walk'.task = walk.task /\ walk'.va = walk.va
      BY <3>1, <3>2, <1>6, <2>4
    <3>4. WalkRoot' = r
      <4>1. k + 1 # 0
        OBVIOUS
      <4>2. CASE k # 0
        BY <4>1, <4>2, <2>2, <2>3, <3>3 DEF WalkRoot
      <4>3. CASE k = 0
        <5>1. r = walk.task /\ i = Index(walk.va, 0)
          BY <4>3, <1>2, <2>2, <2>3 DEF WalkRoot
        <5>2. w \in L0(Root(r))
          BY <4>3, <2>7 DEF Level
        <5>3. pt[w][0] = TableAt(KernelL1)
          BY <5>2, <1>1 DEF Trees, Tree
        <5>4. i # 0
          BY <5>3, <1>10, <2>1 DEF TableAt
        <5> QED
          BY <4>1, <5>1, <5>4, <3>3 DEF WalkRoot
      <4> QED
        BY <4>2, <4>3
    <3>5. Root(WalkRoot)' = Root(r)
      BY <3>4, <2>11, <1>4 DEF Root
    <3>6. walk'.table \in Level(pt', Root(WalkRoot)', walk'.level)
      BY <3>3, <3>5, <2>10
    <3>7. live'[walk'.task]
      BY <1>4, <1>6, <3>3
    <3> QED
      BY <3>3, <3>6, <3>7 DEF WalkOK
  <2> QED
    BY <2>13, <2>14, <2>15, <2>16, <1>8 DEF MemInv
<1> QED
  BY <1>4, <1>9, <1>10

(* The last level of mm_map_page. *)
LEMMA MapLeafKeeps ==
    ASSUME MemInv, MapLeaf
    PROVE  MemInv'
<1>1. Typed /\ Trees /\ Owned /\ WalkOK /\ CreateOK /\ ObjectsOK /\ AsidsDistinct
  BY DEF MemInv
<1>2. PICK i : i = Index(walk.va, 3)
  OBVIOUS
<1>3. /\ walk.task # Nil /\ walk.level = 3 /\ walk' = NoWalk
      /\ pt' = [pt EXCEPT ![walk.table][i] = Leaf(walk.frame)]
      /\ used' = used /\ used_pages' = used_pages
      /\ asids' = asids /\ live' = live /\ as' = as /\ create' = create
      /\ clients' = clients /\ objects' = objects /\ slab' = slab /\ leaked' = leaked
  BY <1>2 DEF MapLeaf
<1>4. /\ walk \in [task : Tasks, va : Vaddrs, frame : Frames, level : 0 .. 3, table : Pages]
      /\ walk.va \in Nat /\ WalkRoot \in Roots
      /\ walk.table \in Level(pt, Root(WalkRoot), walk.level)
  <2>1. walk # NoWalk
    BY <1>3 DEF NoWalk
  <2> QED
    BY <2>1, <1>1, WalkIsSomewhere
<1>5. i \in Slots
  BY <1>2, <1>4, IndexIsSlot
<1>6. PICK w \in Pages : w = walk.table
  BY <1>4
<1>7. PICK r \in Roots : r = WalkRoot
  BY <1>4
<1>8. PICK e \in Entries : e = Leaf(walk.frame) /\ e.kind = "page"
  <2>1. walk.frame \in Frames
    BY <1>4
  <2>2. Leaf(walk.frame) \in Entries /\ Leaf(walk.frame).kind = "page"
    BY <2>1 DEF Leaf, Entries
  <2> QED
    BY <2>2
<1>9. w \in L3(pt, Root(r)) /\ pt \in Memories
  BY <1>1, <1>3, <1>4, <1>6, <1>7 DEF Level, Typed
<1>10. /\ pt' \in Memories
       /\ \A q \in Pages : q # w => pt'[q] = pt[q]
       /\ pt'[w] = [pt[w] EXCEPT ![i] = e]
  <2>1. pt' = [pt EXCEPT ![w][i] = e]
    BY <1>3, <1>6, <1>8
  <2> QED
    BY <2>1, <1>5, <1>9 DEF Memories
<1>11. \A u \in Roots : Root(u)' = Root(u)
  BY <1>3 DEF Root
<1>12. Kept(r)
  <2> DEFINE g == Root(r)
  <2>1. Tree(pt, g) /\ w \in L3(pt, g) /\ Root(r)' = g
    BY <1>1, <1>9, <1>11 DEF Trees
  <2> HIDE DEF g
  <2>2. \A q \in L0(g) \cup L1(pt, g) \cup L2(pt, g) : pt'[q] = pt[q]
    <3>1. L0(g) \cup L1(pt, g) \cup L2(pt, g) \subseteq Pages
      BY <1>9, TablesArePages
    <3> QED
      BY <3>1, <2>1, <1>10 DEF Tree
  <2>3. \A q \in L3(pt, g), j \in Slots : pt'[q][j].kind # "table"
    <3>1. L3(pt, g) \subseteq Pages
      BY <1>9, TablesArePages
    <3>2. \A q \in L3(pt, g), j \in Slots : pt[q][j].kind # "table"
      BY <2>1 DEF Tree
    <3>3. \A j \in Slots : pt'[w][j] = IF j = i THEN e ELSE pt[w][j]
      BY <1>9, <1>10 DEF Memories
    <3>4. \A j \in Slots : pt'[w][j].kind # "table"
      BY <3>2, <3>3, <2>1, <1>8
    <3>5. \A q \in L3(pt, g) : q # w => pt'[q] = pt[q]
      BY <3>1, <1>10
    <3> QED
      BY <3>2, <3>4, <3>5
  <2>4. /\ Tree(pt', g)
        /\ \A k : Level(pt', g, k) = Level(pt, g, k)
        /\ AllTables(pt', g) = AllTables(pt, g)
    <3>1. Tree(pt, g)
      BY <2>1
    <3> QED
      BY ONLY <3>1, <2>2, <2>3, TreeSame
  <2> QED
    BY <2>1, <2>4 DEF Kept, g
<1>13. ASSUME NEW u \in Roots, u # r PROVE Kept(u)
  <2>1. AllTables(pt, Root(r)) \cap AllTables(pt, Root(u)) = {}
    BY <1>1, <1>13, OtherTrees
  <2>2. w \notin AllTables(pt, Root(u)) /\ AllTables(pt, Root(u)) \subseteq Pages
    BY <2>1, <1>9, TablesArePages DEF AllTables
  <2>3. \A q \in AllTables(pt, Root(u)) : pt'[q] = pt[q]
    BY <2>2, <1>10
  <2> QED
    BY <2>3, <1>1, <1>11, KeptWhenUntouched
<1>14. \A u \in Roots : Kept(u)
  BY <1>12, <1>13
<1>15. Typed'
  BY <1>1, <1>3, <1>10 DEF Typed
<1>16. Trees'
  BY <1>14, AllKept
<1>17. Owned'
  <2>1. KernelOwned' = KernelOwned /\ \A t \in Tasks : SpacePages(t)' = SpacePages(t)
    BY <1>1, <1>14, <1>15, KeptHoldings DEF Roots
  <2>2. \A t \in Tasks : StackOf(t)' = StackOf(t)
    BY <1>3 DEF StackOf
  <2>3. Large' = Large /\ SlabPages' = SlabPages
    BY <1>3 DEF Large, SlabPages
  <2>4. Transfer({}, {}, "kernel", Nil)
    BY <2>1, <2>2, <2>3, <1>3 DEF Transfer, Kinds
  <2> QED
    BY <2>4, <1>1, TransferKeepsOwned
<1>18. WalkOK'
  BY <1>3 DEF WalkOK
<1>19. CreateOK' /\ AsidsDistinct' /\ ObjectsOK'
  BY <1>1, <1>3 DEF CreateOK, AsidsDistinct, ObjectsOK
<1> QED
  BY <1>15, <1>16, <1>17, <1>18, <1>19 DEF MemInv


(* Every step. *)
LEMMA NextKeeps ==
    ASSUME KfreeSmall = FALSE, MemInv, Next
    PROVE  MemInv'
<1>1. CASE TaskCreate
  BY <1>1, CreateVmKeeps, CreateAsidKeeps, CreateStackKeeps, CreateUndoKeeps DEF TaskCreate
<1>2. CASE \E t \in Tasks : Exit(t) \/ TaskDestroy(t)
  BY <1>2, ExitKeeps, DestroyStackKeeps, DestroySpaceKeeps DEF TaskDestroy
<1>3. CASE \E t \in Tasks, va \in Vaddrs, f \in Frames : MapStart(t, va, f)
  BY <1>3, MapStartKeeps
<1>4. CASE MapWalk
  BY <1>4, MapWalkKeeps
<1>5. CASE MapLeaf
  BY <1>5, MapLeafKeeps
<1>6. CASE \E n \in ClientSizes : ClientAlloc(n)
  BY <1>6, ClientAllocKeeps
<1>7. CASE \E run \in clients : ClientFree(run)
  BY <1>7, ClientFreeKeeps
<1>8. CASE \E size \in Sizes : KmallocSlab(size) \/ KmallocPage(size)
  BY <1>8, KmallocSlabKeeps, KmallocPageKeeps
<1>9. CASE \E o \in objects : Kfree(o)
  BY <1>9, KfreeKeeps
<1> QED
  BY <1>1, <1>2, <1>3, <1>4, <1>5, <1>6, <1>7, <1>8, <1>9 DEF Next

(* A step that changes no variable. *)
LEMMA StutterKeeps ==
    ASSUME MemInv, UNCHANGED vars
    PROVE  MemInv'
<1>1. /\ used' = used /\ used_pages' = used_pages /\ pt' = pt /\ asids' = asids /\ live' = live
      /\ as' = as /\ create' = create /\ walk' = walk /\ clients' = clients
      /\ objects' = objects /\ slab' = slab /\ leaked' = leaked
  BY DEF vars
<1>2. Typed'
  BY <1>1 DEF MemInv, Typed
<1>3. Trees' /\ Owned' /\ ObjectsOK' /\ \A r \in Roots : Kept(r)
  BY <1>1, <1>2, PagesUntouched
<1>4. WalkOK' /\ CreateOK' /\ AsidsDistinct'
  BY <1>1, <1>2, <1>3, TasksUntouched
<1> QED
  BY <1>2, <1>3, <1>4 DEF MemInv

(* After mm_init and mm_create_page_tables. *)
LEMMA InitOK ==
    ASSUME Init
    PROVE  MemInv
<1> USE DEF Init
<1>1. KernelPages \in Nat /\ KernelPages <= MAX_PAGES /\ KernelPages >= 2 /\ MAX_PAGES \in Nat
  BY ConstantFacts
<1>2. used \subseteq Pages /\ used_pages = Cardinality(used) /\ leaked \subseteq used
  <2>1. 0 .. KernelPages - 1 \subseteq 0 .. MAX_PAGES - 1
    BY <1>1
  <2>2. Cardinality(0 .. KernelPages - 1) = IF 0 > KernelPages - 1 THEN 0 ELSE KernelPages - 1 - 0 + 1
    BY <1>1, FS_Interval
  <2>3. Cardinality(0 .. KernelPages - 1) = KernelPages
    BY <1>1, <2>2
  <2> QED
    BY <2>1, <2>3 DEF Pages
<1>3. KernelL1 \in Pages /\ KernelL2 \in Pages /\ KernelL1 # KernelL2 /\ 0 \in Slots
  BY ConstantFacts DEF KernelL1, KernelL2
<1>4. /\ pt \in Memories
      /\ pt[KernelL1] = [EmptyTable EXCEPT ![0] = TableAt(KernelL2)]
      /\ pt[KernelL2] = [EmptyTable EXCEPT ![0] = Block]
  <2>1. TableAt(KernelL2) \in Entries /\ Block \in Entries
    BY <1>3 DEF TableAt, Block, Entries
  <2>2. /\ [EmptyTable EXCEPT ![0] = TableAt(KernelL2)] \in [Slots -> Entries]
        /\ [EmptyTable EXCEPT ![0] = Block] \in [Slots -> Entries]
    BY <2>1, EmptyIsTable
  <2>3. \A p \in Pages :
          (IF p = KernelL1 THEN [EmptyTable EXCEPT ![0] = TableAt(KernelL2)]
           ELSE IF p = KernelL2 THEN [EmptyTable EXCEPT ![0] = Block] ELSE EmptyTable)
          \in [Slots -> Entries]
    BY <2>2, EmptyIsTable
  <2> QED
    BY <2>3, <1>3 DEF Memories
<1>5. /\ as \in [Tasks -> Spaces]
      /\ \A t \in Tasks : as[t].pgd = Nil /\ as[t].asid = 0 /\ as[t].stack = Nil
  BY SpaceFacts
<1>6. Typed
  <2>1. live \in [Tasks -> BOOLEAN] /\ \A t \in Tasks : ~ live[t]
    OBVIOUS
  <2>2. slab \in [page : Pages \cup {Nil}, offset : Nat]
    OBVIOUS
  <2> QED
    BY <1>2, <1>4, <1>5, <2>1, <2>2 DEF Typed
<1>7. /\ L0(Shared) = {} /\ L1(pt, Shared) = {KernelL1} /\ L2(pt, Shared) = {KernelL2}
      /\ L3(pt, Shared) = {}
  <2>1. L0(Shared) = {} /\ L1(pt, Shared) = {KernelL1}
    BY ConstantFacts DEF L0, L1
  <2>2. TargetsIn(pt, KernelL1, Slots) = {KernelL2}
    <3>1. /\ pt[KernelL1][0].kind = "table" /\ pt[KernelL1][0].to = KernelL2
          /\ \A i \in Slots : i # 0 => pt[KernelL1][i].kind = "invalid"
      BY <1>3, <1>4 DEF EmptyTable, Invalid, TableAt
    <3> QED
      BY <3>1, <1>3 DEF TargetsIn
  <2>3. TargetsIn(pt, KernelL2, Slots) = {}
    <3>1. \A i \in Slots : pt[KernelL2][i].kind # "table"
      BY <1>3, <1>4 DEF EmptyTable, Invalid, Block
    <3> QED
      BY <3>1 DEF TargetsIn
  <2>4. L2(pt, Shared) = {KernelL2}
    BY <2>1, <2>2 DEF L2, BelowIn
  <2>5. L3(pt, Shared) = {}
    BY <2>3, <2>4 DEF L3, BelowIn
  <2> QED
    BY <2>1, <2>4, <2>5
<1>8. /\ Root(Nil) = Shared /\ \A t \in Tasks : Root(t) = Nil
  BY <1>5, ConstantFacts DEF Root
<1>9. Trees
  <2>1. Tree(pt, Shared)
    BY <1>3, <1>7 DEF Tree
  <2> QED
    BY <2>1, <1>8, NoTree DEF Trees, Roots
<1>10. Owned
  <2>1. KernelOwned = used
    <3>1. KernelOwned = (0 .. KernelPages - 1) \cup AllTables(pt, Root(Nil))
      BY <1>6, HoldingsAreTables
    <3>2. AllTables(pt, Root(Nil)) = {KernelL1, KernelL2}
      BY <1>7, <1>8 DEF AllTables
    <3>3. KernelL1 \in 0 .. KernelPages - 1 /\ KernelL2 \in 0 .. KernelPages - 1
      BY <1>1 DEF KernelL1, KernelL2
    <3> QED
      BY <3>1, <3>2, <3>3
  <2>2. \A t \in Tasks : AllSpaces[t] = {} /\ AllStacks[t] = {}
    BY <1>5 DEF AllSpaces, AllStacks, SpacePages, StackOf
  <2>3. Large = {} /\ SlabPages = {} /\ clients = {} /\ used \ leaked = used
    BY DEF Large, SlabPages
  <2> DEFINE kind == [p \in Pages |-> IF p \in used THEN "kernel" ELSE "none"]
             of == [p \in Pages |-> Nil]
  <2>4. \A p \in Pages : kind[p] = (IF p \in used THEN "kernel" ELSE "none") /\ kind[p] \in Kinds
    BY DEF Kinds
  <2> HIDE DEF kind, of, Init
  <2>5. Assigned(kind, of, KernelOwned, AllSpaces, AllStacks, clients, Large, SlabPages,
                 used \ leaked)
    BY <2>1, <2>2, <2>3, <2>4 DEF Assigned
  <2> QED
    BY <2>5 DEF Owned
<1>11. CreateOK /\ WalkOK
  BY DEF CreateOK, WalkOK
<1>12. ObjectsOK
  BY DEF ObjectsOK
<1>13. AsidsDistinct
  BY <1>5 DEF AsidsDistinct
<1> QED
  BY <1>6, <1>9, <1>10, <1>11, <1>12, <1>13 DEF MemInv

-----------------------------------------------------------------------------
(* The theorems.                                                             *)

(* While drivers free no small objects, the page tables are trees, every     *)
(* page has at most one owner, and walks and creations under way stay valid, *)
(* for every number of pages, tasks and ASIDs.                               *)
THEOREM MemoryInvariant ==
    ASSUME KfreeSmall = FALSE
    PROVE  Spec => []MemInv
<1>1. Init => MemInv
  BY InitOK
<1>2. MemInv /\ [Next]_vars => MemInv'
  BY NextKeeps, StutterKeeps
<1> QED
  BY <1>1, <1>2, PTL DEF Spec

(* All that is held are pages. *)
LEMMA HoldingsArePages ==
    ASSUME Typed, NEW h \in Holdings
    PROVE  h[3] \subseteq Pages
BY HeldArePages DEF Holdings

(* A page with one owner at most: the kind of the page names it. *)
LEMMA OneOwner ==
    ASSUME Owned, NEW p \in Pages
    PROVE  /\ \A h, k \in Holdings : p \in h[3] /\ p \in k[3] => h = k
           /\ p \in used \ leaked <=> \E h \in Holdings : p \in h[3]
<1>1. PICK kind, of :
        Assigned(kind, of, KernelOwned, AllSpaces, AllStacks, clients, Large, SlabPages,
                 used \ leaked)
  BY DEF Owned
<1>2. \A t \in Tasks : AllSpaces[t] = SpacePages(t) /\ AllStacks[t] = StackOf(t)
  BY DEF AllSpaces, AllStacks
<1>3. /\ kind[p] \in Kinds
      /\ p \in KernelOwned <=> kind[p] = "kernel"
      /\ \A t \in Tasks : p \in SpacePages(t) <=> (kind[p] = "tables" /\ of[p] = t)
      /\ \A t \in Tasks : p \in StackOf(t) <=> (kind[p] = "stack" /\ of[p] = t)
      /\ \A r \in clients : p \in r <=> (kind[p] = "client" /\ of[p] = r)
      /\ kind[p] = "client" => of[p] \in clients
      /\ kind[p] \in {"tables", "stack"} => of[p] \in Tasks
      /\ p \in Large <=> kind[p] = "large"
      /\ p \in SlabPages <=> kind[p] = "slab"
      /\ p \in used \ leaked <=> kind[p] # "none"
  BY <1>1, <1>2 DEF Assigned
<1> DEFINE key ==
        CASE kind[p] = "kernel" -> <<"kernel", Nil, KernelOwned>>
          [] kind[p] = "tables" -> <<"tables", of[p], SpacePages(of[p])>>
          [] kind[p] = "stack" -> <<"stack", of[p], StackOf(of[p])>>
          [] kind[p] = "client" -> <<"client", Nil, of[p]>>
          [] kind[p] = "large" -> <<"objects", Nil, Large>>
          [] kind[p] = "slab" -> <<"slab", Nil, SlabPages>>
<1>4. ASSUME NEW h \in Holdings, p \in h[3]
      PROVE  kind[p] # "none" /\ h = key
  <2>1. CASE h = <<"kernel", Nil, KernelOwned>>
    BY <2>1, <1>3, <1>4
  <2>2. CASE h = <<"slab", Nil, SlabPages>>
    BY <2>2, <1>3, <1>4
  <2>3. CASE h = <<"objects", Nil, Large>>
    BY <2>3, <1>3, <1>4
  <2>4. ASSUME NEW t \in Tasks, h = <<"tables", t, SpacePages(t)>>
        PROVE  kind[p] # "none" /\ h = key
    <3>1. kind[p] = "tables" /\ of[p] = t
      BY <2>4, <1>3, <1>4
    <3> QED
      BY <2>4, <3>1
  <2>5. ASSUME NEW t \in Tasks, h = <<"stack", t, StackOf(t)>>
        PROVE  kind[p] # "none" /\ h = key
    <3>1. kind[p] = "stack" /\ of[p] = t
      BY <2>5, <1>3, <1>4
    <3> QED
      BY <2>5, <3>1
  <2>6. ASSUME NEW r \in clients, h = <<"client", Nil, r>>
        PROVE  kind[p] # "none" /\ h = key
    <3>1. kind[p] = "client" /\ of[p] = r
      BY <2>6, <1>3, <1>4
    <3> QED
      BY <2>6, <3>1
  <2> HIDE DEF key
  <2> QED
    BY <2>1, <2>2, <2>3, <2>4, <2>5, <2>6, <1>4 DEF Holdings
<1>5. ASSUME kind[p] # "none"
      PROVE  \E h \in Holdings : p \in h[3]
  <2>1. CASE kind[p] = "kernel"
    <3>1. <<"kernel", Nil, KernelOwned>> \in Holdings
      BY DEF Holdings
    <3> QED
      BY <2>1, <3>1, <1>3
  <2>2. CASE kind[p] = "tables"
    <3>1. <<"tables", of[p], SpacePages(of[p])>> \in Holdings
      BY <2>2, <1>3 DEF Holdings
    <3> QED
      BY <2>2, <3>1, <1>3
  <2>3. CASE kind[p] = "stack"
    <3>1. <<"stack", of[p], StackOf(of[p])>> \in Holdings
      BY <2>3, <1>3 DEF Holdings
    <3> QED
      BY <2>3, <3>1, <1>3
  <2>4. CASE kind[p] = "client"
    <3>1. <<"client", Nil, of[p]>> \in Holdings
      BY <2>4, <1>3 DEF Holdings
    <3> QED
      BY <2>4, <3>1, <1>3
  <2>5. CASE kind[p] = "large"
    <3>1. <<"objects", Nil, Large>> \in Holdings
      BY DEF Holdings
    <3> QED
      BY <2>5, <3>1, <1>3
  <2>6. CASE kind[p] = "slab"
    <3>1. <<"slab", Nil, SlabPages>> \in Holdings
      BY DEF Holdings
    <3> QED
      BY <2>6, <3>1, <1>3
  <2> QED
    BY <2>1, <2>2, <2>3, <2>4, <2>5, <2>6, <1>3, <1>5 DEF Kinds
<1> HIDE DEF key
<1> QED
  BY <1>3, <1>4, <1>5

(* Exclusive, for every number of pages, tasks and ASIDs and any requests:   *)
(* no step of task_create, its undoing, task_destroy, a table walk, kmalloc, *)
(* kfree or the other clients of pages_alloc gives a page or an ASID to two  *)
(* owners, as long as drivers free no small objects.                         *)
THEOREM PagesHaveOneOwner ==
    ASSUME KfreeSmall = FALSE
    PROVE  Spec => []Exclusive
<1>1. MemInv => Exclusive
  <2> SUFFICES ASSUME MemInv PROVE Exclusive
    OBVIOUS
  <2>1. \A h, k \in Holdings : h # k => h[3] \cap k[3] = {}
    BY OneOwner, HoldingsArePages DEF MemInv
  <2> QED
    BY <2>1 DEF MemInv, ObjectsOK, Exclusive
<1> QED
  BY <1>1, MemoryInvariant, PTL

(* BitmapExact, likewise: the bitmap marks exactly the pages that have an    *)
(* owner or were left behind by an exited task whose slot was used again,    *)
(* and used_pages counts the marks.                                          *)
THEOREM BitmapIsExact ==
    ASSUME KfreeSmall = FALSE
    PROVE  Spec => []BitmapExact
<1>1. MemInv => BitmapExact
  <2> SUFFICES ASSUME MemInv PROVE BitmapExact
    OBVIOUS
  <2>1. used \subseteq Pages /\ used_pages = Cardinality(used)
    BY DEF MemInv, Typed
  <2>2. \A p \in Pages : p \in used \ leaked <=> \E h \in Holdings : p \in h[3]
    BY OneOwner DEF MemInv
  <2>3. used \ leaked = UNION {h[3] : h \in Holdings}
    BY <2>1, <2>2, HoldingsArePages DEF MemInv
  <2> QED
    BY <2>1, <2>3 DEF BitmapExact
<1> QED
  BY <1>1, MemoryInvariant, PTL

-----------------------------------------------------------------------------
(* What mm_map_page changes.                                                 *)

(* What the hardware has read for va after it has used the index of a level, *)
(* from the L0 table g on: a table descriptor is followed, anything else is  *)
(* the result.                                                               *)
Hop(m, e, va, k) == IF e.kind = "table" THEN m[e.to][Index(va, k)] ELSE e

Read0(m, g, va) == m[g][Index(va, 0)]
Read1(m, g, va) == Hop(m, Read0(m, g, va), va, 1)
Read2(m, g, va) == Hop(m, Read1(m, g, va), va, 2)
Read3(m, g, va) == Hop(m, Read2(m, g, va), va, 3)

(* The tables in use. *)
InUse == UNION {AllTables(pt, Root(r)) : r \in Roots}

(* No table but the shared one of the kernel is linked twice. *)
OneLink ==
    \A p, q \in InUse, i, j \in Slots :
        pt[p][i].kind = "table" /\ pt[p][i] = pt[q][j] /\ pt[p][i].to # KernelL1
        => p = q /\ i = j

(* The walk under way is where the hardware would be. *)
WalkPath ==
    LET g == as[walk.task].pgd
    IN  walk # NoWalk =>
          /\ walk.level = 0 => walk.table = g
          /\ walk.level = 1 => Read0(pt, g, walk.va) = TableAt(walk.table)
          /\ walk.level = 2 => Read1(pt, g, walk.va) = TableAt(walk.table)
          /\ walk.level = 3 => Read2(pt, g, walk.va) = TableAt(walk.table)

MapInv == MemInv /\ OneLink /\ WalkPath

-----------------------------------------------------------------------------
(* Addresses.                                                                *)

(* Division, by what it leaves. *)
LEMMA DivBounds ==
    ASSUME NEW a \in Nat, NEW d \in Nat, d > 0
    PROVE  /\ (a \div d) \in Nat /\ (a % d) \in 0 .. d - 1
           /\ a = d * (a \div d) + (a % d)
OBVIOUS

(* A product grows with its factor. *)
LEMMA ProductGrows ==
    ASSUME NEW d \in Nat, NEW x \in Nat, NEW y \in Nat, x < y
    PROVE  d * x + d <= d * y
<1>1. PICK z \in Nat : y = x + 1 + z
  <2>1. y - x - 1 \in Nat /\ y = x + 1 + (y - x - 1)
    OBVIOUS
  <2> QED
    BY <2>1
<1>2. d * y = d * x + d + d * z
  BY <1>1
<1>3. d * z \in Nat /\ d * x \in Nat
  OBVIOUS
<1> QED
  BY <1>2, <1>3

(* The quotient is the only number of its kind. *)
LEMMA DivUnique ==
    ASSUME NEW a \in Nat, NEW d \in Nat, d > 0, NEW s \in Nat, NEW r \in Nat, r < d, a = d * s + r
    PROVE  (a \div d) = s
<1> DEFINE q == a \div d
<1>1. q \in Nat /\ (a % d) \in Nat /\ (a % d) < d /\ a = d * q + (a % d)
  BY DivBounds
<1> HIDE DEF q
<1>2. d * q \in Nat /\ d * s \in Nat
  BY <1>1
<1>3. ~ (q < s)
  <2>1. q < s => d * q + d <= d * s
    BY <1>1, ProductGrows
  <2> QED
    BY <1>1, <1>2, <2>1
<1>4. ~ (s < q)
  <2>1. s < q => d * s + d <= d * q
    BY <1>1, ProductGrows
  <2> QED
    BY <1>1, <1>2, <2>1
<1>5. q = s
  BY <1>1, <1>3, <1>4
<1> QED
  BY <1>5 DEF q

(* Dividing twice is dividing by the product. *)
LEMMA DivTwice ==
    ASSUME NEW a \in Nat, NEW b \in Nat, NEW c \in Nat, b > 0, c > 0
    PROVE  ((a \div b) \div c) = (a \div (b * c))
<1> DEFINE q == a \div b
           r == a % b
           s == q \div c
           u == q % c
<1>1. q \in Nat /\ r \in 0 .. b - 1 /\ a = b * q + r
  BY DivBounds
<1>2. s \in Nat /\ u \in 0 .. c - 1 /\ q = c * s + u
  <2> HIDE DEF q
  <2> QED
    BY <1>1, DivBounds
<1> HIDE DEF q, r, s, u
<1>3. b * c \in Nat /\ b * c > 0
  OBVIOUS
<1>4. b * q = (b * c) * s + b * u
  BY <1>1, <1>2
<1>5. b * u \in Nat /\ b * u + b <= b * c
  BY <1>2, ProductGrows
<1>6. b * u + r \in Nat /\ b * u + r < b * c /\ a = (b * c) * s + (b * u + r)
  BY <1>1, <1>2, <1>3, <1>4, <1>5
<1>7. (a \div (b * c)) = s
  <2> DEFINE d == b * c
             e == b * u + r
  <2>1. d \in Nat /\ d > 0 /\ e \in Nat /\ e < d /\ a = d * s + e
    BY <1>3, <1>6
  <2> HIDE DEF d, e
  <2>2. (a \div d) = s
    BY <2>1, <1>2, DivUnique
  <2> QED
    BY <2>2 DEF d
<1> QED
  BY <1>7 DEF s, q

(* An address of 48 bits is put together again from its four indices. *)
LEMMA IndicesSplit ==
    ASSUME NEW va \in Vaddrs
    PROVE  va = FanOut * (FanOut * (FanOut * Index(va, 0) + Index(va, 1)) + Index(va, 2)) + Index(va, 3)
<1> DEFINE f == FanOut
           f2 == f * f
           f3 == f * f * f
           a1 == va \div f
           a2 == va \div f2
           a3 == va \div f3
<1>1. f \in Nat /\ f > 1 /\ va \in Nat /\ va < f * f * f * f
  BY MemoryAssumption
<1>2. f2 \in Nat /\ f2 > 0
  BY <1>1
<1>3. f3 = f2 * f /\ f3 \in Nat /\ f3 > 0
  <2> HIDE DEF f2
  <2>1. f2 * f \in Nat /\ f2 * f > 0
    BY <1>1, <1>2
  <2> QED
    BY <2>1 DEF f2
<1>4. /\ Index(va, 0) = a3 % f /\ Index(va, 1) = a2 % f
      /\ Index(va, 2) = a1 % f /\ Index(va, 3) = (va \div 1) % f
  BY DEF Index, Span
<1>5. (va \div 1) = va
  BY <1>1
<1>6. va < f3 * f
  BY <1>1
<1> HIDE DEF f, f2, f3
<1>7. a1 \in Nat /\ a2 \in Nat /\ a3 \in Nat
  BY <1>1, <1>2, <1>3, DivBounds
<1>8. (a1 \div f) = a2
  BY <1>1, DivTwice DEF f2
<1>9. (a2 \div f) = a3
  BY <1>1, <1>2, <1>3, DivTwice
<1>10. va = f * a1 + (va % f)
  BY <1>1, DivBounds
<1>11. a3 < f
  <2>1. va = f3 * a3 + (va % f3) /\ (va % f3) \in Nat
    BY <1>1, <1>3, DivBounds
  <2>2. f < a3 => f3 * f + f3 <= f3 * a3
    BY <1>1, <1>3, <1>7, ProductGrows
  <2>3. f3 * f \in Nat /\ f3 * a3 \in Nat
    BY <1>1, <1>3, <1>7
  <2>4. a3 = f => f3 * a3 = f3 * f
    OBVIOUS
  <2> HIDE DEF a3
  <2> DEFINE x == f3 * f
             y == f3 * a3
             z == va % f3
  <2>5. /\ x \in Nat /\ y \in Nat /\ z \in Nat /\ va = y + z /\ va < x
        /\ (f < a3 => x + f3 <= y) /\ (a3 = f => y = x)
    BY <1>6, <2>1, <2>2, <2>3, <2>4
  <2> HIDE DEF x, y, z
  <2> QED
    BY <1>1, <1>3, <1>7, <2>5
<1> HIDE DEF a1, a2, a3
<1>12. a1 = f * a2 + (a1 % f)
  <2>1. a1 = f * (a1 \div f) + (a1 % f)
    BY <1>1, <1>7, DivBounds
  <2> QED
    BY <1>8, <2>1
<1>13. a2 = f * a3 + (a2 % f)
  <2>1. a2 = f * (a2 \div f) + (a2 % f)
    BY <1>1, <1>7, DivBounds
  <2> QED
    BY <1>9, <2>1
<1>14. a3 % f = a3
  BY <1>1, <1>7, <1>11
<1>15. a2 = f * Index(va, 0) + Index(va, 1)
  BY <1>4, <1>13, <1>14
<1>16. a1 = f * (f * Index(va, 0) + Index(va, 1)) + Index(va, 2)
  BY <1>4, <1>12, <1>15
<1>17. va = f * (f * (f * Index(va, 0) + Index(va, 1)) + Index(va, 2)) + Index(va, 3)
  BY <1>4, <1>5, <1>10, <1>16
<1> QED
  BY <1>17 DEF f

(* Addresses with the same indices are equal. *)
LEMMA IndicesTell ==
    ASSUME NEW va \in Vaddrs, NEW vb \in Vaddrs, Index(va, 0) = Index(vb, 0),
           Index(va, 1) = Index(vb, 1), Index(va, 2) = Index(vb, 2), Index(va, 3) = Index(vb, 3)
    PROVE  va = vb
<1>1. vb = FanOut * (FanOut * (FanOut * Index(va, 0) + Index(va, 1)) + Index(va, 2)) + Index(va, 3)
  BY IndicesSplit
<1> QED
  BY <1>1, IndicesSplit

-----------------------------------------------------------------------------
(* What the hardware reads.                                                  *)

(* The hardware follows at most four descriptors. *)
LEMMA TranslateReads ==
    ASSUME NEW m, NEW g, NEW va
    PROVE  Translate(m, g, va) = Read3(m, g, va)
BY DEF Translate, Read0, Read1, Read2, Read3, Hop, TableAt

(* A descriptor below a set of tables. *)
LEMMA BelowReads ==
    ASSUME NEW m, NEW S, NEW p \in S, NEW i \in Slots, m[p][i].kind = "table"
    PROVE  m[p][i].to \in BelowIn(m, S)
BY DEF BelowIn, TargetsIn

(* At each level it is in a table of that level, of the task or, behind      *)
(* entry 0, of the kernel.                                                   *)
LEMMA ReadLevels ==
    ASSUME NEW m, NEW g \in Pages, Tree(m, g), NEW va \in Nat
    PROVE  /\ Read0(m, g, va).kind = "table" =>
                 \/ Index(va, 0) = 0 /\ Read0(m, g, va).to = KernelL1
                 \/ Index(va, 0) # 0 /\ Read0(m, g, va).to \in L1(m, g)
           /\ Read0(m, g, va).kind = "table" => Read0(m, g, va).to \in L1(m, g) \cup L1(m, Shared)
           /\ Read1(m, g, va).kind = "table" =>
                 /\ Read0(m, g, va).kind = "table"
                 /\ Read1(m, g, va).to \in L2(m, g) \cup L2(m, Shared)
           /\ Read2(m, g, va).kind = "table" =>
                 /\ Read1(m, g, va).kind = "table"
                 /\ Read2(m, g, va).to \in L3(m, g) \cup L3(m, Shared)
<1>1. /\ Index(va, 0) \in Slots /\ Index(va, 1) \in Slots /\ Index(va, 2) \in Slots
  BY IndexIsSlot
<1>2. /\ L0(g) = {g} /\ L1(m, Shared) = {KernelL1} /\ g # Shared
      /\ L1(m, g) = TargetsIn(m, g, Slots \ {0})
  BY ConstantFacts DEF L0, L1
<1>3. m[g][0] = TableAt(KernelL1)
  BY <1>2 DEF Tree
<1>4. Read0(m, g, va).kind = "table" =>
         \/ Index(va, 0) = 0 /\ Read0(m, g, va).to = KernelL1
         \/ Index(va, 0) # 0 /\ Read0(m, g, va).to \in L1(m, g)
  <2>1. CASE Index(va, 0) = 0
    BY <2>1, <1>3 DEF Read0, TableAt
  <2>2. CASE Index(va, 0) # 0
    BY <2>2, <1>1, <1>2 DEF Read0, TargetsIn
  <2> QED
    BY <2>1, <2>2
<1>5. Read0(m, g, va).kind = "table" => Read0(m, g, va).to \in L1(m, g) \cup L1(m, Shared)
  BY <1>2, <1>4
<1>6. ASSUME NEW e, NEW S, NEW T, NEW k, Index(va, k) \in Slots, e.kind = "table" => e.to \in S \cup T,
             Hop(m, e, va, k).kind = "table"
      PROVE  e.kind = "table" /\ Hop(m, e, va, k).to \in BelowIn(m, S) \cup BelowIn(m, T)
  <2>1. e.kind = "table" /\ e.to \in S \cup T /\ Hop(m, e, va, k) = m[e.to][Index(va, k)]
    BY <1>6 DEF Hop
  <2> QED
    BY <2>1, <1>6, BelowReads
<1>7. Read1(m, g, va).kind = "table" =>
         /\ Read0(m, g, va).kind = "table"
         /\ Read1(m, g, va).to \in L2(m, g) \cup L2(m, Shared)
  BY <1>1, <1>5, <1>6 DEF Read1, L2
<1>8. Read2(m, g, va).kind = "table" =>
         /\ Read1(m, g, va).kind = "table"
         /\ Read2(m, g, va).to \in L3(m, g) \cup L3(m, Shared)
  BY <1>1, <1>7, <1>6 DEF Read2, L3
<1> QED
  BY <1>4, <1>5, <1>7, <1>8

(* Where tables keep their contents, so do the descriptors read. *)
LEMMA ReadsSame ==
    ASSUME NEW m, NEW n, NEW g \in Pages, Tree(m, g), NEW va \in Nat,
           \A q \in L0(g) \cup L1(m, g) \cup L2(m, g) \cup L1(m, Shared) \cup L2(m, Shared) :
              n[q] = m[q]
    PROVE  /\ Read0(n, g, va) = Read0(m, g, va)
           /\ Read1(n, g, va) = Read1(m, g, va)
           /\ Read2(n, g, va) = Read2(m, g, va)
           /\ (\A q \in L3(m, g) \cup L3(m, Shared) : n[q] = m[q])
                 => Read3(n, g, va) = Read3(m, g, va)
<1>1. Read0(n, g, va) = Read0(m, g, va)
  BY DEF Read0, L0
<1>2. ASSUME NEW e, NEW k, e.kind = "table" => n[e.to] = m[e.to]
      PROVE  Hop(n, e, va, k) = Hop(m, e, va, k)
  BY <1>2 DEF Hop
<1>3. Read0(m, g, va).kind = "table" => n[Read0(m, g, va).to] = m[Read0(m, g, va).to]
  BY ReadLevels
<1>4. Read1(n, g, va) = Read1(m, g, va)
  BY <1>1, <1>2, <1>3 DEF Read1
<1>5. Read1(m, g, va).kind = "table" => n[Read1(m, g, va).to] = m[Read1(m, g, va).to]
  BY ReadLevels
<1>6. Read2(n, g, va) = Read2(m, g, va)
  BY <1>4, <1>2, <1>5 DEF Read2
<1>7. ASSUME \A q \in L3(m, g) \cup L3(m, Shared) : n[q] = m[q]
      PROVE  Read3(n, g, va) = Read3(m, g, va)
  <2>1. Read2(m, g, va).kind = "table" => n[Read2(m, g, va).to] = m[Read2(m, g, va).to]
    BY <1>7, ReadLevels
  <2> QED
    BY <1>6, <1>2, <2>1 DEF Read3
<1> QED
  BY <1>1, <1>4, <1>6, <1>7

(* What a new, empty table changes: a descriptor that was invalid now leads  *)
(* to it, and behind it there is nothing.                                    *)
Grown(new, old, p) ==
    \/ new = old
    \/ old.kind = "invalid" /\ new \in {TableAt(p), Invalid}

LEMMA HopGrown ==
    ASSUME NEW m \in Memories, NEW n, NEW w \in Pages, NEW i \in Slots, NEW p \in Pages, p # w,
           m[w][i].kind = "invalid", Linked(m, n, w, i, p),
           NEW va, NEW k, Index(va, k) \in Slots,
           NEW old, NEW new, Grown(new, old, p), old.kind = "table" => old.to \in Pages \ {p}
    PROVE  Grown(Hop(n, new, va, k), Hop(m, old, va, k), p)
<1> DEFINE x == Index(va, k)
<1>1. CASE new = old /\ old.kind = "table" /\ old.to # w
  BY <1>1 DEF Hop, Grown, Linked
<1>2. CASE new = old /\ old.kind = "table" /\ old.to = w
  <2>1. n[w][i] = TableAt(p) /\ \A j \in Slots : j # i => n[w][j] = m[w][j]
    BY DEF Linked, Memories
  <2> QED
    BY <2>1, <1>2 DEF Hop, Grown
<1>3. CASE new = old /\ old.kind # "table"
  BY <1>3 DEF Hop, Grown
<1>4. CASE old.kind = "invalid" /\ new = TableAt(p)
  <2>1. n[p][x] = Invalid
    BY DEF Linked, EmptyTable
  <2> QED
    BY <2>1, <1>4 DEF Hop, Grown, TableAt
<1>5. CASE old.kind = "invalid" /\ new = Invalid
  BY <1>5 DEF Hop, Grown, Invalid
<1> QED
  BY <1>1, <1>2, <1>3, <1>4, <1>5 DEF Grown

(* ... at every level. *)
LEMMA ReadsGrown ==
    ASSUME NEW m \in Memories, NEW n, NEW w \in Pages, NEW i \in Slots, NEW p \in Pages, p # w,
           m[w][i].kind = "invalid", Linked(m, n, w, i, p),
           NEW g \in Pages, Tree(m, g), NEW va \in Nat,
           p \notin AllTables(m, g), p \notin AllTables(m, Shared)
    PROVE  /\ Grown(Read0(n, g, va), Read0(m, g, va), p)
           /\ Grown(Read1(n, g, va), Read1(m, g, va), p)
           /\ Grown(Read2(n, g, va), Read2(m, g, va), p)
           /\ Grown(Read3(n, g, va), Read3(m, g, va), p)
<1>1. /\ Index(va, 0) \in Slots /\ Index(va, 1) \in Slots /\ Index(va, 2) \in Slots
      /\ Index(va, 3) \in Slots
  BY IndexIsSlot
<1>2. /\ AllTables(m, g) \subseteq Pages \ {p} /\ AllTables(m, Shared) \subseteq Pages \ {p}
  BY TablesArePages
<1>3. /\ Read0(m, g, va).kind = "table" => Read0(m, g, va).to \in Pages \ {p}
      /\ Read1(m, g, va).kind = "table" => Read1(m, g, va).to \in Pages \ {p}
      /\ Read2(m, g, va).kind = "table" => Read2(m, g, va).to \in Pages \ {p}
  BY <1>2, ReadLevels DEF AllTables
<1>4. g # p
  BY DEF AllTables, L0
<1>5. Read0(m, g, va) = Hop(m, TableAt(g), va, 0) /\ Read0(n, g, va) = Hop(n, TableAt(g), va, 0)
  BY DEF Read0, Hop, TableAt
<1>6. Grown(TableAt(g), TableAt(g), p) /\ TableAt(g).kind = "table" /\ TableAt(g).to = g
  BY DEF Grown, TableAt
<1>7. Grown(Read0(n, g, va), Read0(m, g, va), p)
  BY <1>1, <1>4, <1>5, <1>6, HopGrown
<1>8. Grown(Read1(n, g, va), Read1(m, g, va), p)
  BY <1>1, <1>3, <1>7, HopGrown DEF Read1
<1>9. Grown(Read2(n, g, va), Read2(m, g, va), p)
  BY <1>1, <1>3, <1>8, HopGrown DEF Read2
<1>10. Grown(Read3(n, g, va), Read3(m, g, va), p)
  BY <1>1, <1>3, <1>9, HopGrown DEF Read3
<1> QED
  BY <1>7, <1>8, <1>9, <1>10

-----------------------------------------------------------------------------
(* Steps that leave the tables of the tasks that live alone.                 *)

(* A tree whose tables keep their contents. *)
Untouched(r) ==
    /\ Root(r)' = Root(r)
    /\ \A q \in AllTables(pt, Root(r)) : pt'[q] = pt[q]

(* A tree that a task which is not alive throughout loses, or gets from      *)
(* vm_create.                                                                *)
Anew(r) ==
    /\ r \in Tasks /\ ~ (live[r] /\ live'[r])
    /\ \/ Root(r)' = Nil
       \/ /\ Root(r)' \in Pages
          /\ pt'[Root(r)'] = [EmptyTable EXCEPT ![0] = TableAt(KernelL1)]

Quiet == \A r \in Roots : Untouched(r) \/ Anew(r)

(* What MapIsLocal says of a step. *)
LocalStep ==
    \A t \in Tasks, va \in Vaddrs :
        /\ live[t] /\ live'[t]
        /\ Translates(pt, t, va) \/ Translates(pt', t, va)
        /\ Translate(pt', as[t].pgd, va) # Translate(pt, as[t].pgd, va)
        => /\ walk.va = va /\ walk.level = 3
           /\ walk.task = t \/ Index(va, 0) = 0

(* The tree of a live task, and that of the kernel. *)
LEMMA LiveTree ==
    ASSUME MemInv, NEW t \in Tasks, live[t]
    PROVE  /\ as[t].pgd \in Pages /\ Root(t) = as[t].pgd /\ Root(Nil) = Shared
           /\ t \in Roots /\ Nil \in Roots /\ t # Nil
           /\ Tree(pt, as[t].pgd) /\ Tree(pt, Shared)
           /\ pt \in Memories
<1>1. t # Nil /\ t \in Roots /\ Nil \in Roots
  BY ConstantFacts DEF Roots
<1>2. Root(t) = as[t].pgd /\ Root(Nil) = Shared
  BY <1>1 DEF Root
<1> QED
  BY <1>1, <1>2 DEF MemInv, Typed, Trees

(* No table is linked twice after such a step. *)
LEMMA QuietLinks ==
    ASSUME MemInv, OneLink, Quiet
    PROVE  OneLink'
<1>1. ASSUME NEW q \in InUse', NEW i \in Slots, pt'[q][i].kind = "table", pt'[q][i].to # KernelL1
      PROVE  q \in InUse /\ pt'[q] = pt[q]
  <2>1. PICK r \in Roots : q \in AllTables(pt', Root(r)')
    BY DEF InUse
  <2>2. CASE Untouched(r)
    <3>1. Kept(r)
      BY <2>2, KeptWhenUntouched DEF MemInv, Untouched
    <3>2. q \in AllTables(pt, Root(r))
      BY <3>1, <2>1 DEF Kept
    <3> QED
      BY <3>2, <2>2 DEF Untouched, InUse
  <2>3. CASE Anew(r)
    <3>1. CASE Root(r)' = Nil
      BY <3>1, <2>1, NoTree
    <3>2. CASE /\ Root(r)' \in Pages
               /\ pt'[Root(r)'] = [EmptyTable EXCEPT ![0] = TableAt(KernelL1)]
      <4>1. q = Root(r)'
        <5>1. PICK g \in Pages : g = Root(r)'
          BY <3>2
        <5>2. PICK m : m = pt'
          OBVIOUS
        <5>3. m[g] = [EmptyTable EXCEPT ![0] = TableAt(KernelL1)] /\ q \in AllTables(m, g)
          BY <5>1, <5>2, <3>2, <2>1
        <5>4. AllTables(m, g) = {g}
          BY <5>3, NewTree
        <5> QED
          BY <5>1, <5>3, <5>4
      <4>2. pt'[q][i] = TableAt(KernelL1) \/ pt'[q][i] = Invalid
        BY <4>1, <3>2 DEF EmptyTable
      <4> QED
        BY <4>2, <1>1 DEF TableAt, Invalid
    <3> QED
      BY <2>3, <3>1, <3>2 DEF Anew
  <2> QED
    BY <2>2, <2>3 DEF Quiet
<1>2. ASSUME NEW p \in InUse', NEW q \in InUse', NEW i \in Slots, NEW j \in Slots,
             pt'[p][i].kind = "table", pt'[p][i] = pt'[q][j], pt'[p][i].to # KernelL1
      PROVE  p = q /\ i = j
  <2>1. p \in InUse /\ pt'[p] = pt[p]
    BY <1>1, <1>2
  <2>2. q \in InUse /\ pt'[q] = pt[q]
    BY <1>1, <1>2
  <2> QED
    BY <2>1, <2>2, <1>2 DEF OneLink
<1> QED
  BY <1>2 DEF OneLink

(* The hardware reads what it read before. *)
LEMMA QuietReads ==
    ASSUME MemInv, Quiet, NEW t \in Tasks, live[t], live'[t], NEW va \in Nat
    PROVE  LET g == as[t].pgd
           IN  /\ as'[t].pgd = g
               /\ Read0(pt', g, va) = Read0(pt, g, va)
               /\ Read1(pt', g, va) = Read1(pt, g, va)
               /\ Read2(pt', g, va) = Read2(pt, g, va)
               /\ Read3(pt', g, va) = Read3(pt, g, va)
<1>1. /\ as[t].pgd \in Pages /\ Root(t) = as[t].pgd /\ Root(Nil) = Shared
      /\ t \in Roots /\ Nil \in Roots /\ t # Nil /\ Tree(pt, as[t].pgd)
  BY LiveTree
<1>2. Untouched(t) /\ Untouched(Nil)
  BY <1>1, ConstantFacts DEF Quiet, Anew
<1>3. as'[t].pgd = as[t].pgd
  BY <1>1, <1>2 DEF Untouched, Root
<1>4. PICK g \in Pages : g = as[t].pgd
  BY <1>1
<1>5. \A q \in AllTables(pt, g) \cup AllTables(pt, Shared) : pt'[q] = pt[q]
  BY <1>1, <1>2, <1>4 DEF Untouched
<1>6. /\ \A q \in L0(g) \cup L1(pt, g) \cup L2(pt, g) \cup L1(pt, Shared) \cup L2(pt, Shared) :
            pt'[q] = pt[q]
      /\ \A q \in L3(pt, g) \cup L3(pt, Shared) : pt'[q] = pt[q]
  BY <1>5 DEF AllTables
<1>7. /\ Read0(pt', g, va) = Read0(pt, g, va)
      /\ Read1(pt', g, va) = Read1(pt, g, va)
      /\ Read2(pt', g, va) = Read2(pt, g, va)
      /\ Read3(pt', g, va) = Read3(pt, g, va)
  BY <1>1, <1>4, <1>6, ReadsSame
<1> QED
  BY <1>3, <1>4, <1>7

(* So no translation changes. *)
LEMMA QuietLocal ==
    ASSUME MemInv, Quiet
    PROVE  LocalStep
<1>1. ASSUME NEW t \in Tasks, NEW va \in Vaddrs, live[t], live'[t]
      PROVE  Translate(pt', as[t].pgd, va) = Translate(pt, as[t].pgd, va)
  <2>1. va \in Nat
    BY ConstantFacts
  <2> QED
    BY <1>1, <2>1, QuietReads, TranslateReads
<1> QED
  BY <1>1 DEF LocalStep

(* And a walk that goes on is where it was. *)
LEMMA QuietWalk ==
    ASSUME MemInv, MemInv', Quiet, WalkPath, walk' = walk
    PROVE  WalkPath'
<1>1. CASE walk = NoWalk
  BY <1>1 DEF WalkPath
<1>2. CASE walk # NoWalk
  <2>1. walk.task \in Tasks /\ live[walk.task] /\ walk.va \in Nat
    BY <1>2, WalkIsSomewhere DEF MemInv
  <2>2. live'[walk.task]
    BY <1>2 DEF MemInv, WalkOK
  <2>3. PICK t \in Tasks : t = walk.task
    BY <2>1
  <2>4. LET g == as[t].pgd
        IN  /\ as'[t].pgd = g
            /\ Read0(pt', g, walk.va) = Read0(pt, g, walk.va)
            /\ Read1(pt', g, walk.va) = Read1(pt, g, walk.va)
            /\ Read2(pt', g, walk.va) = Read2(pt, g, walk.va)
    BY <2>1, <2>2, <2>3, QuietReads
  <2> QED
    BY <1>2, <2>3, <2>4 DEF WalkPath
<1> QED
  BY <1>1, <1>2

(* What such a step keeps. *)
LEMMA QuietKeeps ==
    ASSUME MapInv, MemInv', Quiet, walk' = walk
    PROVE  MapInv' /\ LocalStep
BY QuietLinks, QuietWalk, QuietLocal DEF MapInv

-----------------------------------------------------------------------------
(* Steps of the other users of memory and of task_create.                    *)

(* No table and no root changes. *)
LEMMA NothingTouched ==
    ASSUME pt' = pt, \A t \in Tasks : as'[t].pgd = as[t].pgd
    PROVE  Quiet
BY DEF Quiet, Untouched, Root, Roots

(* Pages that were free are handed out. *)
LEMMA FreshUntouched ==
    ASSUME MemInv, NEW n \in Nat, FirstRun(n) # Nil, AllocateFresh(FirstRun(n), n),
           \A t \in Tasks : as'[t].pgd = as[t].pgd
    PROVE  Quiet
<1>1. Typed /\ Owned
  BY DEF MemInv
<1>2. PICK R : R = Run(FirstRun(n), n)
  OBVIOUS
<1>3. R \cap used = {}
  BY <1>2, FirstRunIsFree
<1>4. pt' = [q \in Pages |-> IF q \in R THEN EmptyTable ELSE pt[q]] /\ pt \in Memories
  BY <1>1, <1>2 DEF AllocateFresh, Fresh, Typed
<1>5. \A q \in Pages : q \notin R => pt'[q] = pt[q]
  BY <1>4, MemoryAfter
<1>6. ASSUME NEW r \in Roots
      PROVE  Untouched(r)
  <2>1. Root(r)' = Root(r)
    BY DEF Root, Roots
  <2> QED
    BY <2>1, <1>1, <1>3, <1>5, TablesAreMarked DEF Untouched
<1> QED
  BY <1>6 DEF Quiet

(* Pages that hold no table are taken back. *)
LEMMA FreeUntouched ==
    ASSUME MemInv, NEW R, Free(R), NEW r \in Roots, Root(r)' = Root(r),
           AllTables(pt, Root(r)) \cap R = {}
    PROVE  Untouched(r)
<1>1. Typed /\ Owned
  BY DEF MemInv
<1>2. pt' = [q \in Pages |-> IF q \in R THEN EmptyTable ELSE pt[q]] /\ pt \in Memories
  BY <1>1 DEF Free, Typed
<1>3. \A q \in Pages : q \notin R => pt'[q] = pt[q]
  BY <1>2, MemoryAfter
<1>4. AllTables(pt, Root(r)) \subseteq Pages
  BY <1>1, TablesAreMarked
<1> QED
  BY <1>3, <1>4 DEF Untouched

(* pages_alloc and pages_free by other clients. *)
LEMMA ClientsAreQuiet ==
    ASSUME MemInv
    PROVE  /\ \A n \in ClientSizes : ClientAlloc(n) => Quiet /\ walk' = walk
           /\ \A run \in clients : ClientFree(run) => Quiet /\ walk' = walk
<1>1. ASSUME NEW n \in ClientSizes, ClientAlloc(n)
      PROVE  Quiet /\ walk' = walk
  <2>1. n \in Nat
    BY ConstantFacts
  <2>2. FirstRun(n) # Nil /\ AllocateFresh(FirstRun(n), n) /\ as' = as /\ walk' = walk
    BY <1>1 DEF ClientAlloc
  <2> QED
    BY <2>1, <2>2, FreshUntouched
<1>2. ASSUME NEW run \in clients, ClientFree(run)
      PROVE  Quiet /\ walk' = walk
  <2>1. Free(run) /\ as' = as /\ walk' = walk
    BY <1>2 DEF ClientFree
  <2>2. \A p \in Pages : Apart(p)
    BY HoldersApart DEF MemInv
  <2>3. run \subseteq Pages /\ Typed
    BY DEF MemInv, Typed
  <2>4. ASSUME NEW r \in Roots
        PROVE  Untouched(r)
    <3>1. Root(r)' = Root(r)
      BY <2>1 DEF Root
    <3>2. ASSUME NEW p \in run
          PROVE  p \notin KernelOwned /\ \A t \in Tasks : p \notin SpacePages(t)
      <4>1. Apart(p)
        BY <2>2, <2>3
      <4> QED
        BY <4>1 DEF Apart
    <3>3. AllTables(pt, Root(r)) \cap run = {}
      BY <2>3, <3>2, HoldingsAreTables DEF Roots
    <3> QED
      BY <3>1, <3>3, <2>1, FreeUntouched
  <2> QED
    BY <2>1, <2>4 DEF Quiet
<1> QED
  BY <1>1, <1>2

(* kmalloc. *)
LEMMA KmallocIsQuiet ==
    ASSUME MemInv, NEW size \in Sizes, KmallocSlab(size) \/ KmallocPage(size)
    PROVE  Quiet /\ walk' = walk
<1>1. CASE KmallocSlab(size)
  BY <1>1, NothingTouched DEF KmallocSlab
<1>2. CASE KmallocPage(size)
  <2>1. /\ 1 \in Nat /\ FirstRun(1) # Nil /\ AllocateFresh(FirstRun(1), 1)
        /\ as' = as /\ walk' = walk
    BY <1>2 DEF KmallocPage
  <2> QED
    BY <2>1, FreshUntouched
<1> QED
  BY <1>1, <1>2

(* kfree frees no page table. *)
LEMMA KfreeIsQuiet ==
    ASSUME MemInv, NEW o \in objects, Kfree(o)
    PROVE  Quiet /\ walk' = walk
<1>1. Free({o.page}) /\ as' = as /\ walk' = walk
  BY DEF Kfree
<1>2. Typed /\ Owned
  BY DEF MemInv
<1>3. o.page \in Pages /\ (o.page \in Large \/ o.page \in SlabPages)
  BY <1>2, ObjectsAreHeld
<1>4. Apart(o.page)
  BY <1>2, <1>3, HoldersApart
<1>5. ASSUME NEW r \in Roots
      PROVE  Untouched(r)
  <2>1. Root(r)' = Root(r)
    BY <1>1 DEF Root
  <2>2. o.page \notin KernelOwned /\ \A t \in Tasks : o.page \notin SpacePages(t)
    BY <1>3, <1>4 DEF Apart
  <2>3. AllTables(pt, Root(r)) \cap {o.page} = {}
    BY <1>2, <2>2, HoldingsAreTables DEF Roots
  <2> QED
    BY <2>1, <2>3, <1>1, FreeUntouched
<1> QED
  BY <1>1, <1>5 DEF Quiet

(* vm_destroy, for task_destroy or after a failure. *)
LEMMA ReleaseIsQuiet ==
    ASSUME MemInv, NEW t \in Tasks, NEW R, R \subseteq StackOf(t) \cup SpacePages(t), Free(R),
           as' = [as EXCEPT ![t] = NoSpace], ~ (live[t] /\ live'[t])
    PROVE  Quiet
<1>1. Typed /\ Owned /\ as \in [Tasks -> Spaces]
  BY DEF MemInv, Typed
<1>2. Anew(t)
  <2>1. as'[t] = NoSpace /\ NoSpace.pgd = Nil /\ t # Nil
    BY <1>1, SpaceFacts, ConstantFacts
  <2> QED
    BY <2>1 DEF Anew, Root
<1>3. ASSUME NEW r \in Roots, r # t
      PROVE  Untouched(r)
  <2>1. Root(r)' = Root(r)
    <3>1. CASE r = Nil
      BY <3>1 DEF Root
    <3>2. CASE r \in Tasks
      <4>1. as'[r] = as[r]
        BY <1>1, <1>3, <3>2
      <4> QED
        BY <4>1, <1>1, <1>3, <3>2 DEF Root
    <3> QED
      BY <3>1, <3>2 DEF Roots
  <2>2. AllTables(pt, Root(r)) \cap (SpacePages(t) \cup StackOf(t)) = {}
    BY <1>1, <1>3, TaskApart
  <2>3. AllTables(pt, Root(r)) \cap R = {}
    BY <2>2
  <2> QED
    BY <2>1, <2>3, FreeUntouched
<1> QED
  BY <1>2, <1>3 DEF Quiet

(* task_exit_handler and task_destroy. *)
LEMMA EndsAreQuiet ==
    ASSUME MemInv, NEW t \in Tasks, Exit(t) \/ TaskDestroy(t)
    PROVE  Quiet /\ walk' = walk
<1>1. CASE Exit(t)
  BY <1>1, NothingTouched DEF Exit
<1>2. CASE DestroyStack(t)
  <2>1. /\ Free(StackOf(t)) /\ as' = [as EXCEPT ![t].stack = Nil] /\ walk' = walk
    BY <1>2 DEF DestroyStack
  <2>2. Typed /\ Owned /\ as \in [Tasks -> Spaces]
    BY DEF MemInv, Typed
  <2>3. \A u \in Tasks : as'[u].pgd = as[u].pgd
    BY <2>1, <2>2 DEF Spaces
  <2>4. StackOf(t) \subseteq Pages
    BY <2>2, HeldArePages
  <2>5. ASSUME NEW r \in Roots
        PROVE  Untouched(r)
    <3>1. Root(r)' = Root(r)
      BY <2>3 DEF Root, Roots
    <3>2. ASSUME NEW p \in StackOf(t)
          PROVE  p \notin KernelOwned /\ \A u \in Tasks : p \notin SpacePages(u)
      <4>1. Apart(p)
        BY <2>2, <2>4, HoldersApart
      <4> QED
        BY <4>1 DEF Apart
    <3>3. AllTables(pt, Root(r)) \cap StackOf(t) = {}
      BY <2>2, <3>2, HoldingsAreTables DEF Roots
    <3> QED
      BY <3>1, <3>3, <2>1, FreeUntouched
  <2> QED
    BY <2>1, <2>5 DEF Quiet
<1>3. CASE DestroySpace(t)
  <2>1. /\ Free(SpacePages(t)) /\ as' = [as EXCEPT ![t] = NoSpace]
        /\ live' = [live EXCEPT ![t] = FALSE] /\ walk' = walk
    BY <1>3 DEF DestroySpace
  <2>2. ~ live'[t]
    BY <2>1 DEF MemInv, Typed
  <2> QED
    BY <2>1, <2>2, ReleaseIsQuiet
<1> QED
  BY <1>1, <1>2, <1>3 DEF TaskDestroy

(* task_create: the L0 table it allocates is in nobody's tree yet. *)
LEMMA CreateVmIsQuiet ==
    ASSUME MemInv, CreateVm
    PROVE  Quiet /\ walk' = walk
<1>1. Typed /\ Owned /\ as \in [Tasks -> Spaces] /\ pt \in Memories
  BY DEF MemInv, Typed
<1> DEFINE p == FirstRun(1)
<1>2. PICK t \in Tasks :
        /\ ~ live[t]
        /\ as' = [as EXCEPT ![t] = [NoSpace EXCEPT !.pgd = p]]
        /\ IF p = Nil THEN pt' = pt
           ELSE pt' = [pt EXCEPT ![p] = [EmptyTable EXCEPT ![0] = TableAt(KernelL1)]]
        /\ walk' = walk
  <2> DEFINE dead == {x \in Tasks : ~live[x]}
             u == CHOOSE x \in dead : \A y \in dead : x <= y
  <2>1. /\ dead # {}
        /\ as' = [as EXCEPT ![u] = [NoSpace EXCEPT !.pgd = p]]
        /\ IF p = Nil THEN pt' = pt
           ELSE pt' = [pt EXCEPT ![p] = [EmptyTable EXCEPT ![0] = TableAt(KernelL1)]]
        /\ walk' = walk
    BY DEF CreateVm, Fresh
  <2>2. dead \subseteq Nat
    BY ConstantFacts
  <2>3. u \in dead
    <3> HIDE DEF dead
    <3> QED
      BY <2>1, <2>2, LeastChosen
  <2>4. u \in Tasks /\ ~ live[u]
    BY <2>3
  <2> HIDE DEF dead, u, p
  <2> QED
    BY <2>1, <2>4
<1>3. p # Nil => p \in Pages /\ p \notin used
  <2>1. 1 \in Nat
    OBVIOUS
  <2>2. p # Nil => p \in Pages /\ Run(p, 1) \cap used = {}
    BY <2>1, FirstRunIsFree
  <2> HIDE DEF p
  <2> QED
    BY <2>2, SingleRun
<1> HIDE DEF p
<1>4. p \in Pages \cup {Nil}
  BY <1>3
<1>5. as'[t].pgd = p /\ \A u \in Tasks : u # t => as'[u].pgd = as[u].pgd
  <2>1. [NoSpace EXCEPT !.pgd = p].pgd = p
    BY <1>4, SpaceFacts
  <2> QED
    BY <1>1, <1>2, <2>1
<1>6. t # Nil /\ Root(t)' = p
  BY <1>5, ConstantFacts DEF Root
<1>7. Anew(t)
  <2>1. CASE p = Nil
    BY <2>1, <1>2, <1>6 DEF Anew
  <2>2. CASE p # Nil
    <3>1. p \in Pages /\ pt'[p] = [EmptyTable EXCEPT ![0] = TableAt(KernelL1)]
      BY <2>2, <1>1, <1>2, <1>3 DEF Memories
    <3>2. /\ Root(t)' \in Pages
          /\ pt'[Root(t)'] = [EmptyTable EXCEPT ![0] = TableAt(KernelL1)]
      BY <3>1, <1>6
    <3> QED
      BY <3>2, <1>2 DEF Anew
  <2> QED
    BY <2>1, <2>2
<1>8. ASSUME NEW r \in Roots, r # t
      PROVE  Untouched(r)
  <2>1. Root(r)' = Root(r)
    BY <1>5, <1>8 DEF Root, Roots
  <2>2. AllTables(pt, Root(r)) \subseteq used /\ AllTables(pt, Root(r)) \subseteq Pages
    BY <1>1, TablesAreMarked
  <2>3. \A q \in AllTables(pt, Root(r)) : pt'[q] = pt[q]
    BY <2>2, <1>1, <1>2, <1>3 DEF Memories
  <2> QED
    BY <2>1, <2>3 DEF Untouched
<1> QED
  BY <1>2, <1>7, <1>8 DEF Quiet

(* Every step of task_create. *)
LEMMA TaskCreateIsQuiet ==
    ASSUME MemInv, TaskCreate
    PROVE  Quiet /\ walk' = walk
<1>1. Typed /\ as \in [Tasks -> Spaces] /\ CreateOK
  BY DEF MemInv, Typed
<1>2. CASE CreateVm
  BY <1>2, CreateVmIsQuiet
<1>3. CASE CreateAsid
  <2>1. PICK a : as' = [as EXCEPT ![create.task].asid = a]
    BY <1>3 DEF CreateAsid
  <2>2. \A t \in Tasks : as'[t].pgd = as[t].pgd
    BY <2>1, <1>1 DEF Spaces
  <2>3. pt' = pt /\ walk' = walk
    BY <1>3 DEF CreateAsid
  <2> QED
    BY <2>2, <2>3, NothingTouched
<1>4. CASE CreateStack
  <2>1. walk' = walk
    BY <1>4 DEF CreateStack
  <2>2. CASE FirstRun(StackPages) = Nil
    BY <2>1, <2>2, <1>4, NothingTouched DEF CreateStack
  <2>3. CASE FirstRun(StackPages) # Nil
    <3>1. /\ AllocateFresh(FirstRun(StackPages), StackPages)
          /\ as' = [as EXCEPT ![create.task].stack = FirstRun(StackPages)]
      BY <2>3, <1>4 DEF CreateStack
    <3>2. \A t \in Tasks : as'[t].pgd = as[t].pgd
      BY <3>1, <1>1 DEF Spaces
    <3>3. StackPages \in Nat
      BY ConstantFacts
    <3> QED
      BY <2>1, <2>3, <3>1, <3>2, <3>3, FreshUntouched
  <2> QED
    BY <2>2, <2>3
<1>5. CASE CreateUndo
  <2>1. /\ create.step = "undo" /\ Free(SpacePages(create.task))
        /\ as' = [as EXCEPT ![create.task] = NoSpace] /\ walk' = walk
    BY <1>5 DEF CreateUndo
  <2>2. create.task \in Tasks /\ ~ live[create.task]
    <3>1. create # NoCreate
      BY <2>1 DEF NoCreate
    <3> QED
      BY <3>1, <1>1 DEF CreateOK
  <2>3. SpacePages(create.task) \subseteq StackOf(create.task) \cup SpacePages(create.task)
    OBVIOUS
  <2>4. PICK t \in Tasks : t = create.task
    BY <2>2
  <2>5. PICK R : R = SpacePages(t)
    OBVIOUS
  <2> QED
    BY <2>1, <2>2, <2>3, <2>4, <2>5, ReleaseIsQuiet
<1> QED
  BY <1>2, <1>3, <1>4, <1>5 DEF TaskCreate

-----------------------------------------------------------------------------
(* Steps of mm_map_page.                                                     *)

(* The start, at the L0 table. *)
LEMMA MapStartMaps ==
    ASSUME MapInv, MemInv', NEW t \in Tasks, NEW va \in Vaddrs, NEW f \in Frames, MapStart(t, va, f)
    PROVE  MapInv' /\ LocalStep
<1>1. /\ walk' = [task |-> t, va |-> va, frame |-> f, level |-> 0, table |-> as[t].pgd]
      /\ pt' = pt /\ as' = as
  BY DEF MapStart
<1>2. Quiet
  BY <1>1, NothingTouched
<1>3. OneLink' /\ LocalStep
  BY <1>2, QuietLinks, QuietLocal DEF MapInv
<1>4. WalkPath'
  BY <1>1 DEF WalkPath
<1> QED
  BY <1>3, <1>4 DEF MapInv

(* A table descriptor, as a record. *)
LEMMA TableEntry ==
    ASSUME NEW e \in Entries, e.kind = "table"
    PROVE  e = TableAt(e.to) /\ e.to \in Pages
BY DEF Entries, TableAt

(* The entry the walk looks at is the one the hardware reads next. *)
LEMMA WalkReads ==
    ASSUME MemInv, WalkPath, walk # NoWalk
    PROVE  LET g == as[walk.task].pgd
               x == pt[walk.table][Index(walk.va, walk.level)]
           IN  /\ walk.level = 0 => Read0(pt, g, walk.va) = x
               /\ walk.level = 1 => Read1(pt, g, walk.va) = x
               /\ walk.level = 2 => Read2(pt, g, walk.va) = x
<1> DEFINE g == as[walk.task].pgd
           w == walk.table
<1>1. \A k : Hop(pt, TableAt(w), walk.va, k) = pt[w][Index(walk.va, k)]
  BY DEF Hop, TableAt
<1>2. walk.level = 0 => w = g
  BY DEF WalkPath
<1>3. walk.level = 1 => Read0(pt, g, walk.va) = TableAt(w)
  BY DEF WalkPath
<1>4. walk.level = 2 => Read1(pt, g, walk.va) = TableAt(w)
  BY DEF WalkPath
<1>5. walk.level = 0 => Read0(pt, g, walk.va) = pt[w][Index(walk.va, walk.level)]
  BY <1>2 DEF Read0
<1>6. walk.level = 1 => Read1(pt, g, walk.va) = pt[w][Index(walk.va, walk.level)]
  BY <1>1, <1>3 DEF Read1
<1>7. walk.level = 2 => Read2(pt, g, walk.va) = pt[w][Index(walk.va, walk.level)]
  BY <1>1, <1>4 DEF Read2
<1> QED
  BY <1>5, <1>6, <1>7

(* Where a walk arrives. *)
LeadsTo(m, g, va, k, p) ==
    /\ k = 1 => Read0(m, g, va) = TableAt(p)
    /\ k = 2 => Read1(m, g, va) = TableAt(p)
    /\ k = 3 => Read2(m, g, va) = TableAt(p)

LEMMA WalkArrives ==
    ASSUME NEW g, g = as'[walk'.task].pgd, NEW va, va = walk'.va, NEW k \in 1 .. 3, walk'.level = k,
           NEW p, walk'.table = p, LeadsTo(pt', g, va, k, p)
    PROVE  WalkPath'
BY DEF WalkPath, LeadsTo

(* A level that is there already, or the end of the walk. *)
LEMMA MapFollows ==
    ASSUME MapInv, MemInv', walk # NoWalk, walk.level < 3, pt' = pt, as' = as,
           NEW e, e = pt[walk.table][Index(walk.va, walk.level)],
           \/ walk' = NoWalk
           \/ e.kind = "table" /\ walk' = [walk EXCEPT !.level = @ + 1, !.table = e.to]
    PROVE  MapInv' /\ LocalStep
<1>1. Quiet
  BY NothingTouched
<1>2. OneLink' /\ LocalStep
  BY <1>1, QuietLinks, QuietLocal DEF MapInv
<1>3. WalkPath'
  <2>1. CASE walk' = NoWalk
    BY <2>1 DEF WalkPath
  <2>2. CASE e.kind = "table" /\ walk' = [walk EXCEPT !.level = @ + 1, !.table = e.to]
    <3>1. MemInv /\ WalkPath /\ pt \in Memories
      BY DEF MapInv, MemInv, Typed
    <3>2. /\ walk \in [task : Tasks, va : Vaddrs, frame : Frames, level : 0 .. 3, table : Pages]
          /\ walk.va \in Nat
      BY <3>1, WalkIsSomewhere DEF MemInv
    <3>3. e = TableAt(e.to)
      <4>1. Index(walk.va, walk.level) \in Slots
        BY <3>2, IndexIsSlot
      <4>2. e \in Entries
        BY <4>1, <3>1, <3>2 DEF Memories
      <4> QED
        BY <4>2, <2>2, TableEntry
    <3>4. /\ walk'.task = walk.task /\ walk'.va = walk.va /\ walk'.level = walk.level + 1
          /\ walk'.table = e.to
      BY <2>2, <3>2
    <3>5. LET g == as[walk.task].pgd
          IN  /\ walk.level = 0 => Read0(pt, g, walk.va) = e
              /\ walk.level = 1 => Read1(pt, g, walk.va) = e
              /\ walk.level = 2 => Read2(pt, g, walk.va) = e
      BY <3>1, WalkReads
    <3>6. walk.level \in {0, 1, 2}
      BY <3>2
    <3>7. PICK g : g = as[walk.task].pgd
      OBVIOUS
    <3>8. PICK k \in 1 .. 3 : k = walk.level + 1
      BY <3>6
    <3>9. LeadsTo(pt', g, walk.va, k, e.to)
      <4>1. /\ walk.level = 0 => Read0(pt, g, walk.va) = e
            /\ walk.level = 1 => Read1(pt, g, walk.va) = e
            /\ walk.level = 2 => Read2(pt, g, walk.va) = e
        BY <3>5, <3>7, Zenon
      <4>2. /\ k = 1 => walk.level = 0
            /\ k = 2 => walk.level = 1
            /\ k = 3 => walk.level = 2
        BY <3>6, <3>8
      <4>3. pt' = pt
        OBVIOUS
      <4> QED
        BY <4>1, <4>2, <4>3, <3>3, Zenon DEF LeadsTo
    <3>10. g = as'[walk'.task].pgd /\ walk.va = walk'.va /\ walk'.level = k /\ walk'.table = e.to
      BY <3>4, <3>7, <3>8
    <3> QED
      BY <3>9, <3>10, WalkArrives, Zenon
  <2> QED
    BY <2>1, <2>2
<1> QED
  BY <1>2, <1>3 DEF MapInv

(* The tables in use lead only to tables in use. *)
LEMMA InUseClosed ==
    ASSUME MemInv, NEW q \in InUse, NEW i \in Slots, pt[q][i].kind = "table"
    PROVE  pt[q][i].to \in InUse
<1>1. PICK r \in Roots : q \in AllTables(pt, Root(r))
  BY DEF InUse
<1> DEFINE g == Root(r)
<1>2. Tree(pt, g)
  BY DEF MemInv, Trees
<1>3. Nil \in Roots /\ KernelL1 \in AllTables(pt, Root(Nil))
  BY DEF Roots, Root, AllTables, L1
<1>4. pt[q][i].to \in AllTables(pt, g) \/ pt[q][i].to = KernelL1
  <2> HIDE DEF g
  <2>1. CASE q \in L0(g)
    <3>1. g \in Pages /\ q = g /\ g # Shared
      BY <2>1, ConstantFacts DEF L0
    <3>2. CASE i = 0
      BY <2>1, <3>2, <1>2 DEF Tree, TableAt
    <3>3. CASE i # 0
      <4>1. pt[q][i].to \in L1(pt, g)
        BY <3>1, <3>3 DEF L1, TargetsIn
      <4> QED
        BY <4>1 DEF AllTables
    <3> QED
      BY <3>2, <3>3
  <2>2. CASE q \in L1(pt, g)
    BY <2>2, BelowReads DEF L2, AllTables
  <2>3. CASE q \in L2(pt, g)
    BY <2>3, BelowReads DEF L3, AllTables
  <2>4. CASE q \in L3(pt, g)
    BY <2>4, <1>2 DEF Tree
  <2>5. q \in AllTables(pt, g)
    BY <1>1 DEF g
  <2> QED
    BY <2>1, <2>2, <2>3, <2>4, <2>5 DEF AllTables
<1> QED
  BY <1>3, <1>4 DEF InUse

(* A new table for an entry that was invalid. *)
LEMMA MapGrows ==
    ASSUME MapInv, MemInv', walk # NoWalk, walk.level < 3,
           NEW i, i = Index(walk.va, walk.level), NEW p, p = FirstRun(1), p # Nil,
           pt[walk.table][i].kind = "invalid",
           pt' = [pt EXCEPT ![p] = Fresh(p), ![walk.table][i] = TableAt(p)],
           walk' = [walk EXCEPT !.level = @ + 1, !.table = p], as' = as
    PROVE  MapInv' /\ LocalStep
<1>1. MemInv /\ OneLink /\ WalkPath /\ Typed /\ Trees /\ Owned /\ WalkOK /\ pt \in Memories
  BY DEF MapInv, MemInv, Typed
<1>2. /\ walk \in [task : Tasks, va : Vaddrs, frame : Frames, level : 0 .. 3, table : Pages]
      /\ live[walk.task] /\ walk.va \in Nat /\ walk.task \in Tasks /\ walk.level \in 0 .. 2
      /\ WalkRoot \in Roots
      /\ walk.table \in Level(pt, Root(WalkRoot), walk.level)
  BY <1>1, WalkIsSomewhere
<1>3. PICK w \in Pages : w = walk.table
  BY <1>2
<1>4. i \in Slots
  <2>1. walk.level \in 0 .. 3
    BY <1>2
  <2> QED
    BY <1>2, <2>1, IndexIsSlot
<1>5. p \in Pages /\ p \notin used
  <2>1. 1 \in Nat /\ p \in Pages /\ Run(p, 1) \cap used = {}
    BY FirstRunIsFree
  <2> QED
    BY <2>1, SingleRun
<1>6. w \in AllTables(pt, Root(WalkRoot)) /\ w \in InUse
  <2>1. w \in AllTables(pt, Root(WalkRoot))
    BY <1>1, <1>2, <1>3, TablesArePages
  <2> QED
    BY <2>1, <1>2 DEF InUse
<1>7. \A r \in Roots : p \notin AllTables(pt, Root(r)) /\ AllTables(pt, Root(r)) \subseteq Pages
  BY <1>1, <1>5, TablesAreMarked
<1>8. p \notin InUse /\ InUse \subseteq Pages /\ w # p
  BY <1>6, <1>7 DEF InUse
<1>9. Linked(pt, pt', w, i, p)
  <2>1. pt' = [pt EXCEPT ![p] = EmptyTable, ![w][i] = TableAt(p)]
    BY <1>3 DEF Fresh
  <2> QED
    BY <2>1, <1>1, <1>5, <1>8 DEF Linked, Memories
<1>10. pt[w][i].kind = "invalid"
  BY <1>3
<1>11. ASSUME NEW t \in Tasks, live[t], NEW va \in Nat
       PROVE  LET g == as[t].pgd
              IN  /\ Grown(Read0(pt', g, va), Read0(pt, g, va), p)
                  /\ Grown(Read1(pt', g, va), Read1(pt, g, va), p)
                  /\ Grown(Read2(pt', g, va), Read2(pt, g, va), p)
                  /\ Grown(Read3(pt', g, va), Read3(pt, g, va), p)
  <2>1. /\ as[t].pgd \in Pages /\ Root(t) = as[t].pgd /\ Root(Nil) = Shared
        /\ t \in Roots /\ Nil \in Roots /\ Tree(pt, as[t].pgd)
    BY <1>1, <1>11, LiveTree
  <2>2. PICK g \in Pages : g = as[t].pgd
    BY <2>1
  <2>3. p \notin AllTables(pt, g) /\ p \notin AllTables(pt, Shared) /\ Tree(pt, g)
    BY <2>1, <2>2, <1>7
  <2>4. /\ Grown(Read0(pt', g, va), Read0(pt, g, va), p)
        /\ Grown(Read1(pt', g, va), Read1(pt, g, va), p)
        /\ Grown(Read2(pt', g, va), Read2(pt, g, va), p)
        /\ Grown(Read3(pt', g, va), Read3(pt, g, va), p)
    BY <2>3, <1>1, <1>4, <1>5, <1>8, <1>9, <1>10, ReadsGrown
  <2> QED
    BY <2>2, <2>4
<1>12. LocalStep
  <2>1. ASSUME NEW t \in Tasks, NEW va \in Vaddrs, live[t],
               Translates(pt, t, va) \/ Translates(pt', t, va)
        PROVE  Translate(pt', as[t].pgd, va) = Translate(pt, as[t].pgd, va)
    <3>1. va \in Nat
      BY ConstantFacts
    <3>2. Grown(Translate(pt', as[t].pgd, va), Translate(pt, as[t].pgd, va), p)
      BY <2>1, <3>1, <1>11, TranslateReads
    <3>3. PICK new : new = Translate(pt', as[t].pgd, va)
      OBVIOUS
    <3>4. PICK old : old = Translate(pt, as[t].pgd, va)
      OBVIOUS
    <3>5. new.kind \in {"page", "block"} \/ old.kind \in {"page", "block"}
      BY <2>1, <3>3, <3>4, Zenon DEF Translates
    <3>6. Grown(new, old, p)
      BY <3>2, <3>3, <3>4, Zenon
    <3>7. new = old
      BY <3>5, <3>6 DEF Grown, TableAt, Invalid
    <3> QED
      BY <3>3, <3>4, <3>7, Zenon
  <2> QED
    BY <2>1 DEF LocalStep
<1>13. WalkPath'
  <2>1. PICK g : g = as[walk.task].pgd
    OBVIOUS
  <2>2. pt'[w][i] = TableAt(p)
    BY <1>1, <1>4, <1>9 DEF Linked, Memories
  <2>3. /\ walk'.task = walk.task /\ walk'.va = walk.va /\ walk'.level = walk.level + 1
        /\ walk'.table = p
    BY <1>2
  <2>4. /\ Grown(Read0(pt', g, walk.va), Read0(pt, g, walk.va), p)
        /\ Grown(Read1(pt', g, walk.va), Read1(pt, g, walk.va), p)
        /\ Grown(Read2(pt', g, walk.va), Read2(pt, g, walk.va), p)
    BY <1>2, <1>11, <2>1
  <2>5. ASSUME NEW new, Grown(new, TableAt(w), p)
        PROVE  new = TableAt(w)
    BY <2>5 DEF Grown, TableAt
  <2>6. \A k : Hop(pt', TableAt(w), walk.va, k) = pt'[w][Index(walk.va, k)]
    BY DEF Hop, TableAt
  <2>10. g = as'[walk'.task].pgd /\ walk.va = walk'.va
    BY <2>1, <2>3
  <2>7. CASE walk.level = 0
    <3>1. w = g
      BY <2>1, <2>7, <1>1, <1>3 DEF WalkPath
    <3>2. Read0(pt', g, walk.va) = TableAt(p)
      BY <3>1, <2>2, <2>7 DEF Read0
    <3> DEFINE k == 1
    <3>4. k \in 1 .. 3 /\ k = walk.level + 1 /\ k # 2 /\ k # 3
      BY <2>7
    <3>5. walk'.level = k
      BY <2>3, <3>4, Zenon
    <3>6. LeadsTo(pt', g, walk.va, k, p)
      BY <3>2 DEF LeadsTo
    <3> HIDE DEF k
    <3> QED
      BY <3>4, <3>5, <3>6, <2>3, <2>10, WalkArrives, Zenon
  <2>8. CASE walk.level = 1
    <3>1. Read0(pt, g, walk.va) = TableAt(w)
      BY <2>1, <2>8, <1>1, <1>3 DEF WalkPath
    <3>2. Read0(pt', g, walk.va) = TableAt(w)
      BY <3>1, <2>4, <2>5
    <3>3. Read1(pt', g, walk.va) = TableAt(p)
      BY <3>2, <2>2, <2>6, <2>8 DEF Read1
    <3> DEFINE k == 2
    <3>4. k \in 1 .. 3 /\ k = walk.level + 1 /\ k # 1 /\ k # 3
      BY <2>8
    <3>5. walk'.level = k
      BY <2>3, <3>4, Zenon
    <3>6. LeadsTo(pt', g, walk.va, k, p)
      BY <3>3 DEF LeadsTo
    <3> HIDE DEF k
    <3> QED
      BY <3>4, <3>5, <3>6, <2>3, <2>10, WalkArrives, Zenon
  <2>9. CASE walk.level = 2
    <3>1. Read1(pt, g, walk.va) = TableAt(w)
      BY <2>1, <2>9, <1>1, <1>3 DEF WalkPath
    <3>2. Read1(pt', g, walk.va) = TableAt(w)
      BY <3>1, <2>4, <2>5
    <3>3. Read2(pt', g, walk.va) = TableAt(p)
      BY <3>2, <2>2, <2>6, <2>9 DEF Read2
    <3> DEFINE k == 3
    <3>4. k \in 1 .. 3 /\ k = walk.level + 1 /\ k # 1 /\ k # 2
      BY <2>9
    <3>5. walk'.level = k
      BY <2>3, <3>4, Zenon
    <3>6. LeadsTo(pt', g, walk.va, k, p)
      BY <3>3 DEF LeadsTo
    <3> HIDE DEF k
    <3> QED
      BY <3>4, <3>5, <3>6, <2>3, <2>10, WalkArrives, Zenon
  <2> QED
    BY <2>7, <2>8, <2>9, <1>2
<1>14. InUse' \subseteq InUse \cup {p}
  <2>1. ASSUME NEW r \in Roots
        PROVE  AllTables(pt', Root(r)') \subseteq AllTables(pt, Root(r)) \cup {p}
    <3>1. Root(r)' = Root(r)
      BY DEF Root
    <3>2. CASE r # WalkRoot
      <4>1. AllTables(pt, Root(WalkRoot)) \cap AllTables(pt, Root(r)) = {}
        BY <1>1, <1>2, <3>2, OtherTrees
      <4>2. \A q \in AllTables(pt, Root(r)) : pt'[q] = pt[q]
        BY <4>1, <1>6, <1>7, <1>9 DEF Linked
      <4>3. Kept(r)
        BY <4>2, <3>1, <1>1, KeptWhenUntouched
      <4> QED
        BY <4>3, <3>1 DEF Kept
    <3>3. CASE r = WalkRoot
      <4>1. PICK k \in 0 .. 2 : k = walk.level
        BY <1>2
      <4>2. PICK g : g = Root(r)
        OBVIOUS
      <4>3. /\ Tree(pt, g) /\ p \notin AllTables(pt, g) /\ w \in Level(pt, g, k)
            /\ pt[w][i].kind # "table"
        BY <4>1, <4>2, <3>3, <1>1, <1>2, <1>3, <1>7, <1>10 DEF Trees
      <4>4. AllTables(pt', g) = AllTables(pt, g) \cup {p}
        BY <4>3, <1>1, <1>4, <1>5, <1>9, TreeGrows
      <4> QED
        BY <4>2, <4>4, <3>1
    <3> QED
      BY <3>2, <3>3
  <2>2. ASSUME NEW q \in InUse'
        PROVE  q \in InUse \cup {p}
    <3>1. PICK r \in Roots : q \in AllTables(pt', Root(r)')
      BY <2>2 DEF InUse
    <3> QED
      BY <3>1, <2>1 DEF InUse
  <2> QED
    BY <2>2
<1>15. OneLink'
  <2>1. ASSUME NEW q \in InUse', NEW j \in Slots, pt'[q][j].kind = "table"
        PROVE  \/ q = w /\ j = i /\ pt'[q][j] = TableAt(p)
               \/ q \in InUse /\ pt'[q][j] = pt[q][j] /\ pt'[q][j] # TableAt(p)
    <3>1. q # p
      <4>1. q = p => pt'[q][j] = Invalid
        BY <1>9 DEF Linked, EmptyTable
      <4> QED
        BY <4>1, <2>1 DEF Invalid
    <3>2. q \in InUse
      BY <3>1, <1>14
    <3>3. CASE q = w /\ j = i
      BY <3>3, <1>1, <1>4, <1>9 DEF Linked, Memories
    <3>4. CASE ~ (q = w /\ j = i)
      <4>1. pt'[q][j] = pt[q][j]
        BY <3>1, <3>2, <3>4, <1>1, <1>4, <1>8, <1>9 DEF Linked, Memories
      <4>2. pt[q][j].to \in InUse
        BY <4>1, <2>1, <3>2, <1>1, InUseClosed
      <4> QED
        BY <4>1, <4>2, <3>2, <1>8 DEF TableAt
    <3> QED
      BY <3>3, <3>4
  <2>2. ASSUME NEW q \in InUse', NEW s \in InUse', NEW j \in Slots, NEW k \in Slots,
               pt'[q][j].kind = "table", pt'[q][j] = pt'[s][k], pt'[q][j].to # KernelL1
        PROVE  q = s /\ j = k
    <3>1. /\ \/ q = w /\ j = i /\ pt'[q][j] = TableAt(p)
             \/ q \in InUse /\ pt'[q][j] = pt[q][j] /\ pt'[q][j] # TableAt(p)
          /\ \/ s = w /\ k = i /\ pt'[s][k] = TableAt(p)
             \/ s \in InUse /\ pt'[s][k] = pt[s][k] /\ pt'[s][k] # TableAt(p)
      BY <2>1, <2>2, ZenonT(60)
    <3> QED
      BY <3>1, <2>2, <1>1 DEF OneLink
  <2> QED
    BY <2>2 DEF OneLink
<1> QED
  BY <1>12, <1>13, <1>15 DEF MapInv

(* One level of the walk. *)
LEMMA MapWalkMaps ==
    ASSUME MapInv, MemInv', MapWalk
    PROVE  MapInv' /\ LocalStep
<1>1. PICK i : i = Index(walk.va, walk.level)
  OBVIOUS
<1>2. PICK p : p = FirstRun(1)
  OBVIOUS
<1>3. PICK e : e = pt[walk.table][i]
  OBVIOUS
<1>4. /\ walk.task # Nil /\ walk.level < 3 /\ as' = as
      /\ \/ /\ e.kind = "invalid" /\ p # Nil
            /\ pt' = [pt EXCEPT ![p] = Fresh(p), ![walk.table][i] = TableAt(p)]
            /\ walk' = [walk EXCEPT !.level = @ + 1, !.table = p]
         \/ /\ e.kind = "table"
            /\ walk' = [walk EXCEPT !.level = @ + 1, !.table = e.to]
            /\ pt' = pt
         \/ walk' = NoWalk /\ pt' = pt
  BY <1>1, <1>2, <1>3 DEF MapWalk, Descend
<1>5. walk # NoWalk
  BY <1>4 DEF NoWalk
<1>6. CASE /\ e.kind = "invalid" /\ p # Nil
           /\ pt' = [pt EXCEPT ![p] = Fresh(p), ![walk.table][i] = TableAt(p)]
           /\ walk' = [walk EXCEPT !.level = @ + 1, !.table = p]
  BY <1>1, <1>2, <1>3, <1>4, <1>5, <1>6, MapGrows
<1>7. CASE /\ e.kind = "table"
           /\ walk' = [walk EXCEPT !.level = @ + 1, !.table = e.to]
           /\ pt' = pt
  BY <1>1, <1>3, <1>4, <1>5, <1>7, MapFollows
<1>8. CASE walk' = NoWalk /\ pt' = pt
  BY <1>1, <1>3, <1>4, <1>5, <1>8, MapFollows
<1> QED
  BY <1>4, <1>6, <1>7, <1>8

(* OneLink, for a descriptor found in two places. *)
LEMMA LinkedOnce ==
    ASSUME OneLink, NEW p \in InUse, NEW q \in InUse, NEW i \in Slots, NEW j \in Slots,
           NEW e, pt[p][i] = e, pt[q][j] = e, e.kind = "table", e.to # KernelL1
    PROVE  p = q /\ i = j
BY DEF OneLink

(* Two tables of different levels, or of different trees, are different. *)
LEMMA LevelsApart ==
    ASSUME MemInv, NEW t \in Tasks, live[t], NEW r \in Roots, NEW w \in L3(pt, Root(r))
    PROVE  LET g == as[t].pgd
           IN  /\ w \notin L0(g) \cup L1(pt, g) \cup L2(pt, g)
               /\ w \notin L1(pt, Shared) \cup L2(pt, Shared)
<1>1. Typed /\ Owned /\ \A u \in Roots : Tree(pt, Root(u))
  BY DEF MemInv, Trees
<1>2. Root(t) = as[t].pgd /\ Root(Nil) = Shared /\ t \in Roots /\ Nil \in Roots
  BY LiveTree
<1>3. ASSUME NEW u \in Roots
      PROVE  w \notin L0(Root(u)) \cup L1(pt, Root(u)) \cup L2(pt, Root(u))
  <2>1. CASE u = r
    BY <2>1, <1>1 DEF Tree
  <2>2. CASE u # r
    <3>1. AllTables(pt, Root(r)) \cap AllTables(pt, Root(u)) = {}
      BY <2>2, <1>1, OtherTrees
    <3> QED
      BY <3>1 DEF AllTables
  <2> QED
    BY <2>1, <2>2
<1> QED
  BY <1>2, <1>3

(* The last table is reached along one path only: through the same entries,  *)
(* from the same L0 table or from entry 0 of two.                            *)
LastTable(t, va, w) == Read2(pt, as[t].pgd, va) = TableAt(w)

SamePath(t, va, u, vb) ==
    /\ Index(va, 0) = Index(vb, 0) /\ Index(va, 1) = Index(vb, 1)
    /\ Index(va, 2) = Index(vb, 2)
    /\ t = u \/ Index(va, 0) = 0

LEMMA OnePath ==
    ASSUME MapInv, NEW t \in Tasks, live[t], NEW u \in Tasks, live[u],
           NEW va \in Nat, NEW vb \in Nat, NEW w, LastTable(t, va, w), LastTable(u, vb, w)
    PROVE  SamePath(t, va, u, vb)
<1>1. MemInv /\ OneLink /\ Typed /\ Owned /\ pt \in Memories
  BY DEF MapInv, MemInv, Typed
<1> DEFINE g == as[t].pgd
           h == as[u].pgd
<1>2. /\ g \in Pages /\ Root(t) = g /\ t \in Roots /\ Tree(pt, g)
      /\ h \in Pages /\ Root(u) = h /\ u \in Roots /\ Tree(pt, h)
      /\ Nil \in Roots /\ Root(Nil) = Shared /\ Tree(pt, Shared) /\ t # Nil /\ u # Nil
  BY <1>1, LiveTree
<1>3. /\ \A k \in 0 .. 3 : Index(va, k) \in Slots /\ Index(vb, k) \in Slots
  BY IndexIsSlot
<1> DEFINE a0 == Read0(pt, g, va)
           b0 == Read0(pt, h, vb)
           a1 == Read1(pt, g, va)
           b1 == Read1(pt, h, vb)
           a2 == Read2(pt, g, va)
           b2 == Read2(pt, h, vb)
<1>4. /\ a2 = TableAt(w) /\ b2 = TableAt(w) /\ TableAt(w).kind = "table" /\ TableAt(w).to = w
  BY DEF TableAt, LastTable
<1>5. /\ a1.kind = "table" /\ a0.kind = "table" /\ w \in L3(pt, g) \cup L3(pt, Shared)
      /\ a1.to \in L2(pt, g) \cup L2(pt, Shared)
      /\ a0.to \in L1(pt, g) \cup L1(pt, Shared)
      /\ \/ Index(va, 0) = 0 /\ a0.to = KernelL1
         \/ Index(va, 0) # 0 /\ a0.to \in L1(pt, g)
  <2>1. a2.kind = "table" /\ a2.to = w
    BY <1>4
  <2>2. a1.kind = "table" /\ w \in L3(pt, g) \cup L3(pt, Shared)
    BY <2>1, <1>2, ReadLevels
  <2>3. a0.kind = "table" /\ a1.to \in L2(pt, g) \cup L2(pt, Shared)
    BY <2>2, <1>2, ReadLevels
  <2>4. /\ a0.to \in L1(pt, g) \cup L1(pt, Shared)
        /\ \/ Index(va, 0) = 0 /\ a0.to = KernelL1
           \/ Index(va, 0) # 0 /\ a0.to \in L1(pt, g)
    BY <2>3, <1>2, ReadLevels
  <2> QED
    BY <2>2, <2>3, <2>4
<1>6. /\ b1.kind = "table" /\ b0.kind = "table"
      /\ b1.to \in L2(pt, h) \cup L2(pt, Shared)
      /\ b0.to \in L1(pt, h) \cup L1(pt, Shared)
      /\ \/ Index(vb, 0) = 0 /\ b0.to = KernelL1
         \/ Index(vb, 0) # 0 /\ b0.to \in L1(pt, h)
  BY <1>2, <1>4, ReadLevels
<1>7. /\ AllTables(pt, g) \subseteq InUse /\ AllTables(pt, h) \subseteq InUse
      /\ AllTables(pt, Shared) \subseteq InUse
  BY <1>2 DEF InUse
<1>8. /\ a2 = pt[a1.to][Index(va, 2)] /\ b2 = pt[b1.to][Index(vb, 2)]
      /\ a1 = pt[a0.to][Index(va, 1)] /\ b1 = pt[b0.to][Index(vb, 1)]
      /\ a0 = pt[g][Index(va, 0)] /\ b0 = pt[h][Index(vb, 0)]
  BY <1>5, <1>6 DEF Read0, Read1, Read2, Hop
<1>9. KernelL1 \in AllTables(pt, Shared) /\ KernelL1 \notin AllTables(pt, g)
      /\ KernelL1 \notin AllTables(pt, h)
      /\ KernelL1 \notin L2(pt, Shared) \cup L3(pt, Shared)
  <2>1. KernelL1 \in L1(pt, Shared)
    BY DEF L1
  <2>2. AllTables(pt, Shared) \cap AllTables(pt, g) = {} /\ AllTables(pt, Shared) \cap AllTables(pt, h) = {}
    <3>1. AllTables(pt, Root(Nil)) \cap AllTables(pt, Root(t)) = {}
      BY <1>1, <1>2, OtherTrees
    <3>2. AllTables(pt, Root(Nil)) \cap AllTables(pt, Root(u)) = {}
      BY <1>1, <1>2, OtherTrees
    <3> QED
      BY <3>1, <3>2, <1>2
  <2> QED
    BY <2>1, <2>2, <1>2 DEF AllTables, Tree
<1> HIDE DEF g, h, a0, a1, a2, b0, b1, b2
<1>10. /\ a1.to \in InUse /\ b1.to \in InUse /\ a0.to \in InUse /\ b0.to \in InUse
       /\ g \in InUse /\ h \in InUse
  BY <1>2, <1>5, <1>6, <1>7 DEF AllTables, L0
<1>11. w # KernelL1 /\ a1.to # KernelL1 /\ b1.to # KernelL1
  BY <1>5, <1>6, <1>9 DEF AllTables
<1>12. a1.to = b1.to /\ Index(va, 2) = Index(vb, 2)
  <2>1. Index(va, 2) \in Slots /\ Index(vb, 2) \in Slots
    BY <1>3
  <2>2. /\ pt[a1.to][Index(va, 2)] = TableAt(w) /\ pt[b1.to][Index(vb, 2)] = TableAt(w)
        /\ TableAt(w).to # KernelL1
    BY <1>4, <1>8, <1>11, Zenon
  <2> QED
    BY <2>1, <2>2, <1>1, <1>4, <1>10, LinkedOnce
<1>13. a1 \in Entries /\ b1 \in Entries /\ a0 \in Entries /\ b0 \in Entries
  <2>1. \A q \in InUse : q \in Pages
    BY <1>1, TablesAreMarked DEF InUse
  <2>2. /\ Index(va, 1) \in Slots /\ Index(vb, 1) \in Slots
        /\ Index(va, 0) \in Slots /\ Index(vb, 0) \in Slots
    BY <1>3
  <2> QED
    BY <2>1, <2>2, <1>1, <1>8, <1>10 DEF Memories
<1>14. a1 = b1
  <2>1. a1 = TableAt(a1.to) /\ b1 = TableAt(b1.to)
    BY <1>5, <1>6, <1>13, TableEntry
  <2> QED
    BY <2>1, <1>12, Zenon
<1>15. a0.to = b0.to /\ Index(va, 1) = Index(vb, 1)
  <2>1. Index(va, 1) \in Slots /\ Index(vb, 1) \in Slots
    BY <1>3
  <2> QED
    <3>1. pt[a0.to][Index(va, 1)] = a1 /\ pt[b0.to][Index(vb, 1)] = a1
      BY <1>8, <1>14, Zenon
    <3> QED
      BY <3>1, <2>1, <1>1, <1>5, <1>10, <1>11, LinkedOnce
<1>16. a0 = b0
  <2>1. a0 = TableAt(a0.to) /\ b0 = TableAt(b0.to)
    BY <1>5, <1>6, <1>13, TableEntry
  <2> QED
    BY <2>1, <1>15, Zenon
<1>17. CASE a0.to = KernelL1
  <2>1. Index(va, 0) = 0 /\ Index(vb, 0) = 0
    BY <1>17, <1>5, <1>6, <1>9, <1>15 DEF AllTables
  <2> QED
    BY <2>1, <1>12, <1>15 DEF SamePath
<1>18. CASE a0.to # KernelL1
  <2>1. Index(va, 0) \in Slots /\ Index(vb, 0) \in Slots
    BY <1>3
  <2>2. g = h /\ Index(va, 0) = Index(vb, 0)
    <3>1. pt[g][Index(va, 0)] = a0 /\ pt[h][Index(vb, 0)] = a0
      BY <1>8, <1>16, Zenon
    <3> QED
      BY <3>1, <2>1, <1>1, <1>5, <1>10, <1>18, LinkedOnce
  <2>3. t = u
    <3>1. g \in AllTables(pt, Root(t)) /\ g \in AllTables(pt, Root(u))
      BY <1>2, <2>2 DEF AllTables, L0
    <3> QED
      BY <3>1, <1>1, <1>2, OtherTrees
  <2> QED
    BY <2>2, <2>3, <1>12, <1>15 DEF SamePath
<1> QED
  BY <1>17, <1>18

(* The last level: only the address of the walk is translated anew. *)
LEMMA MapLeafMaps ==
    ASSUME MapInv, MemInv', MapLeaf
    PROVE  MapInv' /\ LocalStep
<1>1. MemInv /\ OneLink /\ WalkPath /\ Typed /\ Trees /\ Owned /\ WalkOK /\ pt \in Memories
  BY DEF MapInv, MemInv, Typed
<1>2. PICK i : i = Index(walk.va, 3)
  OBVIOUS
<1>3. /\ walk.task # Nil /\ walk.level = 3 /\ walk' = NoWalk /\ as' = as
      /\ pt' = [pt EXCEPT ![walk.table][i] = Leaf(walk.frame)]
  BY <1>2 DEF MapLeaf
<1>4. walk # NoWalk
  BY <1>3 DEF NoWalk
<1>5. /\ walk \in [task : Tasks, va : Vaddrs, frame : Frames, level : 0 .. 3, table : Pages]
      /\ live[walk.task] /\ walk.va \in Nat /\ walk.task \in Tasks
      /\ WalkRoot \in Roots
      /\ walk.table \in Level(pt, Root(WalkRoot), walk.level)
  BY <1>1, <1>4, WalkIsSomewhere
<1>6. PICK w \in Pages : w = walk.table
  BY <1>5
<1>7. i \in Slots
  BY <1>2, <1>5, IndexIsSlot
<1>8. w \in L3(pt, Root(WalkRoot)) /\ w \in AllTables(pt, Root(WalkRoot)) /\ w \in InUse
  <2>1. w \in L3(pt, Root(WalkRoot))
    BY <1>3, <1>5, <1>6 DEF Level
  <2> QED
    BY <2>1, <1>5 DEF AllTables, InUse
<1>9. /\ \A q \in Pages : q # w => pt'[q] = pt[q]
      /\ \A j \in Slots : j # i => pt'[w][j] = pt[w][j]
      /\ pt'[w][i] = Leaf(walk.frame)
  BY <1>1, <1>3, <1>6, <1>7 DEF Memories
<1>10. WalkPath'
  BY <1>3 DEF WalkPath
<1>11. \A r \in Roots : AllTables(pt', Root(r)') = AllTables(pt, Root(r))
  <2>1. ASSUME NEW r \in Roots
        PROVE  AllTables(pt', Root(r)') = AllTables(pt, Root(r))
    <3>1. Root(r)' = Root(r)
      BY <1>3 DEF Root
    <3>2. PICK g : g = Root(r)
      OBVIOUS
    <3>3. Tree(pt, g) /\ AllTables(pt, g) \subseteq Pages
      BY <3>2, <1>1, TablesAreMarked DEF Trees
    <3>4. w \notin L0(g) \cup L1(pt, g) \cup L2(pt, g)
      <4>1. CASE r = WalkRoot
        BY <4>1, <3>2, <3>3, <1>8 DEF Tree
      <4>2. CASE r # WalkRoot
        <5>1. AllTables(pt, Root(WalkRoot)) \cap AllTables(pt, Root(r)) = {}
          BY <4>2, <1>1, <1>5, OtherTrees
        <5> QED
          BY <5>1, <3>2, <1>8 DEF AllTables
      <4> QED
        BY <4>1, <4>2
    <3>5. \A q \in L0(g) \cup L1(pt, g) \cup L2(pt, g) : pt'[q] = pt[q]
      BY <3>3, <3>4, <1>9 DEF AllTables
    <3>6. \A q \in L3(pt, g), j \in Slots : pt'[q][j].kind # "table"
      <4>1. ASSUME NEW q \in L3(pt, g), NEW j \in Slots
            PROVE  pt'[q][j].kind # "table"
        <5>1. q \in Pages /\ pt[q][j].kind # "table"
          BY <3>3 DEF AllTables, Tree
        <5>2. pt'[q][j] = pt[q][j] \/ pt'[q][j] = Leaf(walk.frame)
          BY <5>1, <1>9
        <5>3. Leaf(walk.frame).kind # "table"
          BY DEF Leaf
        <5> QED
          BY <5>1, <5>2, <5>3
      <4> QED
        BY <4>1
    <3>7. AllTables(pt', g) = AllTables(pt, g)
      <4>1. PICK n : n = pt'
        OBVIOUS
      <4>2. /\ \A q \in L0(g) \cup L1(pt, g) \cup L2(pt, g) : n[q] = pt[q]
            /\ \A q \in L3(pt, g), j \in Slots : n[q][j].kind # "table"
        BY <4>1, <3>5, <3>6
      <4>3. /\ Tree(n, g)
            /\ \A k : Level(n, g, k) = Level(pt, g, k)
            /\ AllTables(n, g) = AllTables(pt, g)
        BY <4>2, <3>3, TreeSame
      <4> QED
        BY <4>1, <4>3
    <3> QED
      BY <3>1, <3>2, <3>7
  <2> QED
    BY <2>1
<1>12. OneLink'
  <2>1. InUse' = InUse /\ InUse \subseteq Pages
    BY <1>1, <1>11, TablesAreMarked DEF InUse
  <2>2. ASSUME NEW q \in InUse, NEW j \in Slots, pt'[q][j].kind = "table"
        PROVE  pt'[q][j] = pt[q][j]
    <3>1. pt'[q][j] = pt[q][j] \/ pt'[q][j] = Leaf(walk.frame)
      BY <2>1, <1>9
    <3> QED
      BY <3>1, <2>2 DEF Leaf
  <2>3. ASSUME NEW q \in InUse, NEW s \in InUse, NEW j \in Slots, NEW k \in Slots,
               pt'[q][j].kind = "table", pt'[q][j] = pt'[s][k], pt'[q][j].to # KernelL1
        PROVE  q = s /\ j = k
    <3>1. pt'[q][j] = pt[q][j] /\ pt'[s][k] = pt[s][k]
      BY <2>2, <2>3
    <3>2. PICK e : e = pt'[q][j]
      OBVIOUS
    <3>3. pt[q][j] = e /\ pt[s][k] = e /\ e.kind = "table" /\ e.to # KernelL1
      BY <3>1, <3>2, <2>3, Zenon
    <3> QED
      BY <3>3, <1>1, LinkedOnce
  <2> QED
    BY <2>1, <2>3 DEF OneLink
<1>13. ASSUME NEW t \in Tasks, NEW va \in Vaddrs, live[t],
              Translate(pt', as[t].pgd, va) # Translate(pt, as[t].pgd, va)
       PROVE  walk.va = va /\ (walk.task = t \/ Index(va, 0) = 0)
  <2>1. /\ as[t].pgd \in Pages /\ Tree(pt, as[t].pgd) /\ Root(t) = as[t].pgd
        /\ Root(Nil) = Shared /\ t \in Roots /\ Nil \in Roots /\ va \in Nat
    BY <1>1, <1>13, LiveTree, ConstantFacts
  <2>2. PICK g \in Pages : g = as[t].pgd
    BY <2>1
  <2>3. /\ w \notin L0(g) \cup L1(pt, g) \cup L2(pt, g)
        /\ w \notin L1(pt, Shared) \cup L2(pt, Shared)
    BY <2>2, <1>1, <1>5, <1>8, <1>13, LevelsApart
  <2>4. AllTables(pt, g) \subseteq Pages /\ AllTables(pt, Shared) \subseteq Pages
    BY <1>1, TablesArePages
  <2>5. \A q \in L0(g) \cup L1(pt, g) \cup L2(pt, g) \cup L1(pt, Shared) \cup L2(pt, Shared) :
           pt'[q] = pt[q]
    BY <2>3, <2>4, <1>9 DEF AllTables
  <2>6. Read2(pt', g, va) = Read2(pt, g, va)
    BY <2>1, <2>2, <2>5, ReadsSame, ZenonT(60)
  <2>7. Read3(pt', g, va) # Read3(pt, g, va)
    BY <1>13, <2>2, TranslateReads
  <2>8. PICK e : e = Read2(pt, g, va)
    OBVIOUS
  <2>9. Hop(pt', e, va, 3) # Hop(pt, e, va, 3)
    BY <2>6, <2>7, <2>8, Zenon DEF Read3
  <2>10. e.kind = "table" /\ pt'[e.to][Index(va, 3)] # pt[e.to][Index(va, 3)]
    BY <2>9 DEF Hop
  <2>11. e.to \in L3(pt, g) \cup L3(pt, Shared)
    BY <2>1, <2>2, <2>8, <2>10, ReadLevels
  <2>12. e.to \in Pages /\ Index(va, 3) \in Slots
    BY <2>1, <2>4, <2>11, IndexIsSlot DEF AllTables
  <2>13. e.to = w /\ Index(va, 3) = i
    BY <2>10, <2>12, <1>9
  <2>14. e = TableAt(w)
    <3>1. Read1(pt, g, va).kind = "table" /\ Read1(pt, g, va).to \in L2(pt, g) \cup L2(pt, Shared)
      BY <2>1, <2>2, <2>8, <2>10, ReadLevels
    <3>2. PICK x : x = Read1(pt, g, va)
      OBVIOUS
    <3>3. x.to \in Pages /\ x.kind = "table"
      BY <3>1, <3>2, <2>4 DEF AllTables
    <3>4. e = pt[x.to][Index(va, 2)]
      BY <3>2, <3>3, <2>8 DEF Read2, Hop
    <3>5. Index(va, 2) \in Slots
      BY <2>1, IndexIsSlot
    <3>6. e \in Entries
      BY <3>3, <3>4, <3>5, <1>1 DEF Memories
    <3> QED
      BY <3>6, <2>10, <2>13, TableEntry
  <2>15. PICK u \in Tasks : u = walk.task
    BY <1>5
  <2>16. Read2(pt, as[u].pgd, walk.va) = TableAt(w)
    BY <1>1, <1>3, <1>4, <1>6, <2>15 DEF WalkPath
  <2>17. Read2(pt, as[t].pgd, va) = TableAt(w)
    BY <2>2, <2>8, <2>14
  <2>18. /\ Index(va, 0) = Index(walk.va, 0) /\ Index(va, 1) = Index(walk.va, 1)
         /\ Index(va, 2) = Index(walk.va, 2)
         /\ t = u \/ Index(va, 0) = 0
    <3>1. PICK vb \in Nat : vb = walk.va
      BY <1>5
    <3>2. live[t] /\ live[u] /\ va \in Nat /\ Read2(pt, as[u].pgd, vb) = TableAt(w)
      BY <3>1, <2>1, <2>15, <2>16, <1>5, <1>13
    <3> QED
      <4>1. LastTable(t, va, w) /\ LastTable(u, vb, w)
        BY <3>2, <2>17 DEF LastTable
      <4>2. SamePath(t, va, u, vb)
        BY <4>1, <3>2, OnePath
      <4> QED
        BY <4>2, <3>1 DEF SamePath
  <2>19. walk.va \in Vaddrs
    BY <1>5
  <2>20. va = walk.va
    BY <2>13, <2>18, <2>19, <1>2, IndicesTell
  <2> QED
    BY <2>15, <2>18, <2>20
<1>14. LocalStep
  BY <1>3, <1>13 DEF LocalStep
<1> QED
  BY <1>10, <1>12, <1>14 DEF MapInv

-----------------------------------------------------------------------------
(* All steps.                                                                *)

(* Every step keeps the invariant and is local. *)
LEMMA NextMaps ==
    ASSUME KfreeSmall = FALSE, MapInv, Next
    PROVE  MapInv' /\ LocalStep
<1>1. MemInv
  BY DEF MapInv
<1>2. MemInv'
  BY <1>1, NextKeeps
<1>3. CASE TaskCreate
  BY <1>1, <1>2, <1>3, TaskCreateIsQuiet, QuietKeeps
<1>4. CASE \E t \in Tasks : Exit(t) \/ TaskDestroy(t)
  BY <1>1, <1>2, <1>4, EndsAreQuiet, QuietKeeps
<1>5. CASE \E t \in Tasks, va \in Vaddrs, f \in Frames : MapStart(t, va, f)
  BY <1>2, <1>5, MapStartMaps
<1>6. CASE MapWalk
  BY <1>2, <1>6, MapWalkMaps
<1>7. CASE MapLeaf
  BY <1>2, <1>7, MapLeafMaps
<1>8. CASE \E n \in ClientSizes : ClientAlloc(n)
  BY <1>1, <1>2, <1>8, ClientsAreQuiet, QuietKeeps
<1>9. CASE \E run \in clients : ClientFree(run)
  BY <1>1, <1>2, <1>9, ClientsAreQuiet, QuietKeeps
<1>10. CASE \E size \in Sizes : KmallocSlab(size) \/ KmallocPage(size)
  BY <1>1, <1>2, <1>10, KmallocIsQuiet, QuietKeeps
<1>11. CASE \E o \in objects : Kfree(o)
  BY <1>1, <1>2, <1>11, KfreeIsQuiet, QuietKeeps
<1> QED
  BY <1>3, <1>4, <1>5, <1>6, <1>7, <1>8, <1>9, <1>10, <1>11 DEF Next

(* A step that changes no variable. *)
LEMMA StutterMaps ==
    ASSUME MapInv, UNCHANGED vars
    PROVE  MapInv'
<1>1. MemInv' /\ pt' = pt /\ as' = as /\ walk' = walk
  BY StutterKeeps DEF MapInv, vars
<1>2. Quiet
  BY <1>1, NothingTouched
<1> QED
  BY <1>1, <1>2, QuietKeeps

(* After mm_init and mm_create_page_tables. *)
LEMMA InitMaps ==
    ASSUME Init
    PROVE  MapInv
<1>1. MemInv
  BY InitOK
<1>2. WalkPath
  BY DEF Init, WalkPath
<1>3. KernelL1 \in Pages /\ KernelL2 \in Pages /\ KernelL1 # KernelL2
  BY ConstantFacts DEF KernelL1, KernelL2
<1>4. ASSUME NEW p \in InUse, NEW i \in Slots, pt[p][i].kind = "table"
      PROVE  p = KernelL1 /\ i = 0
  <2>1. p \in Pages
    BY <1>1, TablesAreMarked DEF InUse, MemInv
  <2>2. CASE p = KernelL1
    BY <2>1, <2>2, <1>3, <1>4 DEF Init, EmptyTable, Invalid
  <2>3. CASE p = KernelL2
    BY <2>1, <2>3, <1>3, <1>4 DEF Init, EmptyTable, Invalid, Block
  <2>4. CASE p # KernelL1 /\ p # KernelL2
    BY <2>1, <2>4, <1>4 DEF Init, EmptyTable, Invalid
  <2> QED
    BY <2>2, <2>3, <2>4
<1>5. OneLink
  BY <1>4 DEF OneLink
<1> QED
  BY <1>1, <1>2, <1>5 DEF MapInv

(* MapIsLocal: while drivers free no small objects, the translation of an    *)
(* address of a live task changes only when mm_map_page sets it for that     *)
(* very address, for every number of pages, tasks and table entries.         *)
THEOREM MappingIsLocal ==
    ASSUME KfreeSmall = FALSE
    PROVE  Spec => MapIsLocal
<1>1. Init => MapInv
  BY InitMaps
<1>2. MapInv /\ [Next]_vars => MapInv'
  BY NextMaps, StutterMaps
<1>3. MapInv /\ [Next]_vars => [pt' # pt => LocalStep]_vars
  BY NextMaps
<1>4. Spec => [][pt' # pt => LocalStep]_vars
  BY <1>1, <1>2, <1>3, PTL DEF Spec
<1> QED
  BY <1>4 DEF MapIsLocal, LocalStep
=============================================================================
