--------------------------- MODULE Desktop_proofs ---------------------------
(***************************************************************************)
(* Proofs about the desktop and its window manager for every number of     *)
(* window slots, every set of apps and every set of mouse positions.       *)
(***************************************************************************)
EXTENDS Desktop, FiniteSetTheorems, SequenceTheorems, TLAPS

-----------------------------------------------------------------------------
(* The inductive invariant.                                                  *)

AppNames == {"Terminal", "Snake", "Tetris", "Raycaster", "Breakout"}

Window == [title : AppNames \cup {"none"}, x : Int, y : Int, w : Int, h : Int,
           visible : BOOLEAN, focused : BOOLEAN, dragging : BOOLEAN,
           drag_ox : Int, drag_oy : Int, content : BOOLEAN]

WmTyped(m) == m \in [win : [Slots -> Window], z : Seq(Slots), prev : BOOLEAN, owned : Int]

Open(m) == {i \in Slots : m.win[i].visible}

\* z lists the members of S, each of them once.
Lists(z, S) ==
    /\ z \in Seq(S)
    /\ \A i \in S : \E n \in 1 .. Len(z) : z[n] = i
    /\ \A n, k \in 1 .. Len(z) : z[n] = z[k] => n = k

\* A title bar that can be reached, and a mouse that holds the window where it is dragged.
Reachable(win) ==
    /\ win.x < FB_WIDTH /\ win.x + win.w > 0
    /\ win.y >= 0 /\ win.y + TITLEBAR_H <= FB_HEIGHT - TASKBAR_H
    /\ win.dragging => win.drag_ox >= 0 /\ win.drag_ox < win.w

\* The window manager between two changes of focus ...
WmBase(m) ==
    /\ WmTyped(m)
    /\ Lists(m.z, Open(m))
    /\ m.owned = Cardinality(Open(m))
    /\ \A i \in Slots : m.win[i].content <=> m.win[i].visible
    /\ \A i \in Open(m) : Reachable(m.win[i])
    /\ \A i, j \in Slots : m.win[i].dragging /\ m.win[j].dragging => i = j
    /\ \A i \in Slots : m.win[i].dragging => m.prev

\* ... and between two calls: the window on top has the focus.
TopFocused(m) ==
    \A i \in Slots : m.win[i].focused <=> m.z # <<>> /\ i = m.z[Len(m.z)]

DeskInv ==
    /\ WmBase(wm)
    /\ TopFocused(wm)
    /\ win_app_type \in [Slots -> AppNames \cup {"none"}]
    /\ \A i \in Slots : wm.win[i].visible <=> win_app_type[i] # "none"
    /\ \A i, j \in Slots : win_app_type[i] # "none" /\ win_app_type[i] = win_app_type[j] => i = j
    /\ prev_left \in BOOLEAN
    /\ wm.prev => prev_left

-----------------------------------------------------------------------------
(* Lists of windows.                                                         *)

(* A nonempty set of naturals has a least element. *)
LEMMA LeastNatural ==
    ASSUME NEW S, S \subseteq Nat, S # {}
    PROVE  \E m \in S : \A j \in S : m <= j
<1>1. PICK m \in S : \A j \in S : ~ (<<j, m>> \in OpToRel(<, Nat))
  BY NatLessThanWellFounded, WFMin
<1>2. \A j \in S : ~ (j < m)
  BY <1>1 DEF OpToRel
<1> QED
  BY <1>2

(* A list of the windows has one entry for each. *)
LEMMA ListLength ==
    ASSUME NEW S, NEW z, Lists(z, S)
    PROVE  /\ Len(z) \in Nat /\ z \in [1 .. Len(z) -> S]
           /\ IsFiniteSet(S) /\ Cardinality(S) = Len(z)
           /\ {z[n] : n \in 1 .. Len(z)} = S
<1>1. Len(z) \in Nat /\ z \in [1 .. Len(z) -> S]
  BY LenProperties DEF Lists
<1>2. z \in Bijection(1 .. Len(z), S)
  BY <1>1 DEF Lists, Bijection, Injection, Surjection, IsInjective
<1>3. ExistsBijection(1 .. Len(z), S)
  BY <1>2 DEF ExistsBijection
<1>4. IsFiniteSet(S) /\ Cardinality(S) = Len(z)
  BY <1>1, <1>3, FS_NatBijection, FS_CountingElements
<1>5. {z[n] : n \in 1 .. Len(z)} = S
  BY <1>1 DEF Lists
<1> QED
  BY <1>1, <1>4, <1>5

(* Taking an entry out of the list. *)
LEMMA WithoutLists ==
    ASSUME NEW S, NEW z, Lists(z, S), NEW id \in S
    PROVE  Lists(Without(z, id), S \ {id})
<1> DEFINE those == {n \in 1 .. Len(z) : z[n] = id}
           pos == CHOOSE n \in those : \A k \in those : n <= k
           v == [n \in 1 .. Len(z) - 1 |-> IF n < pos THEN z[n] ELSE z[n + 1]]
<1>1. Len(z) \in Nat /\ z \in [1 .. Len(z) -> S]
  BY ListLength
<1>2. \A n, k \in 1 .. Len(z) : z[n] = z[k] => n = k
  BY DEF Lists
<1>3. those # {} /\ those \subseteq Nat
  BY SMTT(30) DEF Lists
<1>4. pos \in 1 .. Len(z) /\ z[pos] = id
  <2>1. \E n \in those : \A k \in those : n <= k
    <3> HIDE DEF those
    <3> QED
      BY <1>3, LeastNatural
  <2>2. pos \in those
    <3> HIDE DEF those
    <3> QED
      BY <2>1
  <2> HIDE DEF pos
  <2> QED
    BY <2>2
<1>5. Without(z, id) = v
  <2>1. those # {}
    BY <1>3
  <2> QED
    BY <2>1 DEF Without
<1> HIDE DEF pos, those
<1>6. \A n \in 1 .. Len(z) - 1 : /\ n < pos => v[n] = z[n] /\ n \in 1 .. Len(z)
                                 /\ ~ (n < pos) => v[n] = z[n + 1] /\ n + 1 \in 1 .. Len(z)
  BY <1>1, <1>4
<1>7. Len(z) - 1 \in Nat
  BY <1>1, <1>4
<1>8. v \in Seq(S \ {id}) /\ Len(v) = Len(z) - 1
  <2>1. \A n \in 1 .. Len(z) - 1 : v[n] \in S \ {id}
    <3> SUFFICES ASSUME NEW n \in 1 .. Len(z) - 1 PROVE v[n] \in S \ {id}
      OBVIOUS
    <3>1. CASE n < pos
      <4>1. v[n] = z[n] /\ n \in 1 .. Len(z) /\ n # pos
        BY <1>4, <1>6, <3>1
      <4> QED
        BY <1>1, <1>2, <1>4, <4>1
    <3>2. CASE ~ (n < pos)
      <4>1. v[n] = z[n + 1] /\ n + 1 \in 1 .. Len(z) /\ n + 1 # pos
        BY <1>4, <1>6, <3>2
      <4> QED
        BY <1>1, <1>2, <1>4, <4>1
    <3> QED
      BY <3>1, <3>2
  <2>2. v \in [1 .. Len(z) - 1 -> S \ {id}]
    BY <2>1
  <2>3. v \in Seq(S \ {id})
    BY <1>7, <2>2, SeqDef
  <2> QED
    BY <1>7, <2>2, <2>3, LenProperties
<1> HIDE DEF v
<1>9. ASSUME NEW i \in S \ {id} PROVE \E n \in 1 .. Len(z) - 1 : v[n] = i
  <2>1. PICK k \in 1 .. Len(z) : z[k] = i
    BY DEF Lists
  <2>2. CASE k < pos
    <3>1. k \in 1 .. Len(z) - 1
      BY <1>1, <1>4, <2>2
    <3> QED
      BY <1>6, <2>1, <2>2, <3>1
  <2>3. CASE ~ (k < pos)
    <3>1. k # pos
      BY <1>4, <2>1
    <3>2. k - 1 \in 1 .. Len(z) - 1 /\ ~ (k - 1 < pos) /\ (k - 1) + 1 = k
      BY <1>1, <1>4, <2>3, <3>1
    <3> QED
      BY <1>6, <2>1, <3>2
  <2> QED
    BY <2>2, <2>3
<1>10. ASSUME NEW n \in 1 .. Len(z) - 1, NEW k \in 1 .. Len(z) - 1, v[n] = v[k] PROVE n = k
  <2> DEFINE O(j) == IF j < pos THEN j ELSE j + 1
  <2>1. \A j \in 1 .. Len(z) - 1 : O(j) \in 1 .. Len(z) /\ v[j] = z[O(j)]
    BY <1>6
  <2>2. O(n) = O(k)
    <3> HIDE DEF O
    <3> QED
      BY <1>2, <1>10, <2>1
  <2> QED
    BY <1>1, <1>4, <2>2
<1> QED
  BY <1>5, <1>8, <1>9, <1>10 DEF Lists

(* Adding an entry on top of the list. *)
LEMMA AppendLists ==
    ASSUME NEW S, NEW z, Lists(z, S), NEW id, id \notin S
    PROVE  Lists(Append(z, id), S \cup {id})
<1> DEFINE T == S \cup {id}
           v == Append(z, id)
<1>1. Len(z) \in Nat /\ z \in [1 .. Len(z) -> S] /\ z \in Seq(S)
  BY ListLength DEF Lists
<1>2. z \in Seq(T) /\ id \in T
  BY <1>1, SeqMonotonic
<1>3. /\ v \in Seq(T) /\ Len(v) = Len(z) + 1
      /\ \A i \in 1 .. Len(z) : v[i] = z[i]
      /\ v[Len(z) + 1] = id
  <2> HIDE DEF T
  <2> QED
    BY <1>2, AppendProperties
<1> HIDE DEF v
<1>4. \A n \in 1 .. Len(v) : n \in 1 .. Len(z) \/ n = Len(z) + 1
  BY <1>1, <1>3
<1>5. Len(z) + 1 \in 1 .. Len(v) /\ \A n \in 1 .. Len(z) : n \in 1 .. Len(v)
  BY <1>1, <1>3
<1>6. \A i \in T : \E n \in 1 .. Len(v) : v[n] = i
  BY <1>3, <1>5 DEF Lists
<1>7. \A n, k \in 1 .. Len(v) : v[n] = v[k] => n = k
  <2> SUFFICES ASSUME NEW n \in 1 .. Len(v), NEW k \in 1 .. Len(v), v[n] = v[k] PROVE n = k
    OBVIOUS
  <2>1. CASE n \in 1 .. Len(z) /\ k \in 1 .. Len(z)
    BY <1>3, <2>1 DEF Lists
  <2>2. CASE n = Len(z) + 1 /\ k \in 1 .. Len(z)
    BY <1>1, <1>3, <2>2
  <2>3. CASE k = Len(z) + 1 /\ n \in 1 .. Len(z)
    BY <1>1, <1>3, <2>3
  <2>4. CASE k = Len(z) + 1 /\ n = Len(z) + 1
    BY <2>4
  <2> QED
    BY <1>4, <2>1, <2>2, <2>3, <2>4
<1> QED
  BY <1>3, <1>6, <1>7 DEF Lists, v

(* Moving an entry to the top of the list. *)
LEMMA MoveToTopLists ==
    ASSUME NEW S, NEW z, Lists(z, S), NEW id \in S
    PROVE  /\ Lists(MoveToTop(z, id), S)
           /\ MoveToTop(z, id) # <<>>
           /\ MoveToTop(z, id)[Len(MoveToTop(z, id))] = id
<1> DEFINE v == Without(z, id)
<1>1. Lists(v, S \ {id})
  BY WithoutLists
<1>2. MoveToTop(z, id) = Append(v, id)
  BY DEF Lists, MoveToTop
<1> HIDE DEF v
<1>3. Lists(Append(v, id), S)
  <2>1. Lists(Append(v, id), (S \ {id}) \cup {id})
    BY <1>1, AppendLists
  <2>2. (S \ {id}) \cup {id} = S
    OBVIOUS
  <2> QED
    BY <2>1, <2>2
<1>4. Append(v, id) # <<>> /\ Append(v, id)[Len(Append(v, id))] = id
  <2>1. v \in Seq(S) /\ id \in S
    <3>1. v \in Seq(S \ {id}) /\ S \ {id} \subseteq S
      BY <1>1 DEF Lists
    <3> QED
      BY <3>1, SeqMonotonic
  <2> QED
    BY <2>1, AppendProperties
<1> QED
  BY <1>2, <1>3, <1>4

-----------------------------------------------------------------------------
(* The operations of the window manager.                                     *)

\* Two windows that differ in their focus at most.
Alike(a, b) ==
    /\ b.visible = a.visible /\ b.dragging = a.dragging /\ b.content = a.content
    /\ b.x = a.x /\ b.y = a.y /\ b.w = a.w /\ b.h = a.h
    /\ b.drag_ox = a.drag_ox /\ b.drag_oy = a.drag_oy

(* wm_focus_window of a visible window puts it on top and changes nothing    *)
(* but the order and the focus.                                              *)
LEMMA FocusOK ==
    ASSUME NEW m, WmBase(m), NEW id \in Open(m)
    PROVE  LET n == wm_focus_window(m, id) IN
             /\ WmBase(n) /\ TopFocused(n)
             /\ n.z # <<>> /\ n.z[Len(n.z)] = id
             /\ n.prev = m.prev /\ Open(n) = Open(m)
             /\ \A i \in Slots : Alike(m.win[i], n.win[i]) /\ (n.win[i].focused <=> i = id)
<1> DEFINE n == wm_focus_window(m, id)
           W == [i \in Slots |-> [m.win[i] EXCEPT !.focused = (i = id)]]
           Z == MoveToTop(m.z, id)
<1>1. m \in [win : [Slots -> Window], z : Seq(Slots), prev : BOOLEAN, owned : Int]
  BY DEF WmBase, WmTyped
<1>2. id \in Slots /\ m.win[id].visible
  BY DEF Open
<1>3. n = [m EXCEPT !.win = W, !.z = Z]
  BY <1>2 DEF wm_focus_window
<1>4. /\ Lists(Z, Open(m)) /\ Z # <<>> /\ Z[Len(Z)] = id
  BY MoveToTopLists DEF WmBase
<1>5. Z \in Seq(Slots)
  <2>1. Z \in Seq(Open(m)) /\ Open(m) \subseteq Slots
    BY <1>4 DEF Lists, Open
  <2> QED
    BY <2>1, SeqMonotonic
<1>6. ASSUME NEW i \in Slots
      PROVE  W[i] \in Window /\ Alike(m.win[i], W[i]) /\ (W[i].focused <=> i = id)
  <2>1. m.win[i] \in Window
    BY <1>1
  <2> DEFINE a == m.win[i]
             v == (i = id)
  <2>2. v \in BOOLEAN /\ W[i] = [a EXCEPT !.focused = v] /\ a \in Window
    BY <2>1
  <2> HIDE DEF a, v
  <2>3. W[i] \in Window /\ W[i].focused = v /\ Alike(a, W[i])
    BY <2>2 DEF Window, Alike
  <2> QED
    BY <2>3 DEF a, v
<1>7. W \in [Slots -> Window]
  BY <1>6
<1> HIDE DEF W, Z
<1>8. /\ n \in [win : [Slots -> Window], z : Seq(Slots), prev : BOOLEAN, owned : Int]
      /\ n.win = W /\ n.z = Z /\ n.prev = m.prev /\ n.owned = m.owned
  BY <1>1, <1>3, <1>5, <1>7
<1> HIDE DEF n
<1>9. \A i \in Slots : Alike(m.win[i], n.win[i]) /\ (n.win[i].focused <=> i = id)
  BY <1>6, <1>8
<1>10. Open(n) = Open(m)
  BY <1>9 DEF Open, Alike
<1>11. WmBase(n)
  <2>1. \A i \in Slots : n.win[i].content <=> n.win[i].visible
    BY <1>9 DEF WmBase, Alike
  <2>2. \A i \in Open(n) : Reachable(n.win[i])
    <3> SUFFICES ASSUME NEW i \in Open(m) PROVE Reachable(n.win[i])
      BY <1>10
    <3>1. i \in Slots /\ Reachable(m.win[i])
      BY DEF Open, WmBase
    <3> QED
      BY <1>9, <3>1 DEF Reachable, Alike
  <2>3. \A i, j \in Slots : n.win[i].dragging /\ n.win[j].dragging => i = j
    BY <1>9 DEF WmBase, Alike
  <2>4. \A i \in Slots : n.win[i].dragging => n.prev
    BY <1>8, <1>9 DEF WmBase, Alike
  <2>5. Lists(n.z, Open(n)) /\ n.owned = Cardinality(Open(n))
    BY <1>4, <1>8, <1>10 DEF WmBase
  <2> QED
    BY <1>8, <2>1, <2>2, <2>3, <2>4, <2>5 DEF WmBase, WmTyped
<1>12. TopFocused(n)
  BY <1>4, <1>8, <1>9 DEF TopFocused
<1> QED
  BY <1>4, <1>8, <1>9, <1>10, <1>11, <1>12 DEF n

(* The slot wm_create_window takes is one that is not in use. *)
LEMMA FreeSlotFacts ==
    ASSUME NEW m, FreeSlot(m) # -1
    PROVE  FreeSlot(m) \in Slots /\ ~ m.win[FreeSlot(m)].visible
<1> DEFINE free == {i \in Slots : ~ m.win[i].visible}
<1>1. free # {} /\ FreeSlot(m) = CHOOSE i \in free : \A j \in free : i <= j
  BY DEF FreeSlot
<1>2. free \subseteq Nat
  BY MaxWindowsAssumption DEF Slots
<1>3. FreeSlot(m) \in free
  <2> HIDE DEF free
  <2> QED
    BY <1>1, <1>2, LeastNatural
<1> QED
  BY <1>3

(* A window that is put into an empty slot, before it is focused. *)
LEMMA ShowOK ==
    ASSUME NEW m, WmBase(m), NEW id \in Slots, ~ m.win[id].visible,
           NEW s \in Window, s.visible, s.content, ~ s.dragging, Reachable(s),
           NEW n, WmTyped(n), n.win = [m.win EXCEPT ![id] = s], n.owned = m.owned + 1,
           n.z = Append(m.z, id), n.prev = m.prev
    PROVE  WmBase(n) /\ Open(n) = Open(m) \cup {id}
<1>1. m \in [win : [Slots -> Window], z : Seq(Slots), prev : BOOLEAN, owned : Int]
  BY DEF WmBase, WmTyped
<1>3. n.z = Append(m.z, id) /\ n.prev = m.prev /\ n.owned = m.owned + 1
  OBVIOUS
<1>4. \A i \in Slots : n.win[i] = IF i = id THEN s ELSE m.win[i]
  BY <1>1, <1>3
<1>5. Open(n) = Open(m) \cup {id} /\ id \notin Open(m)
  BY <1>4 DEF Open
<1>6. Lists(n.z, Open(n))
  BY <1>3, <1>5, AppendLists DEF WmBase
<1>7. n.owned = Cardinality(Open(n))
  <2>1. IsFiniteSet(Open(m))
    BY ListLength DEF WmBase
  <2>2. Cardinality(Open(m) \cup {id}) = Cardinality(Open(m)) + 1
    BY <1>5, <2>1, FS_AddElement
  <2> QED
    BY <1>3, <1>5, <2>2 DEF WmBase
<1>8. \A i \in Slots : n.win[i].content <=> n.win[i].visible
  BY <1>4 DEF WmBase
<1>9. \A i \in Open(n) : Reachable(n.win[i])
  <2>1. \A i \in Open(n) : i \in Slots /\ (i # id => i \in Open(m))
    BY <1>5 DEF Open
  <2> QED
    BY <1>4, <2>1 DEF WmBase
<1>10. /\ \A i, j \in Slots : n.win[i].dragging /\ n.win[j].dragging => i = j
       /\ \A i \in Slots : n.win[i].dragging => n.prev
  BY <1>3, <1>4 DEF WmBase
<1> QED
  BY <1>5, <1>6, <1>7, <1>8, <1>9, <1>10 DEF WmBase

(* The windows of the apps fit on the screen. *)
LEMMA GeometryFits ==
    ASSUME NEW app \in AppNames
    PROVE  LET g == Geometry[app] IN
             /\ g.x \in Int /\ g.y \in Int /\ g.w \in Int /\ g.h \in Int
             /\ g.x < FB_WIDTH /\ g.x + (g.w + 2) > 0
             /\ g.y >= 0 /\ g.y + TITLEBAR_H <= FB_HEIGHT - TASKBAR_H
<1> DEFINE Fits == LET g == Geometry[app] IN
                /\ g.x \in Int /\ g.y \in Int /\ g.w \in Int /\ g.h \in Int
                /\ g.x < FB_WIDTH /\ g.x + (g.w + 2) > 0
                /\ g.y >= 0 /\ g.y + TITLEBAR_H <= FB_HEIGHT - TASKBAR_H
<1> SUFFICES Fits
  OBVIOUS
<1> USE DEF FB_WIDTH, FB_HEIGHT, TITLEBAR_H, TASKBAR_H
<1>1. ASSUME app = "Terminal" PROVE Fits
  <2>1. Geometry[app] = [x |-> 120, y |-> 40, w |-> 500, h |-> 370]
    BY <1>1 DEF Geometry
  <2> QED
    BY <2>1
<1>2. ASSUME app = "Snake" PROVE Fits
  <2>1. Geometry[app] = [x |-> 10, y |-> 4, w |-> 612, h |-> 472]
    BY <1>2 DEF Geometry
  <2> QED
    BY <2>1
<1>3. ASSUME app = "Tetris" PROVE Fits
  <2>1. Geometry[app] = [x |-> 100, y |-> 10, w |-> 420, h |-> 440]
    BY <1>3 DEF Geometry
  <2> QED
    BY <2>1
<1>4. ASSUME app = "Raycaster" PROVE Fits
  <2>1. Geometry[app] = [x |-> 60, y |-> 20, w |-> 500, h |-> 400]
    BY <1>4 DEF Geometry
  <2> QED
    BY <2>1
<1>5. ASSUME app = "Breakout" PROVE Fits
  <2>1. Geometry[app] = [x |-> 10, y |-> 10, w |-> 620, h |-> 440]
    BY <1>5 DEF Geometry
  <2> QED
    BY <2>1
<1> HIDE DEF Fits
<1> QED
  BY <1>1, <1>2, <1>3, <1>4, <1>5 DEF AppNames

\* The windows of S are open after the step from m to n, and all is in order.
WmOpens(m, n, S) == WmBase(n) /\ TopFocused(n) /\ n.prev = m.prev /\ Open(n) = S

(* wm_create_window: with a buffer the window is open and on top, without    *)
(* one nothing has changed that anybody looks at.                            *)
LEMMA CreateOK ==
    ASSUME NEW m, WmBase(m), TopFocused(m), NEW id \in Slots, ~ m.win[id].visible,
           NEW app \in AppNames, NEW n
    PROVE  /\ n = wm_create_window(m, id, app, Geometry[app], TRUE)
              => WmOpens(m, n, Open(m) \cup {id})
           /\ n = wm_create_window(m, id, app, Geometry[app], FALSE)
              => WmOpens(m, n, Open(m))
<1> SUFFICES ASSUME NEW ok \in BOOLEAN, n = wm_create_window(m, id, app, Geometry[app], ok)
             PROVE  /\ WmBase(n) /\ TopFocused(n) /\ n.prev = m.prev
                    /\ ok => Open(n) = Open(m) \cup {id}
                    /\ ~ ok => Open(n) = Open(m)
  BY DEF WmOpens
<1> DEFINE g == Geometry[app]
           a == m.win[id]
           placed == [a EXCEPT !.title = app, !.x = g.x, !.y = g.y, !.w = g.w + 2,
                               !.h = g.h + TITLEBAR_H + 2, !.content = ok]
           shown == [placed EXCEPT !.visible = TRUE, !.focused = FALSE, !.dragging = FALSE]
<1>1. m \in [win : [Slots -> Window], z : Seq(Slots), prev : BOOLEAN, owned : Int]
  BY DEF WmBase, WmTyped
<1>2. a \in Window /\ ~ a.visible
  BY <1>1
<1>3. /\ g.x \in Int /\ g.y \in Int /\ g.w \in Int /\ g.h \in Int
      /\ g.x < FB_WIDTH /\ g.x + (g.w + 2) > 0
      /\ g.y >= 0 /\ g.y + TITLEBAR_H <= FB_HEIGHT - TASKBAR_H
  BY GeometryFits
<1>4. /\ ~ ok => n = [m EXCEPT !.win[id] = placed]
      /\ ok => n = wm_focus_window([m EXCEPT !.win[id] = shown, !.owned = @ + 1,
                                              !.z = Append(@, id)], id)
  BY DEF wm_create_window
<1> HIDE DEF g, a
<1>5. /\ placed \in Window /\ placed.visible = a.visible /\ placed.dragging = a.dragging
      /\ placed.focused = a.focused /\ placed.content = ok
      /\ placed.x = g.x /\ placed.y = g.y /\ placed.w = g.w + 2
  <2> DEFINE gw == g.w + 2
             gh == g.h + TITLEBAR_H + 2
  <2>1. gw \in Int /\ gh \in Int
    BY <1>3 DEF TITLEBAR_H
  <2>2. placed = [a EXCEPT !.title = app, !.x = g.x, !.y = g.y, !.w = gw, !.h = gh, !.content = ok]
    OBVIOUS
  <2> HIDE DEF gw, gh, placed
  <2>3. /\ placed.visible = a.visible /\ placed.dragging = a.dragging
        /\ placed.focused = a.focused /\ placed.content = ok
        /\ placed.x = g.x /\ placed.y = g.y /\ placed.w = gw
    BY <1>2, <2>2 DEF Window
  <2>4. placed \in Window
    BY <1>2, <1>3, <2>1, <2>2 DEF Window
  <2> QED
    BY <2>3, <2>4 DEF gw
<1> HIDE DEF placed
<1>6. /\ shown \in Window /\ shown.visible = TRUE /\ shown.dragging = FALSE
      /\ shown.content = ok /\ shown.x = g.x /\ shown.y = g.y /\ shown.w = g.w + 2
  <2>1. placed \in Window
    BY <1>5
  <2>2. /\ shown \in Window /\ shown.visible = TRUE /\ shown.dragging = FALSE
        /\ shown.content = placed.content /\ shown.x = placed.x /\ shown.y = placed.y
        /\ shown.w = placed.w
    BY <2>1 DEF Window
  <2> QED
    BY <1>5, <2>2
<1> HIDE DEF shown
<1>7. CASE ok
  <2> DEFINE k == [m EXCEPT !.win[id] = shown, !.owned = @ + 1, !.z = Append(@, id)]
  <2>1. Reachable(shown)
    BY <1>3, <1>6 DEF Reachable
  <2>2. WmBase(k) /\ Open(k) = Open(m) \cup {id} /\ k.prev = m.prev
    <3>1. shown.visible /\ shown.content /\ ~ shown.dragging
      BY <1>6, <1>7
    <3>2. shown \in Window
      BY <1>6
    <3>3. ~ m.win[id].visible
      BY <1>2 DEF a
    <3>4. /\ k.win = [m.win EXCEPT ![id] = shown] /\ k.owned = m.owned + 1
          /\ k.z = Append(m.z, id) /\ k.prev = m.prev
      BY <1>1
    <3>5. WmTyped(k)
      <4> DEFINE A == Append(m.z, id)
                 V == [m.win EXCEPT ![id] = shown]
      <4>1. V \in [Slots -> Window] /\ m.owned + 1 \in Int
        BY <1>1, <3>2
      <4>2. A \in Seq(Slots)
        BY <1>1, AppendProperties
      <4>3. k = [m EXCEPT !.win = V, !.owned = @ + 1, !.z = A]
        BY <1>1
      <4> HIDE DEF A, V, k
      <4> QED
        BY <1>1, <4>1, <4>2, <4>3 DEF WmTyped
    <3> HIDE DEF k
    <3> QED
      BY <2>1, <3>1, <3>2, <3>3, <3>4, <3>5, ShowOK
  <2>3. n = wm_focus_window(k, id)
    BY <1>4, <1>7
  <2> HIDE DEF k
  <2>4. WmBase(n) /\ TopFocused(n) /\ n.prev = k.prev /\ Open(n) = Open(k)
    BY <2>2, <2>3, FocusOK
  <2> QED
    BY <1>7, <2>2, <2>4
<1>8. CASE ~ ok
  <2>1. n = [m EXCEPT !.win[id] = placed]
    BY <1>4, <1>8
  <2>2. /\ n \in [win : [Slots -> Window], z : Seq(Slots), prev : BOOLEAN, owned : Int]
        /\ n.win = [m.win EXCEPT ![id] = placed]
        /\ n.z = m.z /\ n.prev = m.prev /\ n.owned = m.owned
    BY <1>1, <1>5, <2>1
  <2>3. \A i \in Slots : n.win[i] = IF i = id THEN placed ELSE m.win[i]
    BY <1>1, <2>2
  <2> HIDE <2>1
  <2>4. Open(n) = Open(m) /\ id \notin Open(m)
    BY <1>2, <1>5, <2>3 DEF Open, a
  <2>5. \A i \in Slots : n.win[i].content <=> n.win[i].visible
    BY <1>2, <1>5, <1>8, <2>3 DEF WmBase
  <2>6. \A i \in Open(n) : Reachable(n.win[i])
    <3>1. \A i \in Open(m) : i \in Slots /\ n.win[i] = m.win[i]
      BY <2>3, <2>4 DEF Open
    <3> QED
      BY <2>4, <3>1 DEF WmBase
  <2>7. \A i \in Slots : n.win[i].dragging = m.win[i].dragging /\ n.win[i].focused = m.win[i].focused
    BY <1>5, <2>3 DEF a
  <2>8. /\ \A i, j \in Slots : n.win[i].dragging /\ n.win[j].dragging => i = j
        /\ \A i \in Slots : n.win[i].dragging => n.prev
    BY <2>2, <2>7 DEF WmBase
  <2>9. WmBase(n)
    BY <2>2, <2>4, <2>5, <2>6, <2>8 DEF WmBase, WmTyped
  <2>10. TopFocused(n)
    BY <2>2, <2>7 DEF TopFocused
  <2> QED
    BY <1>8, <2>2, <2>4, <2>9, <2>10
<1> QED
  BY <1>7, <1>8

(* wm_destroy_window of a visible window: it is gone with its buffer, and    *)
(* what is then on top has the focus.                                        *)
LEMMA DestroyOK ==
    ASSUME NEW m, WmBase(m), TopFocused(m), NEW id \in Open(m)
    PROVE  LET n == wm_destroy_window(m, id) IN
             /\ WmBase(n) /\ TopFocused(n) /\ n.prev = m.prev
             /\ Open(n) = Open(m) \ {id}
<1> DEFINE n == wm_destroy_window(m, id)
           a == m.win[id]
           b == [a EXCEPT !.visible = FALSE, !.focused = FALSE, !.content = FALSE]
           gone == [m EXCEPT !.win[id].visible = FALSE, !.win[id].focused = FALSE,
                             !.win[id].content = FALSE, !.z = Without(@, id),
                             !.owned = IF m.win[id].content THEN @ - 1 ELSE @]
           Z == Without(m.z, id)
           V == [m.win EXCEPT ![id] = b]
<1>1. m \in [win : [Slots -> Window], z : Seq(Slots), prev : BOOLEAN, owned : Int]
  BY DEF WmBase, WmTyped
<1>2. id \in Slots /\ a.visible /\ a.content /\ a \in Window
  BY <1>1 DEF Open, WmBase
<1>3. n = IF gone.z = <<>> THEN gone ELSE wm_focus_window(gone, gone.z[Len(gone.z)])
  BY <1>2 DEF wm_destroy_window
<1>4. /\ b \in Window /\ b.visible = FALSE /\ b.focused = FALSE /\ b.content = FALSE
      /\ b.dragging = a.dragging
  BY <1>2 DEF Window
<1>5. gone = [m EXCEPT !.win = V, !.z = Z, !.owned = @ - 1]
  BY <1>1, <1>2, ZenonT(30)
<1>6. Lists(Z, Open(m) \ {id})
  BY WithoutLists DEF WmBase
<1>7. Z \in Seq(Slots)
  <2>1. Z \in Seq(Open(m) \ {id}) /\ Open(m) \ {id} \subseteq Slots
    BY <1>6 DEF Lists, Open
  <2> QED
    BY <2>1, SeqMonotonic
<1> HIDE DEF b, Z, gone, n
<1>8. V \in [Slots -> Window] /\ \A i \in Slots : V[i] = IF i = id THEN b ELSE m.win[i]
  BY <1>1, <1>4
<1> HIDE DEF V
<1>9. /\ gone \in [win : [Slots -> Window], z : Seq(Slots), prev : BOOLEAN, owned : Int]
      /\ gone.win = V /\ gone.z = Z /\ gone.prev = m.prev /\ gone.owned = m.owned - 1
  <2>1. m.owned - 1 \in Int
    BY <1>1
  <2> QED
    BY <1>1, <1>5, <1>7, <1>8, <2>1
<1>10. \A i \in Slots : gone.win[i] = IF i = id THEN b ELSE m.win[i]
  BY <1>8, <1>9
<1>11. Open(gone) = Open(m) \ {id}
  BY <1>4, <1>10 DEF Open
<1>12. WmBase(gone)
  <2>1. gone.owned = Cardinality(Open(gone))
    <3>1. IsFiniteSet(Open(m))
      BY ListLength DEF WmBase
    <3>2. Cardinality(Open(m) \ {id}) = Cardinality(Open(m)) - 1
      BY <3>1, FS_RemoveElement
    <3> QED
      BY <1>9, <1>11, <3>2 DEF WmBase
  <2>2. \A i \in Slots : gone.win[i].content <=> gone.win[i].visible
    BY <1>4, <1>10 DEF WmBase
  <2>3. \A i \in Open(gone) : Reachable(gone.win[i])
    <3>1. \A i \in Open(m) \ {id} : i \in Slots /\ gone.win[i] = m.win[i]
      BY <1>10 DEF Open
    <3> QED
      BY <1>11, <3>1 DEF WmBase
  <2>4. \A i \in Slots : gone.win[i].dragging = m.win[i].dragging
    BY <1>4, <1>10 DEF a
  <2>5. /\ \A i, j \in Slots : gone.win[i].dragging /\ gone.win[j].dragging => i = j
        /\ \A i \in Slots : gone.win[i].dragging => gone.prev
    BY <1>9, <2>4 DEF WmBase
  <2> QED
    BY <1>6, <1>9, <1>11, <2>1, <2>2, <2>3, <2>5 DEF WmBase, WmTyped
<1>13. CASE Z = <<>>
  <2>1. n = gone
    BY <1>3, <1>9, <1>13
  <2>2. Open(m) \ {id} = {}
    BY <1>6, <1>13, ListLength
  <2>3. TopFocused(gone)
    <3> SUFFICES ASSUME NEW i \in Slots PROVE ~ gone.win[i].focused
      BY <1>9, <1>13 DEF TopFocused
    <3>1. CASE i = id
      BY <1>4, <1>10, <3>1
    <3>2. CASE i # id
      <4>1. i \notin Open(m)
        BY <2>2, <3>2
      <4>2. Len(m.z) \in Nat /\ m.z \in [1 .. Len(m.z) -> Open(m)] /\ m.z \in Seq(Slots)
        BY <1>1, ListLength DEF WmBase
      <4>3. m.z # <<>> => m.z[Len(m.z)] \in Open(m)
        BY <4>2
      <4>4. ~ m.win[i].focused
        BY <4>1, <4>3 DEF TopFocused
      <4> QED
        BY <1>10, <3>2, <4>4
    <3> QED
      BY <3>1, <3>2
  <2> QED
    BY <1>9, <1>11, <1>12, <2>1, <2>3 DEF n
<1>14. CASE Z # <<>>
  <2> DEFINE top == Z[Len(Z)]
  <2>1. top \in Open(gone)
    <3>1. Len(Z) \in Nat /\ Z \in [1 .. Len(Z) -> Open(gone)] /\ Z \in Seq(Slots)
      BY <1>6, <1>7, <1>11, ListLength
    <3> QED
      BY <1>14, <3>1
  <2>2. n = wm_focus_window(gone, top)
    BY <1>3, <1>9, <1>14
  <2> HIDE DEF top
  <2>3. WmBase(n) /\ TopFocused(n) /\ n.prev = gone.prev /\ Open(n) = Open(gone)
    BY <1>12, <2>1, <2>2, FocusOK
  <2> QED
    BY <1>9, <1>11, <2>3 DEF n
<1> QED
  BY <1>13, <1>14

(* A change of one window that leaves its place in the order alone, with at  *)
(* most this window dragged afterwards.                                      *)
LEMMA ReplaceOK ==
    ASSUME NEW m, WmBase(m), TopFocused(m), NEW d \in Slots, NEW s \in Window,
           s.visible = m.win[d].visible, s.content = m.win[d].content,
           s.focused = m.win[d].focused, s.visible => Reachable(s),
           \A i \in Slots : i # d => ~ m.win[i].dragging,
           NEW n, WmTyped(n), n.win = [m.win EXCEPT ![d] = s],
           n.z = m.z, n.owned = m.owned, s.dragging => n.prev
    PROVE  WmBase(n) /\ TopFocused(n) /\ Open(n) = Open(m)
<1>1. m \in [win : [Slots -> Window], z : Seq(Slots), prev : BOOLEAN, owned : Int]
  BY DEF WmBase, WmTyped
<1>2. \A i \in Slots : n.win[i] = IF i = d THEN s ELSE m.win[i]
  BY <1>1
<1>3. \A i \in Slots : /\ n.win[i].visible = m.win[i].visible
                       /\ n.win[i].content = m.win[i].content
                       /\ n.win[i].focused = m.win[i].focused
  BY <1>2
<1>4. Open(n) = Open(m)
  BY <1>3 DEF Open
<1>5. \A i \in Slots : n.win[i].content <=> n.win[i].visible
  BY <1>3 DEF WmBase
<1>6. \A i \in Open(n) : Reachable(n.win[i])
  <2>1. \A i \in Open(n) : i \in Slots /\ n.win[i].visible /\ Reachable(m.win[i])
    BY <1>4 DEF WmBase, Open
  <2> QED
    BY <1>2, <2>1
<1>7. \A i \in Slots : n.win[i].dragging => i = d /\ n.prev
  BY <1>2
<1>8. WmBase(n)
  BY <1>4, <1>5, <1>6, <1>7 DEF WmBase
<1>9. TopFocused(n)
  BY <1>3 DEF TopFocused
<1> QED
  BY <1>4, <1>8, <1>9

(* The state of the mouse button, while no window is dragged. *)
LEMMA PrevOK ==
    ASSUME NEW m, WmBase(m), TopFocused(m), \A i \in Slots : ~ m.win[i].dragging,
           NEW left \in BOOLEAN
    PROVE  LET n == [m EXCEPT !.prev = left] IN
             /\ WmBase(n) /\ TopFocused(n) /\ Open(n) = Open(m) /\ n.prev = left
             /\ n.win = m.win /\ n.z = m.z
<1> DEFINE n == [m EXCEPT !.prev = left]
<1>1. m \in [win : [Slots -> Window], z : Seq(Slots), prev : BOOLEAN, owned : Int]
  BY DEF WmBase, WmTyped
<1>2. /\ n \in [win : [Slots -> Window], z : Seq(Slots), prev : BOOLEAN, owned : Int]
      /\ n.win = m.win /\ n.z = m.z /\ n.owned = m.owned /\ n.prev = left
  BY <1>1
<1> HIDE DEF n
<1>3. Open(n) = Open(m)
  BY <1>2 DEF Open
<1>4. WmBase(n)
  BY <1>2, <1>3 DEF WmBase, WmTyped
<1>5. TopFocused(n)
  BY <1>2 DEF TopFocused
<1> QED
  BY <1>2, <1>3, <1>4, <1>5 DEF n

(* The window that is dragged, if one is. *)
LEMMA DraggedFacts ==
    ASSUME NEW m
    PROVE  /\ Dragged(m) = -1 => \A i \in Slots : ~ m.win[i].dragging
           /\ Dragged(m) # -1 => Dragged(m) \in Slots /\ m.win[Dragged(m)].dragging
<1> DEFINE those == {i \in Slots : m.win[i].dragging}
<1>1. those \subseteq Nat
  BY MaxWindowsAssumption DEF Slots
<1>2. Dragged(m) = IF those = {} THEN -1 ELSE CHOOSE i \in those : \A j \in those : i <= j
  BY DEF Dragged
<1>3. those # {} => Dragged(m) \in those
  <2> HIDE DEF those
  <2> QED
    BY <1>1, <1>2, LeastNatural
<1>4. -1 \notin Nat
  OBVIOUS
<1> QED
  BY <1>1, <1>2, <1>3, <1>4

(* A point is on the screen. *)
LEMMA PointFacts ==
    ASSUME NEW p \in Points
    PROVE  /\ p.x \in Int /\ p.x >= 0 /\ p.x < FB_WIDTH
           /\ p.y \in Int /\ p.y >= 0 /\ p.y < FB_HEIGHT
<1>1. p \in [x : 0 .. FB_WIDTH - 1, y : 0 .. FB_HEIGHT - 1]
  BY DesktopAssumption
<1> QED
  BY <1>1, SMTT(30) DEF FB_WIDTH, FB_HEIGHT

(* A window that follows the mouse stays within reach. *)
LEMMA DragToOK ==
    ASSUME NEW s \in Window, NEW p \in Points, s.visible => Reachable(s), s.dragging
    PROVE  LET t == DragTo(s, p) IN
             /\ t \in Window /\ t.visible = s.visible /\ t.content = s.content
             /\ t.focused = s.focused /\ t.dragging = s.dragging
             /\ t.visible => Reachable(t)
<1> DEFINE y0 == p.y - s.drag_oy
           lowest == FB_HEIGHT - TASKBAR_H - TITLEBAR_H
           nx == p.x - s.drag_ox
           ny == IF y0 < 0 THEN 0 ELSE IF y0 > lowest THEN lowest ELSE y0
           t == DragTo(s, p)
<1>1. t = [s EXCEPT !.x = nx, !.y = ny]
  BY DEF DragTo
<1>2. s.drag_ox \in Int /\ s.drag_oy \in Int /\ s.w \in Int
  BY DEF Window
<1>3. nx \in Int /\ ny \in Int /\ ny >= 0 /\ ny <= lowest
  BY <1>2, PointFacts DEF FB_HEIGHT, TASKBAR_H, TITLEBAR_H
<1>4. ny + TITLEBAR_H <= FB_HEIGHT - TASKBAR_H
  <2> HIDE DEF ny
  <2> QED
    BY <1>3 DEF FB_HEIGHT, TASKBAR_H, TITLEBAR_H
<1> HIDE DEF nx, ny, t
<1>5. /\ t \in Window /\ t.visible = s.visible /\ t.content = s.content
      /\ t.focused = s.focused /\ t.dragging = s.dragging
      /\ t.x = nx /\ t.y = ny /\ t.w = s.w /\ t.drag_ox = s.drag_ox
  BY <1>1, <1>3 DEF Window
<1>6. ASSUME s.visible PROVE Reachable(t)
  <2>1. s.drag_ox >= 0 /\ s.drag_ox < s.w
    BY <1>6 DEF Reachable
  <2>2. nx < FB_WIDTH /\ nx + s.w > 0
    BY <1>2, <2>1, PointFacts DEF nx, FB_WIDTH
  <2> QED
    BY <1>3, <1>4, <1>5, <2>1, <2>2 DEF Reachable
<1> QED
  BY <1>5, <1>6 DEF t

(* A nonempty set of places of a list has a greatest element. *)
LEMMA GreatestPlace ==
    ASSUME NEW k \in Nat, NEW S, S \subseteq 1 .. k, S # {}
    PROVE  \E m \in S : \A j \in S : m >= j
<1> DEFINE R == {i \in Nat : \E j \in S : i = k - j}
<1>1. \A j \in S : k - j \in R
  OBVIOUS
<1>2. R \subseteq Nat /\ R # {}
  BY <1>1
<1>3. \A i \in R : \E j \in S : i = k - j
  OBVIOUS
<1> HIDE DEF R
<1>4. PICK i \in R : \A l \in R : i <= l
  BY <1>2, LeastNatural
<1>5. PICK m \in S : i = k - m
  BY <1>3, <1>4
<1>6. \A j \in S : k - m <= k - j
  BY <1>1, <1>4, <1>5
<1>7. \A j \in S : m >= j
  BY <1>6
<1> QED
  BY <1>7

(* The window that a click finds is open, lies under the mouse, and is the   *)
(* one that is painted there.                                                *)
LEMMA WindowAtFacts ==
    ASSUME NEW m, WmBase(m), NEW p
    PROVE  /\ WindowAt(m, p) # -1 =>
                WindowAt(m, p) \in Open(m) /\ Inside(m.win[WindowAt(m, p)], p)
           /\ \A id : Shown(m, id, p) => id \in Open(m) /\ WindowAt(m, p) = id
<1> DEFINE z == m.z
           In(n) == m.win[z[n]].visible /\ Inside(m.win[z[n]], p)
           hits == {n \in 1 .. Len(z) : In(n)}
           last == CHOOSE n \in hits : \A k \in hits : n >= k
<1>1. Len(z) \in Nat /\ z \in [1 .. Len(z) -> Open(m)]
  BY ListLength DEF WmBase
<1>2. WindowAt(m, p) = IF hits = {} THEN -1 ELSE z[last]
  BY DEF WindowAt
<1>3. hits # {} => last \in hits /\ \A k \in hits : last >= k
  <2>1. hits \subseteq 1 .. Len(z)
    OBVIOUS
  <2> HIDE DEF hits, z
  <2> QED
    BY <1>1, <2>1, GreatestPlace
<1>4. \A n \in 1 .. Len(z) : In(n) => n \in hits
  OBVIOUS
<1>5. hits # {} => last \in 1 .. Len(z) /\ In(last)
  <2> HIDE DEF last
  <2> QED
    BY <1>3
<1>6. WindowAt(m, p) # -1 => WindowAt(m, p) \in Open(m) /\ Inside(m.win[WindowAt(m, p)], p)
  <2> HIDE DEF hits, last
  <2> QED
    BY <1>1, <1>2, <1>5
<1>7. ASSUME NEW id, Shown(m, id, p) PROVE id \in Open(m) /\ WindowAt(m, p) = id
  <2>1. PICK n \in 1 .. Len(z) :
          /\ z[n] = id /\ m.win[id].visible /\ Inside(m.win[id], p)
          /\ \A k \in n + 1 .. Len(z) : m.win[z[k]].visible => ~ Inside(m.win[z[k]], p)
    BY <1>7 DEF Shown
  <2>2. In(n) /\ n \in hits
    BY <2>1
  <2>3. \A k \in n + 1 .. Len(z) : ~ In(k)
    BY <2>1
  <2> HIDE DEF In, hits, last, z
  <2>4. last \in 1 .. Len(z) /\ In(last) /\ last >= n
    BY <1>3, <1>5, <2>2
  <2>5. last = n
    <3>1. last \notin n + 1 .. Len(z)
      BY <2>3, <2>4
    <3> QED
      BY <1>1, <2>4, <3>1
  <2> QED
    BY <1>1, <1>2, <2>1, <2>2, <2>5
<1> QED
  BY <1>6, <1>7

(* The button of the taskbar that a click finds is that of an open window. *)
LEMMA ButtonAtFacts ==
    ASSUME NEW m, WmBase(m), NEW p, ButtonAt(m, p) # -1
    PROVE  ButtonAt(m, p) \in Open(m)
<1> DEFINE Hit(n) == /\ m.win[m.z[n]].visible
                     /\ p.x >= ButtonX(m)[n]
                     /\ p.x < ButtonX(m)[n] + ButtonWidth(m.win[m.z[n]])
           hits == {n \in 1 .. Len(m.z) : Hit(n)}
           first == CHOOSE n \in hits : \A k \in hits : n <= k
<1>1. Len(m.z) \in Nat /\ m.z \in [1 .. Len(m.z) -> Open(m)]
  BY ListLength DEF WmBase
<1>2. ButtonAt(m, p) = IF hits = {} THEN -1 ELSE m.z[first]
  BY DEF ButtonAt
<1>3. hits \subseteq 1 .. Len(m.z)
  OBVIOUS
<1> HIDE DEF hits
<1>4. hits # {} /\ hits \subseteq Nat
  BY <1>1, <1>2, <1>3
<1>5. first \in 1 .. Len(m.z)
  BY <1>3, <1>4, LeastNatural
<1> HIDE DEF first
<1> QED
  BY <1>1, <1>2, <1>4, <1>5

(* A click on a window: it comes on top where it is, and may be dragged from *)
(* now on; a close signal names it.                                          *)
LEMMA WindowClickOK ==
    ASSUME NEW m, WmBase(m), TopFocused(m), m.prev, \A i \in Slots : ~ m.win[i].dragging,
           NEW p \in Points
    PROVE  LET r == WindowClick(m, p)
               n == r.wm
               id == WindowAt(m, p)
           IN  /\ WmBase(n) /\ TopFocused(n) /\ n.prev = m.prev /\ Open(n) = Open(m)
               /\ r.result <= -100 => id \in Open(m) /\ -(r.result + 100) = id
               /\ id # -1 => /\ n.z # <<>> /\ n.z[Len(n.z)] = id
                             /\ n.win[id].x = m.win[id].x /\ n.win[id].y = m.win[id].y
                             /\ n.win[id].w = m.win[id].w /\ n.win[id].h = m.win[id].h
<1> DEFINE r == WindowClick(m, p)
           id == WindowAt(m, p)
           win == m.win[id]
           top == wm_focus_window(m, id)
           drag == [top EXCEPT !.win[id].dragging = TRUE,
                               !.win[id].drag_ox = p.x - win.x,
                               !.win[id].drag_oy = p.y - win.y]
<1>1. \/ id = -1 /\ r = Result(m, NoClick)
      \/ id # -1 /\ r = Result(top, CloseSignal(id))
      \/ id # -1 /\ r = Result(drag, NoClick)
      \/ id # -1 /\ r = Result(top, id)
  BY DEF WindowClick
<1>2. CASE id = -1 /\ r = Result(m, NoClick)
  <2>1. r.wm = m /\ r.result = -1
    BY <1>2 DEF Result, NoClick
  <2>2. ~ (r.result <= -100)
    BY <2>1
  <2> HIDE DEF r, id
  <2> QED
    BY <1>2, <2>1, <2>2 DEF r, id
<1>3. ASSUME id # -1
      PROVE  /\ id \in Slots /\ id \in Open(m) /\ id \in Int /\ id >= 0 /\ Inside(win, p)
             /\ WmBase(top) /\ TopFocused(top) /\ top.prev = m.prev /\ Open(top) = Open(m)
             /\ top.z # <<>> /\ top.z[Len(top.z)] = id
             /\ \A i \in Slots : Alike(m.win[i], top.win[i])
             /\ win \in Window
  <2>1. id \in Open(m) /\ Inside(win, p)
    BY <1>3, WindowAtFacts
  <2>2. id \in Slots
    BY <2>1 DEF Open
  <2>3. id \in Int /\ id >= 0 /\ win \in Window
    BY <2>2, MaxWindowsAssumption DEF Slots, WmBase, WmTyped
  <2>4. /\ WmBase(top) /\ TopFocused(top) /\ top.prev = m.prev /\ Open(top) = Open(m)
        /\ top.z # <<>> /\ top.z[Len(top.z)] = id
        /\ \A i \in Slots : Alike(m.win[i], top.win[i])
    <3>1. top = wm_focus_window(m, id)
      OBVIOUS
    <3> HIDE DEF id, top, win
    <3> QED
      BY <2>1, <3>1, FocusOK
  <2> QED
    BY <2>1, <2>2, <2>3, <2>4, Zenon
<1>4. CASE id # -1 /\ r = Result(top, CloseSignal(id))
  <2>1. r.wm = top /\ r.result = -(id + 100)
    BY <1>4 DEF Result, CloseSignal
  <2>2. -(-(id + 100) + 100) = id
    BY <1>3, <1>4
  <2> HIDE DEF top, id, r
  <2>3. /\ WmBase(top) /\ TopFocused(top) /\ top.prev = m.prev /\ Open(top) = Open(m)
        /\ top.z # <<>> /\ top.z[Len(top.z)] = id /\ id \in Open(m)
    BY <1>3, <1>4
  <2>4. /\ top.win[id].x = m.win[id].x /\ top.win[id].y = m.win[id].y
        /\ top.win[id].w = m.win[id].w /\ top.win[id].h = m.win[id].h
    BY <1>3, <1>4 DEF Alike
  <2> QED
    BY <1>4, <2>1, <2>2, <2>3, <2>4 DEF r, id
<1>5. CASE id # -1 /\ r = Result(top, id)
  <2>1. r.wm = top /\ r.result = id
    BY <1>5 DEF Result
  <2>2. ~ (id <= -100)
    BY <1>3, <1>5
  <2> HIDE DEF top, id, r
  <2>3. /\ WmBase(top) /\ TopFocused(top) /\ top.prev = m.prev /\ Open(top) = Open(m)
        /\ top.z # <<>> /\ top.z[Len(top.z)] = id /\ id \in Open(m)
    BY <1>3, <1>5
  <2>4. /\ top.win[id].x = m.win[id].x /\ top.win[id].y = m.win[id].y
        /\ top.win[id].w = m.win[id].w /\ top.win[id].h = m.win[id].h
    BY <1>3, <1>5 DEF Alike
  <2> QED
    BY <1>5, <2>1, <2>2, <2>3, <2>4 DEF r, id
<1>6. CASE id # -1 /\ r = Result(drag, NoClick)
  <2> HIDE DEF top, id, r
  <2> DEFINE ox == p.x - win.x
             oy == p.y - win.y
             a == top.win[id]
             s == [a EXCEPT !.dragging = TRUE, !.drag_ox = ox, !.drag_oy = oy]
             V == [top.win EXCEPT ![id] = s]
  <2>1. top \in [win : [Slots -> Window], z : Seq(Slots), prev : BOOLEAN, owned : Int]
    BY <1>3, <1>6 DEF WmBase, WmTyped
  <2>2. ox \in Int /\ oy \in Int /\ ox >= 0 /\ ox < win.w
    <3>1. win.x \in Int /\ win.y \in Int /\ win.w \in Int
      BY <1>3, <1>6 DEF Window
    <3>2. p.x >= win.x /\ p.x < win.x + win.w
      BY <1>3, <1>6 DEF Inside
    <3> HIDE DEF win
    <3> QED
      BY <3>1, <3>2, PointFacts
  <2>3. a \in Window /\ Alike(win, a) /\ a.visible /\ id \in Slots /\ Reachable(a)
    <3>1. a \in Window /\ id \in Open(top)
      BY <1>3, <1>6, <2>1
    <3> QED
      BY <1>3, <1>6, <3>1 DEF Open, WmBase
  <2> HIDE DEF ox, oy, a, win
  <2>4. /\ s \in Window /\ s.visible = a.visible /\ s.content = a.content /\ s.focused = a.focused
        /\ s.x = a.x /\ s.y = a.y /\ s.w = a.w /\ s.h = a.h
        /\ s.dragging = TRUE /\ s.drag_ox = ox
    BY <2>2, <2>3 DEF Window
  <2>5. drag = [top EXCEPT !.win = V]
    BY <2>1, <2>3 DEF a, ox, oy
  <2> HIDE DEF s
  <2>6. V \in [Slots -> Window] /\ V[id] = s
    BY <2>1, <2>3, <2>4
  <2>7. Reachable(s)
    BY <2>2, <2>3, <2>4 DEF Reachable, Alike
  <2>8. /\ drag \in [win : [Slots -> Window], z : Seq(Slots), prev : BOOLEAN, owned : Int]
        /\ drag.win = V /\ drag.z = top.z /\ drag.owned = top.owned /\ drag.prev = top.prev
    <3> HIDE DEF V, drag
    <3> QED
      BY <2>1, <2>5, <2>6
  <2> HIDE DEF drag
  <2>9. WmBase(drag) /\ TopFocused(drag) /\ Open(drag) = Open(top)
    <3>1. /\ WmBase(top) /\ TopFocused(top) /\ id \in Slots /\ s \in Window
          /\ s.visible = top.win[id].visible /\ s.content = top.win[id].content
          /\ s.focused = top.win[id].focused /\ (s.visible => Reachable(s))
      BY <1>3, <1>6, <2>4, <2>7 DEF a
    <3>2. \A i \in Slots : i # id => ~ top.win[i].dragging
      BY <1>3, <1>6 DEF Alike
    <3>3. /\ WmTyped(drag) /\ drag.win = [top.win EXCEPT ![id] = s]
          /\ drag.z = top.z /\ drag.owned = top.owned /\ (s.dragging => drag.prev)
      BY <1>3, <1>6, <2>8 DEF WmTyped, V
    <3> QED
      BY <3>1, <3>2, <3>3, ReplaceOK
  <2>10. r.wm = drag /\ r.result = -1
    BY <1>6 DEF Result, NoClick
  <2>11. /\ drag.z # <<>> /\ drag.z[Len(drag.z)] = id /\ drag.prev = m.prev /\ Open(drag) = Open(m)
         /\ drag.win[id] = s
    BY <1>3, <1>6, <2>6, <2>8, <2>9
  <2>12. s.x = m.win[id].x /\ s.y = m.win[id].y /\ s.w = m.win[id].w /\ s.h = m.win[id].h
    BY <2>3, <2>4 DEF Alike, win
  <2> QED
    BY <1>6, <2>9, <2>10, <2>11, <2>12 DEF r, id
<1> QED
  BY <1>1, <1>2, <1>4, <1>5, <1>6

(* One call of wm_handle_mouse keeps the window manager in order, remembers  *)
(* the button, opens and closes nothing, and signals a close for a window    *)
(* that is open.                                                             *)
LEMMA HandleMouseOK ==
    ASSUME NEW m, WmBase(m), TopFocused(m), NEW p \in Points, NEW left \in BOOLEAN
    PROVE  LET r == wm_handle_mouse(m, p, left) IN
             /\ WmBase(r.wm) /\ TopFocused(r.wm) /\ r.wm.prev = left /\ Open(r.wm) = Open(m)
             /\ r.result <= -100 => -(r.result + 100) \in Open(m)
<1> DEFINE r == wm_handle_mouse(m, p, left)
           clicked == left /\ ~ m.prev
           released == ~ left /\ m.prev
           now == [m EXCEPT !.prev = left]
           d == Dragged(m)
           a == m.win[d]
           s == IF released THEN [a EXCEPT !.dragging = FALSE] ELSE DragTo(a, p)
           moved == [now EXCEPT !.win[d] = IF released THEN [@ EXCEPT !.dragging = FALSE]
                                                       ELSE DragTo(@, p)]
<1>1. m \in [win : [Slots -> Window], z : Seq(Slots), prev : BOOLEAN, owned : Int]
  BY DEF WmBase, WmTyped
<1>2. r = IF d # -1 THEN Result(moved, NoClick)
          ELSE IF ~ clicked THEN Result(now, NoClick)
          ELSE IF OnTaskbar(p) THEN TaskbarClick(now, p)
          ELSE WindowClick(now, p)
  BY DEF wm_handle_mouse
<1>3. CASE d # -1
  <2>1. d \in Slots /\ a.dragging
    BY <1>3, DraggedFacts
  <2>2. a \in Window /\ m.prev /\ (a.visible => Reachable(a))
    BY <1>1, <2>1 DEF WmBase, Open
  <2>3. \A i \in Slots : i # d => ~ m.win[i].dragging
    BY <2>1 DEF WmBase
  <2>4. /\ s \in Window /\ s.visible = a.visible /\ s.content = a.content
        /\ s.focused = a.focused /\ (s.visible => Reachable(s)) /\ (s.dragging => left)
    <3>1. CASE released
      <4>1. s = [a EXCEPT !.dragging = FALSE]
        BY <3>1
      <4> HIDE DEF s, a
      <4>2. /\ s \in Window /\ s.visible = a.visible /\ s.content = a.content
            /\ s.focused = a.focused /\ s.dragging = FALSE
            /\ s.x = a.x /\ s.y = a.y /\ s.w = a.w
        BY <2>2, <4>1 DEF Window
      <4> QED
        BY <2>2, <4>2 DEF Reachable
    <3>2. CASE ~ released
      <4>1. s = DragTo(a, p) /\ left
        BY <2>2, <3>2
      <4> HIDE DEF s, a
      <4> QED
        BY <2>1, <2>2, <4>1, DragToOK
    <3> QED
      BY <3>1, <3>2
  <2>5. moved = [m EXCEPT !.prev = left, !.win = [m.win EXCEPT ![d] = s]]
    BY <1>1, <2>1
  <2> HIDE DEF s, a, moved
  <2>6. /\ WmTyped(moved) /\ moved.win = [m.win EXCEPT ![d] = s]
        /\ moved.z = m.z /\ moved.owned = m.owned /\ moved.prev = left
    <3> DEFINE V == [m.win EXCEPT ![d] = s]
    <3>1. V \in [Slots -> Window]
      BY <1>1, <2>1, <2>4
    <3>2. moved = [m EXCEPT !.prev = left, !.win = V]
      BY <2>5
    <3> HIDE DEF V
    <3>3. /\ WmTyped(moved) /\ moved.win = V
          /\ moved.z = m.z /\ moved.owned = m.owned /\ moved.prev = left
      BY <1>1, <3>1, <3>2 DEF WmTyped
    <3> QED
      BY <3>3 DEF V
  <2>7. WmBase(moved) /\ TopFocused(moved) /\ Open(moved) = Open(m)
    <3>1. /\ s.visible = m.win[d].visible /\ s.content = m.win[d].content
          /\ s.focused = m.win[d].focused
      BY <2>4 DEF a
    <3>2. s \in Window /\ (s.visible => Reachable(s)) /\ (s.dragging => moved.prev)
      BY <2>4, <2>6
    <3> HIDE DEF d
    <3> QED
      BY <2>1, <2>3, <2>6, <3>1, <3>2, ReplaceOK
  <2>8. r.wm = moved /\ r.result = -1
    BY <1>2, <1>3 DEF Result, NoClick
  <2>9. ~ (r.result <= -100)
    BY <2>8
  <2> HIDE DEF r
  <2> QED
    BY <2>6, <2>7, <2>8, <2>9 DEF r
<1>4. CASE d = -1
  <2>1. \A i \in Slots : ~ m.win[i].dragging
    BY <1>4, DraggedFacts
  <2>2. /\ WmBase(now) /\ TopFocused(now) /\ Open(now) = Open(m) /\ now.prev = left
        /\ now.win = m.win
    <3>1. now = [m EXCEPT !.prev = left]
      OBVIOUS
    <3> HIDE DEF now
    <3> QED
      BY <2>1, <3>1, PrevOK
  <2> HIDE DEF now, r
  <2>3. ASSUME NEW k, r = Result(k, NoClick) \/ r = Result(k, StartClick),
               WmBase(k), TopFocused(k), k.prev = left, Open(k) = Open(m)
        PROVE  /\ WmBase(r.wm) /\ TopFocused(r.wm) /\ r.wm.prev = left /\ Open(r.wm) = Open(m)
               /\ r.result <= -100 => -(r.result + 100) \in Open(m)
    <3>1. r.wm = k /\ (r.result = -1 \/ r.result = -2)
      BY <2>3 DEF Result, NoClick, StartClick
    <3>2. ~ (r.result <= -100)
      BY <3>1
    <3> QED
      BY <2>3, <3>1, <3>2
  <2>4. CASE ~ clicked
    <3>1. r = Result(now, NoClick)
      BY <1>2, <1>4, <2>4
    <3> QED
      BY <2>2, <2>3, <3>1 DEF r
  <2>5. CASE clicked /\ OnTaskbar(p)
    <3>1. r = TaskbarClick(now, p)
      BY <1>2, <1>4, <2>5
    <3>2. CASE r = Result(now, NoClick) \/ r = Result(now, StartClick)
      BY <2>2, <2>3, <3>2 DEF r
    <3>3. CASE ButtonAt(now, p) # -1 /\ r = Result(wm_focus_window(now, ButtonAt(now, p)), NoClick)
      <4> DEFINE b == ButtonAt(now, p)
                 k == wm_focus_window(now, b)
      <4>1. b \in Open(now)
        BY <2>2, <3>3, ButtonAtFacts
      <4>2. k = wm_focus_window(now, b) /\ r = Result(k, NoClick)
        BY <3>3
      <4> HIDE DEF b, k
      <4>3. WmBase(k) /\ TopFocused(k) /\ k.prev = now.prev /\ Open(k) = Open(now)
        BY <2>2, <4>1, <4>2, FocusOK
      <4> QED
        BY <2>2, <2>3, <4>2, <4>3 DEF r
    <3> QED
      BY <3>1, <3>2, <3>3 DEF TaskbarClick
  <2>6. CASE clicked /\ ~ OnTaskbar(p)
    <3>1. r = WindowClick(now, p)
      BY <1>2, <1>4, <2>6
    <3>2. now.prev /\ \A i \in Slots : ~ now.win[i].dragging
      BY <2>1, <2>2, <2>6
    <3>3. /\ WmBase(r.wm) /\ TopFocused(r.wm) /\ r.wm.prev = now.prev /\ Open(r.wm) = Open(now)
          /\ r.result <= -100 => /\ WindowAt(now, p) \in Open(now)
                                 /\ -(r.result + 100) = WindowAt(now, p)
      BY <2>2, <3>1, <3>2, WindowClickOK
    <3> QED
      BY <2>2, <3>3 DEF r
  <2> QED
    BY <2>4, <2>5, <2>6
<1> QED
  BY <1>3, <1>4

-----------------------------------------------------------------------------
(* The steps of the desktop.                                                 *)

(* A step that opens and closes no window. *)
LEMMA KeptOK ==
    ASSUME DeskInv, WmBase(wm'), TopFocused(wm'), Open(wm') = Open(wm),
           win_app_type' = win_app_type, prev_left' \in BOOLEAN, wm'.prev => prev_left'
    PROVE  DeskInv'
<1>1. \A i \in Slots : wm'.win[i].visible <=> wm.win[i].visible
  <2>1. \A i \in Slots : i \in Open(wm') <=> i \in Open(wm)
    OBVIOUS
  <2> QED
    BY <2>1 DEF Open
<1>2. \A i \in Slots : wm'.win[i].visible <=> win_app_type'[i] # "none"
  BY <1>1 DEF DeskInv
<1>3. /\ win_app_type' \in [Slots -> AppNames \cup {"none"}]
      /\ \A i, j \in Slots : win_app_type'[i] # "none" /\ win_app_type'[i] = win_app_type'[j] => i = j
  BY DEF DeskInv
<1> QED
  BY <1>2, <1>3 DEF DeskInv

(* Closing an open window. *)
LEMMA CloseOK ==
    ASSUME DeskInv, NEW k, WmBase(k), TopFocused(k), Open(k) = Open(wm), NEW id \in Open(wm),
           CloseWindow(k, id), prev_left' \in BOOLEAN, k.prev => prev_left'
    PROVE  DeskInv'
<1>1. WmBase(wm') /\ TopFocused(wm') /\ wm'.prev = k.prev /\ Open(wm') = Open(k) \ {id}
  <2>1. wm' = wm_destroy_window(k, id)
    BY DEF CloseWindow
  <2> QED
    BY <2>1, DestroyOK
<1>2. id \in Slots /\ win_app_type \in [Slots -> AppNames \cup {"none"}]
  BY DEF DeskInv, Open
<1>3. win_app_type' = [win_app_type EXCEPT ![id] = "none"]
  BY DEF CloseWindow
<1>4. /\ win_app_type' \in [Slots -> AppNames \cup {"none"}]
      /\ \A i \in Slots : win_app_type'[i] = IF i = id THEN "none" ELSE win_app_type[i]
  BY <1>2, <1>3
<1>5. \A i \in Slots : wm'.win[i].visible <=> (i # id /\ wm.win[i].visible)
  <2>1. \A i \in Slots : i \in Open(wm') <=> (i # id /\ i \in Open(wm))
    BY <1>1
  <2> QED
    BY <2>1 DEF Open
<1>6. \A i \in Slots : wm'.win[i].visible <=> win_app_type'[i] # "none"
  BY <1>4, <1>5 DEF DeskInv
<1>7. \A i, j \in Slots : win_app_type'[i] # "none" /\ win_app_type'[i] = win_app_type'[j] => i = j
  BY <1>4 DEF DeskInv
<1> QED
  BY <1>1, <1>4, <1>6, <1>7 DEF DeskInv

(* The window that open_app adds, when there is a slot for it. *)
LEMMA NewWindowOK ==
    ASSUME WmBase(wm), TopFocused(wm), NEW id \in Slots, ~ wm.win[id].visible,
           NEW app \in AppNames, NEW ok \in BOOLEAN,
           wm' = wm_create_window(wm, id, app, Geometry[app], ok)
    PROVE  /\ WmBase(wm') /\ TopFocused(wm') /\ wm'.prev = wm.prev
           /\ ok => Open(wm') = Open(wm) \cup {id}
           /\ ~ ok => Open(wm') = Open(wm)
<1>1. CASE ok = TRUE
  <2>1. WmOpens(wm, wm', Open(wm) \cup {id})
    BY <1>1, CreateOK
  <2> QED
    BY <1>1, <2>1 DEF WmOpens
<1>2. CASE ok = FALSE
  <2>1. WmOpens(wm, wm', Open(wm))
    BY <1>2, CreateOK
  <2> QED
    BY <1>2, <2>1 DEF WmOpens
<1> QED
  BY <1>1, <1>2

(* open_app, of an app that is open or not, with slots and pages or without. *)
LEMMA OpenAppOK ==
    ASSUME DeskInv, NEW app \in AppNames, OpenApp(app), prev_left' \in BOOLEAN, wm.prev => prev_left'
    PROVE  DeskInv'
<1>1. WmBase(wm) /\ TopFocused(wm) /\ win_app_type \in [Slots -> AppNames \cup {"none"}]
  BY DEF DeskInv
<1>2. CASE ExistingWindows(app) # {}
  <2> DEFINE E == ExistingWindows(app)
             id == CHOOSE i \in E : \A j \in E : i <= j
  <2>1. E \subseteq Open(wm) /\ E \subseteq Nat
    BY MaxWindowsAssumption DEF ExistingWindows, Open, Slots
  <2>2. wm' = wm_focus_window(wm, id) /\ win_app_type' = win_app_type
    BY <1>2 DEF OpenApp
  <2>3. id \in Open(wm)
    <3>1. E # {}
      BY <1>2
    <3> HIDE DEF E
    <3> QED
      BY <2>1, <3>1, LeastNatural
  <2> HIDE DEF id
  <2>4. WmBase(wm') /\ TopFocused(wm') /\ wm'.prev = wm.prev /\ Open(wm') = Open(wm)
    BY <1>1, <2>2, <2>3, FocusOK
  <2> QED
    BY <2>2, <2>4, KeptOK
<1>3. CASE ExistingWindows(app) = {}
  <2>1. OpenNew(app)
    BY <1>3 DEF OpenApp
  <2> DEFINE id == FreeSlot(wm)
  <2>2. CASE id = -1
    <3>1. wm' = wm /\ win_app_type' = win_app_type
      BY <2>1, <2>2 DEF OpenNew
    <3> QED
      BY <1>1, <3>1, KeptOK
  <2>3. CASE id # -1
    <3>1. PICK ok \in BOOLEAN :
            /\ wm' = wm_create_window(wm, id, app, Geometry[app], ok)
            /\ win_app_type' = IF ok THEN [win_app_type EXCEPT ![id] = app] ELSE win_app_type
      BY <2>1, <2>3 DEF OpenNew
    <3>2. id \in Slots /\ ~ wm.win[id].visible
      BY <2>3, FreeSlotFacts
    <3> HIDE DEF id
    <3>3. /\ WmBase(wm') /\ TopFocused(wm') /\ wm'.prev = wm.prev
          /\ ok => Open(wm') = Open(wm) \cup {id}
          /\ ~ ok => Open(wm') = Open(wm)
      BY <1>1, <3>1, <3>2, NewWindowOK
    <3>4. CASE ~ ok
      BY <3>1, <3>3, <3>4, KeptOK
    <3>5. CASE ok
      <4>1. /\ win_app_type' \in [Slots -> AppNames \cup {"none"}]
            /\ \A i \in Slots : win_app_type'[i] = IF i = id THEN app ELSE win_app_type[i]
        BY <1>1, <3>1, <3>2, <3>5
      <4>2. \A i \in Slots : wm'.win[i].visible <=> (i = id \/ wm.win[i].visible)
        <5>1. \A i \in Slots : i \in Open(wm') <=> (i = id \/ i \in Open(wm))
          BY <3>3, <3>5
        <5> QED
          BY <5>1 DEF Open
      <4>3. app # "none"
        BY DEF AppNames
      <4>4. \A i \in Slots : wm'.win[i].visible <=> win_app_type'[i] # "none"
        BY <4>1, <4>2, <4>3 DEF DeskInv
      <4>5. \A i \in Slots : win_app_type[i] # app
        <5>1. \A i \in Slots : win_app_type[i] = app => wm.win[i].visible
          BY <4>3 DEF DeskInv
        <5> QED
          BY <1>3, <5>1 DEF ExistingWindows
      <4>6. \A i, j \in Slots : win_app_type'[i] # "none" /\ win_app_type'[i] = win_app_type'[j] => i = j
        BY <4>1, <4>5 DEF DeskInv
      <4> QED
        BY <3>3, <4>1, <4>4, <4>6 DEF DeskInv
    <3> QED
      BY <3>4, <3>5
  <2> QED
    BY <2>2, <2>3
<1> QED
  BY <1>2, <1>3

(* An item of the start menu is an app. *)
LEMMA AppsAreNamed ==
    Apps \subseteq AppNames
<1>1. {Menu[i] : i \in 1 .. Len(Menu)} \subseteq AppNames
  <2>1. Len(Menu) = 5
    BY DEF Menu
  <2>2. /\ Menu[1] = "Terminal" /\ Menu[2] = "Snake" /\ Menu[3] = "Tetris"
        /\ Menu[4] = "Raycaster" /\ Menu[5] = "Breakout"
    BY DEF Menu
  <2>3. \A i \in 1 .. 5 : i = 1 \/ i = 2 \/ i = 3 \/ i = 4 \/ i = 5
    OBVIOUS
  <2> QED
    BY <2>1, <2>2, <2>3 DEF AppNames
<1> QED
  BY <1>1, DesktopAssumption

(* The window of the keyboard is an open one. *)
LEMMA FocusedFacts ==
    ASSUME NEW m, wm_get_focused(m) # -1
    PROVE  wm_get_focused(m) \in Open(m)
<1> DEFINE those == {i \in Slots : m.win[i].visible /\ m.win[i].focused}
<1>1. those # {} /\ wm_get_focused(m) = CHOOSE i \in those : \A j \in those : i <= j
  BY DEF wm_get_focused
<1>2. those \subseteq Nat /\ those \subseteq Open(m)
  BY MaxWindowsAssumption DEF Slots, Open
<1>3. wm_get_focused(m) \in those
  <2> HIDE DEF those
  <2> QED
    BY <1>1, <1>2, LeastNatural
<1> QED
  BY <1>2, <1>3

(* A press of the button, whether the menu, the start button or the window   *)
(* manager takes it.                                                         *)
LEMMA PressOK ==
    ASSUME DeskInv, NEW p \in Points, Press(p)
    PROVE  DeskInv'
<1>1. WmBase(wm) /\ TopFocused(wm)
  BY DEF DeskInv
<1>2. prev_left' = TRUE
  BY DEF Press
<1>3. CASE MenuClick(p)
  <2>1. CASE MenuItemAt(p) = "none"
    BY <1>1, <1>2, <1>3, <2>1, KeptOK DEF MenuClick
  <2>2. CASE MenuItemAt(p) # "none"
    <3>1. MenuItemAt(p) \in AppNames /\ OpenApp(MenuItemAt(p))
      BY <1>3, <2>2, AppsAreNamed DEF MenuClick
    <3> QED
      BY <1>2, <3>1, OpenAppOK
  <2> QED
    BY <2>1, <2>2
<1>4. CASE StartButton(p)
  BY <1>1, <1>2, <1>4, KeptOK DEF StartButton
<1>5. CASE WindowPress(p)
  <2> DEFINE r == wm_handle_mouse(wm, p, TRUE)
  <2>1. \/ r.result <= -100 /\ CloseWindow(r.wm, -(r.result + 100))
        \/ wm' = r.wm /\ win_app_type' = win_app_type
    BY <1>5 DEF WindowPress
  <2>2. /\ WmBase(r.wm) /\ TopFocused(r.wm) /\ Open(r.wm) = Open(wm)
        /\ r.result <= -100 => -(r.result + 100) \in Open(wm)
    <3>1. r = wm_handle_mouse(wm, p, TRUE) /\ TRUE \in BOOLEAN
      OBVIOUS
    <3> HIDE DEF r
    <3> QED
      BY <1>1, <3>1, HandleMouseOK
  <2> HIDE DEF r
  <2>3. CASE r.result <= -100 /\ CloseWindow(r.wm, -(r.result + 100))
    BY <1>2, <2>2, <2>3, CloseOK
  <2>4. CASE wm' = r.wm /\ win_app_type' = win_app_type
    BY <1>2, <2>2, <2>4, KeptOK
  <2> QED
    BY <2>1, <2>3, <2>4
<1> QED
  BY <1>3, <1>4, <1>5 DEF Press

(* The invariant of the desktop. *)
THEOREM DesktopInvariant == Spec => []DeskInv
<1>1. Init => DeskInv
  <2> SUFFICES ASSUME Init PROVE DeskInv
    OBVIOUS
  <2>1. \A i \in Slots : wm.win[i] = NoWindow
    BY DEF Init, wm_init
  <2>2. wm.z = <<>> /\ wm.prev = FALSE /\ wm.owned = 0 /\ wm.win = [i \in Slots |-> NoWindow]
    BY DEF Init, wm_init
  <2>3. WmTyped(wm)
    <3>1. NoWindow \in Window
      BY DEF NoWindow, Window
    <3>2. wm.win \in [Slots -> Window] /\ wm.z \in Seq(Slots) /\ wm.owned \in Int
      BY <2>2, <3>1
    <3>3. wm = [win |-> wm.win, z |-> wm.z, prev |-> wm.prev, owned |-> wm.owned]
      BY DEF Init, wm_init
    <3> QED
      BY <2>2, <3>2, <3>3 DEF WmTyped
  <2>4. /\ \A i \in Slots : /\ wm.win[i].visible = FALSE /\ wm.win[i].content = FALSE
                            /\ wm.win[i].focused = FALSE /\ wm.win[i].dragging = FALSE
    BY <2>1 DEF NoWindow
  <2>5. Open(wm) = {}
    BY <2>4 DEF Open
  <2>6. Lists(wm.z, Open(wm))
    BY <2>2, <2>5 DEF Lists
  <2>7. wm.owned = Cardinality(Open(wm))
    BY <2>2, <2>5, FS_EmptySet
  <2>8. WmBase(wm)
    BY <2>3, <2>4, <2>5, <2>6, <2>7 DEF WmBase
  <2>9. TopFocused(wm)
    BY <2>2, <2>4 DEF TopFocused
  <2> QED
    BY <2>2, <2>4, <2>8, <2>9 DEF DeskInv, Init
<1>2. DeskInv /\ [Next]_vars => DeskInv'
  <2> SUFFICES ASSUME DeskInv, [Next]_vars PROVE DeskInv'
    OBVIOUS
  <2>1. ASSUME NEW p \in Points, Press(p) PROVE DeskInv'
    BY <2>1, PressOK
  <2>2. ASSUME NEW p \in Points, NEW left \in BOOLEAN, NoPress(p, left) PROVE DeskInv'
    <3> DEFINE r == wm_handle_mouse(wm, p, left)
    <3>1. wm' = r.wm /\ win_app_type' = win_app_type /\ prev_left' = left
      BY <2>2 DEF NoPress
    <3>2. WmBase(r.wm) /\ TopFocused(r.wm) /\ Open(r.wm) = Open(wm) /\ r.wm.prev = left
      <4>1. r = wm_handle_mouse(wm, p, left)
        OBVIOUS
      <4> HIDE DEF r
      <4> QED
        BY <4>1, HandleMouseOK DEF DeskInv
    <3> HIDE DEF r
    <3> QED
      BY <3>1, <3>2, KeptOK
  <2>3. ASSUME NEW key \in {"esc", "enter", "backspace", "char"}, Key(key) PROVE DeskInv'
    <3>1. prev_left' = prev_left /\ prev_left \in BOOLEAN
      BY <2>3 DEF Key, DeskInv
    <3>2. CASE key = "esc"
      <4>1. wm_get_focused(wm) # -1 /\ CloseWindow(wm, wm_get_focused(wm))
        BY <2>3, <3>2 DEF Key
      <4>2. wm_get_focused(wm) \in Open(wm)
        BY <4>1, FocusedFacts
      <4> QED
        BY <3>1, <4>1, <4>2, CloseOK DEF DeskInv
    <3>3. CASE key # "esc"
      <4>1. wm' = wm /\ win_app_type' = win_app_type
        BY <2>3, <3>3 DEF Key
      <4> QED
        BY <3>1, <4>1, KeptOK DEF DeskInv
    <3> QED
      BY <3>2, <3>3
  <2>4. CASE FrameEnd
    BY <2>4, KeptOK DEF FrameEnd, DeskInv
  <2>5. CASE UNCHANGED vars
    BY <2>5, KeptOK DEF vars, DeskInv
  <2> QED
    BY <2>1, <2>2, <2>3, <2>4, <2>5 DEF Next
<1> QED
  BY <1>1, <1>2, PTL DEF Spec

-----------------------------------------------------------------------------
(* What the invariant says of the desktop.                                   *)

(* z_order lists every visible window once and nothing else, and the window  *)
(* on top of it is the only focused one.                                     *)
THEOREM ZOrderIsExact == Spec => []ZOrderExact
<1>1. DeskInv => ZOrderExact
  <2> SUFFICES ASSUME DeskInv PROVE ZOrderExact
    OBVIOUS
  <2>1. Visible = Open(wm)
    BY DEF Visible, Open
  <2>2. Lists(wm.z, Open(wm))
    BY DEF DeskInv, WmBase
  <2>3. /\ Len(wm.z) \in Nat /\ wm.z \in [1 .. Len(wm.z) -> Open(wm)]
        /\ Cardinality(Open(wm)) = Len(wm.z)
        /\ {wm.z[n] : n \in 1 .. Len(wm.z)} = Open(wm)
    BY <2>2, ListLength
  <2>4. {i \in Slots : wm.win[i].focused} = IF wm.z = <<>> THEN {} ELSE {wm.z[Len(wm.z)]}
    <3>1. \A i \in Slots : wm.win[i].focused <=> wm.z # <<>> /\ i = wm.z[Len(wm.z)]
      BY DEF DeskInv, TopFocused
    <3>2. wm.z # <<>> => wm.z[Len(wm.z)] \in Slots
      <4>1. wm.z \in Seq(Slots)
        BY DEF DeskInv, WmBase, WmTyped
      <4> QED
        BY <4>1
    <3> QED
      BY <3>1, <3>2
  <2> QED
    BY <2>1, <2>3, <2>4 DEF ZOrderExact
<1> QED
  BY <1>1, DesktopInvariant, PTL

(* Every visible window has its content buffer and its app, nothing else     *)
(* has one, and no app has two windows.                                      *)
THEOREM BuffersAreOwned == Spec => []BuffersOwned
<1>1. DeskInv => BuffersOwned
  <2> SUFFICES ASSUME DeskInv PROVE BuffersOwned
    OBVIOUS
  <2>1. Visible = Open(wm)
    BY DEF Visible, Open
  <2>2. wm.owned = Cardinality(Visible) /\ \A i \in Slots : wm.win[i].content <=> wm.win[i].visible
    BY <2>1 DEF DeskInv, WmBase
  <2>3. Visible = {i \in Slots : win_app_type[i] # "none"}
    BY DEF DeskInv, Visible
  <2>4. \A i, j \in Visible : win_app_type[i] = win_app_type[j] => i = j
    BY <2>3 DEF DeskInv
  <2> QED
    BY <2>2, <2>3, <2>4 DEF BuffersOwned
<1> QED
  BY <1>1, DesktopInvariant, PTL

(* At most one window is dragged, and only while the button is down. *)
THEOREM DragWhileHeld == Spec => []DragOnlyWhileHeld
<1>1. DeskInv => DragOnlyWhileHeld
  <2> SUFFICES ASSUME DeskInv PROVE DragOnlyWhileHeld
    OBVIOUS
  <2> DEFINE D == {i \in Slots : wm.win[i].dragging}
  <2>1. \A i \in Slots : wm.win[i].dragging => wm.prev /\ prev_left
    BY DEF DeskInv, WmBase
  <2>2. \A i, j \in D : i = j
    BY DEF DeskInv, WmBase
  <2>3. Cardinality(D) <= 1
    <3> HIDE DEF D
    <3>1. CASE D = {}
      BY <3>1, FS_EmptySet
    <3>2. CASE D # {}
      <4>1. PICK i \in D : TRUE
        BY <3>2
      <4>2. D = {i}
        BY <2>2, <4>1
      <4>3. Cardinality(D) = 1
        BY <4>2, FS_Singleton
      <4> QED
        BY <4>3
    <3> QED
      BY <3>1, <3>2
  <2> QED
    BY <2>1, <2>3 DEF DragOnlyWhileHeld
<1> QED
  BY <1>1, DesktopInvariant, PTL

(* The title bar of every window can be reached, however it was dragged. *)
THEOREM TitleStaysOnScreen == Spec => []TitleOnScreen
<1>1. DeskInv => TitleOnScreen
  <2> SUFFICES ASSUME DeskInv, NEW i \in Visible PROVE Reachable(wm.win[i])
    BY DEF TitleOnScreen, Reachable
  <2>1. i \in Open(wm)
    BY DEF Visible, Open
  <2> QED
    BY <2>1 DEF DeskInv, WmBase
<1> QED
  BY <1>1, DesktopInvariant, PTL

(* A press acts on the window that is painted under the mouse. *)
THEOREM ClickHitsSeen == Spec => ClickHitsWhatIsSeen
<1> DEFINE A == \A p \in Points, id \in Slots :
                  ~ start_menu_open /\ Shown(wm, id, p) /\ Press(p) =>
                      \/ ~ wm'.win[id].visible
                      \/ wm'.win[id].focused /\ Shown(wm', id, p)
<1>1. ASSUME DeskInv, NEW p \in Points, NEW id \in Slots,
             ~ start_menu_open, Shown(wm, id, p), Press(p)
      PROVE  ~ wm'.win[id].visible \/ (wm'.win[id].focused /\ Shown(wm', id, p))
  <2> DEFINE now == [wm EXCEPT !.prev = TRUE]
             r == wm_handle_mouse(wm, p, TRUE)
             n == r.wm
  <2>1. WmBase(wm) /\ TopFocused(wm) /\ wm.prev = FALSE
    BY <1>1 DEF DeskInv, WmBase, WmTyped, Press
  <2>2. \A i \in Slots : ~ wm.win[i].dragging
    BY <2>1 DEF WmBase
  <2>3. id \in Open(wm) /\ WindowAt(wm, p) = id /\ ~ OnTaskbar(p) /\ Inside(wm.win[id], p)
    <3>1. id \in Open(wm) /\ WindowAt(wm, p) = id
      BY <1>1, <2>1, WindowAtFacts
    <3> QED
      BY <1>1, <3>1 DEF Shown
  <2>4. WindowPress(p)
    BY <1>1, <2>3 DEF Press, MenuClick, StartButton
  <2>5. /\ WmBase(now) /\ TopFocused(now) /\ Open(now) = Open(wm) /\ now.prev = TRUE
        /\ now.win = wm.win /\ now.z = wm.z
    <3>1. now = [wm EXCEPT !.prev = TRUE] /\ TRUE \in BOOLEAN
      OBVIOUS
    <3> HIDE DEF now
    <3> QED
      BY <2>1, <2>2, <3>1, PrevOK
  <2>6. WindowAt(now, p) = id
    <3> HIDE DEF now
    <3>1. WindowAt(now, p) = WindowAt(wm, p)
      BY <2>5 DEF WindowAt
    <3> QED
      BY <2>3, <3>1
  <2>7. r = WindowClick(now, p)
    <3>1. Dragged(wm) = -1
      BY <2>2, DraggedFacts
    <3> QED
      BY <2>1, <2>3, <3>1 DEF wm_handle_mouse
  <2> HIDE DEF now, r
  <2>8. /\ WmBase(n) /\ TopFocused(n) /\ Open(n) = Open(wm)
        /\ r.result <= -100 => -(r.result + 100) = id
        /\ n.z # <<>> /\ n.z[Len(n.z)] = id
        /\ n.win[id].x = wm.win[id].x /\ n.win[id].y = wm.win[id].y
        /\ n.win[id].w = wm.win[id].w /\ n.win[id].h = wm.win[id].h
    <3>1. id # -1 /\ now.prev /\ \A i \in Slots : ~ now.win[i].dragging
      BY <2>2, <2>5, MaxWindowsAssumption DEF Slots
    <3>2. /\ WmBase(n) /\ TopFocused(n) /\ Open(n) = Open(now)
          /\ r.result <= -100 => -(r.result + 100) = id
          /\ n.z # <<>> /\ n.z[Len(n.z)] = id
          /\ n.win[id].x = now.win[id].x /\ n.win[id].y = now.win[id].y
          /\ n.win[id].w = now.win[id].w /\ n.win[id].h = now.win[id].h
      BY <2>5, <2>6, <2>7, <3>1, WindowClickOK
    <3> QED
      BY <2>5, <3>2
  <2>9. CASE r.result <= -100
    <3>1. wm' = wm_destroy_window(n, id)
      BY <2>4, <2>8, <2>9 DEF WindowPress, CloseWindow, r
    <3>2. id \in Open(n)
      BY <2>3, <2>8
    <3>3. Open(wm') = Open(n) \ {id}
      BY <2>8, <3>1, <3>2, DestroyOK
    <3> QED
      BY <3>3 DEF Open
  <2>10. CASE ~ (r.result <= -100)
    <3>1. wm' = n
      BY <2>4, <2>10 DEF WindowPress, r
    <3>2. n.win[id].focused
      BY <2>8 DEF TopFocused
    <3>3. Len(n.z) \in Nat /\ Len(n.z) \in 1 .. Len(n.z)
      <4>1. n.z \in Seq(Slots)
        BY <2>8 DEF WmBase, WmTyped
      <4> QED
        BY <2>8, <4>1
    <3>4. n.win[id].visible
      BY <2>3, <2>8 DEF Open
    <3>5. Inside(n.win[id], p)
      BY <2>3, <2>8 DEF Inside
    <3>6. Shown(n, id, p)
      <4>1. \A m \in Len(n.z) + 1 .. Len(n.z) : FALSE
        BY <3>3
      <4> HIDE DEF n
      <4> QED
        BY <2>3, <2>8, <3>3, <3>4, <3>5, <4>1 DEF Shown
    <3> QED
      BY <3>1, <3>2, <3>6
  <2> QED
    BY <2>9, <2>10
<1>2. DeskInv => [A]_vars
  BY <1>1
<1> QED
  BY <1>2, DesktopInvariant, PTL DEF ClickHitsWhatIsSeen
=============================================================================
