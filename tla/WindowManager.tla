--------------------------- MODULE WindowManager ---------------------------
(***************************************************************************)
(* The window manager (kernel/wm.c), as operators on the record wm of its  *)
(* static variables:                                                       *)
(*   win    windows[]; focused, dragging and content are fields of a slot, *)
(*          title is the app whose title the window shows                  *)
(*   z      z_order[0 .. z_count - 1], back to front                       *)
(*   prev   the left button in prev_buttons                                *)
(*   owned  how many content buffers pages_alloc has given out             *)
(* Sizes are those of the source: the screen is 640 by 480 pixels.         *)
(***************************************************************************)
EXTENDS Integers, Sequences, FiniteSets

CONSTANT WM_MAX_WINDOWS     \* slots of windows[]: 8 in the code

ASSUME MaxWindowsAssumption == WM_MAX_WINDOWS \in Nat \ {0}

Slots == 0 .. WM_MAX_WINDOWS - 1

FB_WIDTH == 640
FB_HEIGHT == 480
TITLEBAR_H == 20
TASKBAR_H == 24
CLOSE_BTN_W == 16
START_BTN_W == 60
FONT_WIDTH == 8

NoWindow == [title |-> "none", x |-> 0, y |-> 0, w |-> 0, h |-> 0,
             visible |-> FALSE, focused |-> FALSE, dragging |-> FALSE,
             drag_ox |-> 0, drag_oy |-> 0, content |-> FALSE]

wm_init == [win |-> [i \in Slots |-> NoWindow], z |-> <<>>, prev |-> FALSE, owned |-> 0]

\* The z-order without its first entry for id: the ones behind it move down by one.
Without(z, id) ==
    LET those == {n \in 1 .. Len(z) : z[n] = id}
        pos == CHOOSE n \in those : \A k \in those : n <= k
    IN  IF those = {} THEN z
        ELSE [n \in 1 .. Len(z) - 1 |-> IF n < pos THEN z[n] ELSE z[n + 1]]

\* ... and with that entry put on top, if there is one.
MoveToTop(z, id) ==
    IF \E n \in 1 .. Len(z) : z[n] = id THEN Append(Without(z, id), id) ELSE z

\* Mutant: the window is put on top without being taken from where it was.
FocusTwice(wm, id) ==
    IF ~ wm.win[id].visible THEN wm
    ELSE [wm EXCEPT !.win = [i \in Slots |-> [@[i] EXCEPT !.focused = (i = id)]],
                    !.z = Append(@, id)]

\* wm_focus_window: unfocus all, focus id and move it to the top.
wm_focus_window(wm, id) ==
    IF ~ wm.win[id].visible THEN wm
    ELSE [wm EXCEPT !.win = [i \in Slots |-> [@[i] EXCEPT !.focused = (i = id)]],
                    !.z = MoveToTop(@, id)]

\* The slot wm_create_window takes, -1 when there is none.
FreeSlot(wm) ==
    LET free == {i \in Slots : ~ wm.win[i].visible}
    IN  IF free = {} THEN -1 ELSE CHOOSE i \in free : \A j \in free : i <= j

\* wm_create_window in slot id, for a client area of g.w by g.h at (g.x, g.y).  When
\* pages_alloc fails the slot stays invisible, with the new title and place.
wm_create_window(wm, id, title, g, alloc_ok) ==
    LET placed == [wm.win[id] EXCEPT !.title = title, !.x = g.x, !.y = g.y,
                                     !.w = g.w + 2, !.h = g.h + TITLEBAR_H + 2,
                                     !.content = alloc_ok]
        shown == [placed EXCEPT !.visible = TRUE, !.focused = FALSE, !.dragging = FALSE]
    IN  IF ~ alloc_ok THEN [wm EXCEPT !.win[id] = placed]
        ELSE wm_focus_window([wm EXCEPT !.win[id] = shown, !.owned = @ + 1,
                                        !.z = Append(@, id)], id)

\* Mutant: the window is taken out of the table and keeps its buffer.
DestroyKeepBuffer(wm, id) ==
    LET gone == [wm EXCEPT !.win[id].visible = FALSE, !.win[id].focused = FALSE,
                           !.win[id].content = FALSE, !.z = Without(@, id)]
    IN  IF gone.z = <<>> THEN gone ELSE wm_focus_window(gone, gone.z[Len(gone.z)])

\* wm_destroy_window of a visible window: free its buffer, take it out of the z-order
\* and focus what is then on top.  A drag of it goes on until the button is released.
wm_destroy_window(wm, id) ==
    LET gone == [wm EXCEPT !.win[id].visible = FALSE, !.win[id].focused = FALSE,
                           !.win[id].content = FALSE, !.z = Without(@, id),
                           !.owned = IF wm.win[id].content THEN @ - 1 ELSE @]
    IN  IF ~ wm.win[id].visible THEN wm
        ELSE IF gone.z = <<>> THEN gone
        ELSE wm_focus_window(gone, gone.z[Len(gone.z)])

\* wm_get_focused: the first window that is visible and focused, or -1.
wm_get_focused(wm) ==
    LET those == {i \in Slots : wm.win[i].visible /\ wm.win[i].focused}
    IN  IF those = {} THEN -1 ELSE CHOOSE i \in those : \A j \in those : i <= j
-----------------------------------------------------------------------------
\* The rectangles of a window, as the hit test and draw_window both have them.
Inside(win, p) ==
    /\ p.x >= win.x /\ p.x < win.x + win.w
    /\ p.y >= win.y /\ p.y < win.y + win.h

OnClose(win, p) ==
    LET cx == win.x + win.w - CLOSE_BTN_W - 2
        cy == win.y + 2
    IN  /\ p.x >= cx /\ p.x < cx + CLOSE_BTN_W
        /\ p.y >= cy /\ p.y < cy + TITLEBAR_H - 4

OnTitle(win, p) == p.y < win.y + TITLEBAR_H + 1

OnTaskbar(p) == p.y >= FB_HEIGHT - TASKBAR_H

\* The title of each app, by its length.
TitleLength == [Terminal |-> 8, Snake |-> 5, Tetris |-> 6, Raycaster |-> 9, Breakout |-> 8]

ButtonWidth(win) == (TitleLength[win.title] + 2) * FONT_WIDTH + 8

\* Where the button of each window of the z-order starts on the taskbar.
ButtonX(wm) ==
    LET Taken(i) == IF wm.win[i].visible THEN ButtonWidth(wm.win[i]) + 4 ELSE 0
        bx[n \in 1 .. Len(wm.z)] ==
            IF n = 1 THEN START_BTN_W + 4 ELSE bx[n - 1] + Taken(wm.z[n - 1])
    IN  bx

\* The window whose taskbar button is at p, -1 if there is none.
ButtonAt(wm, p) ==
    LET Hit(n) == /\ wm.win[wm.z[n]].visible
                  /\ p.x >= ButtonX(wm)[n]
                  /\ p.x < ButtonX(wm)[n] + ButtonWidth(wm.win[wm.z[n]])
        hits == {n \in 1 .. Len(wm.z) : Hit(n)}
    IN  IF hits = {} THEN -1
        ELSE wm.z[CHOOSE n \in hits : \A m \in hits : n <= m]

\* Mutant: the windows are tested from the back.
WindowAtFromBack(wm, p) ==
    LET hits == {n \in 1 .. Len(wm.z) : wm.win[wm.z[n]].visible /\ Inside(wm.win[wm.z[n]], p)}
    IN  IF hits = {} THEN -1
        ELSE wm.z[CHOOSE n \in hits : \A m \in hits : n <= m]

\* The first window at p from the top of the z-order, -1 for the desktop.
WindowAt(wm, p) ==
    LET hits == {n \in 1 .. Len(wm.z) : wm.win[wm.z[n]].visible /\ Inside(wm.win[wm.z[n]], p)}
    IN  IF hits = {} THEN -1
        ELSE wm.z[CHOOSE n \in hits : \A m \in hits : n >= m]

\* wm_composite: windows are painted back to front, so a window shows at p when none
\* painted after it covers p; the taskbar is painted over all of them.
Shown(wm, id, p) ==
    /\ ~ OnTaskbar(p)
    /\ \E n \in 1 .. Len(wm.z) :
          /\ wm.z[n] = id
          /\ wm.win[id].visible /\ Inside(wm.win[id], p)
          /\ \A m \in n + 1 .. Len(wm.z) :
                wm.win[wm.z[m]].visible => ~ Inside(wm.win[wm.z[m]], p)
-----------------------------------------------------------------------------
(* wm_handle_mouse.  What it returns, and the state after it.                *)
NoClick == -1
StartClick == -2
CloseSignal(id) == -(id + 100)

Result(wm, r) == [wm |-> wm, result |-> r]

\* Mutant: the window can be dragged down under the taskbar.
DragToUnclamped(win, p) ==
    LET y == p.y - win.drag_oy
    IN  [win EXCEPT !.x = p.x - win.drag_ox, !.y = IF y < 0 THEN 0 ELSE y]

\* A dragged window follows the mouse; its title bar stays on the screen.
DragTo(win, p) ==
    LET y == p.y - win.drag_oy
        lowest == FB_HEIGHT - TASKBAR_H - TITLEBAR_H
    IN  [win EXCEPT !.x = p.x - win.drag_ox,
                    !.y = IF y < 0 THEN 0 ELSE IF y > lowest THEN lowest ELSE y]

\* The first window that is being dragged, -1 if there is none.
Dragged(wm) ==
    LET those == {i \in Slots : wm.win[i].dragging}
    IN  IF those = {} THEN -1 ELSE CHOOSE i \in those : \A j \in those : i <= j

\* A click on the taskbar focuses the window of a button.
TaskbarClick(wm, p) ==
    IF p.x < START_BTN_W THEN Result(wm, StartClick)
    ELSE IF ButtonAt(wm, p) = -1 THEN Result(wm, NoClick)
    ELSE Result(wm_focus_window(wm, ButtonAt(wm, p)), NoClick)

\* A click on a window focuses it; on its close button it is a close signal, on the
\* rest of the title bar it starts a drag.
WindowClick(wm, p) ==
    LET id == WindowAt(wm, p)
        win == wm.win[id]
        top == wm_focus_window(wm, id)
    IN  IF id = -1 THEN Result(wm, NoClick)
        ELSE IF OnClose(win, p) THEN Result(top, CloseSignal(id))
        ELSE IF OnTitle(win, p)
             THEN Result([top EXCEPT !.win[id].dragging = TRUE,
                                     !.win[id].drag_ox = p.x - win.x,
                                     !.win[id].drag_oy = p.y - win.y], NoClick)
        ELSE Result(top, id)

\* Mutant: prev_buttons is overwritten before the release is looked for.
HandleMouseReleaseLost(wm, p, left) ==
    LET clicked == left /\ ~ wm.prev
        now == [wm EXCEPT !.prev = left]
        d == Dragged(wm)
    IN  IF d # -1 THEN Result([now EXCEPT !.win[d] = DragTo(@, p)], NoClick)
        ELSE IF ~ clicked THEN Result(now, NoClick)
        ELSE IF OnTaskbar(p) THEN TaskbarClick(now, p)
        ELSE WindowClick(now, p)

wm_handle_mouse(wm, p, left) ==
    LET clicked == left /\ ~ wm.prev
        released == ~ left /\ wm.prev
        now == [wm EXCEPT !.prev = left]
        d == Dragged(wm)
    IN  IF d # -1
        THEN Result([now EXCEPT !.win[d] = IF released THEN [@ EXCEPT !.dragging = FALSE]
                                                       ELSE DragTo(@, p)], NoClick)
        ELSE IF ~ clicked THEN Result(now, NoClick)
        ELSE IF OnTaskbar(p) THEN TaskbarClick(now, p)
        ELSE WindowClick(now, p)
=============================================================================
