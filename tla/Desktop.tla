------------------------------ MODULE Desktop ------------------------------
(***************************************************************************)
(* The desktop task (kernel/gui.c): one iteration of gui_main's loop polls *)
(* the mouse once, then handles keys until there are none, then ticks and  *)
(* renders the open apps.  The mouse is polled, so the loop sees where it  *)
(* is and whether the button is down, and never the events in between.     *)
(*                                                                         *)
(* Each app keeps its state in static variables.  The terminal is          *)
(* modelled by its cursor row and the length of its input line; the games  *)
(* change nothing the desktop reads.                                       *)
(***************************************************************************)
EXTENDS WindowManager

CONSTANTS
    Apps,       \* the apps a user opens, of the five on the start menu
    Points,     \* where the mouse is seen, as records with fields x and y
    TERM_ROWS,  \* rows of the terminal: 20 in the code
    INPUT_MAX,  \* length of its input line: 56 in the code
    LiveTasks   \* how many tasks ps may list

Menu == <<"Terminal", "Snake", "Tetris", "Raycaster", "Breakout">>
MENU_ITEM_H == 24
MENU_W == 140

ASSUME DesktopAssumption ==
    /\ Apps \subseteq {Menu[i] : i \in 1 .. Len(Menu)}
    /\ Points \subseteq [x : 0 .. FB_WIDTH - 1, y : 0 .. FB_HEIGHT - 1]
    /\ TERM_ROWS \in Nat \ {0} /\ INPUT_MAX \in Nat \ {0}
    /\ LiveTasks \subseteq Nat

VARIABLES
    wm,                 \* the window manager
    win_app_type,       \* which app each window slot runs, "none" for APP_NONE
    start_menu_open,
    prev_left,          \* the left button in the previous iteration
    term,               \* term_row and term_input_len
    phase               \* the part of the iteration that comes next

vars == <<wm, win_app_type, start_menu_open, prev_left, term, phase>>

\* gui_main up to its loop.
Init ==
    /\ wm = wm_init
    /\ win_app_type = [i \in Slots |-> "none"]
    /\ start_menu_open = FALSE
    /\ prev_left = FALSE
    /\ term = [row |-> 0, len |-> 0]
    /\ phase = "mouse"
-----------------------------------------------------------------------------
(* The terminal.                                                             *)

\* term_putline: scroll when the cursor is below the last row, then write a row.
TermPutline(row) == (IF row >= TERM_ROWS THEN TERM_ROWS - 1 ELSE row) + 1

\* n calls of term_putline.
TermPutlines(row, n) ==
    LET after[i \in 0 .. n] == IF i = 0 THEN row ELSE TermPutline(after[i - 1])
    IN  after[n]

TermInit == [row |-> TermPutlines(0, 3), len |-> 0]

\* The row after a command line is entered: clear, ps, a command or an error
\* message of one line, or an empty line, which is ignored.
CommandRows ==
    IF term.len = 0 THEN {term.row}
    ELSE {0, TermPutline(term.row)} \cup {TermPutlines(term.row, n + 1) : n \in LiveTasks}

\* term_handle_key.
TermKey(key) ==
    CASE key = "enter" -> \E row \in CommandRows : term' = [row |-> row, len |-> 0]
      [] key = "backspace" -> term' = [term EXCEPT !.len = IF @ > 0 THEN @ - 1 ELSE 0]
      [] key = "char" -> term' = [term EXCEPT !.len = IF @ < INPUT_MAX THEN @ + 1 ELSE @]
-----------------------------------------------------------------------------
(* Opening and closing apps.                                                 *)

\* The place and client size that open_app gives to each app's window.
Geometry ==
    [Terminal  |-> [x |-> 120, y |-> 40, w |-> 500, h |-> 370],
     Snake     |-> [x |-> 10,  y |-> 4,  w |-> 612, h |-> 472],
     Tetris    |-> [x |-> 100, y |-> 10, w |-> 420, h |-> 440],
     Raycaster |-> [x |-> 60,  y |-> 20, w |-> 500, h |-> 400],
     Breakout  |-> [x |-> 10,  y |-> 10, w |-> 620, h |-> 440]]

\* find_existing_app_window.
ExistingWindows(app) ==
    {i \in Slots : win_app_type[i] = app /\ wm.win[i].visible}

\* The rest of open_app: a new window, with the app's state initialised, unless the
\* slots or the pages have run out.
OpenNew(app) ==
    \E alloc_ok \in BOOLEAN :
        LET id == FreeSlot(wm)
        IN  IF id = -1 THEN UNCHANGED <<wm, win_app_type, term>>
            ELSE /\ wm' = wm_create_window(wm, id, app, Geometry[app], alloc_ok)
                 /\ win_app_type' = IF alloc_ok THEN [win_app_type EXCEPT ![id] = app]
                                                ELSE win_app_type
                 /\ term' = IF alloc_ok /\ app = "Terminal" THEN TermInit ELSE term

\* open_app: an app that is open is only focused.
OpenApp(app) ==
    IF ExistingWindows(app) = {} THEN OpenNew(app)
    ELSE /\ wm' = wm_focus_window(wm, CHOOSE i \in ExistingWindows(app) :
                                          \A j \in ExistingWindows(app) : i <= j)
         /\ UNCHANGED <<win_app_type, term>>

CloseWindow(state, id) ==
    /\ win_app_type' = [win_app_type EXCEPT ![id] = "none"]
    /\ wm' = wm_destroy_window(state, id)
    /\ UNCHANGED term

-----------------------------------------------------------------------------
(* The loop.                                                                 *)
MenuH == Len(Menu) * MENU_ITEM_H + 4
MenuY == FB_HEIGHT - TASKBAR_H - MenuH

\* start_menu_click: the app whose item is at p, "none" beside the items.
MenuItemAt(p) ==
    LET items == {i \in 1 .. Len(Menu) :
                     /\ p.x < MENU_W
                     /\ p.y >= MenuY + 2 + (i - 1) * MENU_ITEM_H
                     /\ p.y < MenuY + 2 + i * MENU_ITEM_H}
    IN  IF items = {} THEN "none" ELSE Menu[CHOOSE i \in items : TRUE]

\* A new press while the menu is open is for the menu, and closes it.
MenuClick(p) ==
    /\ start_menu_open
    /\ start_menu_open' = FALSE
    /\ IF MenuItemAt(p) = "none" THEN UNCHANGED <<wm, win_app_type, term>>
       ELSE /\ MenuItemAt(p) \in Apps
            /\ OpenApp(MenuItemAt(p))

StartButton(p) ==
    /\ ~ start_menu_open
    /\ OnTaskbar(p) /\ p.x < START_BTN_W
    /\ start_menu_open' = TRUE
    /\ UNCHANGED <<wm, win_app_type, term>>

\* Any other new press is for the window manager; a close signal closes the window.
WindowPress(p) ==
    LET handled == wm_handle_mouse(wm, p, TRUE)
    IN  /\ ~ start_menu_open
        /\ ~ (OnTaskbar(p) /\ p.x < START_BTN_W)
        /\ UNCHANGED start_menu_open
        /\ IF handled.result <= -100
           THEN CloseWindow(handled.wm, -(handled.result + 100))
           ELSE wm' = handled.wm /\ UNCHANGED <<win_app_type, term>>

\* The mouse part of an iteration in which the button goes down ...
Press(p) ==
    /\ phase = "mouse" /\ phase' = "keys"
    /\ ~ prev_left /\ prev_left' = TRUE
    /\ MenuClick(p) \/ StartButton(p) \/ WindowPress(p)

\* ... and one in which it stays as it is or goes up: the window manager is told,
\* and what it returns is dropped.
NoPress(p, left) ==
    /\ phase = "mouse" /\ phase' = "keys"
    /\ left => prev_left
    /\ prev_left' = left
    /\ wm' = wm_handle_mouse(wm, p, left).wm
    /\ UNCHANGED <<win_app_type, start_menu_open, term>>

\* A key goes to the app of the focused window; ESC closes that window.
Key(key) ==
    LET f == wm_get_focused(wm)
    IN  /\ phase = "keys"
        /\ f # -1 /\ win_app_type[f] # "none"
        /\ IF key = "esc" THEN CloseWindow(wm, f)
           ELSE /\ IF win_app_type[f] = "Terminal" THEN TermKey(key) ELSE UNCHANGED term
                /\ UNCHANGED <<wm, win_app_type>>
        /\ UNCHANGED <<start_menu_open, prev_left, phase>>

\* No key is left: tick, render and composite, and wait for the next frame.
FrameEnd ==
    /\ phase = "keys" /\ phase' = "mouse"
    /\ UNCHANGED <<wm, win_app_type, start_menu_open, prev_left, term>>

Next ==
    \/ \E p \in Points : Press(p) \/ \E left \in BOOLEAN : NoPress(p, left)
    \/ \E key \in {"esc", "enter", "backspace", "char"} : Key(key)
    \/ FrameEnd

Spec == Init /\ [][Next]_vars
-----------------------------------------------------------------------------
Visible == {i \in Slots : wm.win[i].visible}

(* ZOrderExact: z_order lists every visible window once and nothing else,    *)
(* so no window is open that is never painted or clicked, and none is        *)
(* painted from a freed buffer; and keys go to the window painted on top:    *)
(* it is the only focused one.                                               *)
ZOrderExact ==
    /\ {wm.z[n] : n \in 1 .. Len(wm.z)} = Visible
    /\ Len(wm.z) = Cardinality(Visible)
    /\ {i \in Slots : wm.win[i].focused} = IF wm.z = <<>> THEN {} ELSE {wm.z[Len(wm.z)]}

(* BuffersOwned: the page allocator has given out one content buffer for     *)
(* each visible window and no other, so none leaks and none is freed twice;  *)
(* and exactly these windows run an app, no two the same one, whose state is *)
(* static.                                                                   *)
BuffersOwned ==
    /\ wm.owned = Cardinality(Visible)
    /\ \A i \in Slots : wm.win[i].content <=> wm.win[i].visible
    /\ Visible = {i \in Slots : win_app_type[i] # "none"}
    /\ \A i, j \in Visible : win_app_type[i] = win_app_type[j] => i = j

(* DragOnlyWhileHeld: windows are dragged one at a time and only while the   *)
(* left button is down, also when the window is closed by ESC under the      *)
(* mouse and although the menu hides presses from the window manager.        *)
DragOnlyWhileHeld ==
    /\ \A i \in Slots : wm.win[i].dragging => wm.prev /\ prev_left
    /\ Cardinality({i \in Slots : wm.win[i].dragging}) <= 1

(* TitleOnScreen: some part of the title bar of every window is on the       *)
(* screen and above the taskbar, so the window can be moved again            *)
(* (wm.c:307, "Clamp to keep title bar visible").                            *)
TitleOnScreen ==
    \A i \in Visible :
        /\ wm.win[i].x < FB_WIDTH /\ wm.win[i].x + wm.win[i].w > 0
        /\ wm.win[i].y >= 0
        /\ wm.win[i].y + TITLEBAR_H <= FB_HEIGHT - TASKBAR_H

(* ClickHitsWhatIsSeen: a press on a window, with the menu closed, acts on   *)
(* the window that is painted there: it is closed, or it is focused and      *)
(* still what is seen there.                                                 *)
ClickHitsWhatIsSeen ==
    [][\A p \in Points, id \in Slots :
          ~ start_menu_open /\ Shown(wm, id, p) /\ Press(p) =>
              \/ ~ wm'.win[id].visible
              \/ wm'.win[id].focused /\ Shown(wm', id, p)]_vars

=============================================================================
