------------------------------- MODULE Games -------------------------------
(***************************************************************************)
(* The four games under the desktop: gui.c's dispatch of app_init, app_key *)
(* and app_tick to the game whose window is open.  One window is open at a *)
(* time, since the games share no state; Desktop is about the windows.     *)
(*                                                                         *)
(* A tick is a call that finds the game's interval over; the calls before  *)
(* it return at once.  Any number of keys may come between two ticks.      *)
(*                                                                         *)
(* game holds the static variables of the open game.  Those of a closed    *)
(* game are dead: app_init sets them all.                                  *)
(***************************************************************************)
EXTENDS Snake, Tetris, Breakout, Raycaster

CONSTANTS
    Offsets,    \* the offsets of the rays that are checked, of 0 .. FOV - 1
    MaxChanges  \* how often a player of the raycaster changes to another key

ASSUME GamesAssumption == Offsets \subseteq 0 .. FOV - 1 /\ MaxChanges \in Nat

Apps == {"Snake", "Tetris", "Breakout", "Raycaster"}
Keys == {"up", "down", "left", "right", "space"}

VARIABLES
    app,        \* the game whose window is open, or "none"
    game,       \* its static variables
    held,       \* the raycaster's last key
    changes     \* and how often it changed

vars == <<app, game, held, changes>>

Closed == [closed |-> TRUE]

Init ==
    /\ app = "none" /\ game = Closed
    /\ held = "none" /\ changes = 0

\* app_init.
AppInit(a) ==
    /\ app = "none"
    /\ app' = a
    /\ game' \in CASE a = "Snake"     -> snake_init
                   [] a = "Tetris"    -> tetris_init
                   [] a = "Breakout"  -> {breakout_init}
                   [] a = "Raycaster" -> {raycaster_init}
    /\ UNCHANGED <<held, changes>>

\* The window is closed, by its button or with ESC.
Close ==
    /\ app # "none"
    /\ app' = "none" /\ game' = Closed
    /\ held' = "none" /\ changes' = 0

\* app_key.
AppKey(key) ==
    /\ app # "none"
    /\ app = "Raycaster" => key = held \/ changes < MaxChanges
    /\ game' = CASE app = "Snake"     -> snake_key(game, key)
                 [] app = "Tetris"    -> tetris_key(game, key)
                 [] app = "Breakout"  -> breakout_key(game, key)
                 [] app = "Raycaster" -> raycaster_key(game, key)
    /\ IF app = "Raycaster"
       THEN held' = key /\ changes' = IF key = held THEN changes ELSE changes + 1
       ELSE UNCHANGED <<held, changes>>
    /\ UNCHANGED app

\* app_tick.
AppTick ==
    /\ app # "none"
    /\ game' \in CASE app = "Snake"     -> snake_tick(game)
                   [] app = "Tetris"    -> tetris_tick(game)
                   [] app = "Breakout"  -> {breakout_tick(game)}
                   [] app = "Raycaster" -> {raycaster_tick(game)}
    /\ UNCHANGED <<app, held, changes>>

Next ==
    \/ \E a \in Apps : AppInit(a)
    \/ Close
    \/ \E key \in Keys : AppKey(key)
    \/ AppTick

\* The loop of gui_main comes round to every open window again and again, and the timer
\* keeps counting, so a game is ticked for ever.
Spec == Init /\ [][Next]_vars /\ WF_vars(AppTick)
-----------------------------------------------------------------------------
(* The snake.                                                                *)

Adjacent(c, d) ==
    \/ c[1] = d[1] /\ c[2] - d[2] \in {-1, 1}
    \/ c[2] = d[2] /\ c[1] - d[1] \in {-1, 1}

\* The arrays of the snake always are a path through the grid that does not cross itself,
\* as long as the score says, however the player turns between two ticks: also when the
\* second of two quick turns leads back into the neck.
SnakeIsPath ==
    app = "Snake" =>
        /\ CellsOf(game.body) \subseteq Grid
        /\ \A i, j \in 1 .. Len(game.body) : i # j => game.body[i] # game.body[j]
        /\ \A i \in 2 .. Len(game.body) : Adjacent(game.body[i - 1], game.body[i])
        /\ game.score = 10 * (Len(game.body) - 3)

\* When the food moves, it moves to a cell the snake does not cover, although place_food
\* runs between the shift of the arrays and the store of the new head.
FoodMovesOffSnake ==
    [][app = "Snake" /\ app' = "Snake" /\ game'.food # game.food
        => game'.food \notin CellsOf(game'.body)]_vars
-----------------------------------------------------------------------------
(* Tetris.                                                                   *)

\* What clear_lines should leave: every row that is not full, moved down by the number of
\* full rows below it.
FullRows(board) == {y \in 0 .. BOARD_H - 1 : Row(y) \subseteq board}
Remaining(board) ==
    {<<b[1], b[2] + Cardinality({y \in FullRows(board) : y > b[2]})>> :
        b \in {c \in board : c[2] \notin FullRows(board)}}

\* When a piece locks, exactly the full rows go, the others keep their order and fall by
\* the number of rows gone below them, and the count, with which tetris_tick indexes
\* scores[5], is at most 4.
ClearsExactly ==
    [][app = "Tetris" /\ app' = "Tetris" /\ game'.board # game.board
        => /\ game'.board = Remaining(lock_piece(game))
           /\ game'.cleared = Cardinality(FullRows(lock_piece(game)))
           /\ game'.cleared <= 4]_vars

\* The piece in play never overlaps the board, the walls or the floor, and no full row is
\* left standing, whatever is turned, moved or dropped next to them.
PieceFits ==
    app = "Tetris" =>
        /\ game.game_over \/ fits(game.board, game.piece, game.rot, game.x, game.y)
        /\ FullRows(game.board) = {}

\* A piece that has entered the board comes to rest and makes way for the next one, however
\* the player turns and moves it meanwhile.
Falling == app = "Tetris" /\ ~game.game_over /\ game.y >= 0
PieceLands == Falling ~> ~Falling
-----------------------------------------------------------------------------
(* Breakout.                                                                 *)

\* The ball never gets stuck between the top wall, the bricks and the paddle: as long as
\* the game goes on it keeps coming back down, and going up again or out.
BallAloft(up) == app = "Breakout" /\ Playing(game) /\ (game.dy < 0) = up
BallComesBack == \A up \in BOOLEAN : BallAloft(up) ~> ~BallAloft(up)
-----------------------------------------------------------------------------
(* The raycaster.                                                            *)

\* Wherever the player can walk, every ray ends in a wall of the map within the 64 steps,
\* so no column is skipped, and every row of its column is written exactly once: as long
\* as the wall is more than 2 * SCREEN_H units (a hundredth of a cell) from the screen.
\* Closer, line_height no longer fits in its 16 bits.
ColumnsPainted ==
    app = "Raycaster" =>
        \A offset \in Offsets :
            LET angle == RayAngle(game, offset)
                ray   == Cast(game, angle)
                perp  == PerpDist(game, angle, ray.dist)
                rows  == Rows(line_height(perp))
            IN  /\ ray.hit /\ <<ray.mx, ray.my>> \in Walled
                /\ perp > 2 * SCREEN_H =>
                    \A y \in 0 .. SCREEN_H - 1 : Cardinality({i \in 1 .. 3 : y \in rows[i]}) = 1
                /\ perp > 2 * SCREEN_H => \A i \in 1 .. 3 : rows[i] \subseteq 0 .. SCREEN_H - 1

=============================================================================
