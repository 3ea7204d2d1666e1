------------------------------- MODULE Tetris -------------------------------
(***************************************************************************)
(* The tetris game (games/tetris.c), as operators on the record of its     *)
(* static variables.  The board is the set of its filled cells <<x, y>>,   *)
(* row 0 at the top; colours are left out.  Score, lines and level are     *)
(* represented by cleared, the number clear_lines returned last, which     *)
(* indexes scores[5]; the drop interval only sets the pace.                *)
(***************************************************************************)
EXTENDS Integers, Sequences, FiniteSets

CONSTANTS
    BOARD_W,    \* 10 in the code
    BOARD_H,    \* 20 in the code
    Pieces      \* the pieces rng_piece draws from: all seven in the code

\* The masks of pieces[][], a row of four bits per hexadecimal digit.
pieces ==
    << <<\h0F00, \h2222, \h00F0, \h4444>>,
       <<\h6600, \h6600, \h6600, \h6600>>,
       <<\h0E40, \h4C40, \h4E00, \h4640>>,
       <<\h06C0, \h8C40, \h6C00, \h4620>>,
       <<\h0C60, \h4C80, \hC600, \h2640>>,
       <<\h0E80, \hC440, \h2E00, \h44C0>>,
       <<\h0E20, \h44C0, \h8E00, \hC440>> >>

ASSUME TetrisAssumption ==
    /\ BOARD_W \in Nat /\ BOARD_W >= 4 /\ BOARD_H \in Nat \ {0}
    /\ Pieces \subseteq 1 .. 7 /\ Pieces # {}

Row(y) == {<<x, y>> : x \in 0 .. BOARD_W - 1}

\* piece_bit: the squares of a piece in its 4 by 4 box, as <<column, row>>.
Squares(piece, rot) ==
    {q \in (0 .. 3) \X (0 .. 3) :
        (pieces[piece][rot + 1] \div 2 ^ (15 - (q[2] * 4 + q[1]))) % 2 = 1}

Cells(piece, rot, px, py) == {<<px + q[1], py + q[2]>> : q \in Squares(piece, rot)}

\* fits: inside the walls and the floor and over no filled cell; the top is open.
fits(board, piece, rot, px, py) ==
    \A b \in Cells(piece, rot, px, py) :
        /\ b[1] \in 0 .. BOARD_W - 1 /\ b[2] < BOARD_H
        /\ b \notin board

\* lock_piece: squares outside the board, such as those above the top, are lost.
lock_piece(t) ==
    t.board \cup {b \in Cells(t.piece, t.rot, t.x, t.y) :
                    b[1] \in 0 .. BOARD_W - 1 /\ b[2] \in 0 .. BOARD_H - 1}

\* One row taken out: the rows above it move down.
RowTaken(board, r) ==
    {b \in board : b[2] > r} \cup {<<b[1], b[2] + 1>> : b \in {c \in board : c[2] < r}}

\* Mutant: the row that moved into the place of a full one is not looked at again.
IterationOnce(s) ==
    IF s.r < 0 THEN s
    ELSE IF Row(s.r) \subseteq s.board
    THEN [r |-> s.r - 1, board |-> RowTaken(s.board, s.r), cleared |-> s.cleared + 1]
    ELSE [s EXCEPT !.r = @ - 1]

\* One iteration of clear_lines: it looks at row r again after it has taken that row out.
Iteration(s) ==
    IF s.r < 0 THEN s
    ELSE IF Row(s.r) \subseteq s.board
    THEN [s EXCEPT !.board = RowTaken(@, s.r), !.cleared = @ + 1]
    ELSE [s EXCEPT !.r = @ - 1]

\* clear_lines, as the one state its loop ends in.  At most BOARD_H rows are taken out, so
\* it makes at most 2 * BOARD_H iterations.
clear_lines(board) ==
    LET after[n \in 0 .. 2 * BOARD_H] ==
            IF n = 0 THEN {[r |-> BOARD_H - 1, board |-> board, cleared |-> 0]}
            ELSE {Iteration(s) : s \in after[n - 1]}
    IN  after[2 * BOARD_H]

\* spawn_piece: a new piece one row above the board; the game is over if it does not fit.
spawn_piece(t) ==
    {[t EXCEPT !.piece = t.next, !.next = p, !.rot = 0,
               !.x = BOARD_W \div 2 - 2, !.y = -1,
               !.game_over = ~fits(t.board, t.next, 0, BOARD_W \div 2 - 2, -1)] : p \in Pieces}

\* tetris_init.
tetris_init ==
    UNION {spawn_piece([board |-> {}, piece |-> p, next |-> p, rot |-> 0, x |-> 0, y |-> 0,
                        cleared |-> 0, game_over |-> FALSE]) : p \in Pieces}

\* Where the piece comes to rest in its column.
RestingRow(t) ==
    CHOOSE y \in t.y .. BOARD_H :
        /\ ~fits(t.board, t.piece, t.rot, t.x, y + 1)
        /\ \A z \in t.y + 1 .. y : fits(t.board, t.piece, t.rot, t.x, z)

\* Mutant: the piece turns without looking.
TurnsBlindly(t, key) ==
    IF ~t.game_over /\ key = "up" THEN [t EXCEPT !.rot = (@ + 1) % 4] ELSE t

\* tetris_key.
tetris_key(t, key) ==
    LET moved == CASE key = "left"  -> [t EXCEPT !.x = @ - 1]
                   [] key = "right" -> [t EXCEPT !.x = @ + 1]
                   [] key = "down"  -> [t EXCEPT !.y = @ + 1]
                   [] key = "up"    -> [t EXCEPT !.rot = (@ + 1) % 4]
                   [] key = "space" -> [t EXCEPT !.y = RestingRow(t)]
                   [] OTHER -> t
    IN  IF ~t.game_over /\ fits(t.board, moved.piece, moved.rot, moved.x, moved.y)
        THEN moved ELSE t

Falls(t) == fits(t.board, t.piece, t.rot, t.x, t.y + 1)

\* Mutant: a piece that rests waits for the player.
TickWithoutLock(t) == {IF ~t.game_over /\ Falls(t) THEN [t EXCEPT !.y = @ + 1] ELSE t}

\* tetris_tick, once the interval is over: the states it may end in.
tetris_tick(t) ==
    IF t.game_over THEN {t}
    ELSE IF Falls(t) THEN {[t EXCEPT !.y = @ + 1]}
    ELSE UNION {spawn_piece([t EXCEPT !.board = s.board, !.cleared = s.cleared]) :
                    s \in clear_lines(lock_piece(t))}

=============================================================================
