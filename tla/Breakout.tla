------------------------------ MODULE Breakout ------------------------------
(***************************************************************************)
(* The breakout game (games/breakout.c), as operators on the record of its *)
(* static variables.  The ball is in fixed point, with FX_ONE units to the *)
(* pixel; the court and the sizes are constants so that a small court can  *)
(* be checked.                                                             *)
(***************************************************************************)
EXTENDS Integers, FiniteSets

CONSTANTS
    FX_ONE,             \* 256 in the code
    SCR_W, SCR_H,       \* the target's size: 620 by 440 in the window, 640 by 480 without
    PADDLE_W,           \* 80 in the code
    PADDLE_H,           \* 12
    PADDLE_SPEED,       \* 8
    PADDLE_GAP,         \* from the paddle to the bottom: 40
    BALL_GAP,           \* from a new ball to the paddle: 20
    BALL_SIZE,          \* 8
    BRICK_ROWS, BRICK_COLS,         \* 5 and 10
    BRICK_W, BRICK_H, BRICK_GAP,    \* 58, 16 and 4
    BRICK_OFFSET_Y,     \* 40
    LIVES               \* 3

ASSUME BreakoutAssumption ==
    /\ FX_ONE \in Nat \ {0} /\ LIVES \in Nat \ {0}
    /\ PADDLE_W \in 2 .. SCR_W /\ PADDLE_GAP + BALL_GAP < SCR_H
    /\ BALL_SIZE \in 2 .. SCR_W - 1 /\ BRICK_ROWS \in Nat \ {0} /\ BRICK_COLS \in Nat \ {0}
    /\ BRICK_COLS * (BRICK_W + BRICK_GAP) <= SCR_W + BRICK_GAP

R == BALL_SIZE \div 2
PaddleY == SCR_H - PADDLE_GAP
Bricks == (0 .. BRICK_ROWS - 1) \X (0 .. BRICK_COLS - 1)      \* <<row, column>>
BrickX(c) ==
    (SCR_W - BRICK_COLS * (BRICK_W + BRICK_GAP) + BRICK_GAP) \div 2 + c * (BRICK_W + BRICK_GAP)
BrickY(r) == BRICK_OFFSET_Y + r * (BRICK_H + BRICK_GAP)

\* Division as in C, towards zero.
Quotient(a, b) == IF a >= 0 THEN a \div b ELSE -((-a) \div b)

Clamp(lo, v, hi) == IF v < lo THEN lo ELSE IF v > hi THEN hi ELSE v

\* reset_ball.
reset_ball(s) ==
    [s EXCEPT !.x = FX_ONE * (SCR_W \div 2), !.y = FX_ONE * (PaddleY - BALL_GAP),
              !.dx = 2 * FX_ONE, !.dy = -2 * FX_ONE]

\* breakout_init and init_bricks.
breakout_init ==
    reset_ball([bricks |-> Bricks, bricks_left |-> Cardinality(Bricks),
                paddle |-> (SCR_W - PADDLE_W) \div 2, x |-> 0, y |-> 0, dx |-> 0, dy |-> 0,
                score |-> 0, lives |-> LIVES, game_over |-> FALSE, game_won |-> FALSE])

Playing(s) == ~s.game_over /\ ~s.game_won

\* breakout_key.
breakout_key(s, key) ==
    LET step == CASE key = "left" -> -PADDLE_SPEED [] key = "right" -> PADDLE_SPEED [] OTHER -> 0
    IN  IF Playing(s) THEN [s EXCEPT !.paddle = Clamp(0, @ + step, SCR_W - PADDLE_W)] ELSE s

\* The ball in whole pixels: the shift rounds down.
Px(v) == v \div FX_ONE

\* Mutant: the ball is put back at the top wall but keeps its direction.
WallsTopSticky(s) ==
    LET bx == Px(s.x) IN
    [s EXCEPT !.x  = IF bx <= R THEN FX_ONE * R
                     ELSE IF bx >= SCR_W - R THEN FX_ONE * (SCR_W - R) ELSE @,
              !.dx = IF bx <= R \/ bx >= SCR_W - R THEN -@ ELSE @,
              !.y  = IF Px(s.y) <= R THEN FX_ONE * R ELSE @]

\* The three walls.
Walls(s) ==
    LET bx == Px(s.x) IN
    [s EXCEPT !.x  = IF bx <= R THEN FX_ONE * R
                     ELSE IF bx >= SCR_W - R THEN FX_ONE * (SCR_W - R) ELSE @,
              !.dx = IF bx <= R \/ bx >= SCR_W - R THEN -@ ELSE @,
              !.y  = IF Px(s.y) <= R THEN FX_ONE * R ELSE @,
              !.dy = IF Px(s.y) <= R THEN -@ ELSE @]

\* The paddle, for the ball seen at bx, by: it sends the ball up, the more to the side the
\* further from its middle the ball lands.
Paddle(s, bx, by) ==
    IF /\ s.dy > 0 /\ by >= PaddleY - R /\ by < PaddleY + PADDLE_H
       /\ bx >= s.paddle /\ bx <= s.paddle + PADDLE_W
    THEN [s EXCEPT
            !.dy = -@,
            !.dx = Clamp(-3 * FX_ONE,
                         Quotient((bx - s.paddle - PADDLE_W \div 2) * FX_ONE * 3, PADDLE_W \div 2),
                         3 * FX_ONE),
            !.y = FX_ONE * (PaddleY - R)]
    ELSE s

Touched(s, bx, by) ==
    {b \in s.bricks :
        /\ bx + R >= BrickX(b[2]) /\ bx - R <= BrickX(b[2]) + BRICK_W
        /\ by + R >= BrickY(b[1]) /\ by - R <= BrickY(b[1]) + BRICK_H}

\* The scan of the bricks, which ends at the first one hit.
Hit(s, bx, by) ==
    IF Touched(s, bx, by) = {} THEN s
    ELSE LET b == CHOOSE b \in Touched(s, bx, by) : \A o \in Touched(s, bx, by) :
                    b[1] < o[1] \/ (b[1] = o[1] /\ b[2] <= o[2])
         IN  [s EXCEPT !.bricks = @ \ {b}, !.bricks_left = @ - 1,
                       !.score = @ + (BRICK_ROWS - b[1]) * 10, !.dy = -@,
                       !.game_won = (s.bricks_left - 1 <= 0)]

\* breakout_tick, once the interval is over.  Paddle and bricks are compared with where
\* the ball was seen before the walls put it back.
breakout_tick(s) ==
    LET moved == [s EXCEPT !.x = @ + s.dx, !.y = @ + s.dy]
        bx == Px(moved.x)
        by == Px(moved.y)
        bounced == Walls(moved)
    IN  IF ~Playing(s) THEN s
        ELSE IF by >= SCR_H
        THEN IF s.lives - 1 <= 0 THEN [bounced EXCEPT !.lives = @ - 1, !.game_over = TRUE]
                                 ELSE reset_ball([bounced EXCEPT !.lives = @ - 1])
        ELSE Hit(Paddle(bounced, bx, by), bx, by)

=============================================================================
