SPECIFICATION Spec
CHECK_DEADLOCK TRUE
CONSTANTS
    GRID_W = 4
    GRID_H = 3
    BOARD_W = 4
    BOARD_H = 5
    Pieces = {1, 2}
    FX_ONE = 4
    SCR_W = 16
    SCR_H = 24
    PADDLE_W = 6
    PADDLE_H = 2
    PADDLE_SPEED = 3
    PADDLE_GAP = 6
    BALL_GAP = 2
    BALL_SIZE = 2
    BRICK_ROWS = 2
    BRICK_COLS = 2
    BRICK_W = 6
    BRICK_H = 2
    BRICK_GAP = 1
    BRICK_OFFSET_Y = 4
    LIVES = 2
    SCREEN_H = 400
    ROT_SPEED = 12
    MOVE_SPEED = 8192
    Offsets = {0, 11, 21, 32, 41}
    MaxChanges = 2
INVARIANTS
    SnakeIsPath
    PieceFits
    ColumnsPainted
PROPERTIES
    FoodMovesOffSnake
    ClearsExactly
    PieceLands
    BallComesBack
