SPECIFICATION Spec
CONSTANTS
    WM_MAX_WINDOWS = 3
    Apps = {"Terminal", "Snake"}
    Points <- MCPoints
    TERM_ROWS = 3
    INPUT_MAX = 1
    LiveTasks = {1, 3}
INVARIANTS
    ZOrderExact
    BuffersOwned
    DragOnlyWhileHeld
    TitleOnScreen
PROPERTIES
    ClickHitsWhatIsSeen
