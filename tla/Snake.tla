------------------------------- MODULE Snake -------------------------------
(***************************************************************************)
(* The snake game (games/snake.c), as operators on the record of its       *)
(* static variables: the cells of the snake, head first, its direction,    *)
(* the food, the score and whether the game is over.  Games composes it    *)
(* with the desktop's dispatch.                                            *)
(*                                                                         *)
(* rng_next is abstracted to its outcome: place_food finds any free cell,  *)
(* or none in its 1000 attempts.                                           *)
(***************************************************************************)
EXTENDS Integers, Sequences

CONSTANTS
    GRID_W,     \* 38 in the code
    GRID_H      \* 28 in the code

ASSUME GridAssumption == GRID_W \in Nat /\ GRID_H \in Nat \ {0} /\ GRID_W >= 4

Grid == (0 .. GRID_W - 1) \X (0 .. GRID_H - 1)
MAX_SNAKE == GRID_W * GRID_H

Heading == [up |-> <<0, -1>>, down |-> <<0, 1>>, left |-> <<-1, 0>>, right |-> <<1, 0>>]
Opposite == [up |-> "down", down |-> "up", left |-> "right", right |-> "left"]

CellsOf(body) == {body[i] : i \in 1 .. Len(body)}

\* Mutant: the loop over the snake ends before the tail.
FoodOffAllButTail(array, food) == (Grid \ {array[i] : i \in 1 .. Len(array) - 1}) \cup {food}

\* place_food: where the food may be afterwards.  It stays when all attempts fail.
place_food(array, food) == (Grid \ CellsOf(array)) \cup {food}

\* snake_init.  With three cells covered, place_food finds a free one.
snake_init ==
    LET body == [i \in 1 .. 3 |-> <<GRID_W \div 2 - (i - 1), GRID_H \div 2>>]
    IN  {[body |-> body, dir |-> "right", food |-> f, score |-> 0, game_over |-> FALSE] :
            f \in Grid \ CellsOf(body)}

\* snake_key: every key but the one against the current direction turns the snake.
snake_key(s, key) ==
    IF ~s.game_over /\ key \in DOMAIN Opposite /\ s.dir # Opposite[key]
    THEN [s EXCEPT !.dir = key]
    ELSE s

NextHead(s) ==
    <<s.body[1][1] + Heading[s.dir][1], s.body[1][2] + Heading[s.dir][2]>>

\* Mutant: the snake is not searched for its own body.
CrashesAtWallOnly(s) == NextHead(s) \notin Grid

Crashes(s) == NextHead(s) \notin Grid \/ NextHead(s) \in CellsOf(s.body)

\* The shift of the arrays by one, over the tail or (when the snake grows) behind it.
Shifted(body, grows) ==
    <<body[1]>> \o SubSeq(body, 1, Len(body) - (IF grows THEN 0 ELSE 1))

\* snake_tick, once the interval is over: the states it may end in.  The food is placed
\* before the new head is stored, when the array holds the old head twice.
snake_tick(s) ==
    LET head  == NextHead(s)
        ate   == head = s.food
        array == Shifted(s.body, ate /\ Len(s.body) < MAX_SNAKE)
    IN  IF s.game_over THEN {s}
        ELSE IF Crashes(s) THEN {[s EXCEPT !.game_over = TRUE]}
        ELSE {[s EXCEPT !.body = [array EXCEPT ![1] = head],
                        !.score = IF ate THEN @ + 10 ELSE @,
                        !.food = f] :
                f \in IF ate THEN place_food(array, s.food) ELSE {s.food}}

=============================================================================
