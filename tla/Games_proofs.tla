---------------------------- MODULE Games_proofs ----------------------------
(***************************************************************************)
(* Proofs about the snake, tetris and the raycaster, for every size of the *)
(* grid, the board and the screen, however the player types and whatever   *)
(* the random numbers.                                                     *)
(***************************************************************************)
EXTENDS Games, FiniteSetTheorems, SequenceTheorems, TLAPS

-----------------------------------------------------------------------------
(* The snake.                                                                *)

Directions == {"up", "down", "left", "right"}

SnakeTyped(s) ==
    s \in [body : Seq(Grid), dir : Directions, food : Grid, score : Nat, game_over : BOOLEAN]
Path(body) ==
    /\ Len(body) >= 3
    /\ \A i, j \in 1 .. Len(body) : i # j => body[i] # body[j]
    /\ \A i \in 2 .. Len(body) : Adjacent(body[i - 1], body[i])

SnakeOK(s) == SnakeTyped(s) /\ Path(s.body) /\ s.score = 10 * (Len(s.body) - 3)

(* The next cell in any direction is next to the head. *)
LEMMA HeadIsAdjacent ==
    ASSUME NEW s, SnakeOK(s)
    PROVE  /\ NextHead(s) \in Int \X Int
           /\ Adjacent(NextHead(s), s.body[1])
<1>1. s.body[1] \in Grid /\ s.dir \in Directions
  BY DEF SnakeOK, SnakeTyped, Path
<1>2. s.body[1] = <<s.body[1][1], s.body[1][2]>> /\ s.body[1][1] \in Int /\ s.body[1][2] \in Int
  BY <1>1, GridAssumption DEF Grid
<1>3. Heading[s.dir] \in {<<0, -1>>, <<0, 1>>, <<-1, 0>>, <<1, 0>>}
  BY <1>1 DEF Directions, Heading
<1> QED
  BY <1>2, <1>3 DEF NextHead, Adjacent

(* A path that leaves a cell of the grid free is shorter than the arrays:    *)
(* the snake that eats always grows, and the score counts it.                *)
LEMMA RoomToGrow ==
    ASSUME NEW body \in Seq(Grid), Path(body), NEW c \in Grid, c \notin CellsOf(body)
    PROVE  Len(body) < MAX_SNAKE
<1> DEFINE T == Grid \ {c}
           n == Len(body)
<1>1. /\ IsFiniteSet(0 .. GRID_W - 1) /\ Cardinality(0 .. GRID_W - 1) = GRID_W
      /\ IsFiniteSet(0 .. GRID_H - 1) /\ Cardinality(0 .. GRID_H - 1) = GRID_H
  <2>1. GRID_W - 1 \in Int /\ GRID_H - 1 \in Int /\ 0 \in Int
        /\ ~ (0 > GRID_W - 1) /\ ~ (0 > GRID_H - 1)
        /\ GRID_W - 1 - 0 + 1 = GRID_W /\ GRID_H - 1 - 0 + 1 = GRID_H
    BY GridAssumption
  <2> QED
    BY <2>1, FS_Interval, Zenon
<1>2. IsFiniteSet(Grid) /\ Cardinality(Grid) = GRID_W * GRID_H
  BY <1>1, FS_Product DEF Grid
<1>3. IsFiniteSet(T) /\ Cardinality(T) = GRID_W * GRID_H - 1
  BY <1>2, FS_RemoveElement
<1>4. body \in Injection(1 .. n, T)
  <2>1. body \in [1 .. n -> T]
    BY DEF CellsOf
  <2> QED
    BY <2>1 DEF Injection, IsInjective, Path
<1>5. Cardinality(1 .. n) <= Cardinality(T)
  BY <1>3, <1>4, FS_Injection
<1>6. n \in Nat /\ Cardinality(1 .. n) = n
  BY FS_Interval, SMTT(30) DEF Path
<1>7. GRID_W * GRID_H \in Nat
  BY GridAssumption
<1> QED
  BY <1>3, <1>5, <1>6, <1>7 DEF MAX_SNAKE

(* The arrays after the shift: the old head twice, and the body behind it. *)
LEMMA ShiftedFacts ==
    ASSUME NEW body \in Seq(Grid), Len(body) >= 3, NEW grows \in BOOLEAN
    PROVE  /\ Shifted(body, grows) \in Seq(Grid)
           /\ Len(Shifted(body, grows)) = IF grows THEN Len(body) + 1 ELSE Len(body)
           /\ Shifted(body, grows)[1] = body[1]
           /\ \A i \in 2 .. Len(Shifted(body, grows)) : Shifted(body, grows)[i] = body[i - 1]
<1> DEFINE n == Len(body) - (IF grows THEN 0 ELSE 1)
           rest == SubSeq(body, 1, n)
<1>1. n \in Nat /\ n <= Len(body) /\ n >= 2
  OBVIOUS
<1>2. /\ rest \in Seq(Grid) /\ Len(rest) = n
      /\ \A i \in 1 .. n : rest[i] = body[i]
  <2> HIDE DEF n
  <2> QED
    BY <1>1
<1>3. Shifted(body, grows) = <<body[1]>> \o rest
  BY DEF Shifted
<1>4. <<body[1]>> \in Seq(Grid) /\ Len(<<body[1]>>) = 1
  OBVIOUS
<1> HIDE DEF rest, n
<1>5. /\ Shifted(body, grows) \in Seq(Grid)
      /\ Len(Shifted(body, grows)) = 1 + n
      /\ Shifted(body, grows)[1] = body[1]
      /\ \A i \in 2 .. 1 + n : Shifted(body, grows)[i] = rest[i - 1]
  BY <1>1, <1>2, <1>3, <1>4
<1>6. 1 + n = IF grows THEN Len(body) + 1 ELSE Len(body)
  BY DEF n
<1>7. \A i \in 2 .. 1 + n : rest[i - 1] = body[i - 1]
  BY <1>1, <1>2
<1> QED
  BY <1>5, <1>6, <1>7

(* A step of the snake to a free cell of the grid keeps the path. *)
LEMMA PathGrows ==
    ASSUME NEW s, SnakeOK(s), NextHead(s) \in Grid, NextHead(s) \notin CellsOf(s.body),
           NEW grows \in BOOLEAN
    PROVE  LET new == [Shifted(s.body, grows) EXCEPT ![1] = NextHead(s)]
           IN  /\ new \in Seq(Grid) /\ Path(new)
               /\ Len(new) = IF grows THEN Len(s.body) + 1 ELSE Len(s.body)
<1> DEFINE body == s.body
           array == Shifted(body, grows)
           head == NextHead(s)
           new == [array EXCEPT ![1] = head]
<1>1. /\ body \in Seq(Grid) /\ Len(body) >= 3 /\ Len(body) \in Nat
      /\ \A i, j \in 1 .. Len(body) : i # j => body[i] # body[j]
      /\ \A i \in 2 .. Len(body) : Adjacent(body[i - 1], body[i])
  BY DEF SnakeOK, SnakeTyped, Path
<1>2. /\ array \in Seq(Grid)
      /\ Len(array) = IF grows THEN Len(body) + 1 ELSE Len(body)
      /\ \A i \in 2 .. Len(array) : array[i] = body[i - 1]
  BY <1>1, ShiftedFacts
<1>3. Adjacent(head, body[1])
  BY HeadIsAdjacent
<1>4. \A i \in 1 .. Len(body) : body[i] # head
  BY DEF CellsOf
<1> HIDE DEF body, array, head
<1>5. /\ new \in Seq(Grid) /\ Len(new) = Len(array) /\ new[1] = head
      /\ \A i \in 2 .. Len(array) : new[i] = body[i - 1]
  BY <1>1, <1>2 DEF head
<1> HIDE DEF new
<1>6. /\ Len(new) \in Nat /\ Len(new) >= 3
      /\ \A i \in 2 .. Len(new) : i - 1 \in 1 .. Len(body)
  BY <1>1, <1>2, <1>5
<1>7. \A i, j \in 1 .. Len(new) : i # j => new[i] # new[j]
  <2> SUFFICES ASSUME NEW i \in 1 .. Len(new), NEW j \in 1 .. Len(new), i < j
               PROVE  new[i] # new[j]
    BY <1>6
  <2>1. j \in 2 .. Len(new) /\ new[j] = body[j - 1] /\ j - 1 \in 1 .. Len(body)
    BY <1>5, <1>6
  <2>2. CASE i = 1
    BY <1>4, <1>5, <2>1, <2>2
  <2>3. CASE i # 1
    BY <1>1, <1>5, <1>6, <2>1, <2>3, SMTT(30)
  <2> QED
    BY <2>2, <2>3
<1>8. \A i \in 2 .. Len(new) : Adjacent(new[i - 1], new[i])
  <2> SUFFICES ASSUME NEW i \in 2 .. Len(new)
               PROVE  Adjacent(new[i - 1], new[i])
    OBVIOUS
  <2>1. new[i] = body[i - 1] /\ i - 1 \in 1 .. Len(body)
    BY <1>5, <1>6
  <2>2. CASE i = 2
    BY <1>3, <1>5, <2>1, <2>2
  <2>3. CASE i # 2
    <3>1. new[i - 1] = body[i - 1 - 1] /\ i - 1 \in 2 .. Len(body)
      BY <1>5, <1>6, <2>1, <2>3
    <3> QED
      BY <1>1, <2>1, <3>1
  <2> QED
    BY <2>2, <2>3
<1>9. Path(new) /\ Len(new) = IF grows THEN Len(body) + 1 ELSE Len(body)
  BY <1>2, <1>5, <1>6, <1>7, <1>8 DEF Path
<1> QED
  BY <1>5, <1>9 DEF new, array, head, body

(* snake_init puts three cells in a row into the grid. *)
LEMMA SnakeInit == \A s \in snake_init : SnakeOK(s)
<1> DEFINE body == [i \in 1 .. 3 |-> <<GRID_W \div 2 - (i - 1), GRID_H \div 2>>]
<1> SUFFICES ASSUME NEW s \in snake_init PROVE SnakeOK(s)
  OBVIOUS
<1>1. PICK f \in Grid :
        s = [body |-> body, dir |-> "right", food |-> f, score |-> 0, game_over |-> FALSE]
  BY DEF snake_init
<1>2. /\ GRID_W \div 2 \in 2 .. GRID_W - 1
      /\ GRID_H \div 2 \in 0 .. GRID_H - 1
  BY GridAssumption
<1>3. body \in [1 .. 3 -> Grid]
  BY <1>2, GridAssumption DEF Grid
<1>4. body \in Seq(Grid) /\ Len(body) = 3
  <2> HIDE DEF body
  <2>1. body \in Seq(Grid)
    BY <1>3, SeqDef
  <2> QED
    BY <1>3, <2>1, LenProperties
<1>5. Path(body)
  <2>1. /\ \A i, j \in 1 .. 3 : i # j => body[i] # body[j]
        /\ \A i \in 2 .. 3 : Adjacent(body[i - 1], body[i])
    <3> DEFINE w == GRID_W \div 2
               h == GRID_H \div 2
    <3>1. w \in Int /\ h \in Int
      BY <1>2
    <3> HIDE DEF w, h
    <3>2. \A i \in 1 .. 3 : body[i] = <<w - (i - 1), h>>
      BY DEF w, h
    <3> HIDE DEF body
    <3> QED
      BY <3>1, <3>2 DEF Adjacent
  <2> HIDE DEF body
  <2> QED
    BY <1>4, <2>1 DEF Path
<1> HIDE DEF body
<1>6. s.body = body /\ s.score = 0
  BY <1>1
<1>7. SnakeTyped(s)
  <2>1. "right" \in Directions
    BY DEF Directions
  <2> QED
    BY <1>1, <1>4, <2>1 DEF SnakeTyped
<1>8. s.score = 10 * (Len(s.body) - 3)
  <2>1. Len(s.body) = 3
    BY <1>4, <1>6
  <2>2. 10 * (Len(s.body) - 3) = 0
    BY <2>1
  <2> QED
    BY <1>6, <2>2
<1> QED
  BY <1>5, <1>6, <1>7, <1>8 DEF SnakeOK

(* snake_key changes the direction at most. *)
LEMMA SnakeKey ==
    ASSUME NEW s, SnakeOK(s), NEW key \in Keys
    PROVE  SnakeOK(snake_key(s, key)) /\ snake_key(s, key).food = s.food
<1>1. DOMAIN Opposite = Directions
  BY DEF Opposite, Directions
<1>2. snake_key(s, key) = s \/ \E d \in Directions : snake_key(s, key) = [s EXCEPT !.dir = d]
  BY <1>1 DEF snake_key
<1> QED
  BY <1>2 DEF SnakeOK, SnakeTyped

(* snake_tick keeps the path, and the food it moves is off the snake. *)
LEMMA SnakeTick ==
    ASSUME NEW s, SnakeOK(s), NEW t \in snake_tick(s)
    PROVE  /\ SnakeOK(t)
           /\ t.food # s.food => t.food \notin CellsOf(t.body)
<1> DEFINE head == NextHead(s)
           ate == head = s.food
           grows == ate /\ Len(s.body) < MAX_SNAKE
           array == Shifted(s.body, grows)
           new == [array EXCEPT ![1] = head]
<1>1. CASE s.game_over
  <2>1. t = s
    BY <1>1 DEF snake_tick
  <2> QED
    BY <2>1
<1>2. CASE ~s.game_over /\ Crashes(s)
  <2>1. t = [s EXCEPT !.game_over = TRUE]
    BY <1>2 DEF snake_tick
  <2> QED
    BY <2>1 DEF SnakeOK, SnakeTyped
<1>3. CASE ~s.game_over /\ ~Crashes(s)
  <2>1. head \in Grid /\ head \notin CellsOf(s.body)
    BY <1>3 DEF Crashes
  <2>2. s.body \in Seq(Grid) /\ Path(s.body) /\ Len(s.body) \in Nat /\ Len(s.body) >= 3
    BY DEF SnakeOK, SnakeTyped, Path
  <2>3. grows = ate
    BY <2>1, <2>2, RoomToGrow
  <2>4. grows \in BOOLEAN
    OBVIOUS
  <2>5. /\ new \in Seq(Grid) /\ Path(new)
        /\ Len(new) = IF grows THEN Len(s.body) + 1 ELSE Len(s.body)
    BY <2>1, <2>4, PathGrows
  <2>6. PICK f \in IF ate THEN place_food(array, s.food) ELSE {s.food} :
          t = [s EXCEPT !.body = new, !.score = IF ate THEN @ + 10 ELSE @, !.food = f]
    BY <1>3 DEF snake_tick
  <2>7. f \in Grid
    BY <2>6 DEF place_food, SnakeOK, SnakeTyped
  <2>8. /\ t.body = new /\ t.food = f
        /\ t.score = IF ate THEN s.score + 10 ELSE s.score
    BY <2>6 DEF SnakeOK, SnakeTyped
  <2>9. SnakeOK(t)
    <3>1. s.score \in Nat /\ s.score = 10 * (Len(s.body) - 3)
      BY DEF SnakeOK, SnakeTyped
    <3>2. t.score = 10 * (Len(new) - 3) /\ t.score \in Nat
      <4> HIDE DEF new, ate, grows
      <4> QED
        BY <2>2, <2>3, <2>5, <2>8, <3>1
    <3>3. (IF ate THEN s.score + 10 ELSE s.score) \in Nat
      BY <3>1
    <3>4. SnakeTyped(t)
      <4> HIDE DEF new, ate
      <4> QED
        BY <2>5, <2>6, <2>7, <3>3 DEF SnakeOK, SnakeTyped
    <3> QED
      BY <2>5, <2>8, <3>2, <3>4 DEF SnakeOK
  <2>10. ASSUME f # s.food PROVE f \notin CellsOf(new)
    <3>1. ate /\ f \notin CellsOf(array)
      BY <2>6, <2>10 DEF place_food
    <3>2. f # head
      BY <2>10, <3>1
    <3>3. array \in Seq(Grid) /\ Len(array) \in Nat
      <4> HIDE DEF grows
      <4> QED
        BY <2>2, <2>4, ShiftedFacts
    <3> HIDE DEF array, head
    <3>4. \A i \in 1 .. Len(new) : i \in 1 .. Len(array) /\ (new[i] = array[i] \/ new[i] = head)
      BY <3>3
    <3> QED
      BY <3>1, <3>2, <3>4 DEF CellsOf
  <2> QED
    BY <2>8, <2>9, <2>10
<1> QED
  BY <1>1, <1>2, <1>3

SnakeInv == app = "Snake" => SnakeOK(game)

(* Every step keeps the snake a path. *)
LEMMA SnakeStep ==
    ASSUME SnakeInv, [Next]_vars
    PROVE  SnakeInv' /\ (app = "Snake" /\ app' = "Snake" /\ game'.food # game.food
                            => game'.food \notin CellsOf(game'.body))
<1> SUFFICES ASSUME app' = "Snake"
             PROVE  SnakeOK(game)' /\ (app = "Snake" /\ game'.food # game.food
                                         => game'.food \notin CellsOf(game'.body))
  BY DEF SnakeInv
<1>1. CASE \E a \in Apps : AppInit(a)
  <2>1. app = "none" /\ game' \in snake_init
    BY <1>1 DEF AppInit, Apps
  <2> QED
    BY <2>1, SnakeInit
<1>2. CASE Close
  BY <1>2 DEF Close
<1>3. ASSUME NEW key \in Keys, AppKey(key)
      PROVE  SnakeOK(game)' /\ game'.food = game.food
  <2>1. app = "Snake" /\ game' = snake_key(game, key)
    BY <1>3 DEF AppKey
  <2> QED
    BY <2>1, SnakeKey DEF SnakeInv
<1>4. CASE AppTick
  <2>1. app = "Snake" /\ game' \in snake_tick(game)
    BY <1>4 DEF AppTick
  <2> QED
    BY <2>1, SnakeTick DEF SnakeInv
<1>5. CASE UNCHANGED vars
  BY <1>5 DEF vars, SnakeInv
<1> QED
  BY <1>1, <1>2, <1>3, <1>4, <1>5 DEF Next

(* The arrays of the snake are a path through the grid that never crosses    *)
(* itself and is as long as the score says, on every grid and for every      *)
(* sequence of keys between the ticks.                                       *)
THEOREM SnakeStaysPath == Spec => []SnakeIsPath
<1>1. Init => SnakeInv
  BY DEF Init, SnakeInv
<1>2. SnakeInv /\ [Next]_vars => SnakeInv'
  BY SnakeStep
<1>3. SnakeInv => SnakeIsPath
  BY DEF SnakeInv, SnakeOK, SnakeTyped, Path, SnakeIsPath, CellsOf
<1> QED
  BY <1>1, <1>2, <1>3, PTL DEF Spec

(* Food that moves is placed on a cell that the snake does not cover. *)
THEOREM FoodPlacedFree == Spec => FoodMovesOffSnake
<1>1. Init => SnakeInv
  BY DEF Init, SnakeInv
<1>2. SnakeInv /\ [Next]_vars => SnakeInv'
  BY SnakeStep
<1>3. SnakeInv /\ [Next]_vars =>
        [app = "Snake" /\ app' = "Snake" /\ game'.food # game.food
            => game'.food \notin CellsOf(game'.body)]_vars
  BY SnakeStep
<1> QED
  BY <1>1, <1>2, <1>3, PTL DEF Spec, FoodMovesOffSnake

-----------------------------------------------------------------------------
(* The loop of clear_lines.                                                  *)

(* A nonempty set of naturals has a least element. *)
LEMMA LeastNatural ==
    ASSUME NEW S, S \subseteq Nat, S # {}
    PROVE  \E m \in S : \A j \in S : m <= j
<1>1. PICK m \in S : \A j \in S : ~ (<<j, m>> \in OpToRel(<, Nat))
  BY NatLessThanWellFounded, WFMin
<1>2. \A j \in S : ~ (j < m)
  BY <1>1 DEF OpToRel
<1> QED
  BY <1>2

\* The function of the iterations up to number m, from the set A of states.
Iterates(g, m, A) == g = [n \in 0 .. m |-> IF n = 0 THEN A ELSE {Iteration(s) : s \in g[n - 1]}]

(* There are such functions: the definition of clear_lines by recursion is   *)
(* meaningful.                                                               *)
LEMMA IteratesExist ==
    ASSUME NEW A, NEW m \in Nat
    PROVE  \E g : Iterates(g, m, A)
<1> DEFINE bad == {j \in Nat : ~ \E g : Iterates(g, j, A)}
<1> SUFFICES ASSUME bad # {} PROVE FALSE
  OBVIOUS
<1>1. PICK j \in bad : \A l \in bad : j <= l
  <2> bad \subseteq Nat
    OBVIOUS
  <2> HIDE DEF bad
  <2> QED
    BY LeastNatural
<1>2. j \in Nat /\ ~ \E g : Iterates(g, j, A)
  OBVIOUS
<1>3. CASE j = 0
  <2>1. Iterates([n \in 0 .. 0 |-> A], 0, A)
    BY DEF Iterates
  <2> QED
    BY <1>2, <1>3, <2>1
<1>4. CASE j # 0
  <2>1. PICK g : Iterates(g, j - 1, A)
    BY <1>1, <1>2, <1>4
  <2> DEFINE h == [n \in 0 .. j |-> IF n = j THEN {Iteration(s) : s \in g[j - 1]} ELSE g[n]]
  <2>2. \A n \in 0 .. j - 1 : g[n] = IF n = 0 THEN A ELSE {Iteration(s) : s \in g[n - 1]}
    BY <2>1 DEF Iterates
  <2>3. \A n \in 0 .. j - 1 : h[n] = g[n]
    BY <1>2
  <2>4. \A n \in 0 .. j : h[n] = IF n = 0 THEN A ELSE {Iteration(s) : s \in h[n - 1]}
    <3> SUFFICES ASSUME NEW n \in 0 .. j
                 PROVE  h[n] = IF n = 0 THEN A ELSE {Iteration(s) : s \in h[n - 1]}
      OBVIOUS
    <3>1. CASE n = j
      <4>1. h[n] = {Iteration(s) : s \in g[j - 1]} /\ h[j - 1] = g[j - 1] /\ n # 0
        BY <1>2, <1>4, <2>3, <3>1
      <4> HIDE DEF h
      <4> QED
        BY <3>1, <4>1
    <3>2. CASE n # j
      <4>1. n \in 0 .. j - 1 /\ h[n] = g[n] /\ (n # 0 => h[n - 1] = g[n - 1])
        BY <1>2, <2>3, <3>2
      <4> HIDE DEF h
      <4> QED
        BY <2>2, <4>1
    <3> QED
      BY <3>1, <3>2
  <2>5. Iterates(h, j, A)
    <3>1. h = [n \in 0 .. j |-> h[n]]
      OBVIOUS
    <3> HIDE DEF h
    <3> QED
      BY <2>4, <3>1 DEF Iterates
  <2> QED
    BY <1>2, <2>5
<1> QED
  BY <1>3, <1>4

(* clear_lines as the last of its iterations. *)
LEMMA ClearLinesIterates ==
    ASSUME NEW board
    PROVE  \E g : /\ Iterates(g, 2 * BOARD_H, {[r |-> BOARD_H - 1, board |-> board, cleared |-> 0]})
                  /\ clear_lines(board) = g[2 * BOARD_H]
<1> DEFINE K == 2 * BOARD_H
           A == {[r |-> BOARD_H - 1, board |-> board, cleared |-> 0]}
           g == CHOOSE h : Iterates(h, K, A)
<1>1. K \in Nat
  BY TetrisAssumption
<1>2. Iterates(g, K, A)
  <2> HIDE DEF A, K
  <2>1. \E h : Iterates(h, K, A)
    BY <1>1, IteratesExist
  <2> QED
    BY <2>1
<1>3. clear_lines(board) = g[K]
  BY DEF clear_lines, Iterates
<1> QED
  BY <1>2, <1>3

Board == (0 .. BOARD_W - 1) \X (0 .. BOARD_H - 1)

\* How many full rows of the board O there are below row z.
Gone(O, z) == Cardinality({f \in FullRows(O) : f > z})

(* The full rows below a row, counted. *)
LEMMA GoneFacts ==
    ASSUME NEW O, NEW a \in Int
    PROVE  /\ Gone(O, a) \in Nat
           /\ a >= 0 /\ a <= BOARD_H - 1 => Gone(O, a) <= BOARD_H - 1 - a
           /\ a \in FullRows(O) => Gone(O, a - 1) = Gone(O, a) + 1
           /\ a \notin FullRows(O) => Gone(O, a - 1) = Gone(O, a)
           /\ \A z \in Int : a < z /\ z \notin FullRows(O) => Gone(O, a) <= Gone(O, z) + (z - 1 - a)
<1> DEFINE F == FullRows(O)
           After(z) == {f \in F : f > z}
<1>1. F \subseteq 0 .. BOARD_H - 1 /\ BOARD_H \in Nat
  BY TetrisAssumption DEF FullRows
<1>2. IsFiniteSet(0 .. BOARD_H - 1)
  BY <1>1, FS_Interval
<1>3. IsFiniteSet(F)
  BY <1>1, <1>2, FS_Subset
<1>4. \A z : IsFiniteSet(After(z))
  BY <1>3, FS_Subset
<1>5. \A z : Gone(O, z) = Cardinality(After(z)) /\ Gone(O, z) \in Nat
  BY <1>4, FS_CardinalityType DEF Gone
<1>a. \A z, f : f \in After(z) <=> f \in F /\ f > z
  OBVIOUS
<1>b. \A f \in F : f \in Int /\ 0 <= f /\ f <= BOARD_H - 1
  BY <1>1
<1> HIDE DEF F, After
<1>6. a >= 0 /\ a <= BOARD_H - 1 => Gone(O, a) <= BOARD_H - 1 - a
  <2> SUFFICES ASSUME a >= 0, a <= BOARD_H - 1 PROVE Gone(O, a) <= BOARD_H - 1 - a
    OBVIOUS
  <2>1. After(a) \subseteq a + 1 .. BOARD_H - 1
    <3> SUFFICES ASSUME NEW f \in After(a) PROVE f \in a + 1 .. BOARD_H - 1
      OBVIOUS
    <3>1. f \in Int /\ f <= BOARD_H - 1 /\ f > a
      BY <1>a, <1>b
    <3> QED
      BY <1>1, <3>1
  <2>2. /\ IsFiniteSet(a + 1 .. BOARD_H - 1)
        /\ Cardinality(a + 1 .. BOARD_H - 1) =
             IF a + 1 > BOARD_H - 1 THEN 0 ELSE BOARD_H - 1 - (a + 1) + 1
    <3>1. a + 1 \in Int /\ BOARD_H - 1 \in Int
      BY <1>1
    <3> QED
      BY <3>1, FS_Interval
  <2>3. Cardinality(After(a)) <= Cardinality(a + 1 .. BOARD_H - 1)
    BY <2>1, <2>2, FS_Subset
  <2> QED
    BY <1>1, <1>5, <2>2, <2>3
<1>7. a \in F => Gone(O, a - 1) = Gone(O, a) + 1
  <2> SUFFICES ASSUME a \in F PROVE Gone(O, a - 1) = Gone(O, a) + 1
    OBVIOUS
  <2>1. \A f \in F : f > a - 1 <=> f > a \/ f = a
    BY <1>b
  <2>2. \A f : f \in After(a - 1) <=> f \in After(a) \/ f = a
    BY <1>a, <2>1
  <2>3. After(a - 1) = After(a) \cup {a}
    BY <2>2
  <2>4. a \notin After(a)
    BY <1>a
  <2> QED
    BY <1>4, <1>5, <2>3, <2>4, FS_AddElement
<1>8. a \notin F => Gone(O, a - 1) = Gone(O, a)
  <2> SUFFICES ASSUME a \notin F PROVE Gone(O, a - 1) = Gone(O, a)
    OBVIOUS
  <2>1. \A f \in F : f > a - 1 <=> f > a
    BY <1>b
  <2>2. \A f : f \in After(a - 1) <=> f \in After(a)
    BY <1>a, <2>1
  <2>3. After(a - 1) = After(a)
    BY <2>2
  <2> QED
    BY <1>5, <2>3
<1>9. ASSUME NEW z \in Int, a < z, z \notin F
      PROVE  Gone(O, a) <= Gone(O, z) + (z - 1 - a)
  <2> DEFINE I == a + 1 .. z - 1
  <2>1. After(a) \subseteq After(z) \cup I
    BY <1>9, <1>a, <1>b
  <2>2. IsFiniteSet(I) /\ Cardinality(I) = z - 1 - a
    <3>1. /\ a + 1 \in Int /\ z - 1 \in Int
          /\ (IF a + 1 > z - 1 THEN 0 ELSE z - 1 - (a + 1) + 1) = z - 1 - a
      BY <1>9
    <3> QED
      BY <3>1, FS_Interval
  <2> HIDE DEF I
  <2>3. /\ IsFiniteSet(After(z) \cup I)
        /\ Cardinality(After(z) \cup I) = Cardinality(After(z)) + Cardinality(I) - Cardinality(After(z) \cap I)
    BY <1>4, <2>2, FS_Union
  <2>4. Cardinality(After(a)) <= Cardinality(After(z) \cup I)
    BY <2>1, <2>3, FS_Subset
  <2>5. Cardinality(After(z) \cap I) \in Nat
    <3>1. IsFiniteSet(After(z) \cap I)
      BY <1>4, FS_Subset
    <3> QED
      BY <3>1, FS_CardinalityType
  <2> QED
    BY <1>5, <1>9, <2>2, <2>3, <2>4, <2>5
<1> QED
  BY <1>5, <1>6, <1>7, <1>8, <1>9 DEF F

\* The state of the loop after n iterations, begun on the board O: the rows below r are as
\* they will be, the others as they were but moved down by the number of rows cleared.
ClearLoop(O, n, s) ==
    /\ s \in [r : -1 .. BOARD_H - 1, board : SUBSET Board, cleared : 0 .. BOARD_H]
    /\ s.r >= 0 => n = s.cleared + (BOARD_H - 1 - s.r)
    /\ s.cleared = Gone(O, s.r - s.cleared)
    /\ \A y \in s.r + 1 .. BOARD_H - 1 : ~ (Row(y) \subseteq s.board)
    /\ \A x \in 0 .. BOARD_W - 1, y \in 0 .. s.r :
        <<x, y>> \in s.board <=> <<x, y - s.cleared>> \in O
    /\ \A x \in 0 .. BOARD_W - 1, y \in s.r + 1 .. BOARD_H - 1 :
        <<x, y>> \in s.board <=>
            \E z \in 0 .. BOARD_H - 1 : /\ z > s.r - s.cleared /\ z \notin FullRows(O)
                                        /\ <<x, z>> \in O /\ y = z + Gone(O, z)

(* A row taken out: the rows below it stay, the rows above it move down by one. *)
LEMMA RowTakenFacts ==
    ASSUME NEW board \in SUBSET Board, NEW r \in 0 .. BOARD_H - 1
    PROVE  /\ RowTaken(board, r) \in SUBSET Board
           /\ \A x, y \in Int :
                <<x, y>> \in RowTaken(board, r) <=>
                    \/ y > r /\ <<x, y>> \in board
                    \/ y - 1 < r /\ <<x, y - 1>> \in board
<1>1. BOARD_H \in Nat /\ BOARD_W \in Nat
  BY TetrisAssumption
<1>2. \A b \in board : /\ b = <<b[1], b[2]>>
                       /\ b[1] \in 0 .. BOARD_W - 1 /\ b[2] \in 0 .. BOARD_H - 1
  BY DEF Board
<1>3. \A b : b \in RowTaken(board, r) <=>
        \/ b \in board /\ b[2] > r
        \/ \E c \in board : c[2] < r /\ b = <<c[1], c[2] + 1>>
  BY DEF RowTaken
<1>4. RowTaken(board, r) \in SUBSET Board
  <2> SUFFICES ASSUME NEW b \in RowTaken(board, r) PROVE b \in Board
    OBVIOUS
  <2>1. CASE b \in board
    BY <2>1
  <2>2. CASE \E c \in board : c[2] < r /\ b = <<c[1], c[2] + 1>>
    <3>1. PICK c \in board : c[2] < r /\ b = <<c[1], c[2] + 1>>
      BY <2>2
    <3>2. c[1] \in 0 .. BOARD_W - 1 /\ c[2] + 1 \in 0 .. BOARD_H - 1
      BY <1>1, <1>2, <3>1
    <3> QED
      BY <3>1, <3>2 DEF Board
  <2> QED
    BY <1>3, <2>1, <2>2
<1>5. ASSUME NEW x \in Int, NEW y \in Int
      PROVE  <<x, y>> \in RowTaken(board, r) <=>
                    \/ y > r /\ <<x, y>> \in board
                    \/ y - 1 < r /\ <<x, y - 1>> \in board
  <2>1. (\E c \in board : c[2] < r /\ <<x, y>> = <<c[1], c[2] + 1>>)
          => y - 1 < r /\ <<x, y - 1>> \in board
    <3> SUFFICES ASSUME NEW c \in board, c[2] < r, <<x, y>> = <<c[1], c[2] + 1>>
                 PROVE  y - 1 < r /\ <<x, y - 1>> \in board
      OBVIOUS
    <3>1. c[1] = x /\ c[2] = y - 1
      BY <1>2
    <3> QED
      BY <1>2, <3>1
  <2>2. y - 1 < r /\ <<x, y - 1>> \in board
          => \E c \in board : c[2] < r /\ <<x, y>> = <<c[1], c[2] + 1>>
    <3> SUFFICES ASSUME y - 1 < r, <<x, y - 1>> \in board
                 PROVE  \E c \in board : c[2] < r /\ <<x, y>> = <<c[1], c[2] + 1>>
      OBVIOUS
    <3>1. <<x, y - 1>>[1] = x /\ <<x, y - 1>>[2] = y - 1 /\ (y - 1) + 1 = y
      OBVIOUS
    <3> QED
      BY <3>1
  <2>3. <<x, y>>[2] = y
    OBVIOUS
  <2> QED
    BY <1>3, <2>1, <2>2, <2>3
<1> QED
  BY <1>4, <1>5

(* A row is full when each of its cells is filled. *)
LEMMA RowFull ==
    ASSUME NEW B, NEW y
    PROVE  Row(y) \subseteq B <=> \A x \in 0 .. BOARD_W - 1 : <<x, y>> \in B
BY DEF Row

(* An iteration that takes a row out keeps the invariant of the loop. *)
LEMMA TakingKeeps ==
    ASSUME NEW O \in SUBSET Board, NEW n \in Nat, NEW s,
           ClearLoop(O, n, s), s.r >= 0, Row(s.r) \subseteq s.board
    PROVE  ClearLoop(O, n + 1, [s EXCEPT !.board = RowTaken(@, s.r), !.cleared = @ + 1])
<1> DEFINE r == s.r
           c == s.cleared
           B == RowTaken(s.board, s.r)
           t == [s EXCEPT !.board = RowTaken(@, s.r), !.cleared = @ + 1]
           W == 0 .. BOARD_W - 1
<1>1. /\ r \in 0 .. BOARD_H - 1 /\ c \in 0 .. BOARD_H /\ s.board \in SUBSET Board
      /\ n = c + (BOARD_H - 1 - r) /\ c = Gone(O, r - c)
      /\ BOARD_H \in Nat /\ BOARD_W \in Nat /\ 0 \in W /\ W \subseteq Int
  BY TetrisAssumption DEF ClearLoop
<1>a. s \in [r : -1 .. BOARD_H - 1, board : SUBSET Board, cleared : 0 .. BOARD_H]
  BY DEF ClearLoop
<1>2. t.r = r /\ t.board = B /\ t.cleared = c + 1
  BY <1>a
<1>3. B \in SUBSET Board
  BY <1>1, RowTakenFacts
<1>4. \A x, y \in Int :
        <<x, y>> \in B <=> \/ y > r /\ <<x, y>> \in s.board
                           \/ y - 1 < r /\ <<x, y - 1>> \in s.board
  BY <1>1, RowTakenFacts
<1>5. \A x \in W, y \in 0 .. r : <<x, y>> \in s.board <=> <<x, y - c>> \in O
  BY DEF ClearLoop
<1>6. \A x \in W : <<x, r - c>> \in O
  <2> SUFFICES ASSUME NEW x \in W PROVE <<x, r - c>> \in O
    OBVIOUS
  <2>1. <<x, r>> \in s.board
    BY RowFull
  <2> QED
    BY <1>1, <1>5, <2>1
<1>7. r - c \in 0 .. BOARD_H - 1
  BY <1>1, <1>6 DEF Board
<1>8. r - c \in FullRows(O)
  BY <1>6, <1>7, RowFull DEF FullRows
<1>9. ASSUME NEW x \in W, NEW y \in Int, ~ (y \in 0 .. BOARD_H - 1)
      PROVE  <<x, y>> \notin s.board /\ <<x, y>> \notin O
  BY <1>1, <1>9 DEF Board
<1> HIDE DEF t, B, W, r, c
<1>10. t \in [r : -1 .. BOARD_H - 1, board : SUBSET Board, cleared : 0 .. BOARD_H]
  <2>1. c + 1 \in 0 .. BOARD_H /\ r \in -1 .. BOARD_H - 1
    BY <1>1, <1>7
  <2> QED
    BY <1>a, <1>3, <2>1 DEF t, B, c
<1>11. n + 1 = (c + 1) + (BOARD_H - 1 - r)
  BY <1>1
<1>12. c + 1 = Gone(O, r - (c + 1))
  <2>1. r - c \in Int /\ (r - c) - 1 = r - (c + 1)
    BY <1>1
  <2>2. Gone(O, (r - c) - 1) = Gone(O, r - c) + 1
    BY <1>8, <2>1, GoneFacts
  <2> QED
    BY <1>1, <2>1, <2>2
<1>13. ASSUME NEW x \in W, NEW y \in r + 1 .. BOARD_H - 1
       PROVE  <<x, y>> \in B <=> <<x, y>> \in s.board
  <2>1. x \in Int /\ y \in Int /\ y > r /\ ~ (y - 1 < r)
    BY <1>1
  <2> QED
    BY <1>4, <2>1
<1>14. ASSUME NEW y \in r + 1 .. BOARD_H - 1
       PROVE  ~ (Row(y) \subseteq B)
  <2>1. ~ (Row(y) \subseteq s.board)
    BY DEF ClearLoop, r
  <2> QED
    BY <1>13, <2>1, RowFull DEF W
<1>15. ASSUME NEW x \in W, NEW y \in 0 .. r
       PROVE  <<x, y>> \in B <=> <<x, y - (c + 1)>> \in O
  <2>1. y \in Int /\ x \in Int /\ ~ (y > r) /\ y - 1 < r /\ y - 1 \in Int
    BY <1>1
  <2>2. <<x, y>> \in B <=> <<x, y - 1>> \in s.board
    BY <1>4, <2>1
  <2>3. CASE y = 0
    <3>1. ~ (y - 1 \in 0 .. BOARD_H - 1) /\ ~ (y - (c + 1) \in 0 .. BOARD_H - 1) /\ y - (c + 1) \in Int
      BY <1>1, <2>3
    <3> QED
      BY <1>9, <2>1, <2>2, <3>1
  <2>4. CASE y # 0
    <3>1. y - 1 \in 0 .. r /\ (y - 1) - c = y - (c + 1)
      BY <1>1, <2>4
    <3> QED
      BY <1>5, <2>2, <3>1
  <2> QED
    BY <2>3, <2>4
<1>16. ASSUME NEW x \in W, NEW y \in r + 1 .. BOARD_H - 1
       PROVE  <<x, y>> \in B <=>
                \E z \in 0 .. BOARD_H - 1 : /\ z > r - (c + 1) /\ z \notin FullRows(O)
                                            /\ <<x, z>> \in O /\ y = z + Gone(O, z)
  <2>1. <<x, y>> \in s.board <=>
                \E z \in 0 .. BOARD_H - 1 : /\ z > r - c /\ z \notin FullRows(O)
                                            /\ <<x, z>> \in O /\ y = z + Gone(O, z)
    BY DEF ClearLoop, W, r, c
  <2>2. \A z \in 0 .. BOARD_H - 1 :
            z \notin FullRows(O) => (z > r - c <=> z > r - (c + 1))
    <3>1. \A z \in 0 .. BOARD_H - 1 : z > r - (c + 1) <=> z > r - c \/ z = r - c
      BY <1>1
    <3> QED
      BY <1>8, <3>1
  <2> QED
    BY <1>13, <2>1, <2>2
<1> QED
  <2> SUFFICES ClearLoop(O, n + 1, t)
    BY DEF t
  <2> QED
    <3>1. /\ t.r >= 0 => n + 1 = t.cleared + (BOARD_H - 1 - t.r)
          /\ t.cleared = Gone(O, t.r - t.cleared)
      BY <1>2, <1>11, <1>12
    <3>2. \A y \in t.r + 1 .. BOARD_H - 1 : ~ (Row(y) \subseteq t.board)
      BY <1>2, <1>14
    <3>3. \A x \in W, y \in 0 .. t.r : <<x, y>> \in t.board <=> <<x, y - t.cleared>> \in O
      BY <1>2, <1>15
    <3>4. \A x \in W, y \in t.r + 1 .. BOARD_H - 1 :
            <<x, y>> \in t.board <=>
                \E z \in 0 .. BOARD_H - 1 : /\ z > t.r - t.cleared /\ z \notin FullRows(O)
                                            /\ <<x, z>> \in O /\ y = z + Gone(O, z)
      BY <1>2, <1>16, ZenonT(30)
    <3> QED
      BY <1>10, <3>1, <3>2, <3>3, <3>4 DEF ClearLoop, W

(* An iteration that finds the row not full and goes on keeps it as well. *)
LEMMA PassingKeeps ==
    ASSUME NEW O \in SUBSET Board, NEW n \in Nat, NEW s,
           ClearLoop(O, n, s), s.r >= 0, ~ (Row(s.r) \subseteq s.board)
    PROVE  ClearLoop(O, n + 1, [s EXCEPT !.r = @ - 1])
<1> DEFINE r == s.r
           c == s.cleared
           B == s.board
           t == [s EXCEPT !.r = @ - 1]
           W == 0 .. BOARD_W - 1
<1>1. /\ r \in 0 .. BOARD_H - 1 /\ c \in 0 .. BOARD_H /\ B \in SUBSET Board
      /\ n = c + (BOARD_H - 1 - r) /\ c = Gone(O, r - c)
      /\ BOARD_H \in Nat /\ BOARD_W \in Nat /\ 0 \in W /\ W \subseteq Int
  BY TetrisAssumption DEF ClearLoop
<1>a. s \in [r : -1 .. BOARD_H - 1, board : SUBSET Board, cleared : 0 .. BOARD_H]
  BY DEF ClearLoop
<1>2. t.r = r - 1 /\ t.board = B /\ t.cleared = c
  BY <1>a
<1>3. \A x \in W, y \in 0 .. r : <<x, y>> \in B <=> <<x, y - c>> \in O
  BY DEF ClearLoop
<1>4. r - c \notin FullRows(O)
  <2> SUFFICES ASSUME r - c \in FullRows(O) PROVE FALSE
    OBVIOUS
  <2>1. \A x \in W : <<x, r - c>> \in O
    BY RowFull DEF FullRows
  <2>2. r \in 0 .. r
    BY <1>1
  <2>3. \A x \in W : <<x, r>> \in B
    BY <1>3, <2>1, <2>2
  <2> QED
    BY <2>3, RowFull
<1>5. t \in [r : -1 .. BOARD_H - 1, board : SUBSET Board, cleared : 0 .. BOARD_H]
  <2>1. r - 1 \in -1 .. BOARD_H - 1
    BY <1>1
  <2> QED
    BY <1>a, <2>1
<1> HIDE DEF t, B, W, r, c
<1>6. /\ n + 1 = c + (BOARD_H - 1 - (r - 1))
      /\ r - c \in Int /\ (r - c) - 1 = (r - 1) - c
  BY <1>1
<1>7. c = Gone(O, (r - 1) - c)
  <2>1. Gone(O, (r - c) - 1) = Gone(O, r - c)
    BY <1>4, <1>6, GoneFacts
  <2> QED
    BY <1>1, <1>6, <2>1
<1>8. ASSUME NEW y \in (r - 1) + 1 .. BOARD_H - 1
      PROVE  ~ (Row(y) \subseteq B)
  <2>1. CASE y = r
    BY <2>1 DEF r, B
  <2>2. CASE y # r
    <3>1. y \in r + 1 .. BOARD_H - 1
      BY <1>1, <2>2
    <3> QED
      BY <3>1 DEF ClearLoop, r, B
  <2> QED
    BY <2>1, <2>2
<1>9. ASSUME NEW x \in W, NEW y \in 0 .. r - 1
      PROVE  <<x, y>> \in B <=> <<x, y - c>> \in O
  <2>1. y \in 0 .. r
    BY <1>1
  <2> QED
    BY <1>3, <2>1
<1> DEFINE Lands(x, y, z) == z \notin FullRows(O) /\ <<x, z>> \in O /\ y = z + Gone(O, z)
<1>10. \A z \in 0 .. BOARD_H - 1 : z > (r - 1) - c <=> z > r - c \/ z = r - c
  BY <1>1
<1>11. ASSUME NEW x \in W, NEW y \in r + 1 .. BOARD_H - 1
       PROVE  <<x, y>> \in B <=> \E z \in 0 .. BOARD_H - 1 : z > (r - 1) - c /\ Lands(x, y, z)
  <2>1. <<x, y>> \in B <=> \E z \in 0 .. BOARD_H - 1 : z > r - c /\ Lands(x, y, z)
    BY SMTT(30) DEF ClearLoop, W, r, c, B
  <2>2. y # (r - c) + Gone(O, r - c)
    BY <1>1
  <2>3. ~ Lands(x, y, r - c)
    BY <2>2
  <2> HIDE DEF Lands
  <2> QED
    BY <1>10, <2>1, <2>3
<1>12. ASSUME NEW x \in W
       PROVE  <<x, r>> \in B <=> \E z \in 0 .. BOARD_H - 1 : z > (r - 1) - c /\ Lands(x, r, z)
  <2>1. <<x, r>> \in B <=> <<x, r - c>> \in O
    BY <1>1, <1>3
  <2>2. Lands(x, r, r - c) <=> <<x, r - c>> \in O
    BY <1>1, <1>4
  <2>3. <<x, r - c>> \in O => r - c \in 0 .. BOARD_H - 1
    BY <1>1 DEF Board
  <2>4. ASSUME NEW z \in 0 .. BOARD_H - 1, z > r - c, Lands(x, r, z)
        PROVE  FALSE
    <3>1. z \in Int /\ Gone(O, z) \in Nat /\ r - c < z /\ z \notin FullRows(O)
      BY <1>1, <1>6, <2>4, GoneFacts
    <3>2. Gone(O, r - c) <= Gone(O, z) + (z - 1 - (r - c))
      BY <1>6, <3>1, GoneFacts
    <3> QED
      BY <1>1, <2>4, <3>1, <3>2
  <2> HIDE DEF Lands
  <2> QED
    BY <1>10, <2>1, <2>2, <2>3, <2>4
<1> QED
  <2> SUFFICES ClearLoop(O, n + 1, t)
    BY DEF t
  <2>1. /\ t.r >= 0 => n + 1 = t.cleared + (BOARD_H - 1 - t.r)
        /\ t.cleared = Gone(O, t.r - t.cleared)
    BY <1>2, <1>6, <1>7
  <2>2. \A y \in t.r + 1 .. BOARD_H - 1 : ~ (Row(y) \subseteq t.board)
    BY <1>2, <1>8
  <2>3. \A x \in W, y \in 0 .. t.r : <<x, y>> \in t.board <=> <<x, y - t.cleared>> \in O
    BY <1>2, <1>9
  <2>4. ASSUME NEW x \in W, NEW y \in t.r + 1 .. BOARD_H - 1
        PROVE  <<x, y>> \in t.board <=>
                 \E z \in 0 .. BOARD_H - 1 : z > t.r - t.cleared /\ Lands(x, y, z)
    <3> HIDE DEF Lands
    <3>1. CASE y = r
      BY <1>2, <1>12, <3>1
    <3>2. CASE y # r
      <4>1. y \in r + 1 .. BOARD_H - 1
        BY <1>1, <1>2, <3>2
      <4> QED
        BY <1>2, <1>11, <4>1
    <3> QED
      BY <3>1, <3>2
  <2> QED
    BY <1>5, <2>1, <2>2, <2>3, <2>4 DEF ClearLoop, W

(* An iteration keeps the invariant of the loop. *)
LEMMA IterationKeeps ==
    ASSUME NEW O \in SUBSET Board, NEW n \in Nat, NEW s, ClearLoop(O, n, s)
    PROVE  ClearLoop(O, n + 1, Iteration(s))
<1>1. s.r \in Int
  BY DEF ClearLoop
<1>2. CASE s.r < 0
  <2>1. Iteration(s) = s
    BY <1>2 DEF Iteration
  <2>2. ~ (s.r >= 0)
    BY <1>1, <1>2
  <2>3. ClearLoop(O, n + 1, s)
    BY <2>2 DEF ClearLoop
  <2> QED
    BY <2>1, <2>3
<1>3. CASE ~ (s.r < 0) /\ Row(s.r) \subseteq s.board
  <2>1. Iteration(s) = [s EXCEPT !.board = RowTaken(@, s.r), !.cleared = @ + 1]
    BY <1>3 DEF Iteration
  <2> QED
    <3>1. s.r >= 0
      BY <1>1, <1>3
    <3>2. ClearLoop(O, n + 1, [s EXCEPT !.board = RowTaken(@, s.r), !.cleared = @ + 1])
      BY <1>3, <3>1, TakingKeeps
    <3> QED
      BY <2>1, <3>2
<1>4. CASE ~ (s.r < 0) /\ ~ (Row(s.r) \subseteq s.board)
  <2>1. Iteration(s) = [s EXCEPT !.r = @ - 1]
    BY <1>4 DEF Iteration
  <2> QED
    BY <1>1, <1>4, <2>1, PassingKeeps
<1> QED
  BY <1>2, <1>3, <1>4

(* The loop begins with its invariant. *)
LEMMA LoopBegins ==
    ASSUME NEW O \in SUBSET Board
    PROVE  ClearLoop(O, 0, [r |-> BOARD_H - 1, board |-> O, cleared |-> 0])
<1> DEFINE s == [r |-> BOARD_H - 1, board |-> O, cleared |-> 0]
<1>1. BOARD_H \in Nat \ {0}
  BY TetrisAssumption
<1>2. s.r = BOARD_H - 1 /\ s.board = O /\ s.cleared = 0
  OBVIOUS
<1>3. s \in [r : -1 .. BOARD_H - 1, board : SUBSET Board, cleared : 0 .. BOARD_H]
  BY <1>1
<1> HIDE DEF s
<1>4. Gone(O, BOARD_H - 1) = 0
  <2>1. BOARD_H - 1 \in Int /\ BOARD_H - 1 >= 0 /\ BOARD_H - 1 <= BOARD_H - 1
    BY <1>1
  <2>2. Gone(O, BOARD_H - 1) \in Nat /\ Gone(O, BOARD_H - 1) <= BOARD_H - 1 - (BOARD_H - 1)
    BY <2>1, GoneFacts
  <2> QED
    BY <1>1, <2>2
<1>5. /\ 0 = s.cleared + (BOARD_H - 1 - s.r)
      /\ s.r - s.cleared = BOARD_H - 1
      /\ s.r + 1 .. BOARD_H - 1 = {}
  BY <1>1, <1>2
<1>6. \A y \in 0 .. s.r : y - s.cleared = y
  BY <1>1, <1>2
<1> QED
  <2>1. ClearLoop(O, 0, s)
    <3>1. s.cleared = Gone(O, s.r - s.cleared)
      BY <1>2, <1>4, <1>5
    <3>2. \A x \in 0 .. BOARD_W - 1, y \in 0 .. s.r :
            <<x, y>> \in s.board <=> <<x, y - s.cleared>> \in O
      BY <1>2, <1>6
    <3> QED
      BY <1>3, <1>5, <3>1, <3>2 DEF ClearLoop
  <2> QED
    BY <2>1 DEF s

(* Every state of the loop satisfies its invariant. *)
LEMMA LoopInvariant ==
    ASSUME NEW O \in SUBSET Board, NEW g, NEW m \in Nat,
           Iterates(g, m, {[r |-> BOARD_H - 1, board |-> O, cleared |-> 0]})
    PROVE  \A n \in 0 .. m : \A s \in g[n] : ClearLoop(O, n, s)
<1> DEFINE A == {[r |-> BOARD_H - 1, board |-> O, cleared |-> 0]}
           bad == {n \in 0 .. m : \E s \in g[n] : ~ ClearLoop(O, n, s)}
<1>1. \A n \in 0 .. m : g[n] = IF n = 0 THEN A ELSE {Iteration(s) : s \in g[n - 1]}
  BY DEF Iterates
<1>2. \A s \in A : ClearLoop(O, 0, s)
  BY LoopBegins
<1> SUFFICES ASSUME bad # {} PROVE FALSE
  OBVIOUS
<1>3. PICK j \in bad : \A l \in bad : j <= l
  <2>1. bad \subseteq Nat
    OBVIOUS
  <2> HIDE DEF bad
  <2> QED
    BY <2>1, LeastNatural
<1>4. j \in 0 .. m /\ \E s \in g[j] : ~ ClearLoop(O, j, s)
  OBVIOUS
<1>5. j # 0
  BY <1>1, <1>2, <1>4
<1>6. j - 1 \in 0 .. m /\ j - 1 \in Nat /\ ~ (j <= j - 1) /\ (j - 1) + 1 = j
  BY <1>4, <1>5
<1>7. \A s \in g[j - 1] : ClearLoop(O, j - 1, s)
  BY <1>3, <1>6
<1>8. g[j] = {Iteration(s) : s \in g[j - 1]}
  BY <1>1, <1>4, <1>5
<1>9. \A s \in g[j - 1] : ClearLoop(O, (j - 1) + 1, Iteration(s))
  BY <1>6, <1>7, IterationKeeps
<1> QED
  BY <1>4, <1>6, <1>8, <1>9

(* What clear_lines leaves: no row is full, the rows that were not full have *)
(* moved down by the number of full rows below them, and the count is the    *)
(* number of full rows.                                                      *)
LEMMA ClearLinesLeaves ==
    ASSUME NEW O \in SUBSET Board, NEW s \in clear_lines(O)
    PROVE  /\ s.board \in SUBSET Board
           /\ FullRows(s.board) = {}
           /\ s.board = Remaining(O)
           /\ s.cleared = Cardinality(FullRows(O))
           /\ s.cleared \in Nat
<1>1. BOARD_H \in Nat \ {0} /\ BOARD_W \in Nat /\ 2 * BOARD_H \in Nat
  BY TetrisAssumption
<1>2. PICK g : /\ Iterates(g, 2 * BOARD_H, {[r |-> BOARD_H - 1, board |-> O, cleared |-> 0]})
               /\ clear_lines(O) = g[2 * BOARD_H]
  BY ClearLinesIterates
<1>3. ClearLoop(O, 2 * BOARD_H, s)
  <2>1. 2 * BOARD_H \in 0 .. 2 * BOARD_H
    BY <1>1
  <2> QED
    BY <1>1, <1>2, <2>1, LoopInvariant
<1>4. /\ s.r \in -1 .. BOARD_H - 1 /\ s.board \in SUBSET Board /\ s.cleared \in 0 .. BOARD_H
      /\ s.r >= 0 => 2 * BOARD_H = s.cleared + (BOARD_H - 1 - s.r)
  BY <1>3 DEF ClearLoop
<1>5. s.r = -1
  BY <1>1, <1>4
<1>6. s.r + 1 = 0
  BY <1>5
<1>7. FullRows(s.board) = {}
  BY <1>3, <1>6 DEF ClearLoop, FullRows
<1>8. \A y \in 0 .. BOARD_H - 1 : y > s.r - s.cleared
  BY <1>4, <1>5
<1>9. s.cleared = Cardinality(FullRows(O))
  <2>1. FullRows(O) \subseteq 0 .. BOARD_H - 1
    BY DEF FullRows
  <2>2. FullRows(O) = {f \in FullRows(O) : f > s.r - s.cleared}
    BY <1>8, <2>1
  <2> QED
    BY <1>3, <2>2 DEF ClearLoop, Gone
<1>10. \A x \in 0 .. BOARD_W - 1, y \in 0 .. BOARD_H - 1 :
        <<x, y>> \in s.board <=>
            \E z \in 0 .. BOARD_H - 1 : /\ z \notin FullRows(O)
                                        /\ <<x, z>> \in O /\ y = z + Gone(O, z)
  <2> SUFFICES ASSUME NEW x \in 0 .. BOARD_W - 1, NEW y \in 0 .. BOARD_H - 1
               PROVE  <<x, y>> \in s.board <=>
                        \E z \in 0 .. BOARD_H - 1 : /\ z \notin FullRows(O)
                                                    /\ <<x, z>> \in O /\ y = z + Gone(O, z)
    OBVIOUS
  <2>1. <<x, y>> \in s.board <=>
            \E z \in 0 .. BOARD_H - 1 : /\ z > s.r - s.cleared /\ z \notin FullRows(O)
                                        /\ <<x, z>> \in O /\ y = z + Gone(O, z)
    BY <1>3, <1>6 DEF ClearLoop
  <2> QED
    BY <1>8, <2>1
<1>11. Remaining(O) = {<<b[1], b[2] + Gone(O, b[2])>> : b \in {e \in O : e[2] \notin FullRows(O)}}
  BY DEF Remaining, Gone
<1>12. \A b \in O : b = <<b[1], b[2]>> /\ b[1] \in 0 .. BOARD_W - 1 /\ b[2] \in 0 .. BOARD_H - 1
  BY DEF Board
<1>13. ASSUME NEW e \in s.board PROVE e \in Remaining(O)
  <2>1. e = <<e[1], e[2]>> /\ e[1] \in 0 .. BOARD_W - 1 /\ e[2] \in 0 .. BOARD_H - 1
    BY <1>4 DEF Board
  <2>2. PICK z \in 0 .. BOARD_H - 1 : /\ z \notin FullRows(O)
                                      /\ <<e[1], z>> \in O /\ e[2] = z + Gone(O, z)
    BY <1>10, <2>1, ZenonT(30)
  <2> DEFINE b == <<e[1], z>>
  <2>3. b \in O /\ b[1] = e[1] /\ b[2] = z
    BY <2>2
  <2> HIDE DEF b
  <2>4. e = <<b[1], b[2] + Gone(O, b[2])>> /\ b[2] \notin FullRows(O)
    BY <2>1, <2>2, <2>3
  <2> QED
    BY <1>11, <2>3, <2>4
<1>14. ASSUME NEW e \in Remaining(O) PROVE e \in s.board
  <2>1. PICK b \in O : b[2] \notin FullRows(O) /\ e = <<b[1], b[2] + Gone(O, b[2])>>
    BY <1>11
  <2>2. /\ b = <<b[1], b[2]>> /\ b[1] \in 0 .. BOARD_W - 1 /\ b[2] \in 0 .. BOARD_H - 1
        /\ b[2] \in Int /\ b[2] >= 0 /\ b[2] <= BOARD_H - 1
    BY <1>1, <1>12
  <2>3. Gone(O, b[2]) \in Nat /\ Gone(O, b[2]) <= BOARD_H - 1 - b[2]
    BY <2>2, GoneFacts
  <2>4. b[2] + Gone(O, b[2]) \in 0 .. BOARD_H - 1
    BY <1>1, <2>2, <2>3
  <2> QED
    BY <1>10, <2>1, <2>2, <2>4
<1>15. s.board = Remaining(O)
  BY <1>13, <1>14
<1>16. s.cleared \in Nat
  BY <1>1, <1>4
<1> QED
  BY <1>4, <1>7, <1>9, <1>15, <1>16

-----------------------------------------------------------------------------
(* The tetris game.                                                          *)

(* Every piece has a square, whichever way it is turned. *)
LEMMA PieceHasSquare ==
    ASSUME NEW piece \in 1 .. 7, NEW rot \in 0 .. 3
    PROVE  Squares(piece, rot) # {}
<1> DEFINE m == pieces[piece][rot + 1]
<1>1. \/ (m \div 1024) % 2 = 1
      \/ (m \div 64) % 2 = 1
      \/ (m \div 32) % 2 = 1
  <2>1. rot = 0 \/ rot = 1 \/ rot = 2 \/ rot = 3
    OBVIOUS
  <2>2. CASE piece = 1
    BY <2>1, <2>2 DEF pieces
  <2>3. CASE piece = 2
    BY <2>1, <2>3 DEF pieces
  <2>4. CASE piece = 3
    BY <2>1, <2>4 DEF pieces
  <2>5. CASE piece = 4
    BY <2>1, <2>5 DEF pieces
  <2>6. CASE piece = 5
    BY <2>1, <2>6 DEF pieces
  <2>7. CASE piece = 6
    BY <2>1, <2>7 DEF pieces
  <2>8. CASE piece = 7
    BY <2>1, <2>8 DEF pieces
  <2>9. piece = 1 \/ piece = 2 \/ piece = 3 \/ piece = 4 \/ piece = 5 \/ piece = 6 \/ piece = 7
    OBVIOUS
  <2> HIDE DEF m
  <2> QED
    BY <2>2, <2>3, <2>4, <2>5, <2>6, <2>7, <2>8, <2>9
<1>2. 2 ^ (15 - 5) = 1024 /\ 2 ^ (15 - 9) = 64 /\ 2 ^ (15 - 10) = 32
  OBVIOUS
<1>3. Squares(piece, rot) = {q \in (0 .. 3) \X (0 .. 3) : (m \div 2 ^ (15 - (q[2] * 4 + q[1]))) % 2 = 1}
  BY DEF Squares
<1> HIDE DEF m
<1>4. ASSUME NEW i \in 0 .. 3, NEW j \in 0 .. 3, (m \div 2 ^ (15 - (j * 4 + i))) % 2 = 1
      PROVE  Squares(piece, rot) # {}
  <2>1. <<i, j>> \in (0 .. 3) \X (0 .. 3) /\ <<i, j>>[1] = i /\ <<i, j>>[2] = j
    OBVIOUS
  <2> QED
    BY <1>3, <1>4, <2>1
<1>5. 1 * 4 + 1 = 5 /\ 2 * 4 + 1 = 9 /\ 2 * 4 + 2 = 10
  OBVIOUS
<1>6. CASE (m \div 1024) % 2 = 1
  BY <1>2, <1>4, <1>5, <1>6
<1>7. CASE (m \div 64) % 2 = 1
  BY <1>2, <1>4, <1>5, <1>7
<1>8. CASE (m \div 32) % 2 = 1
  BY <1>2, <1>4, <1>5, <1>8
<1> QED
  BY <1>1, <1>6, <1>7, <1>8

\* The static variables of tetris.c between two calls.
TetrisTyped(t) ==
    t \in [board : SUBSET Board, piece : 1 .. 7, next : 1 .. 7, rot : 0 .. 3,
           x : Int, y : Int, cleared : Nat, game_over : BOOLEAN]

TetrisOK(t) ==
    /\ TetrisTyped(t)
    /\ t.game_over \/ fits(t.board, t.piece, t.rot, t.x, t.y)
    /\ FullRows(t.board) = {}

TetrisInv == app = "Tetris" => TetrisOK(game)

(* A cell of a piece is a square of it, moved; a piece that fits has its     *)
(* cells in the columns and above the floor.                                 *)
LEMMA CellFacts ==
    ASSUME NEW B, NEW piece, NEW rot, NEW px \in Int, NEW py \in Int
    PROVE  /\ \A b \in Cells(piece, rot, px, py) :
                /\ b = <<b[1], b[2]>> /\ b[1] \in Int /\ b[2] \in Int
                /\ b[2] \in py .. py + 3
           /\ piece \in 1 .. 7 /\ rot \in 0 .. 3 /\ fits(B, piece, rot, px, py) => py < BOARD_H
<1>1. \A b \in Cells(piece, rot, px, py) :
        /\ b = <<b[1], b[2]>> /\ b[1] \in Int /\ b[2] \in Int
        /\ b[2] \in py .. py + 3
  <2> SUFFICES ASSUME NEW q \in Squares(piece, rot)
               PROVE  LET b == <<px + q[1], py + q[2]>>
                      IN  /\ b = <<b[1], b[2]>> /\ b[1] \in Int /\ b[2] \in Int
                          /\ b[2] \in py .. py + 3
    BY DEF Cells
  <2>1. q[1] \in 0 .. 3 /\ q[2] \in 0 .. 3
    BY DEF Squares
  <2> QED
    BY <2>1
<1>2. ASSUME piece \in 1 .. 7, rot \in 0 .. 3, fits(B, piece, rot, px, py)
      PROVE  py < BOARD_H
  <2>1. PICK q : q \in Squares(piece, rot)
    BY <1>2, PieceHasSquare
  <2> DEFINE b == <<px + q[1], py + q[2]>>
  <2>2. b \in Cells(piece, rot, px, py)
    BY <2>1 DEF Cells
  <2> HIDE DEF b
  <2>3. b[2] < BOARD_H
    BY <1>2, <2>2 DEF fits
  <2>4. b[2] \in Int /\ b[2] >= py
    BY <1>1, <2>2
  <2> QED
    BY <2>3, <2>4, TetrisAssumption
<1> QED
  BY <1>1, <1>2

(* A piece that is dropped comes to rest on some row. *)
LEMMA RestingRowExists ==
    ASSUME NEW t, TetrisOK(t), ~ t.game_over
    PROVE  RestingRow(t) \in Int
<1> DEFINE Fits(y) == fits(t.board, t.piece, t.rot, t.x, y)
           D == {d \in Nat : ~ Fits(t.y + 1 + d)}
           Rests(y) == ~ Fits(y + 1) /\ \A z \in t.y + 1 .. y : Fits(z)
<1>1. /\ t.piece \in 1 .. 7 /\ t.rot \in 0 .. 3 /\ t.x \in Int /\ t.y \in Int /\ BOARD_H \in Nat
      /\ Fits(t.y)
  BY TetrisAssumption DEF TetrisOK, TetrisTyped
<1>2. \A y \in Int : Fits(y) => y < BOARD_H
  BY <1>1, CellFacts
<1>3. RestingRow(t) = CHOOSE y \in t.y .. BOARD_H : Rests(y)
  BY DEF RestingRow
<1>4. \A d : d \in D <=> d \in Nat /\ ~ Fits(t.y + 1 + d)
  OBVIOUS
<1> HIDE DEF Fits, D
<1>5. BOARD_H - t.y \in D
  BY <1>1, <1>2, <1>4
<1>6. PICK d \in D : \A e \in D : d <= e
  BY <1>4, <1>5, LeastNatural
<1>7. d \in Nat /\ d <= BOARD_H - t.y
  BY <1>4, <1>5, <1>6
<1>8. ~ Fits((t.y + d) + 1)
  <2>1. (t.y + d) + 1 = t.y + 1 + d
    BY <1>1, <1>7
  <2> QED
    BY <1>4, <1>6, <2>1
<1>9. ASSUME NEW z \in t.y + 1 .. t.y + d PROVE Fits(z)
  <2>1. z - (t.y + 1) \in Nat /\ t.y + 1 + (z - (t.y + 1)) = z /\ ~ (d <= z - (t.y + 1))
    BY <1>1, <1>7
  <2> QED
    BY <1>4, <1>6, <2>1
<1>10. t.y + d \in t.y .. BOARD_H
  BY <1>1, <1>7
<1>11. Rests(t.y + d)
  BY <1>8, <1>9
<1> HIDE DEF Rests
<1>12. RestingRow(t) \in t.y .. BOARD_H
  BY <1>3, <1>10, <1>11
<1> QED
  BY <1>1, <1>12

(* A new piece: the game is over or it fits, and the board is left alone. *)
LEMMA SpawnOK ==
    ASSUME NEW t, TetrisTyped(t), FullRows(t.board) = {}, NEW u \in spawn_piece(t)
    PROVE  TetrisOK(u) /\ u.board = t.board /\ u.cleared = t.cleared
<1> DEFINE X == BOARD_W \div 2 - 2
           Over == ~ fits(t.board, t.next, 0, X, -1)
<1>1. PICK p \in Pieces :
        u = [t EXCEPT !.piece = t.next, !.next = p, !.rot = 0, !.x = X, !.y = -1, !.game_over = Over]
  BY DEF spawn_piece
<1>2. p \in 1 .. 7 /\ X \in Int /\ Over \in BOOLEAN /\ -1 \in Int /\ 0 \in 0 .. 3
  BY TetrisAssumption DEF fits
<1> HIDE DEF X
<1>3. /\ u.board = t.board /\ u.piece = t.next /\ u.rot = 0 /\ u.x = X /\ u.y = -1
      /\ u.cleared = t.cleared /\ u.game_over = Over
  <2> HIDE DEF Over
  <2> QED
    BY <1>1 DEF TetrisTyped
<1>4. TetrisTyped(u)
  <2> HIDE DEF Over
  <2> QED
    BY <1>1, <1>2 DEF TetrisTyped
<1>5. u.game_over \/ fits(u.board, u.piece, u.rot, u.x, u.y)
  <2>1. u.game_over \/ ~ Over
    <3> HIDE DEF Over
    <3> QED
      BY <1>2, <1>3
  <2> QED
    BY <1>3, <2>1
<1> QED
  BY <1>3, <1>4, <1>5 DEF TetrisOK

(* The game begins on an empty board. *)
LEMMA TetrisBegins ==
    ASSUME NEW u \in tetris_init
    PROVE  TetrisOK(u)
<1> DEFINE Start(p) == [board |-> {}, piece |-> p, next |-> p, rot |-> 0, x |-> 0, y |-> 0,
                        cleared |-> 0, game_over |-> FALSE]
<1>1. PICK p \in Pieces : u \in spawn_piece(Start(p))
  BY DEF tetris_init
<1>2. TetrisTyped(Start(p)) /\ Start(p).board = {}
  BY TetrisAssumption DEF TetrisTyped
<1>3. FullRows({}) = {}
  <2> SUFFICES ASSUME NEW y \in FullRows({}) PROVE FALSE
    OBVIOUS
  <2>1. \A x \in 0 .. BOARD_W - 1 : <<x, y>> \in {}
    BY RowFull DEF FullRows
  <2>2. 0 \in 0 .. BOARD_W - 1
    BY TetrisAssumption
  <2> QED
    BY <2>1, <2>2
<1> HIDE DEF Start
<1> QED
  BY <1>1, <1>2, <1>3, SpawnOK

(* A key moves the piece only to where it fits. *)
LEMMA TetrisKeyOK ==
    ASSUME NEW t, TetrisOK(t), NEW key
    PROVE  TetrisOK(tetris_key(t, key)) /\ tetris_key(t, key).board = t.board
<1>1. CASE t.game_over \/ tetris_key(t, key) = t
  BY <1>1 DEF tetris_key
<1>2. CASE ~ t.game_over /\ tetris_key(t, key) # t
  <2> DEFINE Moved(u) == /\ tetris_key(t, key) = u
                         /\ fits(t.board, u.piece, u.rot, u.x, u.y)
  <2>1. \/ Moved([t EXCEPT !.x = @ - 1])
        \/ Moved([t EXCEPT !.x = @ + 1])
        \/ Moved([t EXCEPT !.y = @ + 1])
        \/ Moved([t EXCEPT !.rot = (@ + 1) % 4])
        \/ Moved([t EXCEPT !.y = RestingRow(t)])
    <3>1. CASE key = "left"
      BY <1>2, <3>1 DEF tetris_key
    <3>2. CASE key = "right"
      BY <1>2, <3>2 DEF tetris_key
    <3>3. CASE key = "down"
      BY <1>2, <3>3 DEF tetris_key
    <3>4. CASE key = "up"
      BY <1>2, <3>4 DEF tetris_key
    <3>5. CASE key = "space"
      BY <1>2, <3>5 DEF tetris_key
    <3>6. CASE key \notin {"left", "right", "down", "up", "space"}
      BY <1>2, <3>6 DEF tetris_key
    <3> QED
      BY <3>1, <3>2, <3>3, <3>4, <3>5, <3>6
  <2>2. RestingRow(t) \in Int
    BY <1>2, RestingRowExists
  <2>3. \E u : Moved(u) /\ TetrisTyped(u) /\ u.board = t.board /\ u.game_over = t.game_over
    <3>1. /\ t.x - 1 \in Int /\ t.x + 1 \in Int /\ t.y + 1 \in Int /\ (t.rot + 1) % 4 \in 0 .. 3
      BY DEF TetrisOK, TetrisTyped
    <3>2. \A v \in Int : LET u == [t EXCEPT !.x = v] IN
                            TetrisTyped(u) /\ u.board = t.board /\ u.game_over = t.game_over
      BY DEF TetrisOK, TetrisTyped
    <3>3. \A v \in Int : LET u == [t EXCEPT !.y = v] IN
                            TetrisTyped(u) /\ u.board = t.board /\ u.game_over = t.game_over
      BY DEF TetrisOK, TetrisTyped
    <3>4. \A v \in 0 .. 3 : LET u == [t EXCEPT !.rot = v] IN
                            TetrisTyped(u) /\ u.board = t.board /\ u.game_over = t.game_over
      BY DEF TetrisOK, TetrisTyped
    <3> HIDE DEF Moved
    <3> QED
      BY <2>1, <2>2, <3>1, <3>2, <3>3, <3>4
  <2> QED
    BY <2>3 DEF TetrisOK
<1> QED
  BY <1>1, <1>2

(* A piece that is locked lies on the board, and every row that is full then *)
(* holds a part of it: there are at most four.                               *)
LEMMA LockOK ==
    ASSUME NEW t, TetrisOK(t), ~ t.game_over
    PROVE  /\ lock_piece(t) \in SUBSET Board
           /\ Cardinality(FullRows(lock_piece(t))) <= 4
<1> DEFINE C == Cells(t.piece, t.rot, t.x, t.y)
           L == lock_piece(t)
<1>1. /\ t.board \in SUBSET Board /\ t.x \in Int /\ t.y \in Int /\ BOARD_H \in Nat
      /\ fits(t.board, t.piece, t.rot, t.x, t.y) /\ FullRows(t.board) = {}
  BY TetrisAssumption DEF TetrisOK, TetrisTyped
<1>2. \A b \in C : /\ b = <<b[1], b[2]>> /\ b[2] \in Int /\ b[2] \in t.y .. t.y + 3
                   /\ b[1] \in 0 .. BOARD_W - 1 /\ b[2] < BOARD_H
  BY <1>1, CellFacts DEF fits
<1>3. \A b : b \in L <=> b \in t.board \/ (b \in C /\ b[2] >= 0)
  <2>1. \A b \in C : b[2] \in 0 .. BOARD_H - 1 <=> b[2] >= 0
    BY <1>1, <1>2
  <2> QED
    BY <1>2, <2>1 DEF lock_piece
<1> HIDE DEF C, L
<1>4. L \in SUBSET Board
  <2> SUFFICES ASSUME NEW b \in L PROVE b \in Board
    OBVIOUS
  <2>1. CASE b \in t.board
    BY <1>1, <2>1
  <2>2. CASE b \in C /\ b[2] >= 0
    <3>1. b = <<b[1], b[2]>> /\ b[1] \in 0 .. BOARD_W - 1 /\ b[2] \in 0 .. BOARD_H - 1
      BY <1>1, <1>2, <2>2
    <3> QED
      BY <3>1 DEF Board
  <2> QED
    BY <1>3, <2>1, <2>2
<1>5. FullRows(L) \subseteq t.y .. t.y + 3
  <2> SUFFICES ASSUME NEW y \in FullRows(L) PROVE y \in t.y .. t.y + 3
    OBVIOUS
  <2>1. y \in 0 .. BOARD_H - 1 /\ \A x \in 0 .. BOARD_W - 1 : <<x, y>> \in L
    BY RowFull DEF FullRows
  <2>2. PICK x \in 0 .. BOARD_W - 1 : <<x, y>> \notin t.board
    BY <1>1, <2>1, RowFull DEF FullRows
  <2>3. <<x, y>> \in C /\ <<x, y>>[2] = y
    BY <1>3, <2>1, <2>2
  <2> QED
    BY <1>2, <2>3
<1>6. IsFiniteSet(t.y .. t.y + 3) /\ Cardinality(t.y .. t.y + 3) = 4
  <2>1. \A i \in Int : i + 3 \in Int /\ (IF i > i + 3 THEN 0 ELSE i + 3 - i + 1) = 4
    OBVIOUS
  <2>2. \A i \in Int : IsFiniteSet(i .. i + 3) /\ Cardinality(i .. i + 3) = 4
    BY <2>1, FS_Interval
  <2> QED
    BY <1>1, <2>2
<1>7. Cardinality(FullRows(L)) <= 4
  BY <1>5, <1>6, FS_Subset
<1> QED
  BY <1>4, <1>7 DEF L

(* A tick: the piece falls, or it locks, the full rows go and the next piece *)
(* comes.                                                                    *)
LEMMA TetrisTickOK ==
    ASSUME NEW t, TetrisOK(t), NEW u \in tetris_tick(t)
    PROVE  /\ TetrisOK(u)
           /\ u.board # t.board => /\ u.board = Remaining(lock_piece(t))
                                   /\ u.cleared = Cardinality(FullRows(lock_piece(t)))
                                   /\ u.cleared <= 4
<1>1. CASE t.game_over
  BY <1>1 DEF tetris_tick
<1>2. CASE ~ t.game_over /\ Falls(t)
  <2>1. u = [t EXCEPT !.y = @ + 1]
    BY <1>2 DEF tetris_tick
  <2>2. TetrisTyped(t) /\ t.y + 1 \in Int
    BY DEF TetrisOK, TetrisTyped
  <2>3. /\ TetrisTyped(u)
        /\ u.board = t.board /\ u.piece = t.piece /\ u.rot = t.rot /\ u.x = t.x /\ u.y = t.y + 1
    BY <2>1, <2>2 DEF TetrisTyped
  <2> QED
    <3>1. fits(u.board, u.piece, u.rot, u.x, u.y)
      BY <1>2, <2>3 DEF Falls
    <3> QED
      BY <2>3, <3>1 DEF TetrisOK
<1>3. CASE ~ t.game_over /\ ~ Falls(t)
  <2> DEFINE L == lock_piece(t)
  <2>1. PICK s \in clear_lines(L) : u \in spawn_piece([t EXCEPT !.board = s.board, !.cleared = s.cleared])
    BY <1>3 DEF tetris_tick
  <2>2. L \in SUBSET Board /\ Cardinality(FullRows(L)) <= 4
    BY <1>3, LockOK
  <2> HIDE DEF L
  <2>3. /\ s.board \in SUBSET Board /\ FullRows(s.board) = {} /\ s.board = Remaining(L)
        /\ s.cleared = Cardinality(FullRows(L)) /\ s.cleared \in Nat
    BY <2>1, <2>2, ClearLinesLeaves
  <2> DEFINE v == [t EXCEPT !.board = s.board, !.cleared = s.cleared]
  <2>4. TetrisTyped(v) /\ v.board = s.board /\ v.cleared = s.cleared
    BY <2>3 DEF TetrisOK, TetrisTyped
  <2> HIDE DEF v
  <2>5. TetrisOK(u) /\ u.board = s.board /\ u.cleared = s.cleared
    BY <2>1, <2>3, <2>4, SpawnOK DEF v
  <2> QED
    BY <2>2, <2>3, <2>5 DEF L
<1> QED
  BY <1>1, <1>2, <1>3

(* The tetris part of a step: the invariant is kept, and the board changes   *)
(* only as clear_lines should change it.                                     *)
LEMMA TetrisStep ==
    ASSUME TetrisInv, [Next]_vars
    PROVE  /\ TetrisInv'
           /\ app = "Tetris" /\ app' = "Tetris" /\ game'.board # game.board
                => /\ game'.board = Remaining(lock_piece(game))
                   /\ game'.cleared = Cardinality(FullRows(lock_piece(game)))
                   /\ game'.cleared <= 4
<1>1. ASSUME NEW a \in Apps, AppInit(a)
      PROVE  TetrisInv' /\ app # "Tetris"
  <2>1. app' = a /\ app = "none" /\ (a = "Tetris" => game' \in tetris_init)
    BY <1>1 DEF AppInit, Apps
  <2> QED
    BY <2>1, TetrisBegins DEF TetrisInv
<1>2. CASE Close
  BY <1>2 DEF Close, TetrisInv
<1>3. ASSUME NEW key \in Keys, AppKey(key)
      PROVE  TetrisInv' /\ (app = "Tetris" => game'.board = game.board)
  <2>1. app' = app /\ (app = "Tetris" => game' = tetris_key(game, key))
    BY <1>3 DEF AppKey
  <2> QED
    BY <2>1, TetrisKeyOK DEF TetrisInv
<1>4. CASE AppTick
  <2>1. app' = app /\ (app = "Tetris" => game' \in tetris_tick(game))
    BY <1>4 DEF AppTick
  <2> QED
    BY <2>1, TetrisTickOK DEF TetrisInv
<1>5. CASE UNCHANGED vars
  BY <1>5 DEF vars, TetrisInv
<1> QED
  BY <1>1, <1>2, <1>3, <1>4, <1>5 DEF Next

(* The piece in play never overlaps the board, the walls or the floor, and   *)
(* clear_lines, called after every lock, leaves no full row: on a board of   *)
(* any size at least four wide, for every sequence of pieces and keys.       *)
THEOREM TetrisPieceFits == Spec => []PieceFits
<1>1. Init => TetrisInv
  BY DEF Init, TetrisInv
<1>2. TetrisInv /\ [Next]_vars => TetrisInv'
  BY TetrisStep
<1>3. TetrisInv => PieceFits
  BY DEF TetrisInv, TetrisOK, PieceFits
<1> QED
  BY <1>1, <1>2, <1>3, PTL DEF Spec

(* clear_lines removes exactly the full rows, whatever their number and      *)
(* place, keeps the others in order, and returns a count that is an index of *)
(* scores[5].                                                                *)
THEOREM LinesClearExactly == Spec => ClearsExactly
<1>1. Init => TetrisInv
  BY DEF Init, TetrisInv
<1>2. TetrisInv /\ [Next]_vars => TetrisInv'
  BY TetrisStep
<1>3. TetrisInv /\ [Next]_vars =>
        [app = "Tetris" /\ app' = "Tetris" /\ game'.board # game.board
            => /\ game'.board = Remaining(lock_piece(game))
               /\ game'.cleared = Cardinality(FullRows(lock_piece(game)))
               /\ game'.cleared <= 4]_vars
  BY TetrisStep
<1> QED
  BY <1>1, <1>2, <1>3, PTL DEF Spec, ClearsExactly

-----------------------------------------------------------------------------
(* The raycaster.                                                            *)

PlayerTyped(p) == p \in [x : Int, y : Int, angle : Int]
PlayerOK(p) == PlayerTyped(p) /\ Open(p.x, p.y)

(* The assumptions on the screen and the speeds, as bounds. *)
LEMMA ScreenBounds ==
    /\ SCREEN_H \in Nat /\ 1 <= SCREEN_H /\ SCREEN_H <= 32767
    /\ ROT_SPEED \in Int /\ MOVE_SPEED \in Int
BY RaycasterAssumption

(* The table of sines holds integers. *)
LEMMA QuarterTyped == \A i \in 1 .. 65 : Quarter[i] \in Int
BY DEF Quarter

(* So do the results of the fixed-point arithmetic. *)
LEMMA FixedPointTyped ==
    /\ \A a \in Int : fp_sin(a) \in Int /\ fp_cos(a) \in Int
    /\ \A a, b \in Int : FP_MUL(a, b) \in Int
    /\ \A v \in Int : Cell(v) \in Int
    /\ \A c \in Int : Reciprocal(c) \in Int
<1>1. \A a \in Int : fp_sin(a) \in Int
  <2> SUFFICES ASSUME NEW a \in Int PROVE fp_sin(a) \in Int
    OBVIOUS
  <2> DEFINE b == a % 256
  <2>1. b \in 0 .. 255
    OBVIOUS
  <2> HIDE DEF b
  <2> DEFINE v == CASE b \in 0 .. 64    -> Quarter[b + 1]
                    [] b \in 65 .. 128  -> Quarter[129 - b]
                    [] b \in 129 .. 192 -> -Quarter[b - 127]
                    [] b \in 193 .. 255 -> -Quarter[257 - b]
  <2>2. v \in Int
    <3>1. CASE b \in 0 .. 64
      <4>1. b + 1 \in 1 .. 65
        BY <3>1
      <4>2. v = Quarter[b + 1]
        BY <3>1, <2>1
      <4> HIDE DEF v
      <4> QED
        BY <4>1, <4>2, QuarterTyped
    <3>2. CASE b \in 65 .. 128
      <4>1. 129 - b \in 1 .. 65
        BY <3>2
      <4>2. v = Quarter[129 - b]
        BY <3>2, <2>1
      <4> HIDE DEF v
      <4> QED
        BY <4>1, <4>2, QuarterTyped
    <3>3. CASE b \in 129 .. 192
      <4>1. b - 127 \in 1 .. 65
        BY <3>3
      <4>2. v = -Quarter[b - 127]
        BY <3>3, <2>1
      <4> HIDE DEF v
      <4> QED
        BY <4>1, <4>2, QuarterTyped
    <3>4. CASE b \in 193 .. 255
      <4>1. 257 - b \in 1 .. 65
        BY <3>4
      <4>2. v = -Quarter[257 - b]
        BY <3>4, <2>1
      <4> HIDE DEF v
      <4> QED
        BY <4>1, <4>2, QuarterTyped
    <3> QED
      BY <2>1, <3>1, <3>2, <3>3, <3>4
  <2> QED
    BY <2>2 DEF fp_sin, b
<1>2. \A a \in Int : fp_cos(a) \in Int
  BY <1>1 DEF fp_cos
<1>3. \A a, b \in Int : FP_MUL(a, b) \in Int
  BY DEF FP_MUL
<1>4. \A v \in Int : Cell(v) \in Int
  BY DEF Cell, FP_ONE
<1>5. \A c \in Int : Reciprocal(c) \in Int
  <2> SUFFICES ASSUME NEW c \in Int PROVE Reciprocal(c) \in Int
    OBVIOUS
  <2> DEFINE d == IF c < 0 THEN -c ELSE c
             r0 == FP_ONE % d
             r1 == (r0 * 256) % d
  <2>1. CASE c = 0
    BY <2>1 DEF Reciprocal, INT_MAX
  <2>2. CASE c # 0
    <3>1. d \in Int /\ d > 0
      BY <2>2
    <3> HIDE DEF d
    <3>2. r0 \in Int /\ (FP_ONE \div d) \in Int
      BY <3>1 DEF FP_ONE
    <3> HIDE DEF r0
    <3>3. r1 \in Int /\ ((r0 * 256) \div d) \in Int
      BY <3>1, <3>2
    <3> HIDE DEF r1
    <3>4. ((r1 * 256) \div d) \in Int
      BY <3>1, <3>3
    <3>5. (FP_ONE \div d) * 65536 + ((r0 * 256) \div d) * 256 + (r1 * 256) \div d \in Int
      BY <3>2, <3>3, <3>4
    <3> QED
      BY <2>2, <3>5 DEF Reciprocal, d, r0, r1
  <2> QED
    BY <2>1, <2>2
<1> QED
  BY <1>1, <1>2, <1>3, <1>4, <1>5

(* The border of the map is walled: an open cell has its four neighbours on  *)
(* the map.                                                                  *)
LEMMA OpenInside ==
    ASSUME NEW x \in Int, NEW y \in Int, <<x, y>> \in World \ Walled
    PROVE  x \in 1 .. 14 /\ y \in 1 .. 14
BY DEF World, Walled, MAP_W, MAP_H

(* Distances along a ray are integers. *)
LEMMA CrossingsTyped ==
    /\ \A pos, dir, delta \in Int : FirstCrossing(pos, dir, delta) \in Int
    /\ \A dist, delta \in Int : Further(dist, delta) \in Int
<1>1. ASSUME NEW pos \in Int, NEW dir \in Int, NEW delta \in Int
      PROVE  FirstCrossing(pos, dir, delta) \in Int
  <2> DEFINE frac == IF dir < 0 THEN pos - Cell(pos) * FP_ONE ELSE (Cell(pos) + 1) * FP_ONE - pos
  <2>1. frac \in Int
    <3>1. Cell(pos) \in Int
      BY FixedPointTyped
    <3> QED
      BY <3>1 DEF FP_ONE
  <2> HIDE DEF frac
  <2>2. FP_MUL(frac, delta) \in Int /\ frac * 32767 + (frac - 1) \in Int
    BY <2>1, FixedPointTyped
  <2> QED
    BY <2>2 DEF FirstCrossing, frac
<1>2. \A dist, delta \in Int : Further(dist, delta) \in Int
  BY DEF Further, INT_MAX
<1> QED
  BY <1>1, <1>2

\* How many cells a ray has gone in one coordinate.
Travelled(from, to, direction) == IF direction < 0 THEN from - to ELSE to - from

\* The ray after n steps from cell <<x, y>>: it is in a wall, or has crossed n grid lines
\* without turning back and is in an open cell.
RayOK(r, n, x, y, c, s) ==
    /\ r \in [mx : Int, my : Int, dist : Int, hit : BOOLEAN, sx : Int, sy : Int]
    /\ r.hit => <<r.mx, r.my>> \in Walled
    /\ ~ r.hit => /\ <<r.mx, r.my>> \in World \ Walled
                  /\ Travelled(x, r.mx, c) >= 0 /\ Travelled(y, r.my, s) >= 0
                  /\ Travelled(x, r.mx, c) + Travelled(y, r.my, s) = n

(* A step of the loop. *)
LEMMA CrossLineOK ==
    ASSUME NEW x \in Int, NEW y \in Int, NEW c \in Int, NEW s \in Int, NEW dx \in Int, NEW dy \in Int,
           NEW n \in Nat, NEW r, RayOK(r, n, x, y, c, s)
    PROVE  RayOK(CrossLine(r, c, s, dx, dy), n + 1, x, y, c, s)
<1> DEFINE m == IF r.sx < r.sy
                THEN [r EXCEPT !.dist = r.sx, !.sx = Further(@, dx), !.mx = @ + Sign(c)]
                ELSE [r EXCEPT !.dist = r.sy, !.sy = Further(@, dy), !.my = @ + Sign(s)]
           Ray == [mx : Int, my : Int, dist : Int, hit : BOOLEAN, sx : Int, sy : Int]
<1>1. r \in Ray
  BY DEF RayOK
<1>2. CASE r.hit
  BY <1>2 DEF RayOK, CrossLine
<1>3. CASE ~ r.hit
  <2> DEFINE u == [m EXCEPT !.hit = <<m.mx, m.my>> \notin World \ Walled]
  <2>1. CrossLine(r, c, s, dx, dy) = u
    BY <1>3 DEF CrossLine
  <2>2. /\ <<r.mx, r.my>> \in World \ Walled
        /\ Travelled(x, r.mx, c) >= 0 /\ Travelled(y, r.my, s) >= 0
        /\ Travelled(x, r.mx, c) + Travelled(y, r.my, s) = n
    BY <1>3 DEF RayOK
  <2>3. r.mx \in 1 .. 14 /\ r.my \in 1 .. 14
    BY <1>1, <2>2, OpenInside
  <2>4. /\ m \in Ray
        /\ \/ m.mx = r.mx + Sign(c) /\ m.my = r.my
           \/ m.mx = r.mx /\ m.my = r.my + Sign(s)
    <3>1. Sign(c) \in {-1, 1} /\ Sign(s) \in {-1, 1}
      BY DEF Sign
    <3>2. Further(r.sx, dx) \in Int /\ Further(r.sy, dy) \in Int
      BY <1>1, CrossingsTyped
    <3>3. CASE r.sx < r.sy
      <4>1. m = [r EXCEPT !.dist = r.sx, !.sx = Further(@, dx), !.mx = @ + Sign(c)]
        BY <3>3
      <4> HIDE DEF m
      <4> DEFINE a == r.mx + Sign(c)
                 f == Further(r.sx, dx)
      <4>2. a \in Int /\ f \in Int
        BY <1>1, <3>1, <3>2
      <4>3. m = [r EXCEPT !.dist = r.sx, !.sx = f, !.mx = a]
        BY <1>1, <4>1
      <4> HIDE DEF a, f
      <4>4. m \in Ray /\ m.mx = a /\ m.my = r.my
        BY <1>1, <4>2, <4>3
      <4> QED
        BY <4>4 DEF a
    <3>4. CASE ~ (r.sx < r.sy)
      <4>1. m = [r EXCEPT !.dist = r.sy, !.sy = Further(@, dy), !.my = @ + Sign(s)]
        BY <3>4
      <4> HIDE DEF m
      <4> DEFINE a == r.my + Sign(s)
                 f == Further(r.sy, dy)
      <4>2. a \in Int /\ f \in Int
        BY <1>1, <3>1, <3>2
      <4>3. m = [r EXCEPT !.dist = r.sy, !.sy = f, !.my = a]
        BY <1>1, <4>1
      <4> HIDE DEF a, f
      <4>4. m \in Ray /\ m.my = a /\ m.mx = r.mx
        BY <1>1, <4>2, <4>3
      <4> QED
        BY <4>4 DEF a
    <3> QED
      BY <3>3, <3>4
  <2> HIDE DEF m
  <2>5. /\ Travelled(x, m.mx, c) >= 0 /\ Travelled(y, m.my, s) >= 0
        /\ Travelled(x, m.mx, c) + Travelled(y, m.my, s) = n + 1
    BY <1>1, <2>2, <2>4 DEF Travelled, Sign
  <2>6. <<m.mx, m.my>> \in World
    BY <2>3, <2>4 DEF Sign, World, MAP_W, MAP_H
  <2>7. /\ u \in Ray /\ u.mx = m.mx /\ u.my = m.my
        /\ u.hit = (<<m.mx, m.my>> \notin World \ Walled)
    BY <2>4
  <2> HIDE DEF u
  <2>8. RayOK(u, n + 1, x, y, c, s)
    BY <2>5, <2>6, <2>7 DEF RayOK
  <2> QED
    BY <2>1, <2>8
<1> QED
  BY <1>2, <1>3

\* The function of the steps of a cast up to number m, from the state r.
CastSteps(g, m, r, c, s, dx, dy) ==
    g = [n \in 0 .. m |-> IF n = 0 THEN r ELSE CrossLine(g[n - 1], c, s, dx, dy)]

(* There are such functions: the definition of Cast by recursion is          *)
(* meaningful.                                                               *)
LEMMA CastStepsExist ==
    ASSUME NEW r, NEW c, NEW s, NEW dx, NEW dy, NEW m \in Nat
    PROVE  \E g : CastSteps(g, m, r, c, s, dx, dy)
<1> DEFINE Steps(g, j) == CastSteps(g, j, r, c, s, dx, dy)
           Then(v) == CrossLine(v, c, s, dx, dy)
           bad == {j \in Nat : ~ \E g : Steps(g, j)}
<1>0. \A g, j : Steps(g, j) <=> g = [n \in 0 .. j |-> IF n = 0 THEN r ELSE Then(g[n - 1])]
  BY DEF CastSteps
<1> HIDE DEF Steps, Then
<1> SUFFICES ASSUME bad # {} PROVE FALSE
  BY DEF Steps
<1>1. PICK j \in bad : \A l \in bad : j <= l
  <2> bad \subseteq Nat
    OBVIOUS
  <2> HIDE DEF bad
  <2> QED
    BY LeastNatural
<1>2. j \in Nat /\ ~ \E g : Steps(g, j)
  OBVIOUS
<1>3. CASE j = 0
  <2> DEFINE f == [n \in 0 .. 0 |-> r]
  <2>1. f = [n \in 0 .. 0 |-> IF n = 0 THEN r ELSE Then(f[n - 1])]
    OBVIOUS
  <2>2. Steps(f, 0)
    <3> HIDE DEF f
    <3> QED
      BY <1>0, <2>1
  <2> QED
    BY <1>2, <1>3, <2>2
<1>4. CASE j # 0
  <2>1. PICK g : Steps(g, j - 1)
    BY <1>1, <1>2, <1>4
  <2> DEFINE h == [n \in 0 .. j |-> IF n = j THEN Then(g[j - 1]) ELSE g[n]]
  <2>2. \A n \in 0 .. j - 1 : g[n] = IF n = 0 THEN r ELSE Then(g[n - 1])
    BY <2>1, <1>0
  <2>3. \A n \in 0 .. j - 1 : h[n] = g[n]
    BY <1>2
  <2>4. \A n \in 0 .. j : h[n] = IF n = 0 THEN r ELSE Then(h[n - 1])
    <3> SUFFICES ASSUME NEW n \in 0 .. j
                 PROVE  h[n] = IF n = 0 THEN r ELSE Then(h[n - 1])
      OBVIOUS
    <3>1. CASE n = j
      <4>1. h[n] = Then(g[j - 1]) /\ h[j - 1] = g[j - 1] /\ n # 0
        BY <1>2, <1>4, <2>3, <3>1
      <4> HIDE DEF h
      <4> QED
        BY <3>1, <4>1
    <3>2. CASE n # j
      <4>1. n \in 0 .. j - 1 /\ h[n] = g[n] /\ (n # 0 => h[n - 1] = g[n - 1])
        BY <1>2, <2>3, <3>2
      <4> HIDE DEF h
      <4> QED
        BY <2>2, <4>1
    <3> QED
      BY <3>1, <3>2
  <2>5. Steps(h, j)
    <3>1. h = [n \in 0 .. j |-> h[n]]
      OBVIOUS
    <3> HIDE DEF h
    <3> QED
      BY <1>0, <2>4, <3>1
  <2> QED
    BY <1>2, <2>5
<1> QED
  BY <1>3, <1>4

(* The loop keeps RayOK. *)
LEMMA CastLoop ==
    ASSUME NEW x \in Int, NEW y \in Int, NEW c \in Int, NEW s \in Int, NEW dx \in Int, NEW dy \in Int,
           NEW r, RayOK(r, 0, x, y, c, s), NEW g, CastSteps(g, 64, r, c, s, dx, dy)
    PROVE  RayOK(g[64], 64, x, y, c, s)
<1> DEFINE bad == {j \in 0 .. 64 : ~ RayOK(g[j], j, x, y, c, s)}
<1>1. g[0] = r /\ \A n \in 1 .. 64 : g[n] = CrossLine(g[n - 1], c, s, dx, dy)
  BY DEF CastSteps
<1>2. bad = {}
  <2> SUFFICES ASSUME bad # {} PROVE FALSE
    OBVIOUS
  <2>1. PICK j \in bad : \A l \in bad : j <= l
    <3> bad \subseteq Nat
      OBVIOUS
    <3> HIDE DEF bad
    <3> QED
      BY LeastNatural
  <2>2. j \in 0 .. 64 /\ ~ RayOK(g[j], j, x, y, c, s)
    OBVIOUS
  <2>3. j # 0
    BY <1>1, <2>2
  <2>4. j - 1 \in Nat /\ j - 1 \in 0 .. 64 /\ j \in 1 .. 64 /\ (j - 1) + 1 = j /\ ~ (j <= j - 1)
    BY <2>2, <2>3
  <2>5. RayOK(g[j - 1], j - 1, x, y, c, s)
    BY <2>1, <2>4
  <2>6. RayOK(CrossLine(g[j - 1], c, s, dx, dy), (j - 1) + 1, x, y, c, s)
    BY <2>4, <2>5, CrossLineOK
  <2> QED
    BY <1>1, <2>2, <2>4, <2>6
<1> QED
  BY <1>2

(* Every ray from an open cell ends in a wall: it cannot cross 64 grid lines *)
(* of a map of 16 by 16 without turning back.                                *)
LEMMA CastHits ==
    ASSUME NEW p, PlayerOK(p), NEW a \in Int
    PROVE  /\ Cast(p, a).hit /\ <<Cast(p, a).mx, Cast(p, a).my>> \in Walled
           /\ Cast(p, a).dist \in Int
<1> DEFINE c  == fp_cos(a)
           s  == fp_sin(a)
           dx == Reciprocal(c)
           dy == Reciprocal(s)
           r  == [mx |-> Cell(p.x), my |-> Cell(p.y), dist |-> 0, hit |-> FALSE,
                  sx |-> FirstCrossing(p.x, c, dx), sy |-> FirstCrossing(p.y, s, dy)]
           x  == Cell(p.x)
           y  == Cell(p.y)
           g  == CHOOSE h : CastSteps(h, 64, r, c, s, dx, dy)
<1>1. p.x \in Int /\ p.y \in Int /\ <<x, y>> \in World \ Walled
  BY DEF PlayerOK, PlayerTyped, Open
<1>2. c \in Int /\ s \in Int /\ x \in Int /\ y \in Int
  BY <1>1, FixedPointTyped
<1>3. dx \in Int /\ dy \in Int
  <2> HIDE DEF c, s
  <2> QED
    BY <1>2, FixedPointTyped
<1>4. FirstCrossing(p.x, c, dx) \in Int /\ FirstCrossing(p.y, s, dy) \in Int
  <2> HIDE DEF c, s, dx, dy
  <2> QED
    BY <1>1, <1>2, <1>3, CrossingsTyped
<1>5. RayOK(r, 0, x, y, c, s)
  <2> DEFINE fx == FirstCrossing(p.x, c, dx)
             fy == FirstCrossing(p.y, s, dy)
  <2>1. fx \in Int /\ fy \in Int /\ r = [mx |-> x, my |-> y, dist |-> 0, hit |-> FALSE, sx |-> fx, sy |-> fy]
    BY <1>4
  <2> HIDE DEF fx, fy, x, y, c, s, dx, dy, r
  <2> QED
    BY <1>1, <1>2, <2>1 DEF RayOK, Travelled
<1>6. CastSteps(g, 64, r, c, s, dx, dy)
  <2> HIDE DEF r, c, s, dx, dy
  <2>1. \E h : CastSteps(h, 64, r, c, s, dx, dy)
    BY CastStepsExist
  <2> QED
    BY <2>1
<1>7. Cast(p, a) = g[64]
  BY DEF Cast, CastSteps
<1> HIDE DEF g, r, c, s, dx, dy, x, y
<1>8. RayOK(g[64], 64, x, y, c, s)
  BY <1>2, <1>3, <1>5, <1>6, CastLoop
<1> DEFINE u == g[64]
<1>9. RayOK(u, 64, x, y, c, s) /\ Cast(p, a) = u
  BY <1>7, <1>8
<1> HIDE DEF u
<1>10. u \in [mx : Int, my : Int, dist : Int, hit : BOOLEAN, sx : Int, sy : Int]
  BY <1>9 DEF RayOK
<1>11. u.hit
  <2> SUFFICES ASSUME ~ u.hit PROVE FALSE
    OBVIOUS
  <2>1. /\ <<u.mx, u.my>> \in World \ Walled
        /\ Travelled(x, u.mx, c) + Travelled(y, u.my, s) = 64
    BY <1>9 DEF RayOK
  <2>2. u.mx \in 1 .. 14 /\ u.my \in 1 .. 14 /\ x \in 1 .. 14 /\ y \in 1 .. 14
    BY <1>1, <1>2, <1>10, <2>1, OpenInside
  <2>3. Travelled(x, u.mx, c) \in -13 .. 13 /\ Travelled(y, u.my, s) \in -13 .. 13
    BY <1>2, <2>2 DEF Travelled
  <2> QED
    BY <2>1, <2>3
<1> QED
  BY <1>9, <1>10, <1>11 DEF RayOK

(* The height of a wall that is far enough away fits on the screen. *)
LEMMA HeightFits ==
    ASSUME NEW perp \in Int, perp > 2 * SCREEN_H
    PROVE  line_height(perp) \in 0 .. SCREEN_H
<1> DEFINE top == SCREEN_H * 65536
           q == top \div perp
<1>1. SCREEN_H \in Nat /\ 1 <= SCREEN_H /\ SCREEN_H <= 32767
  BY ScreenBounds
<1>2. perp \in Nat /\ perp >= 2 * SCREEN_H + 1 /\ top \in Nat
  BY <1>1
<1>3. q \in Nat /\ perp * q <= top
  <2> HIDE DEF top
  <2>1. (top \div perp) \in Nat /\ (top % perp) \in Nat /\ top = perp * (top \div perp) + (top % perp)
    BY <1>1, <1>2
  <2>2. perp * (top \div perp) \in Nat
    BY <1>2, <2>1
  <2> HIDE DEF q
  <2>3. q = (top \div perp)
    BY DEF q
  <2> QED
    BY <1>2, <2>1, <2>2, <2>3
<1> HIDE DEF q
<1>4. q < 32768
  <2> SUFFICES ASSUME q >= 32768 PROVE FALSE
    BY <1>3
  <2>1. PICK z \in Nat : q = 32768 + z
    <3>1. q - 32768 \in Nat /\ q = 32768 + (q - 32768)
      BY <1>3
    <3> QED
      BY <3>1
  <2>2. perp * q = 32768 * perp + perp * z /\ perp * z \in Nat
    BY <1>2, <2>1
  <2>3. 32768 * perp > top
    BY <1>1, <1>2
  <2> QED
    BY <1>2, <1>3, <2>2, <2>3
<1>5. ((q + 32768) % 65536) - 32768 = q
  BY <1>3, <1>4
<1>6. line_height(perp) = IF q > SCREEN_H THEN SCREEN_H ELSE q
  BY <1>5 DEF line_height, FP_ONE, q
<1> QED
  BY <1>1, <1>3, <1>6

(* The three loops over a column then write each of its rows once. *)
LEMMA RowsPartition ==
    ASSUME NEW h \in 0 .. SCREEN_H
    PROVE  /\ \A y \in 0 .. SCREEN_H - 1 : Cardinality({i \in 1 .. 3 : y \in Rows(h)[i]}) = 1
           /\ \A i \in 1 .. 3 : Rows(h)[i] \subseteq 0 .. SCREEN_H - 1
<1> DEFINE start == (SCREEN_H - h) \div 2
           end   == start + h
<1>1. SCREEN_H \in Nat /\ 1 <= SCREEN_H /\ SCREEN_H <= 32767
  BY ScreenBounds
<1>2. start \in Nat /\ end \in Nat /\ start <= end /\ end <= SCREEN_H
  BY <1>1
<1>3. Rows(h) = <<0 .. start - 1, {y \in start .. end - 1 : y >= 0 /\ y < SCREEN_H}, end .. SCREEN_H - 1>>
  BY DEF Rows
<1> HIDE DEF start, end
<1>4. /\ Rows(h)[1] = 0 .. start - 1 /\ Rows(h)[3] = end .. SCREEN_H - 1
      /\ Rows(h)[2] = {y \in start .. end - 1 : y >= 0 /\ y < SCREEN_H}
  BY <1>3
<1>5. ASSUME NEW y \in 0 .. SCREEN_H - 1
      PROVE  Cardinality({i \in 1 .. 3 : y \in Rows(h)[i]}) = 1
  <2>1. \A i \in 1 .. 3 : i = 1 \/ i = 2 \/ i = 3
    OBVIOUS
  <2>2. PICK k \in 1 .. 3 : \A i \in 1 .. 3 : y \in Rows(h)[i] <=> i = k
    <3>1. /\ y \in Rows(h)[1] <=> y < start
          /\ y \in Rows(h)[2] <=> y >= start /\ y < end
          /\ y \in Rows(h)[3] <=> y >= end
      BY <1>1, <1>2, <1>4
    <3>2. CASE y < start
      BY <1>1, <1>2, <2>1, <3>1, <3>2
    <3>3. CASE y >= start /\ y < end
      BY <1>1, <1>2, <2>1, <3>1, <3>3
    <3>4. CASE y >= end
      BY <1>1, <1>2, <2>1, <3>1, <3>4
    <3> QED
      BY <1>1, <1>2, <3>2, <3>3, <3>4
  <2>3. {i \in 1 .. 3 : y \in Rows(h)[i]} = {k}
    BY <2>2
  <2> QED
    BY <2>3, FS_Singleton
<1>6. \A i \in 1 .. 3 : Rows(h)[i] \subseteq 0 .. SCREEN_H - 1
  <2>1. \A i \in 1 .. 3 : i = 1 \/ i = 2 \/ i = 3
    OBVIOUS
  <2>2. /\ Rows(h)[1] \subseteq 0 .. SCREEN_H - 1 /\ Rows(h)[2] \subseteq 0 .. SCREEN_H - 1
        /\ Rows(h)[3] \subseteq 0 .. SCREEN_H - 1
    BY <1>1, <1>2, <1>4
  <2> QED
    BY <2>1, <2>2
<1> QED
  BY <1>5, <1>6

RaycasterInv == app = "Raycaster" => PlayerOK(game)

(* The player starts in an open cell. *)
LEMMA PlayerBegins == PlayerOK(raycaster_init)
BY DEF PlayerOK, PlayerTyped, raycaster_init, Open, Cell, FP_ONE, World, Walled, Interior, MAP_W, MAP_H

(* And stays in open cells: a step is taken only if it ends in one. *)
LEMMA PlayerKeyOK ==
    ASSUME NEW p, PlayerOK(p), NEW key
    PROVE  PlayerOK(raycaster_key(p, key))
<1>1. PlayerTyped(p) /\ Open(p.x, p.y) /\ ROT_SPEED \in Int /\ MOVE_SPEED \in Int
  BY ScreenBounds DEF PlayerOK
<1>2. ASSUME NEW sign \in {-1, 1}
      PROVE  PlayerOK(Step(p, sign))
  <2> DEFINE nx == p.x + sign * FP_MUL(fp_cos(p.angle), MOVE_SPEED)
             ny == p.y + sign * FP_MUL(fp_sin(p.angle), MOVE_SPEED)
  <2>1. nx \in Int /\ ny \in Int
    <3>1. p.x \in Int /\ p.y \in Int /\ p.angle \in Int
      BY <1>1 DEF PlayerTyped
    <3>2. fp_cos(p.angle) \in Int /\ fp_sin(p.angle) \in Int
      BY <3>1, FixedPointTyped
    <3>3. FP_MUL(fp_cos(p.angle), MOVE_SPEED) \in Int /\ FP_MUL(fp_sin(p.angle), MOVE_SPEED) \in Int
      BY <1>1, <3>2, FixedPointTyped
    <3> QED
      BY <3>1, <3>3
  <2>2. Step(p, sign) = IF Open(nx, ny) THEN [p EXCEPT !.x = nx, !.y = ny] ELSE p
    BY DEF Step
  <2> HIDE DEF nx, ny
  <2>3. CASE Open(nx, ny)
    <3> DEFINE u == [p EXCEPT !.x = nx, !.y = ny]
    <3>1. PlayerTyped(u) /\ u.x = nx /\ u.y = ny
      BY <1>1, <2>1 DEF PlayerTyped
    <3> HIDE DEF u
    <3>2. PlayerOK(u)
      BY <2>3, <3>1 DEF PlayerOK
    <3> QED
      BY <2>2, <2>3, <3>2 DEF u
  <2>4. CASE ~ Open(nx, ny)
    BY <2>2, <2>4
  <2> QED
    BY <2>3, <2>4
<1>3. ASSUME NEW a \in Int
      PROVE  PlayerOK([p EXCEPT !.angle = a])
  BY <1>1 DEF PlayerOK, PlayerTyped
<1>4. (p.angle - ROT_SPEED) % 256 \in Int /\ (p.angle + ROT_SPEED) % 256 \in Int
  BY <1>1 DEF PlayerTyped
<1>5. CASE key = "left"
  BY <1>3, <1>4, <1>5 DEF raycaster_key
<1>6. CASE key = "right"
  BY <1>3, <1>4, <1>6 DEF raycaster_key
<1>7. CASE key = "up"
  <2>1. raycaster_key(p, key) = Step(p, 1)
    BY <1>7 DEF raycaster_key
  <2> QED
    BY <1>2, <2>1
<1>8. CASE key = "down"
  <2>1. raycaster_key(p, key) = Step(p, -1)
    BY <1>8 DEF raycaster_key
  <2> QED
    BY <1>2, <2>1
<1>9. CASE key \notin {"left", "right", "up", "down"}
  <2>1. raycaster_key(p, key) = p
    BY <1>9 DEF raycaster_key
  <2> QED
    BY <2>1
<1> QED
  BY <1>5, <1>6, <1>7, <1>8, <1>9

(* The raycaster part of a step. *)
LEMMA RaycasterStep ==
    ASSUME RaycasterInv, [Next]_vars
    PROVE  RaycasterInv'
<1>1. ASSUME NEW a \in Apps, AppInit(a)
      PROVE  RaycasterInv'
  <2>1. app' = a /\ (a = "Raycaster" => game' = raycaster_init)
    BY <1>1 DEF AppInit, Apps
  <2> QED
    BY <2>1, PlayerBegins DEF RaycasterInv
<1>2. CASE Close
  BY <1>2 DEF Close, RaycasterInv
<1>3. ASSUME NEW key \in Keys, AppKey(key)
      PROVE  RaycasterInv'
  <2>1. app' = app /\ (app = "Raycaster" => game' = raycaster_key(game, key))
    BY <1>3 DEF AppKey
  <2> QED
    BY <2>1, PlayerKeyOK DEF RaycasterInv
<1>4. CASE AppTick
  <2>1. app' = app /\ (app = "Raycaster" => game' = game)
    BY <1>4 DEF AppTick, raycaster_tick
  <2> QED
    BY <2>1 DEF RaycasterInv
<1>5. CASE UNCHANGED vars
  BY <1>5 DEF vars, RaycasterInv
<1> QED
  BY <1>1, <1>2, <1>3, <1>4, <1>5 DEF Next

(* From an open cell every column is painted. *)
LEMMA ColumnPainted ==
    ASSUME RaycasterInv
    PROVE  ColumnsPainted
<1> SUFFICES ASSUME app = "Raycaster", NEW offset \in Offsets
             PROVE  LET angle == RayAngle(game, offset)
                        ray   == Cast(game, angle)
                        perp  == PerpDist(game, angle, ray.dist)
                        rows  == Rows(line_height(perp))
                    IN  /\ ray.hit /\ <<ray.mx, ray.my>> \in Walled
                        /\ perp > 2 * SCREEN_H =>
                            \A y \in 0 .. SCREEN_H - 1 : Cardinality({i \in 1 .. 3 : y \in rows[i]}) = 1
                        /\ perp > 2 * SCREEN_H => \A i \in 1 .. 3 : rows[i] \subseteq 0 .. SCREEN_H - 1
  BY DEF ColumnsPainted
<1> DEFINE angle == RayAngle(game, offset)
           ray   == Cast(game, angle)
           perp  == PerpDist(game, angle, ray.dist)
<1>1. PlayerOK(game) /\ game.angle \in Int /\ offset \in Int
  BY GamesAssumption DEF RaycasterInv, PlayerOK, PlayerTyped, FOV
<1>2. angle \in Int
  BY <1>1 DEF RayAngle, FOV
<1> HIDE DEF angle
<1>3. ray.hit /\ <<ray.mx, ray.my>> \in Walled /\ ray.dist \in Int
  BY <1>1, <1>2, CastHits
<1> HIDE DEF ray
<1>4. perp \in Int
  <2> DEFINE co == fp_cos(angle - game.angle)
             at == AtLeast(256, ray.dist)
             f  == FP_MUL(at, co)
  <2>1. co \in Int /\ at \in Int
    <3>1. angle - game.angle \in Int
      BY <1>1, <1>2
    <3>2. at \in Int
      BY <1>3 DEF AtLeast
    <3> QED
      BY <3>1, <3>2, FixedPointTyped
  <2> HIDE DEF co, at
  <2>2. f \in Int
    BY <2>1, FixedPointTyped
  <2> HIDE DEF f
  <2>3. AtLeast(256, f) \in Int
    BY <2>2 DEF AtLeast
  <2> QED
    BY <2>3 DEF PerpDist, f, at, co
<1> HIDE DEF perp
<1>5. perp > 2 * SCREEN_H => line_height(perp) \in 0 .. SCREEN_H
  BY <1>4, HeightFits
<1>6. /\ perp > 2 * SCREEN_H =>
            \A y \in 0 .. SCREEN_H - 1 : Cardinality({i \in 1 .. 3 : y \in Rows(line_height(perp))[i]}) = 1
      /\ perp > 2 * SCREEN_H => \A i \in 1 .. 3 : Rows(line_height(perp))[i] \subseteq 0 .. SCREEN_H - 1
  BY <1>5, RowsPartition
<1> QED
  BY <1>3, <1>6 DEF angle, ray, perp

(* Wherever the player can walk, at any speed, every ray ends in a wall      *)
(* within the 64 steps of cast_rays' loop, so no column is skipped, and the  *)
(* three loops over a column write each of its rows once, on a screen of any *)
(* height, as long as the wall's height fits in line_height's 16 bits.       *)
THEOREM RaysPaintColumns == Spec => []ColumnsPainted
<1>1. Init => RaycasterInv
  BY DEF Init, RaycasterInv
<1>2. RaycasterInv /\ [Next]_vars => RaycasterInv'
  BY RaycasterStep
<1>3. RaycasterInv => ColumnsPainted
  BY ColumnPainted
<1> QED
  BY <1>1, <1>2, <1>3, PTL DEF Spec
=============================================================================
