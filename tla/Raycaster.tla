----------------------------- MODULE Raycaster -----------------------------
(***************************************************************************)
(* The raycaster (games/raycaster.c), as operators on the player's         *)
(* position and angle: the movement, the cast of one ray through the map   *)
(* and the rows of the window that cast_rays writes for it.  Numbers are   *)
(* 16.16 fixed point; 360 degrees are 256.  The kind of a wall, which only *)
(* colours it, is left out.                                                *)
(***************************************************************************)
EXTENDS Integers, Sequences

CONSTANTS
    SCREEN_H,       \* height of the target: 400 in the window
    ROT_SPEED,      \* 3 in the code
    MOVE_SPEED      \* FP_ONE / 8 in the code

ASSUME RaycasterAssumption ==
    /\ SCREEN_H \in Nat \ {0} /\ SCREEN_H < 32768     \* it is shifted left by 16 bits
    /\ ROT_SPEED \in Nat /\ MOVE_SPEED \in Nat

FP_ONE == 65536
INT_MAX == 2147483647
FOV == 42
MAP_W == 16
MAP_H == 16

\* The first quarter of sin_table; the other three mirror it.
Quarter ==
    <<
      0, 1608, 3216, 4821, 6424, 8022, 9616, 11204, 12785, 14359, 15924, 17479,
      19024, 20557, 22078, 23586, 25080, 26558, 28020, 29466, 30893, 32303, 33692, 35062,
      36410, 37736, 39040, 40320, 41576, 42806, 44011, 45190, 46341, 47464, 48559, 49624,
      50660, 51665, 52639, 53581, 54491, 55368, 56212, 57022, 57798, 58538, 59244, 59914,
      60547, 61145, 61705, 62228, 62714, 63162, 63572, 63944, 64277, 64571, 64827, 65043,
      65220, 65358, 65457, 65516, 65536 >>

fp_sin(angle) ==
    LET a == angle % 256
    IN  CASE a \in 0 .. 64    -> Quarter[a + 1]
          [] a \in 65 .. 128  -> Quarter[129 - a]
          [] a \in 129 .. 192 -> -Quarter[a - 127]
          [] a \in 193 .. 255 -> -Quarter[257 - a]

fp_cos(angle) == fp_sin(angle + 64)

\* FP_MUL: the product of 64 bits, shifted, one byte of b at a time.
FP_MUL(a, b) == (a * (b \div 256) + (a * (b % 256)) \div 256) \div 256

\* fp_abs(FP_DIV(FP_ONE, c)): the long division of 2^32 by the magnitude of c.
Reciprocal(c) ==
    LET d  == IF c < 0 THEN -c ELSE c
        r0 == FP_ONE % d
        r1 == (r0 * 256) % d
    IN  IF c = 0 THEN INT_MAX
        ELSE (FP_ONE \div d) * 65536 + ((r0 * 256) \div d) * 256 + (r1 * 256) \div d

\* world_map, as the set of its walls <<x, y>>.
Interior ==
    ({3, 4} \X {3, 12}) \cup ({3} \X {4, 11}) \cup ({10, 11} \X {3, 12}) \cup
    {<<12, 3>>, <<12, 4>>, <<11, 11>>} \cup
    ({6, 8} \X (6 .. 9)) \cup ({7} \X {6, 9})
World == (0 .. MAP_W - 1) \X (0 .. MAP_H - 1)
Walled ==
    {m \in World : m[1] \in {0, MAP_W - 1} \/ m[2] \in {0, MAP_H - 1}} \cup Interior

Cell(v) == v \div FP_ONE

\* raycaster_init.
raycaster_init == [x |-> 163840, y |-> 163840, angle |-> 0]

\* Mutant: the player may step anywhere on the map.
OpenMapOnly(nx, ny) == <<Cell(nx), Cell(ny)>> \in World

\* The test of raycaster_key before a step.
Open(nx, ny) == <<Cell(nx), Cell(ny)>> \in World \ Walled

Step(p, sign) ==
    LET nx == p.x + sign * FP_MUL(fp_cos(p.angle), MOVE_SPEED)
        ny == p.y + sign * FP_MUL(fp_sin(p.angle), MOVE_SPEED)
    IN  IF Open(nx, ny) THEN [p EXCEPT !.x = nx, !.y = ny] ELSE p

\* raycaster_key.
raycaster_key(p, key) ==
    CASE key = "left"  -> [p EXCEPT !.angle = (@ - ROT_SPEED) % 256]
      [] key = "right" -> [p EXCEPT !.angle = (@ + ROT_SPEED) % 256]
      [] key = "up"    -> Step(p, 1)
      [] key = "down"  -> Step(p, -1)
      [] OTHER -> p

\* raycaster_tick does nothing.
raycaster_tick(p) == p
-----------------------------------------------------------------------------
(* cast_rays, for one column.                                                *)

\* The distance along a ray to the first grid line it crosses in one coordinate.
FirstCrossing(pos, direction, delta) ==
    LET frac == IF direction < 0 THEN pos - Cell(pos) * FP_ONE
                                 ELSE (Cell(pos) + 1) * FP_ONE - pos
    IN  IF delta = INT_MAX THEN frac * 32767 + (frac - 1) ELSE FP_MUL(frac, delta)

\* An addition to such a distance; with INT_MAX it wraps, as compiled.
Further(dist, delta) ==
    IF delta = INT_MAX /\ dist > 0 THEN dist - INT_MAX - 2 ELSE dist + delta

Sign(v) == IF v < 0 THEN -1 ELSE 1

\* One step of the loop: over the nearer grid line, into the next cell.  dist is the distance
\* to the line crossed last; a wall or the edge of the map ends the loop.
CrossLine(r, c, s, dx, dy) ==
    LET m == IF r.sx < r.sy
             THEN [r EXCEPT !.dist = r.sx, !.sx = Further(@, dx), !.mx = @ + Sign(c)]
             ELSE [r EXCEPT !.dist = r.sy, !.sy = Further(@, dy), !.my = @ + Sign(s)]
    IN  IF r.hit THEN r ELSE [m EXCEPT !.hit = <<m.mx, m.my>> \notin World \ Walled]

\* The cast of one ray, in at most 64 steps.
Cast(p, ray_angle) ==
    LET c  == fp_cos(ray_angle)
        s  == fp_sin(ray_angle)
        dx == Reciprocal(c)
        dy == Reciprocal(s)
        at[n \in 0 .. 64] ==
            IF n = 0
            THEN [mx |-> Cell(p.x), my |-> Cell(p.y), dist |-> 0, hit |-> FALSE,
                  sx |-> FirstCrossing(p.x, c, dx), sy |-> FirstCrossing(p.y, s, dy)]
            ELSE CrossLine(at[n - 1], c, s, dx, dy)
    IN  at[64]

AtLeast(lo, v) == IF v < lo THEN lo ELSE v

\* The distance of the wall from the plane of the screen.
PerpDist(p, ray_angle, dist) ==
    AtLeast(256, FP_MUL(AtLeast(256, dist), fp_cos(ray_angle - p.angle)))

\* The height of the wall on the screen.  FP_DIV's result is cut to 32 bits before it is
\* shifted, so its whole part is cut to 16.
line_height(perp) ==
    LET h == (((SCREEN_H * FP_ONE) \div perp + 32768) % 65536) - 32768
    IN  IF h > SCREEN_H THEN SCREEN_H ELSE h

\* The rows of the column that are written: ceiling, wall and floor.
Rows(h) ==
    LET start == (SCREEN_H - h) \div 2
        end   == start + h
    IN  <<0 .. start - 1,
          {y \in start .. end - 1 : y >= 0 /\ y < SCREEN_H},
          end .. SCREEN_H - 1>>

\* The angle of a column's ray: offset is (col * FOV) / scr_w.
RayAngle(p, offset) == (p.angle - FOV \div 2 + offset) % 256

=============================================================================
