-------------------------------- MODULE Axes --------------------------------
(***************************************************************************)
(* mapping.cpp's applyTrigger and applyStickDeadzone and controller.cpp's  *)
(* inversion of Y: what the game sees of a trigger and a stick.            *)
(*                                                                         *)
(* Dead zones are in tenths. Values are those of exact arithmetic, cut off *)
(* as the casts do; the code's floats may differ from it by one unit.      *)
(***************************************************************************)
EXTENDS Integers

CONSTANTS
    FullStick,        \* 32767 in the code
    FullTrigger,      \* 1023
    FullByte          \* 255

ASSUME FullValues ==
    /\ FullStick \in Nat \ {0} /\ FullTrigger \in Nat \ {0} /\ FullByte \in Nat \ {0}

Axis == (-FullStick - 1)..FullStick
Deadzones == 0..9

Abs(n) == IF n < 0 THEN -n ELSE n
Least(a, b) == IF a < b THEN a ELSE b
Square(n) == n * n

-----------------------------------------------------------------------------
\* Mutant of Trigger: what is left of the range is not stretched
TriggerNotRescaled(value, d) ==
    LET v == Least(value, FullTrigger)
    IN IF 10 * v < d * FullTrigger THEN 0 ELSE (v * FullByte) \div FullTrigger

\* Another mutant of Trigger: the value is not cut off at the full pull
TriggerNotCut(value, d) ==
    IF 10 * value < d * FullTrigger THEN 0
    ELSE ((10 * value - d * FullTrigger) * FullByte) \div (FullTrigger * (10 - d))

(* applyTrigger: (v / full - d) / (1 - d) of a byte                        *)
Trigger(value, d) ==
    LET v == Least(value, FullTrigger)
    IN IF 10 * v < d * FullTrigger THEN 0
       ELSE ((10 * v - d * FullTrigger) * FullByte) \div (FullTrigger * (10 - d))

-----------------------------------------------------------------------------
(* applyStickDeadzone: (min(m, 1) - d) / (1 - d) / m of the deflection, m  *)
(* being its distance from the centre. k units are within that when        *)
(*    k <= a * full / m                     beyond the rim,                *)
(*    k * (1 - d) * m <= a * (m - d * full) inside it,                     *)
(* where a is the deflection along the axis; both sides are squared to be  *)
(* rid of the root in m.                                                   *)
Within(k, a, m2, d) ==
    IF m2 > Square(FullStick) THEN Square(k) * m2 <= Square(a * FullStick)
    ELSE /\ k * (10 - d) <= 10 * a
         /\ Square(a * d * FullStick) <= m2 * Square(10 * a - k * (10 - d))

\* Mutant of Rescaled: past the dead zone the deflection is passed on as it is
RescaledNot(a, m2, d) == Least(a, FullStick)

\* Another mutant of Rescaled: each axis is stretched by itself, as if it were
\* the distance from the centre
RescaledByAxis(a, m2, d) ==
    IF 10 * a < d * FullStick THEN 0
    ELSE Least((10 * a - d * FullStick) \div (10 - d), FullStick)

Rescaled(a, m2, d) == CHOOSE k \in 0..a : Within(k, a, m2, d) /\ ~Within(k + 1, a, m2, d)

Stick(a, b, d) ==                \* the axis a of a stick at (a, b)
    LET m2 == Square(a) + Square(b)
    IN IF d = 0 THEN a
       ELSE IF 100 * m2 < Square(d * FullStick) THEN 0
       ELSE IF a < 0 THEN -Rescaled(-a, m2, d) ELSE Rescaled(a, m2, d)

\* Mutant of Inverted: -(-32768) is 32768, which int16 turns into -32768 again
InvertedWraps(a) == IF a = -FullStick - 1 THEN a ELSE -a

(* applyInput's inversion of an int16                                      *)
Inverted(a) == IF a = -FullStick - 1 THEN FullStick ELSE -a

(* the left stick, or the right one                                        *)
Reported(x, y, d, inverted) ==
    [x |-> Stick(x, y, d), y |-> IF inverted THEN Inverted(Stick(y, x, d)) ELSE Stick(y, x, d)]
=============================================================================
