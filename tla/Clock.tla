------------------------------- MODULE Clock -------------------------------
(***************************************************************************)
(* The controller's millisecond counter (src/include/navbench/math.hpp).   *)
(*                                                                         *)
(* A timestamp is only ever read through elapsed_ms(now, then), an         *)
(* unsigned 32-bit difference, or through reached(now, deadline), the sign *)
(* of that difference read as a signed number.  The models therefore keep  *)
(* a timestamp as its AGE, the difference to now, and the passing of time  *)
(* changes the age modulo ClockSize (2^32 in the code).                    *)
(***************************************************************************)
EXTENDS Integers

CONSTANT ClockSize   \* the number of values of the counter

ASSUME ClockAssumption == ClockSize \in Nat \ {0}

Age == 0 .. ClockSize - 1

Older(age, d) == (age + d) % ClockSize
=============================================================================
