------------------------------- MODULE Floats -------------------------------
(***************************************************************************)
(* The arithmetic of `float` that pixel_block.h:153 relies on: conversion  *)
(* of an int, and the rounded quotient of two floats, to the nearest value *)
(* and to the even one of two that are equally near.                       *)
(***************************************************************************)
EXTENDS Integers

CONSTANT
  FloatExact     (* 2^24: a float holds every integer up to this one       *)

PowersOfTwo ==
  {1, 2, 4, 8, 16, 32, 64, 128, 256, 512, 1024, 2048, 4096, 8192, 16384, 32768, 65536, 131072,
   262144, 524288, 1048576, 2097152, 4194304, 8388608, 16777216}

ASSUME FloatAssumption == FloatExact \in PowersOfTwo \ {1}

(* Of two neighbours, with the remainder r of a step of size `step`        *)
(* between them: is the lower one taken?                                   *)
RoundsDown(r, step, lowerIsEven) == 2 * r < step \/ (2 * r = step /\ lowerIsEven)

(* (float)n.  Above FloatExact, floats are u apart.                        *)
ToFloat(n) ==
  IF n <= FloatExact
    THEN n
    ELSE LET u == CHOOSE p \in PowersOfTwo : n < p * FloatExact /\ p * FloatExact <= 2 * n
             q == n \div u
         IN  IF RoundsDown(n % u, u, q % 2 = 0) THEN q * u ELSE (q + 1) * u

(* Beside the integer q, a float has steps of 1/v for the fraction: is the *)
(* fraction r/b rounded away?                                              *)
FractionIsLost(q, r, b) ==
  \E v \in PowersOfTwo :
    /\ q > 0 /\ v <= (FloatExact - 1) \div q /\ FloatExact <= 2 * q * v
    /\ RoundsDown(r * v, b, (q * v) % 2 = 0)

(* ceil(a / b) for floats a and b with integer values, b up to FloatExact. *)
CeilQuotient(a, b) ==
  IF a % b = 0 \/ FractionIsLost(a \div b, a % b, b) THEN a \div b ELSE a \div b + 1

=============================================================================
