------------------------------- MODULE Ticks -------------------------------
(* Arithmetic on the millisecond ticks of the firmware.  HAL_GetTick() is a  *)
(* uint32_t, so ticks live on a ring of TickModulus (2^32 in the program)    *)
(* values: differences wrap, and "after" is the sign of the difference read  *)
(* as an int32_t.  The definitions use no remainder, so that they stay in    *)
(* linear arithmetic for a proof.                                            *)
EXTENDS Integers

CONSTANT TickModulus

ASSUME TickModulusAssumption == TickModulus \in Nat /\ TickModulus >= 4

Tick == 0 .. (TickModulus - 1)

\* Mutant: the sum does not wrap.
MutantTickAddUnbounded(a, d) == a + d

\* uint32_t addition of a distance d \in 0..TickModulus.
TickAdd(a, d) == IF a + d < TickModulus THEN a + d ELSE a + d - TickModulus

\* uint32_t subtraction: the distance from b forward to a.
TickSub(a, b) == IF a >= b THEN a - b ELSE a - b + TickModulus

\* tick_is_after: (int32_t)(a - b) > 0.
TickAfter(a, b) == 0 < TickSub(a, b) /\ 2 * TickSub(a, b) < TickModulus

\* tick_is_before swaps the arguments of tick_is_after.
TickBefore(a, b) == TickAfter(b, a)

=============================================================================
