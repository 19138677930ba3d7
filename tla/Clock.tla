------------------------------- MODULE Clock -------------------------------
(***************************************************************************)
(* The millisecond tick of the firmware.  The TIM17 interrupt calls        *)
(* HAL_IncTick; every module reads the counter with HAL_GetTick and        *)
(* subtracts timestamps in uint32_t, so the arithmetic is modulo TickMod   *)
(* (2^32 in the build).                                                    *)
(***************************************************************************)
EXTENDS Integers

CONSTANTS
  TickMod,   \* number of values of the tick counter
  Horizon    \* tick at which the modelled run stops the clock; a value that
             \* is not a tick lets the counter wrap for ever

ASSUME TickModAssumption == TickMod \in Nat /\ TickMod > 1

VARIABLE now   \* what HAL_GetTick returns

Ticks == 0 .. TickMod - 1

(* (uint32_t)(t - base) *)
Elapsed(t, base) == IF base <= t THEN t - base ELSE t - base + TickMod

(* (uint32_t)(t + d), for a delay d below TickMod *)
Later(t, d) == IF t + d < TickMod THEN t + d ELSE t + d - TickMod

(* (int32_t)(until - t) <= 0 *)
DeadlineReached(t, until) ==
  LET left == Elapsed(until, t)
  IN  left = 0 \/ 2 * left >= TickMod

ClockInit == now = 0

ClockTick == now # Horizon /\ now' = Later(now, 1)
=============================================================================
