---------------------------- MODULE ClockProofs ----------------------------
(* Arithmetic of the tick counter: what the modular ages and deadlines of  *)
(* Clock say about real time.                                              *)
EXTENDS Clock, TLAPS

(* A timestamp taken now is zero ticks old. *)
LEMMA ElapsedSame == ASSUME NEW t \in Ticks PROVE Elapsed(t, t) = 0
  BY DEF Ticks, Elapsed

(* Ageing by one tick, as long as the age has not used up the counter. *)
LEMMA ElapsedLater ==
  ASSUME NEW t \in Ticks, NEW base \in Ticks, Elapsed(t, base) + 1 < TickMod
  PROVE  /\ Later(t, 1) \in Ticks
         /\ Elapsed(Later(t, 1), base) = Elapsed(t, base) + 1
  BY TickModAssumption DEF Ticks, Elapsed, Later

LEMMA LaterIsTick == ASSUME NEW t \in Ticks PROVE Later(t, 1) \in Ticks
  BY TickModAssumption DEF Ticks, Later

LEMMA LaterType ==
  ASSUME NEW t \in Ticks, NEW d \in Ticks PROVE Later(t, d) \in Ticks
  BY TickModAssumption DEF Ticks, Later

LEMMA ZeroIsTick == 0 \in Ticks
  BY TickModAssumption DEF Ticks

(* A delay that is short enough for int32_t is seen running to its end... *)
LEMMA DeadlineAhead ==
  ASSUME NEW t \in Ticks, NEW base \in Ticks, NEW d \in Ticks,
         2 * d < TickMod, Elapsed(t, base) < d
  PROVE  ~DeadlineReached(t, Later(base, d))
<1>1. Elapsed(Later(base, d), t) = d - Elapsed(t, base)
  BY TickModAssumption DEF Ticks, Elapsed, Later
<1>2. Elapsed(t, base) \in Nat /\ d \in Nat
  BY TickModAssumption DEF Ticks, Elapsed
<1> QED
  BY <1>1, <1>2, TickModAssumption DEF DeadlineReached

(* ... and seen to be over for half a turn of the counter afterwards.      *)
LEMMA DeadlinePassed ==
  ASSUME NEW t \in Ticks, NEW base \in Ticks, NEW d \in Ticks,
         d <= Elapsed(t, base), 2 * (Elapsed(t, base) - d) <= TickMod
  PROVE  DeadlineReached(t, Later(base, d))
<1>1. Elapsed(Later(base, d), t) = IF Elapsed(t, base) = d THEN 0
                                   ELSE TickMod - (Elapsed(t, base) - d)
  BY TickModAssumption DEF Ticks, Elapsed, Later
<1>2. Elapsed(t, base) \in Nat /\ d \in Nat
  BY TickModAssumption DEF Ticks, Elapsed
<1> QED
  BY <1>1, <1>2, TickModAssumption DEF DeadlineReached
=============================================================================
