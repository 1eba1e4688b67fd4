-------------------------------- MODULE Timer --------------------------------
(***************************************************************************)
(* lib/time.c: msleep, on a counter that wraps.                            *)
(*                                                                         *)
(* The counter OSCR runs by itself.  Match register 0 holds zero, so that  *)
(* the match bit is set whenever the counter wraps, and stays set until    *)
(* somebody clears it.  Between two looks at the counter up to Lag ticks   *)
(* go by.  While nobody sleeps the counter is not followed: what msleep    *)
(* finds, in it and in the match bit, is anything.                         *)
(***************************************************************************)
EXTENDS Integers

CONSTANTS
  Top,             \* the counter counts modulo Top: 2^32
  Ticks,           \* the ticks of the sleep: 3686 for a millisecond
  Lag              \* bound: ticks between two looks at the counter

ASSUME TimerAssumption ==
  /\ Top \in Nat \ {0} /\ Ticks \in Nat \ {0} /\ Lag \in Nat \ {0}
  /\ Ticks + Lag < Top

VARIABLES
  OSCR,            \* the counter
  OSSR_M0,         \* the match bit
  sleep,           \* msleep: where it is, end, will_overflow, has_overflow
  slept            \* history: ticks since msleep was called, at most Ticks

timer == <<OSCR, OSSR_M0, sleep, slept>>

Awake == [at |-> "no", end |-> 0, will_overflow |-> FALSE, has_overflow |-> FALSE]

TimerInit ==
  /\ OSCR = 0 /\ OSSR_M0 = FALSE
  /\ sleep = Awake /\ slept = 0

\* d ticks go by before the next look
Pass(d) ==
  /\ OSCR' = (OSCR + d) % Top
  /\ slept' = IF slept + d < Ticks THEN slept + d ELSE Ticks

Wrapped(d) == OSSR_M0 \/ OSCR + d >= Top

\* end = start + ticks, in 32 bits
msleep ==
  /\ sleep.at = "no"
  /\ \E start \in 0 .. Top - 1, bit \in BOOLEAN :
       LET end == (start + Ticks) % Top
       IN  /\ OSCR' = start /\ OSSR_M0' = bit
           /\ sleep' = [at |-> IF end < start THEN "clear" ELSE "poll", end |-> end,
                        will_overflow |-> end < start, has_overflow |-> FALSE]
  /\ slept' = 0

\* (mutant of TimerClearOverflow: the bit is not cleared)
TimerClearOverflow_not(d) ==
  /\ sleep.at = "clear" /\ Pass(d)
  /\ OSSR_M0' = Wrapped(d)
  /\ sleep' = [sleep EXCEPT !.at = "poll"]

\* It may have wrapped already: then the bit is lost, and the sleep lasts
\* until it wraps again.
TimerClearOverflow(d) ==
  /\ sleep.at = "clear" /\ Pass(d)
  /\ OSSR_M0' = FALSE
  /\ sleep' = [sleep EXCEPT !.at = "poll"]

TimerDetectOverflow(d) ==
  /\ sleep.at = "poll" /\ sleep.will_overflow /\ ~sleep.has_overflow
  /\ Pass(d) /\ OSSR_M0' = Wrapped(d)
  /\ sleep' = [sleep EXCEPT !.has_overflow = OSSR_M0']

Looks == sleep.at = "poll" /\ (sleep.will_overflow => sleep.has_overflow)

NotYet(d) ==
  /\ Looks /\ Pass(d) /\ OSSR_M0' = Wrapped(d)
  /\ OSCR' < sleep.end
  /\ UNCHANGED sleep

Reached(d) ==
  /\ Looks /\ Pass(d) /\ OSSR_M0' = Wrapped(d)
  /\ OSCR' >= sleep.end
  /\ sleep' = [sleep EXCEPT !.at = "over"]

Sleeps == \E d \in 1 .. Lag : TimerClearOverflow(d) \/ TimerDetectOverflow(d) \/ NotYet(d)

Wakes == \E d \in 1 .. Lag : Reached(d)

\* The caller goes on.
Return ==
  /\ sleep.at = "over"
  /\ OSCR' = 0 /\ OSSR_M0' = FALSE
  /\ sleep' = Awake /\ slept' = 0

TimerNext == msleep \/ Sleeps \/ Wakes \/ Return

-----------------------------------------------------------------------------
\* msleep never returns too soon, wherever the counter stands and whatever the
\* match bit held when it was called.  (It may return too late: when the
\* counter wraps before the match bit is cleared, or when all looks at it fall
\* before the end of the sleep and behind the wrap.)
SleepsFullTime == sleep.at = "over" => slept = Ticks

=============================================================================
