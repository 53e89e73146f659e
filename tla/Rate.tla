-------------------------------- MODULE Rate --------------------------------
(***************************************************************************)
(* The tariff of internal/meter/rate.go: which tier an hour of the day is  *)
(* in.  A window may run past midnight; a window that starts when it ends  *)
(* is that one hour; the peak wins where the two windows overlap.          *)
(***************************************************************************)
EXTENDS Integers

CONSTANTS PeakStart, PeakEnd, ValleyStart, ValleyEnd

HourOfDay == 0 .. 23

\* Config.Validate looks at the peak hours only; the valley hours are any
\* integers the file gives.
ASSUME RateAssumption ==
  /\ {PeakStart, PeakEnd} \subseteq HourOfDay
  /\ {ValleyStart, ValleyEnd} \subseteq Int

Tiers == {"peak", "flat", "valley"}

InRange(hour, start, end) ==
  \/ start = end /\ hour = start
  \/ start < end /\ hour >= start /\ hour < end
  \/ start > end /\ (hour >= start \/ hour < end)

\* Wrong on purpose: a window past midnight is taken for an empty one.
TierSameDay(hour) ==
  IF PeakStart <= hour /\ hour < PeakEnd THEN "peak"
  ELSE IF ValleyStart <= hour /\ hour < ValleyEnd THEN "valley"
  ELSE "flat"

Tier(hour) ==
  IF InRange(hour, PeakStart, PeakEnd) THEN "peak"
  ELSE IF InRange(hour, ValleyStart, ValleyEnd) THEN "valley"
  ELSE "flat"

=============================================================================
