----------------------------- MODULE MCMetering -----------------------------
(* Constants of the runs of Metering. *)
EXTENDS Metering, TLC

\* The clients are interchangeable.
MCMeteringClients == Permutations(Client)

\* The comparison of rate.go:41-49 finds the hours of the window, for windows
\* that touch midnight, cross it, are empty or lie outside the day.
ASSUME WindowsAgree ==
  \A start, end \in -2 .. 26 : \A hour \in HourOfDay :
    InRange(hour, start, end) <=> hour \in Window(start, end)

=============================================================================
