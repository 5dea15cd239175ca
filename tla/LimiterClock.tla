---------------------------- MODULE LimiterClock ----------------------------
(***************************************************************************)
(* The clock that every login limiter of the process reads, and the        *)
(* parameters that all of them are made with.                              *)
(***************************************************************************)
EXTENDS Integers, FiniteSets

CONSTANTS
    Window,    \* NewLoginLimiter's window, in clock ticks
    SweepGap,  \* the second between two forced sweeps, in clock ticks
    MaxKeys,   \* the cap on tracked keys; 0 means no cap
    MaxTime    \* bound: the clock stops here

ASSUME ClockAssumption ==
    /\ Window \in Nat \ {0}
    /\ SweepGap \in 1..Window
    /\ MaxKeys \in Nat
    /\ MaxTime \in Nat

VARIABLE now   \* the clock Allow reads
=============================================================================
