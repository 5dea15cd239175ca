----------------------------- MODULE MCClosures -----------------------------
EXTENDS Closures

CONSTANTS k1, k2

\* Each parent owns a device: more than a batch holds.
TwoDevices == (k1 :> 1) @@ (k2 :> 2)

\* What the calendar holds: nothing, a pause that began yesterday and has no
\* end, or a holiday of tomorrow.
MCExisting ==
    { NoClosure,
      [kind |-> "pause", start |-> 0, end |-> Infinity, notice |-> 0],
      [kind |-> "holiday", start |-> 2, end |-> 2, notice |-> 0] }

MCWorkloads ==
    { {"broadcast", "firebase", "devices"},
      {"broadcast", "time"},
      {"create", "cancel", "midnight"},
      {"create", "firebase"},
      {"broadcast", "create"},
      {"broadcast", "create", "nobody"} }
=============================================================================
