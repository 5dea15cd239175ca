---------------------------- MODULE MCAttendance ----------------------------
(* Days of four two-second minutes: the first two are the check-in window,  *)
(* the third is dead, the last is the check-out window.  PIN 1 is a         *)
(* student, PIN 9 a teacher, PIN 7 not text.                                *)
EXTENDS Attendance

NoPunches == {}

\* Another second of the window's first minute comes by JSON, and so does a
\* punch of a later window that is rejected.
SameMinute == {<<1, 9>>}
Refused == {<<1, 14>>}
ByJson == SameMinute \cup Refused

Rejected == {<<1, 11>>} \cup Refused

\* Two minutes of the second day's check-in window; a teacher and a record
\* the database rejects; a PIN that is not text; a JSON device whose punch
\* is rejected.
Mornings ==
    { {<<1, 8>>, <<1, 10>>} \cup SameMinute,
      {<<1, 8>>, <<9, 8>>, <<1, 11>>},
      {<<1, 8>>, <<7, 8>>},
      {<<1, 8>>} \cup Refused }

Garbled == {{<<1, 0>>, <<7, 0>>}}
=============================================================================
