------------------------------- MODULE MCLoop --------------------------------
(* Three commands; two and the role; a command and a tool; two tools.        *)
EXTENDS Loop

CONSTANTS c1, c2, c3, t1, t2

MCCasts ==
  {{c1, c2, c3}, {c1, c2, "role"}, {c1, t1}, {t1, t2}}
=============================================================================
