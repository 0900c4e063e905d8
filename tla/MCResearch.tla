------------------------------ MODULE MCResearch ------------------------------
(* Small instances of Research: the scheduled process and an operator. *)
EXTENDS Research

CONSTANTS Scheduled, Operator

OneRunner == {Scheduled}
TwoRunners == {Scheduled, Operator}
(* The first week is too small. *)
LaterWeeks == 2..Weeks
(* No improvement, enough of one, and infinite ones either way. *)
SomeImprovements == {-Infinity, 0, 1, Infinity}
=============================================================================
