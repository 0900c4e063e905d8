----------------------------- MODULE MCSupervisor -----------------------------
(* Two tasks of two threads each, and the research scheduler. *)
EXTENDS Supervisor

CONSTANTS Wiki, Bikes, Collect, Learn

TwoTasks == {Wiki, Bikes}
TwoRoles == {Collect, Learn}
=============================================================================
