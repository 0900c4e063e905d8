---------------------------- MODULE MCEventStore ----------------------------
(* A small instance of EventStore: a station reports at three times, so that *)
(* two later reports compete to supply the target of the first, and another   *)
(* observation falls due with the first, when a pass takes only one.          *)
EXTENDS EventStore

CONSTANTS First, Second, Third, Fourth, Station, High, Low

FourIds == {First, Second, Third, Fourth}

(* Delay and Tolerance are 1, so Second and Third are at the ends of First's *)
(* window.  First and Fourth are due together, at the last tick.             *)
Reports ==
  [id \in Ids |->
     CASE id = First  -> [ts |-> 0, entity |-> Station, value |-> High]
       [] id = Second -> [ts |-> 1, entity |-> Station, value |-> Low]
       [] id = Third  -> [ts |-> 2, entity |-> Station, value |-> High]
       [] id = Fourth -> [ts |-> 0, entity |-> NoEntity, value |-> High]]

(* One resolution within First's horizon and one past it. *)
HorizonInputs ==
  {[id |-> First, y |-> High, available |-> 2], [id |-> First, y |-> Low, available |-> 3]}

(* A resolution of Second by an unavailable target as well. *)
LabelsOfTwo == HorizonInputs \cup {[id |-> Second, y |-> Unavailable, available |-> 2]}

Number(id) == CASE id = First -> 1 [] id = Second -> 2 [] id = Third -> 3 [] OTHER -> 4

OneOrder == {[id \in Ids |-> Number(id)]}
=============================================================================
