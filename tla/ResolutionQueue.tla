--------------------------- MODULE ResolutionQueue ---------------------------
(***************************************************************************)
(* What the event store promises to the learners and to the archive.       *)
(*                                                                         *)
(* A task's observations are admitted once, each with a sequence number    *)
(* above every number given out before.  An admitted observation settles   *)
(* at most once, to an outcome that never changes, and takes a place in    *)
(* the ready queue above every place given out before.  Only a settled     *)
(* observation leaves, when the archive has it.                            *)
(*                                                                         *)
(* Consumers keep one cursor into each numbering.  Reading "everything     *)
(* above my cursor" loses nothing and repeats nothing exactly because of   *)
(* the three clauses of Commit.  Module EventStore implements this         *)
(* specification; module Learner takes its commits as steps.               *)
(***************************************************************************)
EXTENDS Naturals

CONSTANTS
  Ids,        \* identities an observation may have
  Outcomes    \* what an observation may resolve to

VARIABLES
  admitted,   \* sequence number of each observation the task stores
  settled,    \* outcome of each stored observation that has resolved
  place,      \* place of each settled observation in the ready queue
  admissions, \* highest sequence number given out
  placements  \* highest ready place given out

vars == <<admitted, settled, place, admissions, placements>>

Init ==
  /\ admitted = [id \in {} |-> 0]
  /\ settled  = [id \in {} |-> 0]
  /\ place    = [id \in {} |-> 0]
  /\ admissions = 0
  /\ placements = 0

(* new extends old, and numbers what it adds with distinct numbers in low+1..high. *)
Appends(old, new, low, high) ==
  LET added == DOMAIN new \ DOMAIN old IN
  /\ DOMAIN old \subseteq DOMAIN new
  /\ \A id \in DOMAIN old : new[id] = old[id]
  /\ \A id \in added : new[id] \in (low + 1)..high
  /\ \A id, other \in added : new[id] = new[other] => id = other
  /\ high >= low

(* One transaction of the store: it admits and settles any number of observations. *)
Commit ==
  /\ DOMAIN admitted' \subseteq Ids
  /\ Appends(admitted, admitted', admissions, admissions')
  /\ Appends(place, place', placements, placements')
  /\ DOMAIN place' \subseteq DOMAIN admitted'
  /\ DOMAIN settled' = DOMAIN place'
  /\ \A id \in DOMAIN settled' : settled'[id] \in Outcomes
  /\ \A id \in DOMAIN settled : settled'[id] = settled[id]

(* The archive takes settled observations away; the numberings never restart. *)
Archive ==
  \E gone \in SUBSET DOMAIN settled :
    /\ admitted' = [id \in DOMAIN admitted \ gone |-> admitted[id]]
    /\ settled'  = [id \in DOMAIN settled \ gone |-> settled[id]]
    /\ place'    = [id \in DOMAIN place \ gone |-> place[id]]
    /\ UNCHANGED <<admissions, placements>>

Next == Commit \/ Archive

Spec == Init /\ [][Next]_vars
=============================================================================
