---------------------------- MODULE LearnerOnStore ----------------------------
(***************************************************************************)
(* The learner on the event store.  ResolutionQueue names observations by  *)
(* their identity, of which the learner's queries see the sequence number. *)
(* Here both stand side by side: the store's own variables, what the       *)
(* learner sees of them, and what it takes for a transaction of the store. *)
(***************************************************************************)
EXTENDS Learner

CONSTANTS
  Ids,       \* identities an observation may have
  Outcomes,  \* what an observation may resolve to
  Targets    \* the outcomes that are targets

VARIABLES
  admitted,  \* the store's variables, as ResolutionQueue has them
  settled,
  placed,
  drawn,     \* last sequence number drawn
  given      \* last place given out

Store == INSTANCE ResolutionQueue WITH place <- placed, admissions <- drawn, placements <- given

Numbered(ids) == {admitted[id] : id \in ids}

(* What the queries of the learner see of the store.  The numbers it has seen *)
(* are none that was never drawn, and MaxNumber is above them all.            *)
Sees ==
  /\ stored = Numbered(DOMAIN admitted)
  /\ ready \in [Numbered(DOMAIN placed) -> Nat]
  /\ \A id \in DOMAIN placed : ready[admitted[id]] = placed[id]
  /\ known = Numbered({id \in DOMAIN settled : settled[id] \in Targets})
  /\ admissions \in 0..drawn /\ drawn \in 0..MaxNumber
  /\ placements \in 0..given /\ given \in 0..MaxNumber

(* While the store commits, the models and the learner's process stay as they *)
(* are, and the learner's own counters follow what it is given to see.        *)
LearnerFollows ==
  /\ admissions' = Max((stored' \ stored) \cup {admissions})
  /\ placements' = Max({ready'[e] : e \in DOMAIN ready' \ DOMAIN ready} \cup {placements})
  /\ UNCHANGED <<model, cache, uploads, faults>>
=============================================================================
