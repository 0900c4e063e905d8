------------------------------ MODULE MCLearner ------------------------------
(* Small instances of Learner.  Of two models one may not learn at all. *)
EXTENDS Learner

CONSTANTS Online, Static

OneModel == {Online}
TwoModels == {Online, Static}
=============================================================================
