------------------------------ MODULE MCArchive ------------------------------
(* Small instances of Archive: the worker's archiver and an operator's. *)
EXTENDS Archive

CONSTANTS First, Second, Operator

TwoIds == {First, Second}
OneId == {First}
Both == {Worker, Operator}
WorkerOnly == {Worker}
=============================================================================
