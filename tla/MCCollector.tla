----------------------------- MODULE MCCollector -----------------------------
(* A stream with messages of two records, of one, and of none at its end. *)
EXTENDS Collector

CONSTANTS A, B, C, D

FourRecords == {A, B, C, D}
Stream4 == <<<<A, B>>, <<C>>, <<D, A>>, <<>>>>
=============================================================================
