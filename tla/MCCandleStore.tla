--------------------------- MODULE MCCandleStore ---------------------------
(* Small instances of CandleStore: four bars let a batch of two or three   *)
(* meet a history of one or two.                                           *)
EXTENDS CandleStore
=============================================================================
