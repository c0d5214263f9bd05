------------------------------- MODULE MCDataLog -------------------------------
(* Model checking DataLog: channels of one row, so that they are full as   *)
(* soon as the next stage is busy.                                         *)
EXTENDS DataLog

===============================================================================
