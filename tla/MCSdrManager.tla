----------------------------- MODULE MCSdrManager -----------------------------
(* Model checking SdrManager: fewer dongles than protocols, one of them    *)
(* with a tag.                                                             *)
EXTENDS SdrManager

MCTag == [d \in Dongles |-> IF d = 1 THEN "UAT" ELSE "none"]
MCSettings == {{"UAT", "OGN"}, {"ES", "AIS"}, {"UAT", "OGN", "OGNTX"}}

===============================================================================
