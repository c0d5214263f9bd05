------------------------- MODULE MCClientConnections -------------------------
(* Model checking ClientConnections.  Every key may be connected twice, so *)
(* that a connection and its successor overlap.                            *)
EXTENDS ClientConnections

(* Connections with different keys share nothing but netMutex, which       *)
(* nobody holds for ever: a behaviour has those of one key.                *)
OneKey == \E k \in Keys : \A other \in Keys \ {k} : made[other] = 0

MCSpec == Init /\ [][Next /\ OneKey']_vars /\ Fairness

==============================================================================
