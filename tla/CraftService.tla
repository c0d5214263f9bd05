----------------------------- MODULE CraftService -----------------------------
(* What web/js/main.js and the pages that list traffic share.              *)
EXTENDS Integers, SequencesExt

CONSTANTS
    MaxAge,    \* TRAFFIC_MAX_AGE_SECONDS, 59
    AisMaxAge  \* TRAFFIC_AIS_MAX_AGE_SECONDS, 15 minutes

ASSUME CraftAssumption == MaxAge \in Nat /\ AisMaxAge \in Nat

(* craftService.isTrafficAged                                              *)
isTrafficAged(ais, age) == age > (IF ais THEN AisMaxAge ELSE MaxAge)

(* isSameAircraft: "1 = non-icao, everything else = icao"                  *)
isSameAircraft(a, b) == a.addr = b.addr /\ (a.atype = 1 <=> b.atype = 1)

(* The position of an aircraft in a list, 0 if it is not there.            *)
IndexIn(list, id) == SelectInSeq(list, LAMBDA e : isSameAircraft(e.id, id))

(* What is left of a list when the others are spliced out, in its order:   *)
(* the one sequence with the elements at the positions `left`.             *)
Remaining(list, left) ==
    {[k \in DOMAIN at |-> list[at[k]]] :
        at \in {f \in [1..Cardinality(left) -> left] :
                  \A k, l \in DOMAIN f : k < l => f[k] < f[l]}}

===============================================================================
