-------------------------- MODULE MCConnectionWriter --------------------------
(* Constants for model checking ConnectionWriter.  MaxSize = 2 and OverUse *)
(* = 3 stand for 1024 and 1126: pruning happens at the fourth entry and    *)
(* removes two or more.  Three priorities give prune a category to drop,   *)
(* one to cut and one to keep.                                             *)
EXTENDS ConnectionWriter

(* A heartbeat, an important and an ordinary message.                      *)
MCPriorities == {-20, 0, 4}
MCAges == {0, 1}

(* The ordinary message (an uplink frame) is the longest.                  *)
MCMsgLen == [p \in Priorities |-> IF p = 4 THEN 3 ELSE 1]

===============================================================================
