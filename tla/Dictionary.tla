------------------------------ MODULE Dictionary ------------------------------
(***************************************************************************)
(* What a hash table of src/utils.c promises: a finite map from keys to    *)
(* values.  There are no buckets, chains or growth, and no copies of keys. *)
(* call is the call in progress, with its arguments; out is what the last  *)
(* call returned, or nothing yet.  A call reads or changes the map for the *)
(* key it was given, once, and answers for that key.                       *)
(***************************************************************************)
EXTENDS FiniteSets

CONSTANTS Key, Value, NULL

VARIABLES map, call, out

dictVars == <<map, call, out>>

Answer(status, value) == [status |-> status, value |-> value]
NoCall == [op |-> "none", key |-> NULL, value |-> NULL]
Calls ==
  [op : {"at", "remove"}, key : Key, value : {NULL}] \cup
  [op : {"at_put"}, key : Key, value : Value] \cup
  [op : {"count", "destroy"}, key : {NULL}, value : {NULL}]

Init == map = [k \in {} |-> NULL] /\ call = NoCall /\ out = Answer(0, NULL)

Invoke ==
  /\ call = NoCall
  /\ call' \in Calls
  /\ out' = Answer(0, NULL)
  /\ UNCHANGED map

AtPut ==
  /\ call.op = "at_put"
  /\ map' = [x \in DOMAIN map \cup {call.key} |-> IF x = call.key THEN call.value ELSE map[x]]
  /\ out' = Answer(0, NULL)
  /\ call' = NoCall

(* NULL is the answer for a key that is not there, and may be the value of *)
(* one that is.                                                            *)
At ==
  /\ call.op = "at"
  /\ out' = Answer(0, IF call.key \in DOMAIN map THEN map[call.key] ELSE NULL)
  /\ call' = NoCall
  /\ UNCHANGED map

Remove ==
  /\ call.op = "remove"
  /\ map' = [x \in DOMAIN map \ {call.key} |-> map[x]]
  /\ out' = IF call.key \in DOMAIN map THEN Answer(1, map[call.key]) ELSE Answer(0, NULL)
  /\ call' = NoCall

Count ==
  /\ call.op = "count"
  /\ out' = Answer(Cardinality(DOMAIN map), NULL)
  /\ call' = NoCall
  /\ UNCHANGED map

(* The map is empty before destroy returns.                                *)
Destroy == call.op = "destroy" /\ map' = [k \in {} |-> NULL] /\ UNCHANGED <<call, out>>
Destroyed ==
  /\ call.op = "destroy" /\ map = [k \in {} |-> NULL]
  /\ call' = NoCall
  /\ UNCHANGED <<map, out>>

Next == Invoke \/ AtPut \/ At \/ Remove \/ Count \/ Destroy \/ Destroyed

Spec == Init /\ [][Next]_dictVars
===============================================================================
