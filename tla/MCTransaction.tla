--------------------------- MODULE MCTransaction ---------------------------
(* Three steps: the first has an idempotency key, the third requires the   *)
(* fact of the first; the plan is executed up to three times.              *)
EXTENDS Transaction

MCNeeds == [s \in Steps |-> IF s = 3 THEN {1} ELSE {}]
=============================================================================
