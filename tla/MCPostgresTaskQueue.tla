------------------------ MODULE MCPostgresTaskQueue ------------------------
(* One task with two worker ids, both attempt limits and clocks one second *)
(* apart; two sessions call every operation.                               *)
EXTENDS PostgresTaskQueue, TLC

MCOneTask == {1}
MCOneOrTwo == {1, 2}
MCSymmetry == Permutations(Workers) \cup Permutations(Sessions)
=============================================================================
