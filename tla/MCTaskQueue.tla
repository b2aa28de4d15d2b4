---------------------------- MODULE MCTaskQueue ----------------------------
(* Two tasks, at most one idempotency key and one worker id, which any     *)
(* number of runners of the process may share.                             *)
EXTENDS TaskQueue

MCTaskIds == {1, 2}
MCTornUpdates == {"update"}
=============================================================================
