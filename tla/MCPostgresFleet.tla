-------------------------- MODULE MCPostgresFleet --------------------------
(* Two runners, one supervisor, one task.                                  *)
EXTENDS PostgresFleet, TLC

CONSTANTS r1, r2, w1, w2

MCOneTask == {1}
MCOneOrTwo == {1, 2}
MCDistinct == r1 :> w1 @@ r2 :> w2
=============================================================================
