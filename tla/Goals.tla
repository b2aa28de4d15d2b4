------------------------------- MODULE Goals -------------------------------
(* The goal life cycle of goals.py: which status changes Goal.transition   *)
(* accepts.                                                                *)

GoalStatus == {"CREATED", "CLARIFYING", "PLANNING", "AWAITING_APPROVAL",
               "RUNNING", "PAUSED", "BLOCKED", "FAILED", "PARTIALLY_DONE",
               "SUCCEEDED", "CANCELLED", "ARCHIVED"}

\* _ALLOWED_GOAL_TRANSITIONS
Allowed ==
    [s \in GoalStatus |->
       CASE s = "CREATED" -> {"CLARIFYING", "PLANNING", "CANCELLED", "ARCHIVED"}
         [] s = "CLARIFYING" -> {"PLANNING", "BLOCKED", "CANCELLED"}
         [] s = "PLANNING" -> {"AWAITING_APPROVAL", "RUNNING", "BLOCKED", "CANCELLED"}
         [] s = "AWAITING_APPROVAL" -> {"RUNNING", "BLOCKED", "CANCELLED"}
         [] s = "RUNNING" -> {"PAUSED", "BLOCKED", "FAILED", "PARTIALLY_DONE",
                              "SUCCEEDED", "CANCELLED"}
         [] s = "PAUSED" -> {"RUNNING", "BLOCKED", "CANCELLED"}
         [] s = "BLOCKED" -> {"PLANNING", "RUNNING", "FAILED", "CANCELLED", "ARCHIVED"}
         [] s = "FAILED" -> {"PLANNING", "ARCHIVED"}
         [] s = "PARTIALLY_DONE" -> {"PLANNING", "RUNNING", "FAILED", "SUCCEEDED",
                                     "ARCHIVED"}
         [] s = "SUCCEEDED" -> {"ARCHIVED"}
         [] s = "CANCELLED" -> {"ARCHIVED"}
         [] s = "ARCHIVED" -> {}]

\* _transition_plan_goal: reaching the status one is in is no transition, and
\* a CREATED goal is taken to RUNNING through PLANNING.
CanMove(from, to) ==
    \/ from = to
    \/ to \in Allowed[from]
    \/ from = "CREATED" /\ to = "RUNNING"
=============================================================================
