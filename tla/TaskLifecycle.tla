--------------------------- MODULE TaskLifecycle ---------------------------
(***************************************************************************)
(* What a task queue promises about each task, whatever stores it: the     *)
(* statuses a task goes through, that it has a holder exactly while it is  *)
(* RUNNING, that the holder changes only through the queue, and that the   *)
(* attempts count exactly the times it was claimed.                        *)
(* A queue may move several tasks in one step (a reap does).               *)
(***************************************************************************)
EXTENDS Naturals

CONSTANTS TaskIds, Workers, NULL

VARIABLE task   \* per task: its status, its holder and its attempts

Absent == [status |-> "ABSENT", holder |-> NULL, attempts |-> 0]

Init == task = [t \in TaskIds |-> Absent]

To(old, status) ==
    [status |-> status, holder |-> NULL, attempts |-> old.attempts]

\* The ways a task may change: enqueue; claim by some worker; the end or the
\* interruption of an attempt; resume; and cancel, from any status.
Changes(old) ==
    CASE old.status = "ABSENT" -> {To(old, "QUEUED")}
      [] old.status = "QUEUED" ->
           {[status |-> "RUNNING", holder |-> w, attempts |-> old.attempts + 1] :
              w \in Workers} \cup {To(old, "CANCELLED")}
      [] old.status = "RUNNING" ->
           {To(old, s) : s \in {"QUEUED", "PAUSED", "SUCCEEDED", "FAILED",
                                "TIMED_OUT", "CANCELLED"}}
      [] old.status = "PAUSED" -> {To(old, "QUEUED"), To(old, "CANCELLED")}
      [] OTHER -> {To(old, "CANCELLED")}

Next ==
    /\ DOMAIN task' = TaskIds
    /\ \A t \in TaskIds : task'[t] \in Changes(task[t]) \cup {task[t]}

Spec == Init /\ [][Next]_task
=============================================================================
