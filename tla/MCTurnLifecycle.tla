--------------------------- MODULE MCTurnLifecycle ---------------------------
(***************************************************************************)
(* Instances of TurnLifecycle for TLC: the commands that are submitted.    *)
(***************************************************************************)
EXTENDS TurnLifecycle

Command(id, mode, prio) ==
  [id |-> id, mode |-> mode, prio |-> prio, slash |-> FALSE, skip |-> FALSE,
   meta |-> FALSE, main |-> TRUE, copy |-> 0]

Prompt(id) == Command(id, "prompt", 1)
Slash(id) == [Prompt(id) EXCEPT !.slash = TRUE]
BashInput(id) == Command(id, "bash", 1)
TaskDone(id) == Command(id, "task-notification", 2)
ForAgent(id) == [TaskDone(id) EXCEPT !.prio = 1, !.main = FALSE]
Urgent(id) == Command(id, "prompt", 0)
FromBridge(id) == [Slash(id) EXCEPT !.skip = TRUE]

\* What a busy session queues; one prompt is that of a remote user.
Mixed == {Prompt(1), Prompt(2), BashInput(3), FromBridge(4), TaskDone(5)}
\* One that is typed, one for a subagent and an urgent one from elsewhere.
Sent == {Urgent(1), Slash(2), ForAgent(3)}
=============================================================================
