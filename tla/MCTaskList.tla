----------------------------- MODULE MCTaskList -----------------------------
(***************************************************************************)
(* Instances of TaskList for TLC.                                          *)
(***************************************************************************)
EXTENDS TaskList

TwoWorkers == {"v", "w"}
TwoTools == {"s", "t"}

OpsOf(s, t) == [x \in TwoTools |-> IF x = "s" THEN s ELSE t]

OneTask == <<NewTask>>
\* The second is blocked by the first.
Chain == <<[NewTask EXCEPT !.blocks = {2}], [NewTask EXCEPT !.blockedBy = {1}]>>
TwoTasks == <<NewTask, NewTask>>

\* Two tools create, delete and reset; one may crash.
Numbering == [tasks |-> OneTask, workers |-> {}, mortal |-> {"s"}, crashes |-> 1, calls |-> 3,
              ops |-> OpsOf({"create", "reset"}, {"create", "delete", "reset"})]

\* A worker completes two tasks while one is made to block the other.
Blocking == [tasks |-> TwoTasks, workers |-> {"w"}, mortal |-> {}, crashes |-> 0, calls |-> 1,
             ops |-> OpsOf({}, {"block"})]

\* A worker crashes, wherever it was, and is unassigned.
Crashing == [tasks |-> Chain, workers |-> TwoWorkers, mortal |-> {"v"}, crashes |-> 1, calls |-> 1,
             ops |-> OpsOf({}, {"unassign"})]

\* A worker that is gone is unassigned twice, by both ways that notice it.
Gone == [tasks |-> OneTask, workers |-> TwoWorkers, mortal |-> {"v"}, crashes |-> 1, calls |-> 2,
         ops |-> OpsOf({"unassign"}, {"unassign"})]

\* The list changes under a worker.
Changing == [tasks |-> Chain, workers |-> {"w"}, mortal |-> {"t"}, crashes |-> 1, calls |-> 2,
             ops |-> OpsOf({}, {"create", "delete", "reset"})]

\* Two workers want the one task, which is deleted, or the list reset.
Contending == [tasks |-> OneTask, workers |-> TwoWorkers, mortal |-> {}, crashes |-> 0, calls |-> 1,
               ops |-> OpsOf({"delete"}, {"reset"})]

EverySetup == {Numbering, Blocking, Crashing, Gone, Contending, Changing}
=============================================================================
