------------------------------ MODULE TaskList ------------------------------
(***************************************************************************)
(* The task list that the agents of a team share (src/src/utils/tasks.ts): *)
(* one file per task, a file with the highest id ever given, one lock per  *)
(* task and one of the list.  The workers are the teammates that take      *)
(* tasks (src/src/utils/swarm/inProcessRunner.ts), the tools the calls of  *)
(* TaskCreate and TaskUpdate and the handlers that end a team or a         *)
(* teammate; any two of them may run in different processes.               *)
(*                                                                         *)
(* An action is one operation on the file system.  writeFile() empties the *)
(* file and then fills it: whoever reads in between finds no task.  A lock *)
(* is taken over when its holder has crashed.                              *)
(***************************************************************************)
EXTENDS Integers, FiniteSets, SequencesExt

CONSTANTS Workers, Tools,
          MaxId,        \* bound: the ids
          Setups        \* where a behaviour starts, and its bounds

Callers == Workers \cup Tools
Ids == 1..MaxId
List == 0                               \* the lock of the list, among those of the tasks
Nobody == "nobody"

ASSUME CallersAssumption ==
  /\ Workers \subseteq STRING /\ Tools \subseteq STRING
  /\ Workers \cap Tools = {} /\ Nobody \notin Callers /\ MaxId \in Nat

File == [kind : {"absent", "torn", "task"}, owner : Callers \cup {Nobody},
         status : {"pending", "in_progress", "completed"},
         blocks : SUBSET Ids, blockedBy : SUBSET Ids]

\* A setup: the tasks there are, a sequence of files, the workers that look for
\* one, the calls that each tool makes, and who may crash, how many of them.
ASSUME SetupsAssumption ==
  \A s \in Setups :
    /\ s.tasks \in Seq(File) /\ \A n \in DOMAIN s.tasks : s.tasks[n].kind # "absent"
    /\ s.workers \subseteq Workers /\ s.mortal \subseteq Callers
    /\ s.ops \in [Tools -> SUBSET {"create", "delete", "block", "reset", "unassign"}]
    /\ s.calls \in Nat /\ s.crashes \in Nat /\ Len(s.tasks) + s.calls <= MaxId

VARIABLES
  setup,    \* where this behaviour started
  files,    \* what the file of each id holds
  mark,     \* the number in .highwatermark, 0 when there is none
  lock,     \* who holds the lock of each task, and of the list
  call,     \* the call each caller is in
  mine,     \* the task each worker works on, 0 for none
  crashed,  \* the callers that crashed
  uses,     \* how often each id was given to a new task
  calls,    \* how many calls the tools made
  raced     \* whether calls ran beside each other that do not exclude each other

vars == <<setup, files, mark, lock, call, mine, crashed, uses, calls, raced>>

Absent == [kind |-> "absent", owner |-> Nobody, status |-> "pending", blocks |-> {}, blockedBy |-> {}]
NewTask == [Absent EXCEPT !.kind = "task"]

\* A call that is over.
NoCall == [op |-> "none", pc |-> "idle", id |-> 0, to |-> 0, high |-> 0, saw |-> Absent,
           rest |-> {}, seen |-> [i \in Ids |-> Absent], todo |-> <<>>]

Init ==
  /\ setup \in Setups
  /\ files = [i \in Ids |-> IF i <= Len(setup.tasks) THEN setup.tasks[i] ELSE Absent]
  /\ mark = 0
  /\ lock = [l \in Ids \cup {List} |-> Nobody]
  /\ call = [c \in Callers |-> NoCall]
  /\ mine = [w \in Workers |-> 0]
  /\ crashed = {} /\ calls = 0 /\ raced = FALSE
  /\ uses = [i \in Ids |-> IF i <= Len(setup.tasks) THEN 1 ELSE 0]

----------------------------------------------------------------------------
(* Reading                                                                 *)

\* getTask(): a file that is empty is no task.
Read(f) == IF f.kind = "task" THEN f ELSE Absent

\* readdir()
Names == {i \in Ids : files[i].kind # "absent"}

MaxOf(S) == IF S = {} THEN 0 ELSE CHOOSE m \in S : \A n \in S : n <= m

Unresolved(seen) == {i \in Ids : seen[i].kind = "task" /\ seen[i].status # "completed"}

\* findAvailableTask()
Available(seen) ==
  {i \in Ids : /\ seen[i].kind = "task" /\ seen[i].status = "pending" /\ seen[i].owner = Nobody
               /\ seen[i].blockedBy \cap Unresolved(seen) = {}}

\* The call of c goes on at pc.
At(c, pc) == c \notin crashed /\ call[c].pc = pc
Goto(c, pc) == [call[c] EXCEPT !.pc = pc]
Set(c, v) == call' = [call EXCEPT ![c] = v]

\* listTasks(): the names, and then every file.
Listing(r, pc) == [r EXCEPT !.pc = pc, !.rest = Names, !.seen = NoCall.seen]

ReadOne(c) ==
  /\ c \notin crashed /\ call[c].pc \in {"list", "blockers"}
  /\ \E i \in call[c].rest :
       Set(c, [call[c] EXCEPT !.rest = @ \ {i}, !.seen[i] = Read(files[i])])
  /\ UNCHANGED <<setup, files, mark, lock, mine, crashed, uses, calls, raced>>

----------------------------------------------------------------------------
(* Updates.  A patch is a function on the fields it sets; todo holds the   *)
(* patches a call has still to apply, with their ids.                      *)

Patch(k, v) == [x \in {k} |-> v]
Merge(f, p) == [k \in DOMAIN f |-> IF k \in DOMAIN p THEN p[k] ELSE f[k]]
Update(i, p) == [id |-> i, patch |-> p]

\* The call with what it has still to do, or its end.
Continue(r, todo) ==
  IF todo = <<>> THEN NoCall
  ELSE [r EXCEPT !.pc = "precheck", !.id = Head(todo).id, !.todo = todo,
                 !.saw = Absent, !.rest = {}, !.seen = NoCall.seen]

\* The worker starts on the task it claimed, when tryClaimNextTask() returns.
Started(c, todo) ==
  IF call[c].op = "claim" /\ todo = <<>> /\ Len(call[c].todo) > 0
    THEN [mine EXCEPT ![c] = call[c].id] ELSE mine

\* What mine becomes when a call that completes a task is over.
Returned(c, todo) ==
  IF call[c].op = "complete" THEN [mine EXCEPT ![c] = 0] ELSE Started(c, todo)

\* The existence check before the lock: a file that is empty counts as none,
\* and the update is dropped.
Precheck(c) ==
  /\ At(c, "precheck")
  /\ IF Read(files[call[c].id]).kind = "task"
       THEN Set(c, Goto(c, "lock")) /\ mine' = mine
       ELSE LET todo == IF call[c].todo = <<>> THEN <<>> ELSE Tail(call[c].todo)
            IN Set(c, Continue(call[c], todo)) /\ mine' = Returned(c, todo)
  /\ UNCHANGED <<setup, files, mark, lock, crashed, uses, calls, raced>>

\* Mutated form: nobody waits for a lock.
FreeAlways(l) == TRUE

\* Mutated form: the lock of a holder that crashed is never taken over.
FreeWhenReleased(l) == lock[l] = Nobody

\* A lock is free, or so old that its holder must have crashed.
Free(l) == lock[l] = Nobody \/ lock[l] \in crashed

\* lockfile.lock() of a task, for claimTask() before there is anything to do.
Acquire(c) ==
  /\ At(c, "lock") /\ Free(call[c].id) /\ files[call[c].id].kind # "absent"
  /\ lock' = [lock EXCEPT ![call[c].id] = c]
  /\ Set(c, Goto(c, IF call[c].todo = <<>> THEN "reread" ELSE "merge"))
  /\ UNCHANGED <<setup, files, mark, mine, crashed, uses, calls, raced>>

\* It throws: the file is gone, ...
Missing(c) ==
  /\ At(c, "lock") /\ files[call[c].id].kind = "absent"
  /\ Set(c, NoCall)
  /\ UNCHANGED <<setup, files, mark, lock, mine, crashed, uses, calls, raced>>

\* ... or the lock was held all through the retries.
GiveUp(c) ==
  /\ \/ At(c, "lock") /\ lock[call[c].id] # Nobody
     \/ At(c, "lockList") /\ lock[List] # Nobody
  /\ Set(c, NoCall)
  /\ UNCHANGED <<setup, files, mark, lock, mine, crashed, uses, calls, raced>>

\* updateTaskUnsafe(): the file is read again under the lock.
ReadToMerge(c) ==
  LET f == Read(files[call[c].id])
  IN /\ At(c, "merge")
     /\ Set(c, IF f.kind = "task"
                 THEN [Goto(c, "truncate") EXCEPT !.saw = Merge(f, Head(call[c].todo).patch)]
                 ELSE Goto(c, "unlock"))
     /\ UNCHANGED <<setup, files, mark, lock, mine, crashed, uses, calls, raced>>

\* writeFile() opens the file, which makes it if it is not there, ... (The
\* other fields only remember what the file held.)
Truncate(c) ==
  /\ At(c, "truncate")
  /\ files' = [files EXCEPT ![call[c].id].kind = "torn"]
  /\ uses' = IF call[c].op = "create" THEN [uses EXCEPT ![call[c].id] = @ + 1] ELSE uses
  /\ Set(c, Goto(c, "write"))
  /\ UNCHANGED <<setup, mark, lock, mine, crashed, calls, raced>>

\* ... and writes, to no effect when it was deleted meanwhile.
Write(c) ==
  /\ At(c, "write")
  /\ files' = [files EXCEPT ![call[c].id] = IF @.kind = "absent" THEN @ ELSE call[c].saw]
  /\ Set(c, Goto(c, "unlock"))
  /\ UNCHANGED <<setup, mark, lock, mine, crashed, uses, calls, raced>>

Unlock(c) ==
  LET todo == IF call[c].todo = <<>> THEN <<>> ELSE Tail(call[c].todo)
  IN /\ At(c, "unlock")
     /\ lock' = [l \in DOMAIN lock |-> IF lock[l] = c THEN Nobody ELSE lock[l]]
     /\ Set(c, Continue(call[c], todo)) /\ mine' = Returned(c, todo)
     /\ UNCHANGED <<setup, files, mark, crashed, uses, calls, raced>>

----------------------------------------------------------------------------
(* Workers: tryClaimNextTask() and claimTask()                             *)

\* A worker without a task looks for one, again and again.  The list it picks
\* from is read in one step: the pick is checked again.
Poll(w) ==
  /\ w \in setup.workers /\ At(w, "idle") /\ mine[w] = 0
  /\ \E i \in Available([j \in Ids |-> Read(files[j])]) :
       Set(w, [NoCall EXCEPT !.op = "claim", !.pc = "precheck", !.id = i])
  /\ UNCHANGED <<setup, files, mark, lock, mine, crashed, uses, calls, raced>>

\* Mutated form: the owner is not looked at again under the lock.
MayClaimOwned(w, f) == f.kind = "task" /\ f.status # "completed"

MayClaim(w, f) ==
  f.kind = "task" /\ f.owner \in {Nobody, w} /\ f.status # "completed"

\* Under the lock the task is read, ...
Reread(w) ==
  /\ At(w, "reread")
  /\ Set(w, IF MayClaim(w, Read(files[call[w].id]))
              THEN [Goto(w, "blockers") EXCEPT !.saw = files[call[w].id],
                                               !.rest = Names \cap files[call[w].id].blockedBy]
              ELSE Goto(w, "unlock"))
  /\ UNCHANGED <<setup, files, mark, lock, mine, crashed, uses, calls, raced>>

\* ... and then every file, of which those that block it count; the claim is written, and the status later.
Decide(w) ==
  /\ At(w, "blockers") /\ call[w].rest = {}
  /\ Set(w, IF call[w].saw.blockedBy \cap Unresolved(call[w].seen) # {}
              THEN Goto(w, "unlock")
              ELSE [Goto(w, "merge") EXCEPT
                      !.seen = NoCall.seen,
                      !.todo = <<Update(call[w].id, Patch("owner", w)),
                                  Update(call[w].id, Patch("status", "in_progress"))>>])
  /\ UNCHANGED <<setup, files, mark, lock, mine, crashed, uses, calls, raced>>

\* TaskUpdate of the worker's own task: completed.  A task that is not found
\* is given up.
Complete(w) ==
  LET f == Read(files[mine[w]])
  IN /\ At(w, "idle") /\ mine[w] # 0
     /\ IF f.kind = "task" /\ f.status # "completed"
          THEN /\ Set(w, Continue([NoCall EXCEPT !.op = "complete"],
                                  <<Update(mine[w], Patch("status", "completed"))>>))
               /\ mine' = mine
          ELSE mine' = [mine EXCEPT ![w] = 0] /\ call' = call
     /\ UNCHANGED <<setup, files, mark, lock, crashed, uses, calls, raced>>

----------------------------------------------------------------------------
(* Calls of the tools                                                      *)

\* A deletion does not take the lock of the list that creations and resets take;
\* unassignments write later what they decided from a listing without a lock.
Races(t, op) ==
  \E u \in Tools \ {t} :
    \/ op = "delete" /\ call[u].op \in {"create", "delete", "reset"}
    \/ op \in {"create", "reset"} /\ call[u].op = "delete"
    \/ op = "unassign" /\ call[u].op = "unassign"

Begin(t, op, r) ==
  /\ At(t, "idle") /\ op \in setup.ops[t] /\ calls < setup.calls
  /\ calls' = calls + 1 /\ raced' = (raced \/ Races(t, op))
  /\ Set(t, [r EXCEPT !.op = op])
  /\ UNCHANGED <<setup, files, mark, lock, mine, crashed, uses>>

Create(t) == Begin(t, "create", [NoCall EXCEPT !.pc = "lockList"])
Reset(t) == Begin(t, "reset", [NoCall EXCEPT !.pc = "lockList"])

Delete(t, i) ==
  /\ Read(files[i]).kind = "task"
  /\ Begin(t, "delete", [NoCall EXCEPT !.pc = "readMark", !.id = i, !.high = i])

\* TaskUpdate with addBlocks: blockTask() reads both tasks.
Block(t, i, j) ==
  /\ i # j /\ Read(files[i]).kind = "task" /\ j \notin files[i].blocks
  /\ Begin(t, "block", [NoCall EXCEPT !.pc = "list", !.id = i, !.to = j, !.rest = {i, j}])

\* unassignTeammateTasks(), when the worker w is gone.
Unassign(t, w) ==
  /\ w \in crashed
  /\ Begin(t, "unassign", [Listing(NoCall, "list") EXCEPT !.saw.owner = w])

AcquireList(t) ==
  /\ At(t, "lockList") /\ Free(List)
  /\ lock' = [lock EXCEPT ![List] = t]
  /\ Set(t, Goto(t, IF call[t].op = "create" THEN "find" ELSE "findNames"))
  /\ UNCHANGED <<setup, files, mark, mine, crashed, uses, calls, raced>>

\* Mutated form: a creation looks at the files only.
FoundInFiles(t, high) ==
  IF call[t].op = "create"
    THEN [call[t] EXCEPT !.pc = "truncate", !.id = MaxOf(Names) + 1, !.high = 0, !.saw = NewTask]
    ELSE [call[t] EXCEPT !.pc = IF high > 0 THEN "readMark" ELSE "wipe",
                         !.high = high, !.rest = IF high > 0 THEN {} ELSE Names]

\* What a creation or a reset does with the highest id it found.
Found(t, high) ==
  IF call[t].op = "create"
    THEN [call[t] EXCEPT !.pc = "truncate", !.id = high + 1, !.high = 0, !.saw = NewTask]
    ELSE [call[t] EXCEPT !.pc = IF high > 0 THEN "readMark" ELSE "wipe",
                         !.high = high, !.rest = IF high > 0 THEN {} ELSE Names]

\* findHighestTaskIdFromFiles(); a creation reads the mark in parallel.
FindNames(t) ==
  LET high == MaxOf(Names \cup {call[t].high})
  IN /\ call[t].pc \in {"find", "findNames"} /\ t \notin crashed
     /\ Set(t, IF call[t].pc = "find" THEN [call[t] EXCEPT !.pc = "findMark", !.high = high]
               ELSE Found(t, high))
     /\ UNCHANGED <<setup, files, mark, lock, mine, crashed, uses, calls, raced>>

FindMark(t) ==
  LET high == MaxOf({mark, call[t].high})
  IN /\ call[t].pc \in {"find", "findMark"} /\ t \notin crashed
     /\ Set(t, IF call[t].pc = "find" THEN [call[t] EXCEPT !.pc = "findNames", !.high = high]
               ELSE Found(t, high))
     /\ UNCHANGED <<setup, files, mark, lock, mine, crashed, uses, calls, raced>>

\* What a deletion or a reset does once the mark is high enough.
Marked(t) ==
  IF call[t].op = "delete" THEN Goto(t, "unlink")
  ELSE [Goto(t, "wipe") EXCEPT !.rest = Names]

\* The mark is read, and written when it is lower: in two steps, too.
ReadMark(t) ==
  /\ At(t, "readMark")
  /\ Set(t, IF call[t].high > mark THEN Goto(t, "emptyMark") ELSE Marked(t))
  /\ UNCHANGED <<setup, files, mark, lock, mine, crashed, uses, calls, raced>>

EmptyMark(t) ==
  /\ At(t, "emptyMark") /\ mark' = 0
  /\ Set(t, Goto(t, "writeMark"))
  /\ UNCHANGED <<setup, files, lock, mine, crashed, uses, calls, raced>>

WriteMark(t) ==
  /\ At(t, "writeMark") /\ mark' = call[t].high
  /\ Set(t, Marked(t))
  /\ UNCHANGED <<setup, files, lock, mine, crashed, uses, calls, raced>>

\* A reset deletes every file, ...
Wipe(t) ==
  /\ At(t, "wipe")
  /\ IF call[t].rest = {}
       THEN Set(t, Goto(t, "unlock")) /\ files' = files
       ELSE \E i \in call[t].rest :
              /\ files' = [files EXCEPT ![i] = Absent]
              /\ Set(t, [call[t] EXCEPT !.rest = @ \ {i}])
  /\ UNCHANGED <<setup, mark, lock, mine, crashed, uses, calls, raced>>

\* ... a deletion one, whoever holds its lock, and then looks for references.
Unlink(t) ==
  /\ At(t, "unlink")
  /\ files' = [files EXCEPT ![call[t].id] = Absent]
  /\ Set(t, IF files[call[t].id].kind = "absent" THEN NoCall
            ELSE Listing(call[t], "list"))
  /\ UNCHANGED <<setup, mark, lock, mine, crashed, uses, calls, raced>>

\* The updates that follow from what was read.
References(r) ==
  LET found == SetToSeq({i \in Ids : /\ r.seen[i].kind = "task"
                                     /\ r.id \in r.seen[i].blocks \cup r.seen[i].blockedBy})
  IN [n \in DOMAIN found |->
        Update(found[n], [k \in {"blocks", "blockedBy"} |-> r.seen[found[n]][k] \ {r.id}])]

Dependency(r) ==
  LET from == r.seen[r.id]  to == r.seen[r.to]
  IN IF from.kind = "absent" \/ to.kind = "absent" THEN <<>>
     ELSE (IF r.to \in from.blocks THEN <<>>
           ELSE <<Update(r.id, Patch("blocks", from.blocks \cup {r.to}))>>)
          \o (IF r.id \in to.blockedBy THEN <<>>
              ELSE <<Update(r.to, Patch("blockedBy", to.blockedBy \cup {r.id}))>>)

\* Mutated form: completed tasks are unassigned, too.
AssignedEver(r) ==
  LET found == SetToSeq({i \in Ids : r.seen[i].kind = "task" /\ r.seen[i].owner = r.saw.owner})
  IN [n \in DOMAIN found |->
        Update(found[n], [k \in {"owner", "status"} |-> IF k = "owner" THEN Nobody ELSE "pending"])]

Assigned(r) ==
  LET found == SetToSeq({i \in Unresolved(r.seen) : r.seen[i].owner = r.saw.owner})
  IN [n \in DOMAIN found |->
        Update(found[n], [k \in {"owner", "status"} |-> IF k = "owner" THEN Nobody ELSE "pending"])]

Listed(t) ==
  LET r == call[t]
      todo == CASE r.op = "delete" -> References(r)
                [] r.op = "block" -> Dependency(r)
                [] r.op = "unassign" -> Assigned(r)
  IN /\ At(t, "list") /\ t \in Tools /\ r.rest = {}
     /\ Set(t, Continue(r, todo))
     /\ UNCHANGED <<setup, files, mark, lock, mine, crashed, uses, calls, raced>>

----------------------------------------------------------------------------
\* The process dies: the locks it holds stay, and what it was writing is empty.
Crash(c) ==
  /\ c \in setup.mortal \ crashed /\ Cardinality(crashed) < setup.crashes
  /\ crashed' = crashed \cup {c}
  /\ Set(c, NoCall)
  /\ mine' = IF c \in Workers THEN [mine EXCEPT ![c] = 0] ELSE mine
  /\ UNCHANGED <<setup, files, mark, lock, uses, calls, raced>>

WorkerStep(w) == Poll(w) \/ Reread(w) \/ Decide(w) \/ Complete(w)

ToolStep(t) ==
  \/ FindNames(t) \/ FindMark(t) \/ ReadMark(t) \/ EmptyMark(t) \/ WriteMark(t)
  \/ Wipe(t) \/ Unlink(t) \/ Listed(t)

FileStep(c) ==
  ReadOne(c) \/ Precheck(c) \/ Missing(c) \/ ReadToMerge(c) \/ Truncate(c) \/ Write(c) \/ Unlock(c)

Call(t) ==
  \/ Create(t) \/ Reset(t)
  \/ \E i \in Ids : Delete(t, i) \/ \E j \in Ids : Block(t, i, j)
  \/ \E w \in Workers : Unassign(t, w)

Next ==
  \/ \E w \in Workers : WorkerStep(w)
  \/ \E t \in Tools : Call(t) \/ ToolStep(t) \/ AcquireList(t)
  \/ \E c \in Callers : FileStep(c) \/ Acquire(c) \/ GiveUp(c) \/ Crash(c)

Spec == Init /\ [][Next]_vars

Progress(c) == FileStep(c) \/ (c \in Workers /\ WorkerStep(c)) \/ (c \in Tools /\ ToolStep(c))

\* The file system answers, and who retries for a lock gets it in the end.
Fairness ==
  \A c \in Callers : /\ WF_vars(Progress(c))
                     /\ SF_vars(Acquire(c) \/ (c \in Tools /\ AcquireList(c)))

FairSpec == Spec /\ Fairness

----------------------------------------------------------------------------
(* Properties                                                              *)

\* The variables have their types, and a file is written under a lock.
TypeOK ==
  /\ files \in [Ids -> File] /\ mark \in {0} \cup Ids
  /\ lock \in [Ids \cup {List} -> Callers \cup {Nobody}]
  /\ mine \in [Workers -> Ids \cup {0}] /\ crashed \subseteq Callers
  /\ uses \in [Ids -> Nat] /\ setup \in Setups /\ calls \in 0..setup.calls /\ raced \in BOOLEAN
  /\ \A c \in Callers :
       call[c].pc \in {"truncate", "write"} =>
         lock[IF call[c].op = "create" THEN List ELSE call[c].id] = c

\* No two workers work on the same task, whatever they read before they took
\* its lock, and whoever crashed and was unassigned - as long as no teammate is
\* unassigned twice at a time and no id was given twice.
OneWorker ==
  raced \/ \A v, w \in Workers : v # w /\ mine[v] # 0 => mine[v] # mine[w]

\* No id is given to two tasks, through resets, crashes and a mark that is
\* written in two steps - as long as no deletion runs beside another one, a
\* creation or a reset ("Update high water mark before deleting to prevent ID
\* reuse", src/src/utils/tasks.ts:400).
IdsNotReused == raced \/ \A i \in Ids : uses[i] <= 1

IsCompleted(f) == f.kind # "absent" /\ f.status = "completed"

\* What is completed stays so, although others update the same file for other
\* reasons and from what they read earlier (with the same exception).
CompletedStays ==
  [][raced \/ \A i \in Ids : IsCompleted(files[i]) /\ files'[i].kind # "absent" =>
               IsCompleted(files'[i])]_vars

\* A task that can be worked on is taken in the end while a worker lives,
\* although a lock may be left by one that crashed.
EventuallyTaken ==
  \A i \in Ids : i \in Available(files) ~> (i \notin Available(files) \/ setup.workers \subseteq crashed)
=============================================================================
