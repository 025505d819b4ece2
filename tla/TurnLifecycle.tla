--------------------------- MODULE TurnLifecycle ---------------------------
(***************************************************************************)
(* How the REPL turns commands into turns: the command queue               *)
(* (src/src/utils/messageQueueManager.ts, queueProcessor.ts), the          *)
(* executions of commands (src/src/utils/handlePromptSubmit.ts), the       *)
(* queries they start (onQuery in src/src/screens/REPL.tsx), the drain of  *)
(* the queue inside a running query (src/src/query.ts) and the user's      *)
(* Escape (src/src/hooks/useCancelRequest.ts), around one QueryGuard.      *)
(*                                                                         *)
(* An execution is one call of executeUserInput(), or one call of          *)
(* onQuery() without it; its number is also that of its AbortController.   *)
(* An action is what runs between two awaits of I/O; the microtasks that   *)
(* follow a step (the finally blocks) belong to it.                        *)
(***************************************************************************)
EXTENDS QueryGuard, Selections, SequencesExt

CONSTANTS Commands,    \* the commands that may be submitted, each once
          MaxExecs,    \* bound: number of executions
          MaxCancels,  \* bound: number of Escapes that cancel a turn
          MaxPops      \* bound: number of times the user empties the queue

Execs == 1..MaxExecs

\* A command: its mode and priority (0 now, 1 next, 2 later), whether its
\* text starts with '/', whether it must not be taken as a slash command,
\* whether it is hidden (isMeta), whether it is for the main thread, and how
\* often it was put back into the queue as a new object.
CommandType ==
  [id : Nat, mode : {"prompt", "bash", "task-notification"}, prio : 0..2,
   slash : BOOLEAN, skip : BOOLEAN, meta : BOOLEAN, main : BOOLEAN, copy : Nat]

ASSUME CommandAssumption ==
  /\ Commands \subseteq CommandType
  /\ \A c \in Commands : c.copy = 0 /\ c.id # 0
  /\ \A c, d \in Commands : c.id = d.id => c = d
ASSUME BoundAssumption == MaxExecs \in Nat /\ MaxCancels \in Nat /\ MaxPops \in Nat

VARIABLES
  queue,       \* commandQueue
  pc,          \* execution -> where it is
  cmds,        \* execution -> the commands it was given
  gen,         \* execution -> the generation tryStart() gave it
  snap,        \* execution -> the commands its query is draining
  direct,      \* the executions that are bare calls of onQuery()
  controller,  \* abortController of the REPL: an execution, or 0 for null
  aborted,     \* the executions whose controller was aborted
  submitted,   \* the commands submitted so far
  arrived,     \* ids of those that went through the queue, in order
  delivered,   \* ids of the commands that entered the conversation, in order
  settled,     \* ids given back to the user, failed, or done without messages
  cancels, pops

execVars == <<pc, cmds, gen, snap, direct>>
historyVars == <<submitted, arrived, delivered, settled>>
boundVars == <<cancels, pops>>
vars == <<guardVars, queue, execVars, controller, aborted, historyVars, boundVars>>

Ids(s) == {s[n].id : n \in DOMAIN s}
IdsOf(s) == [n \in DOMAIN s |-> s[n].id]

Querying(e) == pc[e] \in {"querying", "draining"}
Live(e) == pc[e] = "processing" \/ Querying(e)

Init ==
  /\ GuardInit
  /\ queue = <<>>
  /\ pc = [e \in Execs |-> "none"]
  /\ cmds = [e \in Execs |-> <<>>]
  /\ gen = [e \in Execs |-> 0]
  /\ snap = [e \in Execs |-> <<>>]
  /\ direct = {}
  /\ controller = 0
  /\ aborted = {}
  /\ submitted = {}
  /\ arrived = <<>> /\ delivered = <<>>
  /\ settled = {}
  /\ cancels = 0 /\ pops = 0

----------------------------------------------------------------------------
(* The command queue                                                       *)

\* queueProcessor's own isSlashCommand() does not look at skipSlashCommands;
\* the one of messageQueueManager, which query.ts uses, does.
ProcessorSlash(c) == c.slash
IsSlashCommand(c) == c.slash /\ ~c.skip

IsMainThread(c) == c.main
Editable(c) == c.mode # "task-notification" /\ ~c.meta

\* Mutated form: what is addressed to a subagent is not left aside.
PeekAny(q) ==
  {n \in DOMAIN q : \A m \in DOMAIN q : \/ q[n].prio < q[m].prio
                                        \/ q[n].prio = q[m].prio /\ n <= m}

\* peek(): the position of the first of the commands with the best priority.
Peek(q) ==
  {n \in DOMAIN q : /\ IsMainThread(q[n])
                    /\ \A m \in DOMAIN q : IsMainThread(q[m]) =>
                         \/ q[n].prio < q[m].prio
                         \/ q[n].prio = q[m].prio /\ n <= m}

\* processQueueIfReady(): a slash or bash command alone, otherwise every
\* command of the same mode, in the order of the queue.
Alone(c) == ProcessorSlash(c) \/ c.mode = "bash"
InBatch(c, mode) == IsMainThread(c) /\ ~ProcessorSlash(c) /\ c.mode = mode

\* Mutated form: the queue is walked from its end.
BatchReversed(q, n) ==
  LET batch == Selected(q, {c \in ToSet(q) : InBatch(c, q[n].mode)})
  IN IF Alone(q[n]) THEN <<q[n]>> ELSE [k \in DOMAIN batch |-> batch[Len(batch) + 1 - k]]

Batch(q, n) == IF Alone(q[n])
                 THEN IF IsMainThread(q[n]) THEN <<q[n]>> ELSE <<>>
                 ELSE Selected(q, {c \in ToSet(q) : InBatch(c, q[n].mode)})

\* Mutated form: the objects to remove are not found.
WithoutNothing(q, s) == q

\* dequeue(), dequeueAllMatching() and remove() take objects by reference.
Without(q, s) == Rejected(q, ToSet(s))

----------------------------------------------------------------------------
(* Executions                                                              *)

\* The executions are numbered in the order in which they begin.
Fresh == {e \in Execs : pc[e] = "none" /\ \A f \in Execs : f < e => pc[f] # "none"}

\* The synchronous head of executeUserInput(): a new controller, and a
\* reservation whose result is not looked at.
Execute(e, s) ==
  /\ pc' = [pc EXCEPT ![e] = "processing"]
  /\ cmds' = [cmds EXCEPT ![e] = s]
  /\ controller' = e
  /\ Reserve
  /\ UNCHANGED <<gen, snap, direct>>

\* handlePromptSubmit() for a message of the user: queued while the guard is
\* active, executed otherwise.  When all tools of the running query are
\* interruptible it also aborts the query.
MayInterrupt == {{}} \cup {{e} : e \in {e \in Execs : e = controller /\ Querying(e)}}

Submit(c) ==
  /\ c \notin submitted /\ Editable(c) /\ c.prio = 1 /\ ~c.skip
  /\ submitted' = submitted \cup {c}
  /\ IF IsActive
       THEN /\ queue' = Append(queue, c)
            /\ arrived' = Append(arrived, c.id)
            /\ \E I \in MayInterrupt : aborted' = aborted \cup I
            /\ UNCHANGED <<guardVars, execVars, controller>>
       ELSE /\ \E e \in Fresh : Execute(e, <<c>>)
            /\ UNCHANGED <<queue, arrived, aborted>>
  /\ UNCHANGED <<delivered, settled, boundVars>>

\* enqueue() and enqueuePendingNotification() by everyone else: background
\* tasks, the cron scheduler, bridges.
Notify(c) ==
  /\ c \notin submitted /\ c.mode # "bash"
  /\ submitted' = submitted \cup {c}
  /\ queue' = Append(queue, c)
  /\ arrived' = Append(arrived, c.id)
  /\ UNCHANGED <<guardVars, execVars, controller, aborted, delivered, settled,
                 boundVars>>

\* The effect of REPL.tsx on a queued command of priority 'now'.
NowInterrupt ==
  /\ \E n \in DOMAIN queue : queue[n].prio = 0
  /\ controller # 0 /\ controller \notin aborted
  /\ aborted' = aborted \cup {controller}
  /\ UNCHANGED <<guardVars, queue, execVars, controller, historyVars, boundVars>>

\* The effect of useQueueProcessor().
ProcessQueue ==
  /\ ~IsActive
  /\ \E n \in Peek(queue), e \in Fresh :
       /\ Batch(queue, n) # <<>>
       /\ Execute(e, Batch(queue, n))
       /\ queue' = Without(queue, Batch(queue, n))
  /\ UNCHANGED <<aborted, historyVars, boundVars>>

\* processUserInput() fails: only the finally of executeUserInput() runs.
ProcessFails(e) ==
  /\ pc[e] = "processing"
  /\ CancelReservation
  /\ pc' = [pc EXCEPT ![e] = "over"]
  /\ settled' = settled \cup Ids(cmds[e])
  /\ UNCHANGED <<queue, cmds, gen, snap, direct, controller, aborted, submitted,
                 arrived, delivered, boundVars>>

\* processUserInput() returns no messages: a local slash command.
NoMessages(e) ==
  /\ pc[e] = "processing"
  /\ IsSlashCommand(Head(cmds[e]))
  /\ CancelReservation
  /\ controller' = 0
  /\ pc' = [pc EXCEPT ![e] = "over"]
  /\ settled' = settled \cup Ids(cmds[e])
  /\ UNCHANGED <<queue, cmds, gen, snap, direct, aborted, submitted, arrived,
                 delivered, boundVars>>

\* Mutated form: the messages of the loser are dropped.
RequeuedNone(s) == <<>>

\* onQuery() finds a query running: the texts of its messages, those of
\* hidden messages excepted, go back to the queue as new prompts.
Requeued(s) ==
  LET kept == Selected(s, {c \in ToSet(s) : ~c.meta})
  IN [n \in DOMAIN kept |->
       [id |-> kept[n].id, mode |-> "prompt", prio |-> 1,
        slash |-> kept[n].slash /\ kept[n].skip, skip |-> FALSE,
        meta |-> FALSE, main |-> TRUE, copy |-> kept[n].copy + 1]]

LoseRace(e) ==
  /\ pc[e] = "processing"
  /\ ~CanStart
  /\ queue' = queue \o Requeued(cmds[e])
  /\ pc' = [pc EXCEPT ![e] = "over"]
  /\ settled' = settled \cup {cmds[e][n].id : n \in {n \in DOMAIN cmds[e] : cmds[e][n].meta}}
  /\ CancelReservation
  /\ UNCHANGED <<cmds, gen, snap, direct, controller, aborted, submitted,
                 arrived, delivered, boundVars>>

\* onQuery() starts a query.
BeginQuery(e, s) ==
  /\ CanStart
  /\ Start
  /\ gen' = [gen EXCEPT ![e] = generation']
  /\ pc' = [pc EXCEPT ![e] = "querying"]
  /\ delivered' = delivered \o IdsOf(s)

\* The first of the commands says whether there is a query at all.
StartQuery(e) ==
  /\ pc[e] = "processing" /\ Head(cmds[e]).mode # "bash"
  /\ BeginQuery(e, cmds[e])
  /\ UNCHANGED <<queue, cmds, snap, direct, controller, aborted, submitted,
                 arrived, settled, boundVars>>

\* onQueryImpl() for messages that ask for no query (a bash command, a slash
\* command with local output, a prompt that a hook blocked) returns at once,
\* and clears the controller, whosever it is.
LocalTurn(e) ==
  /\ pc[e] = "processing"
  /\ CanStart
  /\ status' = "idle" /\ generation' = generation + 1
  /\ controller' = 0
  /\ pc' = [pc EXCEPT ![e] = "over"]
  /\ delivered' = delivered \o IdsOf(cmds[e])
  /\ UNCHANGED <<queue, cmds, gen, snap, direct, aborted, submitted, arrived,
                 settled, boundVars>>

\* handleIncomingPrompt(): a new turn by itself, unless a query is active or
\* the user has queued something.
Incoming(c) ==
  /\ c \notin submitted /\ c.mode = "prompt" /\ c.main /\ ~c.slash
  /\ ~IsActive
  /\ \A n \in DOMAIN queue : queue[n].mode \notin {"prompt", "bash"}
  /\ submitted' = submitted \cup {c}
  /\ \E e \in Fresh : /\ BeginQuery(e, <<c>>)
                      /\ cmds' = [cmds EXCEPT ![e] = <<c>>]
                      /\ direct' = direct \cup {e}
                      /\ controller' = e
  /\ UNCHANGED <<queue, snap, aborted, arrived, settled, boundVars>>

----------------------------------------------------------------------------
(* A running query                                                         *)

\* Between two requests the query takes what the queue has for it: a snapshot
\* first; after it has made attachments of them, it removes them.  When Sleep
\* ran it takes every priority, otherwise 'now' and 'next'.
Drains(c, sleepRan) == /\ IsMainThread(c) /\ ~IsSlashCommand(c)
                       /\ sleepRan \/ c.prio <= 1

DrainSnapshot(e) ==
  /\ pc[e] = "querying" /\ e \notin aborted
  /\ \E sleepRan \in BOOLEAN :
       snap' = [snap EXCEPT ![e] = Selected(queue, {c \in ToSet(queue) : Drains(c, sleepRan)})]
  /\ snap'[e] # <<>>
  /\ pc' = [pc EXCEPT ![e] = "draining"]
  /\ UNCHANGED <<guardVars, queue, cmds, gen, direct, controller, aborted,
                 historyVars, boundVars>>

Consumed(e) == Selected(snap[e], {c \in ToSet(snap[e]) : c.mode # "bash"})

DrainRemove(e) ==
  /\ pc[e] = "draining"
  /\ delivered' = delivered \o IdsOf(Consumed(e))
  /\ queue' = Without(queue, Consumed(e))
  /\ snap' = [snap EXCEPT ![e] = <<>>]
  /\ pc' = [pc EXCEPT ![e] = "querying"]
  /\ UNCHANGED <<guardVars, cmds, gen, direct, controller, aborted, submitted,
                 arrived, settled, boundVars>>

\* A subagent takes the notifications that are addressed to it.
AgentDrain ==
  /\ \E n \in DOMAIN queue :
       /\ ~IsMainThread(queue[n])
       /\ queue' = Without(queue, <<queue[n]>>)
       /\ settled' = settled \cup {queue[n].id}
  /\ UNCHANGED <<guardVars, execVars, controller, aborted, submitted, arrived,
                 delivered, boundVars>>

\* The query is over: the finally of onQuery() and, unless onQuery() was
\* called directly, that of executeUserInput(), which drops a reservation
\* whoever made it.
EndQuery(e) ==
  /\ pc[e] = "querying"
  /\ pc' = [pc EXCEPT ![e] = "over"]
  /\ controller' = IF IsCurrent(gen[e]) THEN 0 ELSE controller
  /\ IF IsCurrent(gen[e]) \/ e \in direct THEN End(gen[e]) ELSE CancelReservation
  /\ UNCHANGED <<queue, cmds, gen, snap, direct, aborted, historyVars, boundVars>>

----------------------------------------------------------------------------
(* The user                                                                *)

\* Mutated form: Escape cancels although there is no controller.
CanCancelAlways == TRUE

CanCancelTurn == controller # 0 /\ controller \notin aborted

\* Escape while there is something to cancel: onCancel().
CancelTurn ==
  /\ CanCancelTurn /\ cancels < MaxCancels
  /\ cancels' = cancels + 1
  /\ ForceEnd
  /\ aborted' = aborted \cup {controller}
  /\ controller' = 0
  /\ UNCHANGED <<queue, execVars, historyVars, pops>>

\* popAllEditable(): Escape when there is nothing to cancel, and Up at any
\* time, move the user's queued commands back to the input.
PopAllEditable ==
  /\ pops < MaxPops
  /\ \E n \in DOMAIN queue : Editable(queue[n])
  /\ pops' = pops + 1
  /\ LET popped == {c \in ToSet(queue) : Editable(c)}
     IN queue' = Rejected(queue, popped) /\ settled' = settled \cup {c.id : c \in popped}
  /\ UNCHANGED <<guardVars, execVars, controller, aborted, submitted, arrived,
                 delivered, cancels>>

\* The keys that stop all background agents: the queue is cleared, whatever it
\* holds, and then gets one notification that says so.
AgentsStopped == [id |-> 0, mode |-> "task-notification", prio |-> 2,
                  slash |-> FALSE, skip |-> FALSE, meta |-> FALSE, main |-> TRUE,
                  copy |-> pops]
KillAgents ==
  /\ pops < MaxPops
  /\ pops' = pops + 1
  /\ queue' = <<AgentsStopped>>
  /\ settled' = settled \cup Ids(queue)
  /\ arrived' = Append(arrived, AgentsStopped.id)
  /\ UNCHANGED <<guardVars, execVars, controller, aborted, submitted, delivered,
                 cancels>>

Processed(e) == ProcessFails(e) \/ NoMessages(e) \/ LoseRace(e) \/ StartQuery(e)
                \/ LocalTurn(e)

ExecStep(e) == Processed(e) \/ DrainSnapshot(e) \/ DrainRemove(e) \/ EndQuery(e)

Idle == /\ ~IsActive
        /\ \A n \in DOMAIN queue : ~IsMainThread(queue[n])
        /\ \A e \in Execs : ~Live(e)
        /\ UNCHANGED vars

Next == \/ \E c \in Commands : Submit(c) \/ Notify(c) \/ Incoming(c)
        \/ NowInterrupt \/ ProcessQueue
        \/ \E e \in Execs : ExecStep(e)
        \/ AgentDrain
        \/ CancelTurn \/ PopAllEditable \/ KillAgents
        \/ Idle

Spec == Init /\ [][Next]_vars

\* The REPL renders and runs its effects; what a command or a query waits for
\* comes; a query ends if it is looked at often enough.
Fairness == /\ WF_vars(ProcessQueue)
            /\ \A e \in Execs : /\ WF_vars(Processed(e)) /\ WF_vars(DrainRemove(e))
                                /\ SF_vars(EndQuery(e))

FairSpec == Spec /\ Fairness

----------------------------------------------------------------------------
(* Properties                                                              *)

QueuedType == [id : Nat, mode : {"prompt", "bash", "task-notification"},
               prio : 0..2, slash : BOOLEAN, skip : BOOLEAN, meta : BOOLEAN,
               main : BOOLEAN, copy : Nat]

\* The variables have their types.
TypeOK ==
  /\ GuardTypeOK
  /\ queue \in Seq(QueuedType)
  /\ pc \in [Execs -> {"none", "processing", "querying", "draining", "over"}]
  /\ cmds \in [Execs -> Seq(QueuedType)]
  /\ gen \in [Execs -> Nat]
  /\ snap \in [Execs -> Seq(QueuedType)]
  /\ direct \subseteq Execs
  /\ controller \in Execs \cup {0}
  /\ aborted \subseteq Execs
  /\ submitted \subseteq Commands
  /\ arrived \in Seq(Nat) /\ delivered \in Seq(Nat)
  /\ settled \subseteq Nat
  /\ cancels \in 0..MaxCancels /\ pops \in 0..MaxPops

\* The guard is never left active with nobody to release it: whoever was
\* cancelled, failed, lost a race or was overtaken, a reservation stands for
\* an execution that still processes its input, and a running guard for a
\* query that still runs and that will find its own generation at its end.
GuardOwned ==
  /\ status = "dispatching" => \E e \in Execs : pc[e] = "processing"
  /\ status = "running" => \E e \in Execs : Querying(e) /\ gen[e] = generation

\* Two queries never take each other for the owner of the guard.
OneOwner ==
  \A e, f \in Execs : Querying(e) /\ Querying(f) /\ gen[e] = gen[f] => e = f

\* The finally of a query that the user has cancelled, or that was overtaken,
\* does not end the query that runs now and leaves its controller alone.
StaleEndHarmless ==
  [][\A e \in Execs :
       Querying(e) /\ pc'[e] = "over" /\ gen[e] # generation
       => /\ status = "running" => status' = "running"
          /\ controller' = controller]_vars

\* No command of the user gets lost: it waits in the queue, an execution has
\* it, it is in the conversation, or it was settled otherwise.
Held(e) == IF pc[e] = "processing" THEN Ids(cmds[e]) ELSE {}
NothingLost ==
  \A c \in submitted :
    ~c.meta => \/ c.id \in Ids(queue) \cup settled
               \/ \E e \in Execs : c.id \in Held(e)
               \/ \E n \in DOMAIN delivered : delivered[n] = c.id

\* As long as nobody presses Escape, one execution is under way at a time.
OneAtATime == cancels = 0 => \A e, f \in Execs : Live(e) /\ Live(f) => e = f

\* As long as nobody presses Escape or Up, no command enters the conversation
\* twice, whether the query in progress or the next turn takes it.
DeliveredOnce ==
  cancels = 0 /\ pops = 0 =>
    \A m, n \in DOMAIN delivered : delivered[m] = delivered[n] => m = n

\* Commands that are alike (same mode, same priority, both slash commands or
\* neither) enter the conversation in the order in which they were queued.
Alike(c, d) == /\ c.mode = d.mode /\ c.prio = d.prio
               /\ c.slash = d.slash /\ c.skip = d.skip /\ c.main /\ d.main
Before(s, i, j) == \E m, n \in DOMAIN s : m < n /\ s[m] = i /\ s[n] = j
AlikeInOrder ==
  cancels = 0 /\ pops = 0 =>
    \A c, d \in submitted :
      Alike(c, d) /\ Before(arrived, c.id, d.id) => ~Before(delivered, d.id, c.id)

\* Whatever is queued for the main thread leaves the queue again.
MainThreadQueued == \E n \in DOMAIN queue : IsMainThread(queue[n])
QueueDrains == MainThreadQueued ~> ~MainThreadQueued
=============================================================================
