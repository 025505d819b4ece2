----------------------- MODULE StreamingToolExecutor -----------------------
(***************************************************************************)
(* The streaming tool executor of one API response                         *)
(* (src/src/services/tools/StreamingToolExecutor.ts) together with the     *)
(* part of the query loop that feeds it (src/src/query.ts).                *)
(*                                                                         *)
(* JavaScript runs one synchronous segment at a time; what interleaves is  *)
(* the order in which continuations run.  An action is one such segment.   *)
(* Continuations of promises ("microtasks") run before the event loop      *)
(* delivers the next I/O event, timer or key press ("macrotask"): an       *)
(* action of the second kind requires that no microtask is pending.        *)
(***************************************************************************)
EXTENDS Integers, Sequences

CONSTANTS MaxTools,     \* bound: tool_use blocks in one response
          Kinds,        \* the tools the model may call
          Bursts,       \* the messages with which a tool call may end
          MaxAttempts,  \* bound: streaming attempts (1 + fallbacks)
          MaxProgress   \* bound: unread progress messages of one tool

Tools == 1..MaxTools

\* What the executor looks at in a tool: is it defined at all, is the call
\* concurrency safe, is it Bash, is its interruptBehavior 'cancel', and does
\* it wait for an event of the event loop before it ends.
KindType == [known: BOOLEAN, safe: BOOLEAN, bash: BOOLEAN,
             cancel: BOOLEAN, io: BOOLEAN]

\* The messages of a call: progress, a successful tool_result, a tool_result
\* with is_error, or another message (a hook's attachment).
Updates == {"progress", "ok", "err", "extra"}
Synthetic == {"sibling_error", "user_interrupted"}
ToolResults == {"ok", "err"} \cup Synthetic

Unknown == [known |-> FALSE, safe |-> TRUE, bash |-> FALSE,
            cancel |-> FALSE, io |-> FALSE]

ASSUME SizeAssumption == /\ MaxTools \in Nat \ {0}
                         /\ MaxAttempts \in Nat \ {0}
                         /\ MaxProgress \in Nat
ASSUME KindAssumption == /\ Kinds \subseteq KindType
                         /\ \A k \in Kinds : ~k.known => k = Unknown
\* runToolUse() yields a tool_result whatever happens, also when it throws.
ASSUME BurstAssumption ==
  /\ Bursts \subseteq Seq(Updates \ {"progress"})
  /\ \A b \in Bursts : \E n \in DOMAIN b : b[n] \in {"ok", "err"}

VARIABLES
  tools,       \* this.tools: tool -> its record
  hasErrored,  \* this.hasErrored
  aborted,     \* the query's abort signal: "no", "user" or "interrupt"
  resume,      \* positions at which suspended processQueue() calls go on
  pc,          \* where the query loop is
  at,          \* position of the suspended generator or processQueue() call
  raced,       \* the tools whose promises getRemainingResults() races
  emitted,     \* the tools whose results were yielded, in order
  ctx,         \* the tools whose context modifiers were applied, in order
  orphans,     \* calls of discarded executors that still run
  attempt      \* number of the streaming attempt

vars == <<tools, hasErrored, aborted, resume, pc, at, raced, emitted, ctx,
          orphans, attempt>>

TrackedTool(kind, status, results) ==
  [kind |-> kind, status |-> status, results |-> results, progress |-> 0,
   inbox |-> <<>>, closed |-> FALSE, erred |-> FALSE]

Absent == TrackedTool(Unknown, "absent", <<>>)

Statuses == {"absent", "queued", "executing", "completed", "yielded"}

InState(T, s) == {i \in Tools : T[i].status = s}
Executing(T) == InState(T, "executing")

\* Where the next tool_use block goes.
Slots == {i \in Tools : /\ tools[i].status = "absent"
                        /\ \A j \in Tools : j < i => tools[j].status # "absent"}

----------------------------------------------------------------------------
(* Starting tools                                                          *)

\* Mutated forms: a concurrency safe call starts beside anything; a call that
\* is not concurrency safe starts beside safe ones.
CanExecuteIfSafe(T, i) == Executing(T) = {} \/ T[i].kind.safe
CanExecuteBesideSafe(T, i) == \A j \in Executing(T) : T[j].kind.safe

CanExecute(T, i) ==
  \/ Executing(T) = {}
  \/ T[i].kind.safe /\ \A j \in Executing(T) : T[j].kind.safe

CanPick(T, p, i) ==
  /\ i >= p
  /\ T[i].status = "queued" /\ CanExecute(T, i)
  /\ \A j \in Tools : p <= j /\ j < i /\ T[j].status = "queued"
                        => T[j].kind.safe /\ ~CanExecute(T, j)

Picks(T, p) == {i \in Tools : CanPick(T, p, i)}

\* Mutated form: a sibling's error does not cancel.
AbortReasonOfUser(k) == IF aborted = "user" THEN "user_interrupted" ELSE "none"

AbortReason(k) ==
  CASE hasErrored -> "sibling_error"
    [] ~hasErrored /\ aborted = "user" -> "user_interrupted"
    [] ~hasErrored /\ aborted = "interrupt" /\ k.cancel -> "user_interrupted"
    [] OTHER -> "none"

\* Mutated form: a call that is already aborted completes without a result.
LaunchedSilently(t) ==
  IF AbortReason(t.kind) # "none" THEN [t EXCEPT !.status = "completed"]
                                  ELSE [t EXCEPT !.status = "executing"]

\* executeTool(): a call that is already aborted completes at once with a
\* synthetic error; runToolUse() answers an aborted signal with an error.
Launched(t) ==
  IF AbortReason(t.kind) # "none"
    THEN [t EXCEPT !.status = "completed", !.results = <<AbortReason(t.kind)>>]
    ELSE IF aborted # "no"
           THEN [t EXCEPT !.status = "executing", !.inbox = <<"err">>,
                          !.closed = TRUE]
           ELSE [t EXCEPT !.status = "executing"]

\* One synchronous segment of processQueue(), from position p to its first
\* executeTool() or to its end.
Scan(T, p) ==
  IF Picks(T, p) = {} THEN T
  ELSE LET i == CHOOSE i \in Picks(T, p) : TRUE
       IN [T EXCEPT ![i] = Launched(T[i])]

\* Where that call of processQueue() goes on; past the last tool if it ended.
NextAt(T, p) ==
  IF Picks(T, p) = {} THEN MaxTools + 1
  ELSE 1 + CHOOSE i \in Picks(T, p) : TRUE

\* The processQueue() calls that the segment leaves suspended: the call the
\* finally of a tool that completed at once makes.
Restart(T, p) == IF InState(Scan(T, p), "completed") = InState(T, "completed")
                   THEN {} ELSE {1}

Positions(S) == S \cap Tools

----------------------------------------------------------------------------
(* Yielding results: getCompletedResults()                                 *)

Yieldable(t) == t.progress > 0 \/ t.status = "completed"

\* Mutated form: any executing call holds back what comes after it.
BarrierOfAny(t) == t.status = "executing"

Barrier(t) == t.status = "executing" /\ ~t.kind.safe

\* The tool at which the generator, going on at position p, yields next.
YieldsAt(T, p) ==
  {i \in Tools : /\ i >= p /\ Yieldable(T[i])
                 /\ \A j \in Tools : p <= j /\ j < i =>
                      ~Yieldable(T[j]) /\ ~Barrier(T[j])}

\* Yield one progress message, or mark the tool yielded and yield its results.
YieldFrom(T, i) ==
  IF T[i].progress > 0
    THEN /\ tools' = [T EXCEPT ![i].progress = @ - 1]
         /\ at' = i
         /\ UNCHANGED emitted
    ELSE /\ tools' = [T EXCEPT ![i].status = "yielded"]
         /\ at' = i + 1
         /\ emitted' = Append(emitted, i)

----------------------------------------------------------------------------
(* The event loop                                                          *)

MicrotaskPending ==
  \/ resume # {}
  \/ pc \in {"pq", "woken"}
  \/ \E i \in Executing(tools) :
       tools[i].closed \/ tools[i].inbox # <<>> \/ ~tools[i].kind.io

Macrotask == ~MicrotaskPending

Init ==
  /\ tools = [i \in Tools |-> Absent]
  /\ hasErrored = FALSE
  /\ aborted = "no"
  /\ resume = {}
  /\ pc = "stream"
  /\ at = 1
  /\ raced = {}
  /\ emitted = <<>>
  /\ ctx = <<>>
  /\ orphans = {}
  /\ attempt = 1

----------------------------------------------------------------------------
(* The query loop while the response streams                               *)

\* A tool_use block arrives: addTool(), and then getCompletedResults().
NewTool(k) == IF k.known THEN TrackedTool(k, "queued", <<>>)
                         ELSE TrackedTool(k, "completed", <<"err">>)

AddTool(k) ==
  /\ pc = "stream" /\ Macrotask /\ aborted = "no"
  /\ \E n \in Slots :
       LET T == [tools EXCEPT ![n] = NewTool(k)]
           p == IF k.known THEN 1 ELSE MaxTools + 1
           S == Scan(T, p)
       IN /\ resume' = resume \cup Positions({NextAt(T, p)}) \cup Restart(T, p)
          /\ IF YieldsAt(S, 1) = {}
               THEN tools' = S /\ UNCHANGED <<pc, at, emitted>>
               ELSE pc' = "streamYield" /\ \E i \in YieldsAt(S, 1) : YieldFrom(S, i)
  /\ UNCHANGED <<hasErrored, aborted, raced, ctx, orphans, attempt>>

\* Any other stream event also drains what is ready.
StreamEvent ==
  /\ pc = "stream" /\ Macrotask /\ aborted = "no"
  /\ \E i \in YieldsAt(tools, 1) : YieldFrom(tools, i)
  /\ pc' = "streamYield"
  /\ UNCHANGED <<hasErrored, aborted, resume, raced, ctx, orphans, attempt>>

\* The consumer asks for the next result.
StreamYieldResume ==
  /\ pc = "streamYield"
  /\ IF YieldsAt(tools, at) = {}
       THEN pc' = "stream" /\ UNCHANGED <<tools, at, emitted>>
       ELSE UNCHANGED pc /\ \E i \in YieldsAt(tools, at) : YieldFrom(tools, i)
  /\ UNCHANGED <<hasErrored, aborted, resume, raced, ctx, orphans, attempt>>

\* A streaming fallback: discard() and a fresh executor.  What the old one
\* was executing goes on, its results are never read.
Discard ==
  /\ pc = "stream" /\ Macrotask
  /\ attempt < MaxAttempts
  /\ attempt' = attempt + 1
  /\ orphans' = orphans \cup {[of |-> attempt, tool |-> i,
                               safe |-> tools[i].kind.safe] : i \in Executing(tools)}
  /\ tools' = [i \in Tools |-> Absent]
  /\ hasErrored' = FALSE
  /\ resume' = {}
  /\ emitted' = <<>>
  /\ ctx' = <<>>
  /\ UNCHANGED <<aborted, pc, at, raced>>

OrphanEnds ==
  /\ Macrotask
  /\ \E o \in orphans : orphans' = orphans \ {o}
  /\ UNCHANGED <<tools, hasErrored, aborted, resume, pc, at, raced, emitted,
                 ctx, attempt>>

----------------------------------------------------------------------------
(* The query loop after the stream: getRemainingResults()                  *)

\* The head of the loop: leave it when every tool was yielded, otherwise
\* await processQueue().
LoopHead ==
  IF \A i \in Tools : tools[i].status \in {"absent", "yielded"}
    THEN /\ pc' = "done"
         /\ UNCHANGED <<tools, at, resume>>
    ELSE /\ pc' = "pq"
         /\ tools' = Scan(tools, 1)
         /\ at' = NextAt(tools, 1)
         /\ resume' = resume \cup Restart(tools, 1)

\* The tail of the loop: race the executing tools against progress when
\* nothing can be yielded.
LoopTail ==
  IF /\ Executing(tools) # {}
     /\ \A i \in Tools : ~Yieldable(tools[i])
    THEN /\ pc' = "race"
         /\ raced' = Executing(tools)
         /\ UNCHANGED <<tools, at, resume>>
    ELSE LoopHead /\ UNCHANGED raced

StartRemaining ==
  /\ pc = "stream" /\ Macrotask
  /\ LoopHead
  /\ UNCHANGED <<hasErrored, aborted, raced, emitted, ctx, orphans, attempt>>

\* The awaited processQueue() starts its next tool, or has ended.
AwaitedScan ==
  /\ pc = "pq" /\ Picks(tools, at) # {}
  /\ tools' = Scan(tools, at)
  /\ at' = NextAt(tools, at)
  /\ resume' = resume \cup Restart(tools, at)
  /\ UNCHANGED <<hasErrored, aborted, pc, raced, emitted, ctx, orphans, attempt>>

\* getCompletedResults() inside getRemainingResults(): from its start when
\* processQueue() has ended, from where it was suspended otherwise.
YieldNext(p) ==
  IF YieldsAt(tools, p) = {}
    THEN LoopTail /\ UNCHANGED emitted
    ELSE /\ pc' = "yield"
         /\ \E i \in YieldsAt(tools, p) : YieldFrom(tools, i)
         /\ UNCHANGED <<resume, raced>>

AwaitedScanEnds ==
  /\ pc = "pq" /\ Picks(tools, at) = {}
  /\ YieldNext(1)
  /\ UNCHANGED <<hasErrored, aborted, ctx, orphans, attempt>>

YieldResume ==
  /\ pc = "yield"
  /\ YieldNext(at)
  /\ UNCHANGED <<hasErrored, aborted, ctx, orphans, attempt>>

RaceEnds ==
  /\ pc = "woken"
  /\ LoopHead
  /\ UNCHANGED <<hasErrored, aborted, raced, emitted, ctx, orphans, attempt>>

----------------------------------------------------------------------------
(* Tools                                                                   *)

\* A suspended processQueue() goes on.
ProcessQueue(p) ==
  /\ p \in resume
  /\ tools' = Scan(tools, p)
  /\ resume' = (resume \ {p}) \cup Positions({NextAt(tools, p)}) \cup Restart(tools, p)
  /\ UNCHANGED <<hasErrored, aborted, pc, at, raced, emitted, ctx, orphans, attempt>>

\* The call hands messages to collectResults(): a progress message at any
\* time, the messages of its end all at once.
Awaits(i) == /\ tools[i].status = "executing" /\ ~tools[i].closed
             /\ tools[i].kind.io => Macrotask

Progress(i) ==
  /\ Awaits(i)
  /\ tools[i].progress + Len(tools[i].inbox) < MaxProgress
  /\ tools' = [tools EXCEPT ![i].inbox = Append(@, "progress")]
  /\ UNCHANGED <<hasErrored, aborted, resume, pc, at, raced, emitted, ctx,
                 orphans, attempt>>

End(i) ==
  /\ Awaits(i)
  /\ \E b \in Bursts :
       tools' = [tools EXCEPT ![i].inbox = @ \o b, ![i].closed = TRUE]
  /\ UNCHANGED <<hasErrored, aborted, resume, pc, at, raced, emitted, ctx,
                 orphans, attempt>>

\* The user rejects the call in its permission dialog with an abort: the
\* tool's own controller aborts, and the abort bubbles up to the query.
RejectAndAbort(i) ==
  /\ Awaits(i) /\ Macrotask
  /\ tools' = [tools EXCEPT ![i].inbox = @ \o <<"err">>, ![i].closed = TRUE]
  /\ aborted' = IF aborted = "no" /\ ~hasErrored THEN "user" ELSE aborted
  /\ UNCHANGED <<hasErrored, resume, pc, at, raced, emitted, ctx, orphans, attempt>>

Wake(i) == IF pc = "race" /\ i \in raced THEN "woken" ELSE pc

\* Mutated form: the context modifiers are forgotten.
CompleteWithoutContext(i, results) ==
  /\ tools' = [tools EXCEPT ![i].status = "completed", ![i].results = results,
                            ![i].inbox = <<>>, ![i].closed = TRUE]
  /\ resume' = resume \cup {1}
  /\ pc' = Wake(i)
  /\ UNCHANGED ctx

\* Mutated form: the finally does not restart the queue.
CompleteQuietly(i, results) ==
  /\ tools' = [tools EXCEPT ![i].status = "completed", ![i].results = results,
                            ![i].inbox = <<>>, ![i].closed = TRUE]
  /\ pc' = Wake(i)
  /\ ctx' = IF ~tools[i].kind.safe /\ \E n \in DOMAIN results : results[n] = "ok"
              THEN Append(ctx, i) ELSE ctx
  /\ UNCHANGED resume

\* The end of collectResults(): complete, apply the context modifiers of a
\* call that is not concurrency safe, and let the finally restart the queue.
Complete(i, results) ==
  /\ tools' = [tools EXCEPT ![i].status = "completed", ![i].results = results,
                            ![i].inbox = <<>>, ![i].closed = TRUE]
  /\ resume' = resume \cup {1}
  /\ pc' = Wake(i)
  /\ ctx' = IF ~tools[i].kind.safe /\ \E n \in DOMAIN results : results[n] = "ok"
              THEN Append(ctx, i) ELSE ctx

\* The query or a sibling has cancelled a call that has not failed itself.
Cancelled(i) == AbortReason(tools[i].kind) # "none" /\ ~tools[i].erred

\* The next message of the call reaches collectResults().
TakeUpdate(i) ==
  /\ tools[i].status = "executing" /\ tools[i].inbox # <<>>
  /\ ~Cancelled(i)
  /\ LET u == Head(tools[i].inbox) IN
     /\ tools' = [tools EXCEPT
          ![i].inbox = Tail(@),
          ![i].erred = @ \/ u = "err",
          ![i].progress = IF u = "progress" THEN @ + 1 ELSE @,
          ![i].results = IF u = "progress" THEN @ ELSE Append(@, u)]
     /\ hasErrored' = (hasErrored \/ (u = "err" /\ tools[i].kind.bash))
     /\ pc' = IF u = "progress" /\ pc = "race" THEN "woken" ELSE pc
  /\ UNCHANGED <<aborted, resume, at, raced, emitted, ctx, orphans, attempt>>

CancelTool(i) ==
  /\ tools[i].status = "executing" /\ tools[i].inbox # <<>>
  /\ Cancelled(i)
  /\ Complete(i, Append(tools[i].results, AbortReason(tools[i].kind)))
  /\ UNCHANGED <<hasErrored, aborted, at, raced, emitted, orphans, attempt>>

FinishTool(i) ==
  /\ tools[i].status = "executing" /\ tools[i].inbox = <<>> /\ tools[i].closed
  /\ Complete(i, tools[i].results)
  /\ UNCHANGED <<hasErrored, aborted, at, raced, emitted, orphans, attempt>>

----------------------------------------------------------------------------
(* The user                                                                *)

UserAbort ==
  /\ Macrotask /\ pc # "done" /\ aborted = "no"
  /\ aborted' = "user"
  /\ UNCHANGED <<tools, hasErrored, resume, pc, at, raced, emitted, ctx,
                 orphans, attempt>>

\* A new message while every executing tool is interruptible.
SubmitInterrupt ==
  /\ Macrotask /\ pc # "done" /\ aborted = "no"
  /\ Executing(tools) # {}
  /\ \A i \in Executing(tools) : tools[i].kind.cancel
  /\ aborted' = "interrupt"
  /\ UNCHANGED <<tools, hasErrored, resume, pc, at, raced, emitted, ctx,
                 orphans, attempt>>

Terminated == pc = "done" /\ orphans = {} /\ UNCHANGED vars

QueryLoop == \/ \E k \in Kinds : AddTool(k)
             \/ StreamEvent \/ StreamYieldResume \/ Discard \/ StartRemaining
             \/ AwaitedScan \/ AwaitedScanEnds \/ YieldResume \/ RaceEnds

ToolStep(i) == \/ Progress(i) \/ End(i) \/ RejectAndAbort(i)
               \/ TakeUpdate(i) \/ CancelTool(i) \/ FinishTool(i)

Next == \/ QueryLoop
        \/ OrphanEnds
        \/ \E p \in Tools : ProcessQueue(p)
        \/ \E i \in Tools : ToolStep(i)
        \/ UserAbort \/ SubmitInterrupt
        \/ Terminated

Spec == Init /\ [][Next]_vars

\* Microtasks run; a consumer that is handed a result asks for the next one.
\* The response ends and a call ends if the event loop turns often enough.
Fairness ==
  /\ WF_vars(StreamYieldResume) /\ WF_vars(YieldResume)
  /\ WF_vars(AwaitedScan) /\ WF_vars(AwaitedScanEnds) /\ WF_vars(RaceEnds)
  /\ \A p \in Tools : WF_vars(ProcessQueue(p))
  /\ \A i \in Tools : /\ WF_vars(TakeUpdate(i)) /\ WF_vars(CancelTool(i))
                      /\ WF_vars(FinishTool(i))
                      /\ SF_vars(End(i))
  /\ SF_vars(StartRemaining)

FairSpec == Spec /\ Fairness

----------------------------------------------------------------------------
(* Properties                                                              *)

Records == [kind : KindType, status : Statuses, results : Seq(Updates \cup Synthetic),
            progress : Nat, inbox : Seq(Updates), closed : BOOLEAN,
            erred : BOOLEAN]

Orphans == [of : 1..MaxAttempts, tool : Tools, safe : BOOLEAN]

\* The variables have their types.
TypeOK ==
  /\ tools \in [Tools -> Records]
  /\ hasErrored \in BOOLEAN
  /\ aborted \in {"no", "user", "interrupt"}
  /\ resume \subseteq Tools
  /\ pc \in {"stream", "streamYield", "pq", "yield", "race", "woken", "done"}
  /\ at \in 1..(MaxTools + 1)
  /\ raced \subseteq Tools
  /\ emitted \in Seq(Tools)
  /\ ctx \in Seq(Tools)
  /\ orphans \subseteq Orphans
  /\ attempt \in 1..MaxAttempts

\* A call that is not concurrency safe runs alone: however the suspended
\* processQueue() calls, completions and new blocks interleave, no other
\* call of this executor is executing beside it.
Exclusive ==
  \A i, j \in Executing(tools) : i # j => tools[i].kind.safe /\ tools[j].kind.safe

\* Calls start in the order the model made them: no call that was queued has
\* been started, or cancelled, before an earlier one, although several
\* processQueue() calls walk over the list at once.
StartedInOrder ==
  \A i, j \in Tools :
    /\ i < j /\ tools[i].status = "queued"
    /\ tools[j].kind.known
    => tools[j].status \in {"absent", "queued"}

\* A call that waits first in line and could run is never forgotten: some
\* suspended processQueue() call will still come past it.
Covered(T, positions) ==
  \A i \in Tools :
    /\ T[i].status = "queued" /\ CanExecute(T, i)
    /\ \A j \in Tools : j < i => T[j].status # "queued"
    => \E p \in positions : p <= i
NoStall == Covered(tools, resume \cup IF pc = "pq" THEN {at} ELSE {})

Results(i) == {tools[i].results[n] : n \in DOMAIN tools[i].results}

\* Every tool_use whose call is over has a tool_result, whichever of success,
\* error, sibling error or interruption ended it; and a call that fails is not
\* told that a sibling failed: its own error is its only tool_result.
Answered ==
  \A i \in Tools :
    /\ tools[i].status \in {"completed", "yielded"} => Results(i) \cap ToolResults # {}
    /\ "err" \in Results(i) => Results(i) \cap Synthetic = {}

\* The results of a call that is not concurrency safe come out before those
\* of every later call, however slowly the consumer takes results (unless the
\* model calls a tool that does not exist: its result overtakes a call that
\* waits, and takes the generator past it); context
\* modifiers are applied in the order of the blocks, and before the result of
\* a later call is handed out with the context.
Pos(i) == CHOOSE n \in 1..Len(emitted) : emitted[n] = i
ResultsInOrder ==
  /\ \A i, j \in Tools :
       /\ i < j /\ ~tools[i].kind.safe
       /\ tools[j].status = "yielded"
       /\ \A n \in i..j : tools[n].kind.known
       => tools[i].status = "yielded" /\ Pos(i) < Pos(j)
  /\ \A m, n \in DOMAIN ctx : m < n => ctx[m] < ctx[n]
  /\ \A i, j \in Tools :
       /\ i < j /\ tools[j].status = "yielded" /\ tools[j].kind.known
       /\ ~tools[i].kind.safe /\ "ok" \in Results(i)
       => \E n \in DOMAIN ctx : ctx[n] = i

\* After a Bash error or an abort by the user no further call begins to run.
NoStartAfterCancel ==
  [][hasErrored \/ aborted = "user" => Executing(tools') \subseteq Executing(tools)]_vars

\* The query loop gets the results of all calls and goes on.
ResultsEnd == <>(pc = "done")

----------------------------------------------------------------------------
(* The executor implements a queue of readers and writers.                 *)

Phase(t) == CASE t.status = "absent" -> "absent"
              [] t.status = "queued" -> "waiting"
              [] t.status = "executing" -> "running"
              [] OTHER -> "ended"

Schedule == INSTANCE ToolSchedule WITH
              Calls <- Tools,
              phase <- [i \in Tools |-> Phase(tools[i])],
              shared <- [i \in Tools |-> tools[i].kind.safe]

\* Every step of the executor is a step of the abstract schedule.
ImplementsSchedule == Schedule!Spec
=============================================================================
