------------------------------ MODULE QueryLoop ------------------------------
(***************************************************************************)
(* The loop of a query (queryLoop() in src/src/query.ts): it sends the     *)
(* conversation to the model, hands the calls of the response to the       *)
(* executor of the tools, and goes on with their results until there are   *)
(* none; in between responses are cut off, repeated without streaming or   *)
(* by another model, hooks hold the end up, and the user interrupts.       *)
(*                                                                         *)
(* What the loop keeps is only a part: its caller keeps what was yielded   *)
(* (view), and starts the next query from that.                            *)
(*                                                                         *)
(* An action ends where the loop awaits something or yields.  The executor *)
(* is that of StreamingToolExecutor, here with the freedom to finish its   *)
(* calls at any time and in any order.                                     *)
(***************************************************************************)
EXTENDS ToolPairing

CONSTANTS
  RecoveryLimit,   \* MAX_OUTPUT_TOKENS_RECOVERY_LIMIT
  MaxTurns,        \* maxTurns of the query
  MaxMessages,     \* bound: the messages of a response, but for a final error
  Setups           \* bounds: how often what comes from outside may happen

ASSUME QueryAssumption ==
  /\ RecoveryLimit \in Nat /\ MaxTurns \in Nat \ {0} /\ MaxMessages \in Nat
  /\ Setups \subseteq [queries : Nat, requests : Nat, texts : Nat, uses : Nat, truncations : Nat,
                       blocks : Nat, stops : Nat, attachments : Nat, compactions : Nat,
                       fallbacks : Nat, aborts : Nat, capEnabled : BOOLEAN]

VARIABLES
  left,       \* what may still happen; the ids of responses and calls count it down
  pc,         \* where the loop is
  view,       \* the messages of the caller: those that were yielded
  sent,       \* state.messages, messagesForQuery: those that the model is sent
  loop,       \* the rest of State
  req,        \* the variables of one turn of the loop
  streaming,  \* config.gates.streamingToolExecution
  model,      \* mainLoopModel
  aborted,    \* the reason of the abort signal, or "no"
  clean       \* whether the query began with a conversation that needs no repair

vars == <<left, pc, view, sent, loop, req, streaming, model, aborted, clean>>

FirstTurn == [turnCount |-> 1, recoveryCount |-> 0, escalated |-> FALSE, failures |-> 0]

\* given and out are the calls that the executor has, and those whose results
\* came out; prevent is whether a hook asked to stop (shouldPreventContinuation).
NewRequest == [assistantMessages |-> <<>>, toolResults |-> <<>>, given |-> {}, out |-> {},
               fellBack |-> FALSE, prevent |-> FALSE]

LastMessage == Last(req.assistantMessages)
EndsWith(error) == req.assistantMessages # <<>> /\ LastMessage.error = error
NeedsFollowUp == Uses(req.assistantMessages) # {}

Request == Pair(Normalize(sent))

Init ==
  /\ left \in Setups
  /\ pc = "idle" /\ view = <<>>
  /\ sent = <<>> /\ loop = FirstTurn /\ req = NewRequest
  /\ streaming = TRUE /\ model = "main" /\ aborted = "no" /\ clean = TRUE

\* The query returns, and its variables are gone.
Return ==
  /\ pc' = "idle"
  /\ sent' = <<>> /\ loop' = FirstTurn /\ req' = NewRequest
  /\ streaming' = TRUE /\ model' = "main" /\ aborted' = "no" /\ clean' = TRUE

----------------------------------------------------------------------------
(* The caller                                                              *)

\* The user says something and the caller starts a query.
Submit ==
  /\ pc = "idle" /\ left.queries > 0
  /\ left' = [left EXCEPT !.queries = @ - 1]
  /\ view' = Append(view, Text) /\ sent' = view'
  /\ clean' = WellFormed(Normalize(view'))
  /\ pc' = "request" /\ loop' = FirstTurn /\ req' = NewRequest
  /\ streaming' \in BOOLEAN /\ model' = "main" /\ aborted' = "no"

\* The user interrupts, with Escape or by the next prompt.
Abort ==
  /\ pc # "idle" /\ aborted = "no" /\ left.aborts > 0
  /\ left' = [left EXCEPT !.aborts = @ - 1]
  /\ aborted' \in {"user-cancel", "interrupt"}
  /\ UNCHANGED <<pc, view, sent, loop, req, streaming, model, clean>>

\* Escape while text streams in: what there is of it is kept, as a message of a
\* response of its own.
Partial(m) == IsAssistant(m) /\ m.rid < 0
AbortText ==
  /\ pc = "stream" /\ aborted = "no" /\ left.aborts > 0 /\ left.texts > 0
  /\ left' = [left EXCEPT !.aborts = @ - 1, !.texts = @ - 1]
  /\ aborted' = "user-cancel"
  /\ view' = Append(view, Assistant(-left.aborts, {}, "none"))
  /\ UNCHANGED <<pc, sent, loop, req, streaming, model, clean>>

----------------------------------------------------------------------------
(* The request and its response                                            *)

\* What autocompact makes of the conversation: nothing, a summary that takes its
\* place, or a failure that is counted.
NotCompacted == UNCHANGED <<view, sent, loop>>
Compacted ==
  /\ left.compactions > 0
  /\ view' = <<Text>> /\ sent' = <<Text>>
  /\ loop' = [loop EXCEPT !.failures = 0]
CompactionFailed ==
  /\ left.compactions > 0 /\ loop.failures < 3
  /\ loop' = [loop EXCEPT !.failures = @ + 1]
  /\ UNCHANGED <<view, sent>>

StartRequest ==
  /\ pc = "request" /\ left.requests > 0
  /\ \/ NotCompacted /\ left' = [left EXCEPT !.requests = @ - 1]
     \/ /\ Compacted \/ CompactionFailed
        /\ left' = [left EXCEPT !.requests = @ - 1, !.compactions = @ - 1]
  /\ req' = NewRequest
  /\ pc' = "stream"
  /\ UNCHANGED <<streaming, model, aborted, clean>>

\* Mutated form: no tombstones for what came before the fallback.
WithdrawnNone(ms) == ms

\* Mutated form: the results of the calls that are withdrawn are kept.
AttemptWithResults == IF req.fellBack THEN [req EXCEPT !.assistantMessages = <<>>] ELSE req

\* After the response fell back to one without streaming, its first message
\* withdraws what came before, and the executor with it.
Withdrawn(ms) ==
  IF req.fellBack THEN Rejected(ms, Range(req.assistantMessages)) ELSE ms
Attempt == IF req.fellBack THEN [NewRequest EXCEPT !.fellBack = TRUE] ELSE req

\* The results that the executor has ready: any of the calls it was given.
Ready(ids) == [i \in 1..Cardinality(ids) |-> User(<<Result(SetToSeq(ids)[i], TRUE)>>, FALSE)]
Deliver(r, ids) == [r EXCEPT !.toolResults = @ \o Ready(ids), !.out = @ \cup ids]

\* A message ms of the response (or none: an event of the stream), and the results
\* that are ready by then.  Here the loop does not look at what hooks say of them.
Receive(ms) ==
  LET begun == Attempt
      shown == Rejected(ms, {m \in Range(ms) : m.error = "max_output_tokens"})
      r == [begun EXCEPT !.assistantMessages = @ \o ms,
                         !.given = IF streaming /\ aborted = "no" THEN @ \cup Uses(ms) ELSE @]
  IN \E ids \in SUBSET (r.given \ r.out) :
       /\ aborted # "no" => ids = {}
       /\ req' = Deliver(r, ids)
       /\ view' = Withdrawn(view) \o shown \o Ready(ids)
       /\ model' = model

\* An error is the last message, and so is the answer without streaming.
Complete ==
  \/ EndsWith("max_output_tokens") \/ EndsWith("api_error")
  \/ req.fellBack /\ req.assistantMessages # <<>> /\ LastMessage.rid = left.requests

Streams ==
  /\ pc = "stream" /\ ~Complete
  /\ aborted # "no" => req.assistantMessages # <<>>
  /\ UNCHANGED <<pc, sent, loop, streaming, aborted, clean>>

ReceiveText ==
  /\ Streams
  /\ Attempt.assistantMessages = <<>> /\ left.texts > 0
  /\ Receive(<<Assistant(left.requests, {}, "none")>>)
  /\ left' = [left EXCEPT !.texts = @ - 1]

\* A block is a message of its own; without streaming all are in one.
ReceiveUse ==
  /\ Streams
  /\ Len(Attempt.assistantMessages) < MaxMessages
  /\ \E n \in 1..left.uses :
       /\ n > 1 => req.fellBack
       /\ Receive(<<Assistant(left.requests, (left.uses - n + 1)..left.uses, "none")>>)
       /\ left' = [left EXCEPT !.uses = @ - n]

\* The response is cut off at the limit of its tokens, or fails.
ReceiveError ==
  /\ Streams
  /\ \E error \in {"max_output_tokens", "api_error"} :
       /\ error = "max_output_tokens" => ~req.fellBack /\ left.truncations > 0
       /\ Receive(<<Assistant(left.requests, {}, error)>>)
       /\ left' = [left EXCEPT !.truncations = IF error = "api_error" THEN @ ELSE @ - 1]

ReceiveEvent == Streams /\ Receive(<<>>) /\ UNCHANGED left

\* onStreamingFallback(): the stream broke, the request is made without one.
StreamingFallback ==
  /\ Streams /\ ~req.fellBack /\ aborted = "no"
  /\ left.fallbacks > 0 /\ left.requests > 0
  /\ left' = [left EXCEPT !.fallbacks = @ - 1, !.requests = @ - 1]
  /\ req' = [req EXCEPT !.fellBack = TRUE]
  /\ UNCHANGED <<view, model>>

\* yieldMissingToolResultBlocks(): an answer to every call, answered or not.
MissingResults(ms) ==
  LET ids == SetToSeq(Uses(ms)) IN [i \in DOMAIN ids |-> User(<<Result(ids[i], FALSE)>>, FALSE)]

\* FallbackTriggeredError: the model is overloaded, another one is asked.  Nothing
\* of the response is left by then (withRetry() yields before it gives up).
ModelFallback ==
  /\ Streams /\ req.assistantMessages = <<>> /\ model = "main"
  /\ left.fallbacks > 0
  /\ left' = [left EXCEPT !.fallbacks = @ - 1]
  /\ view' = view \o MissingResults(req.assistantMessages)
  /\ req' = NewRequest
  /\ model' = "fallback"

End(shown) ==
  /\ view' = view \o shown
  /\ Return
  /\ UNCHANGED left

\* callModel() throws something else.
ModelError ==
  /\ pc = "stream"
  /\ End(Append(MissingResults(req.assistantMessages), Assistant(left.requests, {}, "api_error")))

StreamEnd ==
  /\ pc = "stream"
  /\ aborted = "no" /\ req.fellBack => Complete
  /\ pc' = "received"
  /\ UNCHANGED <<left, view, sent, loop, req, streaming, model, aborted, clean>>

----------------------------------------------------------------------------
(* After the response                                                      *)

\* The calls without a result that the executor, or runTools(), is asked for.
Remaining == (IF streaming THEN req.given ELSE Uses(req.assistantMessages)) \ req.out

Interruption == IF aborted = "interrupt" THEN <<>> ELSE <<Text>>

AbortedStreaming ==
  /\ pc = "received" /\ aborted # "no"
  /\ End((IF streaming THEN Ready(Remaining) ELSE MissingResults(req.assistantMessages))
           \o Interruption)

\* The summary of the tools of the turn before is awaited.
NotAborted ==
  /\ pc = "received" /\ aborted = "no"
  /\ pc' = IF NeedsFollowUp THEN "tools" ELSE "answered"
  /\ UNCHANGED <<left, view, sent, loop, req, streaming, model, aborted, clean>>

Continue(messages, next) ==
  /\ sent' = messages
  /\ loop' = next
  /\ pc' = "request"
  /\ UNCHANGED <<left, req, streaming, model, aborted, clean>>

\* The same request again, with a higher limit.
Escalate ==
  /\ pc = "answered" /\ EndsWith("max_output_tokens")
  /\ left.capEnabled /\ ~loop.escalated
  /\ Continue(sent, [loop EXCEPT !.escalated = TRUE])
  /\ UNCHANGED view

\* Mutated form: the recoveries are not counted.
RecoverUncounted ==
  /\ pc = "answered" /\ EndsWith("max_output_tokens")
  /\ left.capEnabled => loop.escalated
  /\ loop.recoveryCount < RecoveryLimit
  /\ Continue(sent \o Append(req.assistantMessages, Text), [loop EXCEPT !.escalated = FALSE])
  /\ UNCHANGED view

\* The model is told to go on; the caller does not see that message.
Recover ==
  /\ pc = "answered" /\ EndsWith("max_output_tokens")
  /\ left.capEnabled => loop.escalated
  /\ loop.recoveryCount < RecoveryLimit
  /\ Continue(sent \o Append(req.assistantMessages, Text),
              [loop EXCEPT !.recoveryCount = @ + 1, !.escalated = FALSE])
  /\ UNCHANGED view

Exhausted ==
  /\ pc = "answered" /\ EndsWith("max_output_tokens")
  /\ left.capEnabled => loop.escalated
  /\ loop.recoveryCount >= RecoveryLimit
  /\ End(<<LastMessage>>)

\* No hooks for an error: they would ask the model to go on for ever.
Failed == pc = "answered" /\ EndsWith("api_error") /\ End(<<>>)

RunStopHooks ==
  /\ pc = "answered" /\ ~EndsWith("max_output_tokens") /\ ~EndsWith("api_error")
  /\ pc' = "hooks"
  /\ UNCHANGED <<left, view, sent, loop, req, streaming, model, aborted, clean>>

\* The hooks have nothing to say, fail, or prevent the continuation.
HooksPass == pc = "hooks" /\ End(<<>>)
HooksCancelled == pc = "hooks" /\ aborted # "no" /\ End(<<Text>>)
HooksBlock ==
  /\ pc = "hooks" /\ left.blocks > 0
  /\ left' = [left EXCEPT !.blocks = @ - 1]
  /\ view' = Append(view, Text)
  /\ sent' = sent \o Append(req.assistantMessages, Text)
  /\ loop' = [loop EXCEPT !.recoveryCount = 0, !.escalated = FALSE]
  /\ pc' = "request"
  /\ UNCHANGED <<req, streaming, model, aborted, clean>>

----------------------------------------------------------------------------
(* The tools                                                               *)

\* The next result; here the loop looks at what the hooks of the call say.
ToolResult ==
  /\ pc = "tools"
  /\ \E id \in Remaining, asks \in BOOLEAN :
       /\ asks => left.stops > 0
       /\ req' = [Deliver(req, {id}) EXCEPT !.prevent = @ \/ asks]
       /\ view' = view \o Ready({id})
  /\ UNCHANGED <<left, pc, sent, loop, streaming, model, aborted, clean>>

AbortedTools ==
  /\ pc = "tools" /\ Remaining = {} /\ aborted # "no"
  /\ End(Interruption)

HookStopped ==
  /\ pc = "tools" /\ Remaining = {} /\ aborted = "no" /\ req.prevent
  /\ End(<<>>)

\* The queue and other attachments go to the model after the results.
NextTurn ==
  /\ pc = "tools" /\ Remaining = {} /\ aborted = "no" /\ ~req.prevent
  /\ \E n \in {0, 1} :
       LET attached == SubSeq(<<Text>>, 1, n) IN
       /\ n <= left.attachments
       /\ left' = [left EXCEPT !.attachments = @ - n]
       /\ view' = view \o attached
       /\ IF loop.turnCount + 1 > MaxTurns
          THEN Return
          ELSE /\ sent' = sent \o req.assistantMessages \o req.toolResults \o attached
               /\ loop' = [loop EXCEPT !.turnCount = @ + 1, !.recoveryCount = 0, !.escalated = FALSE]
               /\ pc' = "request"
               /\ UNCHANGED <<req, streaming, model, aborted, clean>>

----------------------------------------------------------------------------

Finished == pc = "idle" /\ left.queries = 0 /\ UNCHANGED vars

Respond ==
  \/ ReceiveText \/ ReceiveUse \/ ReceiveError \/ ReceiveEvent
  \/ StreamingFallback \/ ModelFallback \/ ModelError

Step ==
  \/ StartRequest \/ StreamEnd \/ AbortedStreaming \/ NotAborted
  \/ Escalate \/ Recover \/ Exhausted \/ Failed
  \/ RunStopHooks \/ HooksPass \/ HooksCancelled \/ HooksBlock
  \/ ToolResult \/ AbortedTools \/ HookStopped \/ NextTurn

Next == Submit \/ Abort \/ AbortText \/ Respond \/ Step \/ Finished

Spec == Init /\ [][Next]_vars

\* A response goes on to its end, hooks and calls end (ResultsEnd of the executor).
FairSpec == Spec /\ WF_vars(Respond) /\ WF_vars(Step)

----------------------------------------------------------------------------
(* Properties                                                              *)

Requested == pc = "stream" /\ req = NewRequest

\* Whatever happened before, the model is sent a conversation that the API
\* accepts, and no call whose result is there has another one in its place -
\* unless Escape kept a part of an answer between the two.
RequestPaired ==
  Requested =>
    /\ WellFormed(Request)
    /\ \A r \in ResultsOf(sent) :
         r.real /\ r.id \in Uses(Request) =>
           r \in ResultsOf(Request) \/ \E m \in Range(sent) : Partial(m)

\* A query adds nothing that needs repair (in the strict mode of
\* ensureToolResultPairing() the query would fail for it).
NothingToRepair == Requested /\ clean => WellFormed(Normalize(sent))

\* The caller and the loop agree on the calls and their results, so that the
\* next query tells the model what this one did.
Calls(ms) == <<Uses(ms), ResultsOf(ms)>>
ViewAgrees == Requested => Calls(Pair(Normalize(view))) = Calls(Request)

\* Every query ends.
QueryEnds == pc # "idle" ~> pc = "idle"
=============================================================================
