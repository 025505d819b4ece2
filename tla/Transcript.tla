----------------------------- MODULE Transcript -----------------------------
(***************************************************************************)
(* The transcript of a conversation, from the messages of the REPL to the  *)
(* file: the effect that finds what is new (src/src/hooks/                 *)
(* useLogMessages.ts), recordTranscript() and insertMessageChain() of      *)
(* src/src/utils/sessionStorage.ts, and the file of TranscriptFile.        *)
(*                                                                         *)
(* A message is a number, in the order in which messages are made.  The    *)
(* effect runs when React renders, which may be after several changes.     *)
(***************************************************************************)
EXTENDS TranscriptFile

ASSUME MessagesAssumption == IsFiniteSet(Uuids) /\ Uuids = 1..Cardinality(Uuids)

\* A conversation begins with a message that stays.
ASSUME WithdrawnAssumption == \A s \in Setups : s.partials \cap ({1} \cup s.notes) = {}

VARIABLES
  messages,      \* messages of the REPL
  made,          \* how many messages were made
  shown,         \* the messages when the effect ran last
  hook,          \* its refs: length, parent, first
  calls,         \* the calls of recordTranscript(), in order
  known,         \* getSessionMessages(), the messages that were enqueued
  pending,       \* pendingEntries
  materialized,  \* whether there is a sessionFile
  handed,        \* the messages that were passed to recordTranscript()
  beside,        \* whether a call of it began beside another
  astray         \* whether the effect missed a message, or passed all of them beside another call

screenVars == <<messages, made, shown, hook, handed, beside, astray>>
callVars == <<calls, known, pending, materialized>>
vars == <<fileVars, screenVars, callVars>>

\* Attachments, which make no file, and assistant messages that may be withdrawn.
Notes == setup.notes
Partials == setup.partials

\* A call that is over.
Over == [pc |-> "over", slice |-> <<>>, hint |-> Root, full |-> FALSE, lines |-> <<>>, result |-> Root]

\* A call, until getSessionMessages() was awaited; full: all messages are passed.
Called(slice, full, hint) ==
  [pc |-> "loads", slice |-> slice, hint |-> hint, full |-> full, lines |-> <<>>, result |-> Root]

Init ==
  /\ FileInit
  /\ messages = <<>> /\ made = 0 /\ shown = <<>> /\ handed = {} /\ beside = FALSE /\ astray = FALSE
  /\ hook = [length |-> 0, parent |-> Root, first |-> Root]
  /\ calls = <<>> /\ known = {} /\ pending = <<>> /\ materialized = FALSE

----------------------------------------------------------------------------
(* The screen                                                              *)

Elements(s) == {s[i] : i \in DOMAIN s}

\* A message is made.
Say ==
  /\ made + 1 \in setup.uuids
  /\ made' = made + 1 /\ messages' = Append(messages, made')
  /\ UNCHANGED <<fileVars, callVars, shown, hook, handed, beside, astray>>

\* A tombstone: the message leaves the screen, and the file if there is one.
Tombstone ==
  /\ messages # <<>> /\ Last(messages) \in Partials
  /\ messages' = Front(messages)
  /\ IF materialized THEN RemoveMessage(Last(messages))
     ELSE removal' = [removal EXCEPT !.targets = @ \cup {Last(messages)}] /\ UNCHANGED tracked
  /\ UNCHANGED <<setup, queue, timer, drains, active, file, flush, failed, cut, overlapped>>
  /\ UNCHANGED <<callVars, made, shown, hook, handed, beside, astray>>

\* Mutated form: after a shrink the parent stays what it was.
SyncWalkOfNew(incremental, first, shrink) == incremental \/ first

\* When the last message of the slice is the parent of the next.
SyncWalk(incremental, first, shrink) == incremental \/ first \/ shrink

\* The effect of useLogMessages(), after a render.
Render ==
  /\ messages # shown
  /\ shown' = messages
  /\ LET first       == messages # <<>> /\ hook.first = Root
         same        == messages # <<>> /\ ~first /\ hook.first = Head(messages)
         incremental == same /\ hook.length <= Len(messages)
         shrink      == same /\ hook.length > Len(messages)
         start       == IF incremental THEN hook.length ELSE 0
         slice       == SubSeq(messages, start + 1, Len(messages))
         busy        == \E c \in DOMAIN calls : calls[c].pc # "over"
     IN /\ IF slice = <<>> THEN UNCHANGED <<hook, calls, handed, beside>>
           ELSE /\ calls' = Append(calls, Called(slice, ~incremental, IF incremental THEN hook.parent ELSE Root))
                /\ hook' = [length |-> Len(messages), first |-> Head(messages),
                            parent |-> IF SyncWalk(incremental, first, shrink) THEN Last(slice) ELSE hook.parent]
                /\ handed' = handed \cup Elements(slice)
                /\ beside' = (beside \/ busy)
        /\ astray' = (astray \/ ~Elements(messages) \subseteq handed' \/ (busy /\ ~incremental /\ slice # <<>>))
  /\ UNCHANGED <<fileVars, messages, made, known, pending, materialized>>

----------------------------------------------------------------------------
(* recordTranscript()                                                      *)

\* The message that the first new one follows: the last of a known prefix.
Start(slice, hint) ==
  LET prefix == {i \in DOMAIN slice : \A j \in 1..i : slice[j] \in known}
  IN IF prefix = {} THEN hint ELSE slice[Cardinality(prefix)]

\* Each new message follows the one before it.
Chain(new, start) ==
  [i \in DOMAIN new |-> Line(new[i], IF i = 1 THEN start ELSE new[i - 1])]

\* Mutated form: the buffered entries come last.
BufferedLast(buffered, chain) == chain \o buffered

\* materializeSessionFile() comes first.
BufferedFirst(buffered, chain) == buffered \o chain

\* The promise of c resolves; the effect uses the result of the latest call
\* when it passed all messages.
Resolved(c, result) ==
  IF c = Len(calls) /\ calls[c].full /\ result # Root THEN [hook EXCEPT !.parent = result] ELSE hook

\* getSessionMessages() was awaited: the messages that are new make a chain.
\* The first turn makes the file, for which the buffered entries come first.
Loaded(c) ==
  /\ calls[c].pc = "loads"
  /\ LET new   == Rejected(calls[c].slice, known)
         start == Start(calls[c].slice, calls[c].hint)
         makes == ~materialized /\ Elements(new) \ Notes # {}
     IN IF new = <<>>
          THEN /\ calls' = [calls EXCEPT ![c] = Over] /\ hook' = Resolved(c, start)
               /\ UNCHANGED <<pending, materialized, tracked>>
          ELSE /\ calls' = [calls EXCEPT ![c].pc = "appends", ![c].result = Last(new), ![c].slice = <<>>,
                              ![c].lines = BufferedFirst(IF makes THEN pending ELSE <<>>, Chain(new, start))]
               /\ materialized' = (materialized \/ makes)
               /\ pending' = IF makes THEN <<>> ELSE pending
               /\ tracked' = tracked + 1
               /\ hook' = hook
  /\ UNCHANGED <<setup, queue, timer, drains, active, file, flush, removal, failed, cut, overlapped>>
  /\ UNCHANGED <<messages, made, shown, handed, beside, astray, known>>

\* Mutated form: an entry is appended whether it is known or not.
IsNewAlways(u) == TRUE

IsNew(u) == u \notin known

\* appendEntry(): buffered while there is no file, else enqueued when it is new.
AppendEntry(c) ==
  /\ calls[c].pc = "appends" /\ calls[c].lines # <<>>
  /\ calls' = [calls EXCEPT ![c].lines = Tail(@)]
  /\ LET line == Head(calls[c].lines)
     IN IF ~materialized THEN pending' = Append(pending, line) /\ UNCHANGED <<queue, timer, known>>
        ELSE /\ IF IsNew(line.uuid) THEN EnqueueWrite(line) /\ known' = known \cup {line.uuid}
                ELSE UNCHANGED <<queue, timer, known>>
             /\ pending' = pending
  /\ UNCHANGED <<setup, drains, active, file, flush, removal, tracked, failed, cut, overlapped>>
  /\ UNCHANGED <<screenVars, materialized>>

\* insertMessageChain() and recordTranscript() end.
Finish(c) ==
  /\ calls[c].pc = "appends" /\ calls[c].lines = <<>>
  /\ calls' = [calls EXCEPT ![c] = Over]
  /\ hook' = Resolved(c, calls[c].result)
  /\ Untrack
  /\ UNCHANGED <<setup, queue, timer, drains, active, file, removal, failed, cut, overlapped>>
  /\ UNCHANGED <<messages, made, shown, handed, beside, astray, known, pending, materialized>>

----------------------------------------------------------------------------

CallStep == \E c \in DOMAIN calls : Loaded(c) \/ AppendEntry(c) \/ Finish(c)
AnyFileStep == FileStep /\ UNCHANGED <<screenVars, callVars>>

Next == Say \/ Tombstone \/ Render \/ CallStep \/ AnyFileStep

Spec == Init /\ [][Next]_vars

\* React renders, promises resolve, timers fire and the file system answers.
Fairness ==
  /\ WF_vars(Render)
  /\ WF_vars(CallStep)
  /\ WF_vars(\E d \in Timers : TimerFires(d) /\ UNCHANGED <<screenVars, callVars>>)
  /\ \A d \in Timers : WF_vars((Written(d) \/ WriteFails(d)) /\ UNCHANGED <<screenVars, callVars>>)
  /\ \A f \in Flushers :
       WF_vars((FlushGoesOn(f) \/ FlushWritten(f) \/ FlushFails(f)) /\ UNCHANGED <<screenVars, callVars>>)
  /\ WF_vars(RemovalStep /\ UNCHANGED <<screenVars, callVars>>)

FairSpec == Spec /\ Fairness

----------------------------------------------------------------------------
(* Properties                                                              *)

Todo == UNION {Of(calls[c].lines) \cup Elements(calls[c].slice) : c \in DOMAIN calls}

TypeOK ==
  /\ FileTypeOK
  /\ messages \in Seq(Uuids) /\ shown \in Seq(Uuids) /\ made \in Nat
  /\ hook \in [length : Nat, parent : Uuids \cup {Root}, first : Uuids \cup {Root}]
  /\ calls \in Seq([pc : {"loads", "appends", "over"}, slice : Seq(Uuids), hint : Uuids \cup {Root},
                    full : BOOLEAN, lines : Seq(Lines), result : Uuids \cup {Root}])
  /\ known \subseteq Uuids /\ handed \subseteq Uuids
  /\ pending \in Seq(Lines) /\ materialized \in BOOLEAN /\ beside \in BOOLEAN /\ astray \in BOOLEAN
  /\ tracked = Cardinality({c \in DOMAIN calls : calls[c].pc = "appends"})
               + (IF removal.pc = "idle" THEN 0 ELSE 1)

\* A message that was passed to the transcript is still to be appended, or
\* waits, or is being written, or on disk, unless its write failed, or it was
\* withdrawn, or a removal took it along; and none is in the file, or on its
\* way to it, twice, although calls that overlap pass the same messages.
ExactlyOnce ==
  /\ handed \subseteq Todo \cup Of(pending) \cup Of(queue) \cup InFlight \cup Settled
  /\ \A s \in {file, queue} \cup {drains[d] : d \in Drainers} : Distinct(s)
  /\ OnDisk \cap (Of(queue) \cup InFlight) = {} /\ Of(queue) \cap InFlight = {}
  /\ \A d, e \in Drainers : d # e => Of(drains[d]) \cap Of(drains[e]) = {}

\* What the screen shows was passed to the transcript.
AllRecorded == Elements(shown) \subseteq handed

\* The chain skips nothing: between a message and the one it follows there is
\* none that was recorded and not withdrawn.  And the next message will follow
\* the last that was on the screen when the effect ran.  So it is as long as the
\* effect missed no message, and did not pass all of them, as it does when some
\* were withdrawn, while an earlier call was under way.
ChainSkipsNothing ==
  ~astray =>
    /\ shown # <<>> => hook.parent = Last(shown)
    /\ \A l \in Range(file) \cup Range(queue) \cup UNION {Range(drains[d]) : d \in Drainers} :
         \A u \in handed \ removal.targets : ~(l.parent < u /\ u < l.uuid)

\* Whenever the program stops, each message in the file follows one that is in
\* the file before it, unless that one was withdrawn or lost, or a removal is
\* about to write it back: so it is as long as neither calls of
\* recordTranscript() nor drains run beside each other.
CrashSafe ==
  beside \/ overlapped \/
  \A i \in DOMAIN file :
    LET p == file[i].parent
    IN p \in {Root} \cup failed \cup cut \cup removal.targets \cup Held \cup Of(SubSeq(file, 1, i - 1))

\* When flush() returns, what was enqueued before its call is on disk, unless
\* some drain began beside another.
FlushCovers ==
  \A f \in Flushers : flush[f].pc = "returned" /\ ~overlapped => flush[f].promised \subseteq Settled

\* What is enqueued is written, or its write fails, and flush() ends.  Only
\* a flush() that fails leaves entries without a timer: it stops it first.
EverythingEnds ==
  /\ \A f \in Flushers : flush[f].pc # "idle" ~> flush[f].pc \in {"returned", "failed"}
  /\ \A u \in Uuids : u \in known ~> u \in Settled \/ \E f \in Flushers : flush[f].pc = "failed"
=============================================================================
