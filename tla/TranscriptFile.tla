--------------------------- MODULE TranscriptFile ---------------------------
(***************************************************************************)
(* How the transcript of a session reaches its file (class Project of      *)
(* src/src/utils/sessionStorage.ts): a queue that a timer drains, flush(), *)
(* and the removal of a message that was withdrawn.                        *)
(*                                                                         *)
(* A line is a message with the one it follows.  An action ends at the     *)
(* next await; an append to the file happens when it is over.              *)
(***************************************************************************)
EXTENDS Integers, FiniteSets, SequencesExt, Selections

CONSTANTS Uuids,        \* the messages
          Timers,       \* bound: the drains of timers that are under way at once
          Flushers,     \* the calls of flush()
          Setups        \* which of these a behaviour has, and what may fail

Root == 0               \* the parent of the first message
None == "none"
Rejection == "rejected"

ASSUME FileAssumption ==
  /\ Root \notin Uuids
  /\ Timers \subseteq STRING /\ {None, Rejection} \cap Timers = {}
  /\ Flushers \subseteq STRING /\ Timers \cap Flushers = {}
  /\ \A s \in Setups : /\ s.uuids \subseteq Uuids /\ s.notes \cup s.partials \subseteq s.uuids
                       /\ s.timers \subseteq Timers /\ s.flushers \subseteq Flushers
                       /\ s.failures \in Nat

VARIABLES
  setup,      \* which messages, drains and calls of flush() there are
  queue,      \* writeQueues: the lines that wait
  timer,      \* whether flushTimer is set
  drains,     \* the lines that each drainWriteQueue() is writing
  active,     \* activeDrain: a drain, None, or Rejection
  file,       \* the lines of the file
  flush,      \* the calls of flush()
  removal,    \* removeMessageByUuid(), the one that is under way
  tracked,    \* pendingWriteCount
  failed,     \* the messages whose write failed
  cut,        \* the messages that a removal took along
  overlapped  \* whether a drain of a timer began beside another, or two of flush()

fileVars == <<setup, queue, timer, drains, active, file, flush, removal, tracked, failed, cut, overlapped>>

Drainers == Timers \cup Flushers
Line(u, p) == [uuid |-> u, parent |-> p]
Lines == [uuid : Uuids, parent : Uuids \cup {Root}]
Of(s) == {s[i].uuid : i \in DOMAIN s}
Distinct(s) == \A i, j \in DOMAIN s : s[i].uuid = s[j].uuid => i = j

InFlight == UNION {Of(drains[d]) : d \in Drainers}
OnDisk == Of(file)

NotCalled == [pc |-> "idle", on |-> None, promised |-> {}]
NoRemoval == [pc |-> "idle", target |-> Root, snap |-> <<>>, pos |-> 0, targets |-> {}]

FileInit ==
  /\ setup \in Setups
  /\ queue = <<>> /\ timer = FALSE /\ file = <<>>
  /\ drains = [d \in Drainers |-> <<>>] /\ active = None
  /\ flush = [f \in Flushers |-> NotCalled]
  /\ removal = NoRemoval
  /\ tracked = 0 /\ failed = {} /\ cut = {} /\ overlapped = FALSE

----------------------------------------------------------------------------
(* The queue                                                               *)

\* scheduleDrain(), when the queue has become q.
Scheduled(q) == timer \/ q # <<>>

\* enqueueWrite()
EnqueueWrite(line) ==
  /\ queue' = Append(queue, line)
  /\ timer' = Scheduled(queue')

\* drainWriteQueue(), to its append, where none of others should be writing.
Drain(d, others) ==
  /\ drains' = [drains EXCEPT ![d] = queue]
  /\ queue' = <<>>
  /\ overlapped' = (overlapped \/ \E e \in others : drains[e] # <<>>)

\* The callback of flushTimer.  There is nothing to await when the queue is
\* empty; activeDrain is reset all the same.  A flush() whose drain is over
\* goes on before any timer fires, as promises do.
TimerFires(d) ==
  /\ timer /\ drains[d] = <<>>
  /\ \A f \in Flushers : flush[f].on # None => drains[flush[f].on] # <<>>
  /\ timer' = FALSE /\ Drain(d, Drainers)
  /\ active' = IF queue = <<>> THEN None ELSE d
  /\ UNCHANGED <<setup, file, flush, removal, tracked, failed, cut>>

\* The append of a timer's drain is over, whose batch was taken out of the
\* queue before.  activeDrain is reset, also when it is another by now.
Written(d) ==
  /\ drains[d] # <<>>
  /\ file' = file \o drains[d]
  /\ drains' = [drains EXCEPT ![d] = <<>>]
  /\ active' = None
  /\ timer' = Scheduled(queue)
  /\ UNCHANGED <<setup, queue, flush, removal, tracked, failed, cut, overlapped>>

\* Both attempts of appendToFile() failed.  The callback rejects: its promise
\* stays in activeDrain, when it is the last that was put there, and no timer
\* is set.
WriteFails(d) ==
  /\ drains[d] # <<>> /\ Cardinality(failed) < setup.failures
  /\ failed' = failed \cup Of(drains[d])
  /\ drains' = [drains EXCEPT ![d] = <<>>]
  /\ active' = IF active = d THEN Rejection ELSE active
  /\ flush' = [f \in Flushers |-> IF flush[f].on = d THEN [flush[f] EXCEPT !.pc = "failed", !.on = None] ELSE flush[f]]
  /\ UNCHANGED <<setup, queue, timer, file, removal, tracked, cut, overlapped>>

----------------------------------------------------------------------------
(* flush()                                                                 *)

\* Mutated form: a drain that is under way is not awaited.
AwaitedNever(f) == FALSE

\* Whether flush() has a drain to await.
Awaited(f) == active # None

\* What is left to do after the own drain: non-queue operations.
Counting == IF tracked = 0 THEN "returned" ELSE "counts"

\* flush() drains what is left, and goes on at once when that is nothing.
FlushDrains(f, promised) ==
  /\ Drain(f, Flushers)
  /\ flush' = [flush EXCEPT ![f] = [pc |-> IF queue = <<>> THEN Counting ELSE "drains",
                                    on |-> None, promised |-> promised]]

\* The call: the timer is cleared; a rejected drain rejects the call.
Flush(f) ==
  /\ flush[f].pc = "idle"
  /\ timer' = FALSE
  /\ LET promised == Of(queue) \cup InFlight
     IN IF ~Awaited(f) THEN FlushDrains(f, promised)
        ELSE /\ flush' = [flush EXCEPT ![f] =
                            IF active = Rejection THEN [NotCalled EXCEPT !.pc = "failed"]
                            ELSE [pc |-> "waits", on |-> active, promised |-> promised]]
             /\ UNCHANGED <<queue, drains, overlapped>>
  /\ UNCHANGED <<setup, active, file, removal, tracked, failed, cut>>

\* The drain it waited for is over.
FlushGoesOn(f) ==
  /\ flush[f].pc = "waits" /\ drains[flush[f].on] = <<>>
  /\ FlushDrains(f, flush[f].promised)
  /\ UNCHANGED <<setup, timer, active, file, removal, tracked, failed, cut>>

FlushWritten(f) ==
  /\ flush[f].pc = "drains"
  /\ file' = file \o drains[f]
  /\ drains' = [drains EXCEPT ![f] = <<>>]
  /\ flush' = [flush EXCEPT ![f].pc = Counting]
  /\ UNCHANGED <<setup, queue, timer, active, removal, tracked, failed, cut, overlapped>>

FlushFails(f) ==
  /\ flush[f].pc = "drains" /\ Cardinality(failed) < setup.failures
  /\ failed' = failed \cup Of(drains[f])
  /\ drains' = [drains EXCEPT ![f] = <<>>]
  /\ flush' = [flush EXCEPT ![f].pc = "failed"]
  /\ UNCHANGED <<setup, queue, timer, active, file, removal, tracked, cut, overlapped>>

\* Mutated form: the flushers are not woken.
WokenNone(count) == flush

\* decrementPendingWrites() resolves the flushers when the count is zero.
Woken(count) ==
  IF count > 0 THEN flush
  ELSE [f \in Flushers |-> IF flush[f].pc = "counts" THEN [flush[f] EXCEPT !.pc = "returned"] ELSE flush[f]]

\* Mutated form: the end is not counted.
UntrackNot == tracked' = tracked /\ flush' = flush

\* The end of a call of trackWrite().
Untrack == tracked' = tracked - 1 /\ flush' = Woken(tracked - 1)

----------------------------------------------------------------------------
(* removeMessageByUuid().  Lines count as equally long.                    *)

Position(u, s) == {i \in DOMAIN s : s[i].uuid = u}

\* The lines that follow the one to remove, while they are not in the file.
After == SubSeq(removal.snap, removal.pos + 1, Len(removal.snap))
Held == IF removal.pc = "writes" THEN Of(After) ELSE {}

\* What has been written, or will not be any more.
Settled == OnDisk \cup Held \cup failed \cup cut \cup removal.targets

\* The call, until the file is open; bound: one at a time.
RemoveMessage(u) ==
  /\ removal.pc = "idle"
  /\ removal' = [removal EXCEPT !.pc = "reads", !.target = u, !.targets = @ \cup {u}]
  /\ tracked' = tracked + 1

RemovalEnds ==
  /\ removal' = [NoRemoval EXCEPT !.targets = removal.targets]
  /\ Untrack

\* The tail is read and searched.
ReadTail ==
  /\ removal.pc = "reads"
  /\ IF file = <<>> THEN RemovalEnds
     ELSE /\ removal' = [removal EXCEPT
               !.pc = IF Position(removal.target, file) = {} THEN "rereads" ELSE "cuts",
               !.snap = file,
               !.pos = IF Position(removal.target, file) = {} THEN 0
                       ELSE CHOOSE i \in Position(removal.target, file) :
                              \A j \in Position(removal.target, file) : j <= i]
          /\ UNCHANGED <<tracked, flush>>
  /\ UNCHANGED <<setup, queue, timer, drains, active, file, failed, cut, overlapped>>

\* truncate(): what was appended since the tail was read goes too.
Truncate ==
  /\ removal.pc = "cuts"
  /\ file' = SubSeq(file, 1, removal.pos - 1)
  /\ cut' = cut \cup (OnDisk \ Of(removal.snap))
  /\ IF removal.pos = Len(removal.snap) THEN RemovalEnds
     ELSE removal' = [removal EXCEPT !.pc = "writes"] /\ UNCHANGED <<tracked, flush>>
  /\ UNCHANGED <<setup, queue, timer, drains, active, failed, overlapped>>

\* The lines that followed are written back, over what came in between.
WriteBack ==
  /\ removal.pc = "writes"
  /\ LET end == removal.pos - 1 + Len(After)
     IN /\ file' = SubSeq(file, 1, removal.pos - 1) \o After \o SubSeq(file, end + 1, Len(file))
        /\ cut' = cut \cup (Of(SubSeq(file, removal.pos, Len(file))) \ Of(file'))
  /\ RemovalEnds
  /\ UNCHANGED <<setup, queue, timer, drains, active, failed, overlapped>>

\* The slow path: the whole file is read, and written without the line.
Reread ==
  /\ removal.pc = "rereads"
  /\ removal' = [removal EXCEPT !.pc = "rewrites", !.snap = file]
  /\ UNCHANGED <<setup, queue, timer, drains, active, file, flush, tracked, failed, cut, overlapped>>

Rewrite ==
  /\ removal.pc = "rewrites"
  /\ file' = Selected(removal.snap, {l \in Lines : l.uuid # removal.target})
  /\ cut' = cut \cup (OnDisk \ Of(removal.snap))
  /\ RemovalEnds
  /\ UNCHANGED <<setup, queue, timer, drains, active, failed, overlapped>>

----------------------------------------------------------------------------

DrainStep == \E d \in setup.timers : TimerFires(d) \/ Written(d) \/ WriteFails(d)
FlushStep == \E f \in setup.flushers : FlushGoesOn(f) \/ FlushWritten(f) \/ FlushFails(f)
RemovalStep == ReadTail \/ Truncate \/ WriteBack \/ Reread \/ Rewrite

FileStep == DrainStep \/ FlushStep \/ RemovalStep \/ \E f \in setup.flushers : Flush(f)

FileTypeOK ==
  /\ setup \in Setups
  /\ queue \in Seq(Lines) /\ file \in Seq(Lines)
  /\ timer \in BOOLEAN /\ overlapped \in BOOLEAN /\ tracked \in Nat
  /\ drains \in [Drainers -> Seq(Lines)]
  /\ active \in Timers \cup {None, Rejection}
  /\ flush \in [Flushers -> [pc : {"idle", "waits", "drains", "counts", "returned", "failed"},
                             on : Timers \cup {None}, promised : SUBSET Uuids]]
  /\ removal \in [pc : {"idle", "reads", "cuts", "writes", "rereads", "rewrites"},
                  target : Uuids \cup {Root}, snap : Seq(Lines), pos : Nat, targets : SUBSET Uuids]
  /\ failed \subseteq Uuids /\ cut \subseteq Uuids
=============================================================================
