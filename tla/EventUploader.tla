--------------------------- MODULE EventUploader ---------------------------
(***************************************************************************)
(* The uploader through which transports send events to the server         *)
(* (src/src/cli/transports/SerialBatchEventUploader.ts): batches, one at a *)
(* time, with retries, backpressure, flush() and close().                  *)
(*                                                                         *)
(* An action is one synchronous segment.  Events are numbered in the order *)
(* in which enqueue() is given them.                                       *)
(***************************************************************************)
EXTENDS Selections, SequencesExt

CONSTANTS MaxEvents,     \* bound: events
          MaxCalls,      \* bound: calls of enqueue()
          MaxFlushes,    \* bound: calls of flush()
          MaxLosses,     \* bound: send() failures that are not the events' fault
          Sizes,         \* the sizes of the arrays given to enqueue()
          Bad,           \* the events that cannot be serialized
          MaxBatchSize, MaxQueueSize,
          ByteLimit,     \* whether maxBatchBytes is defined
          MaxFailures,   \* maxConsecutiveFailures, 0 when undefined
          MayClose       \* whether close() may be called

Events == 1..MaxEvents
Calls == 1..MaxCalls
Flushes == 1..MaxFlushes

ASSUME SizeAssumption == /\ MaxEvents \in Nat /\ MaxCalls \in Nat /\ MaxFlushes \in Nat
                         /\ MaxLosses \in Nat /\ MaxFailures \in Nat
                         /\ MaxBatchSize \in Nat \ {0} /\ MaxQueueSize \in Nat \ {0}
                         /\ Sizes \subseteq Nat \ {0} /\ Bad \subseteq Events
                         /\ ByteLimit \in BOOLEAN /\ MayClose \in BOOLEAN

VARIABLES
  pending,    \* this.pending
  draining,   \* this.draining
  closed,     \* this.closed
  loops,      \* the running calls of drain(): where they wait, their batch
  blocked,    \* this.backpressureResolvers: the calls that wait
  woken,      \* calls of enqueue() whose promise was resolved, in order
  given,      \* the calls of enqueue() made so far: their events
  before,     \* for each of them, the calls that had returned when it was made
  returned,   \* the calls of enqueue() that have returned
  flush,      \* call of flush() -> its state, and the events it is for
  sent,       \* what the server received, in order, duplicates included
  dropped,    \* events dropped after maxConsecutiveFailures failures
  losses      \* failures so far

drainVars == <<pending, draining, loops, flush>>
callVars == <<blocked, woken, given, before, returned>>
serverVars == <<sent, dropped, losses>>
vars == <<drainVars, closed, callVars, serverVars>>

Good(e) == e \notin Bad
GoodEvents == {e \in Events : Good(e)}
InFlight == UNION {ToSet(loops[n].batch) : n \in DOMAIN loops}

Init ==
  /\ pending = <<>> /\ draining = FALSE /\ closed = FALSE
  /\ loops = <<>>
  /\ blocked = <<>> /\ woken = <<>>
  /\ given = <<>> /\ before = <<>> /\ returned = {}
  /\ flush = [f \in Flushes |-> [state |-> "none", events |-> {}]]
  /\ sent = <<>> /\ dropped = {} /\ losses = 0

----------------------------------------------------------------------------
(* The drain loop                                                          *)

\* takeBatch(): up to maxBatchSize events.  With a byte limit, which may cut
\* the batch after any event, it drops what cannot be serialized on its way.
Cuts(p) ==
  {n \in 1..Len(p) :
     LET batch == Selected(SubSeq(p, 1, n), GoodEvents) IN
     /\ Len(batch) <= MaxBatchSize
     /\ Len(batch) = MaxBatchSize => Good(p[n])
     /\ \/ n = Len(p) \/ Len(batch) = MaxBatchSize
        \/ batch # <<>> /\ Good(p[n + 1])}

Takes(p) ==
  IF ByteLimit
    THEN {[batch |-> Selected(SubSeq(p, 1, n), GoodEvents),
           rest |-> SubSeq(p, n + 1, Len(p))] : n \in Cuts(p)}
    ELSE LET n == IF Len(p) < MaxBatchSize THEN Len(p) ELSE MaxBatchSize
         IN {[batch |-> SubSeq(p, 1, n), rest |-> SubSeq(p, n + 1, Len(p))]}

\* The callers of flush() that wait return.
Notified(F) == [f \in Flushes |->
                  IF F[f].state = "waiting" THEN [F[f] EXCEPT !.state = "returned"]
                                            ELSE F[f]]

\* The end of drain() with the events p left.
Exit(others, p, F) ==
  /\ draining' = FALSE
  /\ loops' = others
  /\ pending' = p
  /\ flush' = IF p = <<>> THEN Notified(F) ELSE F

\* The loop of drain() from its head: it takes a batch and sends it, or ends.
\* A batch of which nothing is left is followed by the next one; the only one
\* there can be is the last.
LoopHead(others, p, failures, F) ==
  IF p = <<>> \/ closed
    THEN Exit(others, p, F)
    ELSE \E t \in Takes(p) :
           IF t.batch = <<>> THEN Exit(others, t.rest, F)
           ELSE /\ loops' = Append(others, [at |-> "sending", batch |-> t.batch,
                                            failures |-> failures])
                /\ pending' = t.rest
                /\ draining' = TRUE
                /\ flush' = F

CanDrain == ~draining /\ ~closed

\* drain(), called when p is pending.
Drain(p, F) == IF CanDrain THEN LoopHead(loops, p, 0, F)
                           ELSE pending' = p /\ flush' = F /\ UNCHANGED <<draining, loops>>

----------------------------------------------------------------------------
(* enqueue()                                                               *)

Full(n) == Len(pending) + n > MaxQueueSize

StillFull(n) == Full(n)

\* enqueue() of the call c from the check of the buffer to its next wait, or
\* to its end.
Admit(c, s, full) ==
  \/ /\ ~closed /\ full
     /\ blocked' = Append(blocked, c)
     /\ UNCHANGED <<drainVars, returned>>
  \/ /\ ~closed /\ ~full
     /\ Drain(pending \o s, flush)
     /\ returned' = returned \cup {c}
     /\ UNCHANGED blocked
  \/ /\ closed
     /\ returned' = returned \cup {c}
     /\ UNCHANGED <<drainVars, blocked>>

\* The number of the last event.
Numbered == IF given = <<>> THEN 0 ELSE Last(Last(given))

Enqueue(n) ==
  /\ Len(given) < MaxCalls /\ Numbered + n <= MaxEvents
  /\ LET s == [k \in 1..n |-> Numbered + k] IN
     /\ given' = Append(given, s)
     /\ before' = Append(before, returned)
     /\ Admit(Len(given) + 1, s, Full(n))
  /\ UNCHANGED <<closed, woken, serverVars>>

\* A call whose promise was resolved looks at the buffer again.
EnqueueResumes ==
  /\ woken # <<>>
  /\ woken' = Tail(woken)
  /\ LET c == Head(woken) IN Admit(c, given[c], StillFull(Len(given[c])))
  /\ UNCHANGED <<closed, given, before, serverVars>>

----------------------------------------------------------------------------
(* send()                                                                  *)

\* Promise continuations run before the event loop goes on.
Macrotask == woken = <<>>

\* Mutated form: nobody is woken.
ReleasedNone == UNCHANGED <<blocked, woken>>

\* releaseBackpressure()
Released == blocked' = <<>> /\ woken' = woken \o blocked

Waiting(n, at) == n \in DOMAIN loops /\ loops[n].at = at
Others(n) == RemoveAt(loops, n)

\* send() has delivered the batch.
SendResolves(n) ==
  /\ Macrotask /\ Waiting(n, "sending")
  /\ \A e \in ToSet(loops[n].batch) : Good(e)
  /\ sent' = sent \o loops[n].batch
  /\ Released
  /\ LoopHead(Others(n), pending, 0, flush)
  /\ UNCHANGED <<closed, given, before, returned, dropped, losses>>

\* Mutated forms: a failed batch goes behind what has come since, or is gone.
RequeuedBehind(batch) == pending \o batch
RequeuedNone(batch) == pending

Requeued(batch) == batch \o pending

GivesUp(failures) == MaxFailures # 0 /\ failures >= MaxFailures

\* send() throws, because the connection failed before or after the server
\* took the batch, or because an event cannot be serialized.  The batch is
\* given up, or put back until the delay is over.
SendFails(n) ==
  /\ Macrotask /\ Waiting(n, "sending")
  /\ LET batch == loops[n].batch
         broken == \E e \in ToSet(batch) : ~Good(e)
         failures == loops[n].failures + 1
     IN
     /\ IF broken THEN UNCHANGED <<losses, sent>>
                  ELSE /\ losses < MaxLosses /\ losses' = losses + 1
                       /\ sent' \in {sent, sent \o batch}
     /\ IF GivesUp(failures)
          THEN /\ dropped' = dropped \cup ToSet(batch)
               /\ Released
               /\ LoopHead(Others(n), pending, 0, flush)
          ELSE /\ pending' = Requeued(batch)
               /\ loops' = Append(Others(n),
                    [at |-> "sleeping", batch |-> <<>>,
                     failures |-> IF MaxFailures = 0 THEN 0 ELSE failures])
               /\ UNCHANGED <<draining, flush, blocked, woken, dropped>>
  /\ UNCHANGED <<closed, given, before, returned>>

\* The delay is over, or close() has cut it short.
WakeUp(n) ==
  /\ Macrotask /\ Waiting(n, "sleeping")
  /\ LoopHead(Others(n), pending, loops[n].failures, flush)
  /\ UNCHANGED <<closed, callVars, serverVars>>

----------------------------------------------------------------------------
(* flush() and close()                                                     *)

\* Mutated form: flush() does not wait for a batch that is being sent.
NothingToFlushPending == pending = <<>>

NothingToFlush == pending = <<>> /\ ~draining

\* The events flush() is called for: all that have entered the buffer and are
\* not at the server.
Unsent == ToSet(pending) \cup InFlight

Flush(f) ==
  /\ flush[f].state = "none" /\ \A g \in Flushes : g < f => flush[g].state # "none"
  /\ IF NothingToFlush
       THEN /\ flush' = [flush EXCEPT ![f] = [state |-> "returned", events |-> Unsent]]
            /\ UNCHANGED <<pending, draining, loops>>
       ELSE Drain(pending, [flush EXCEPT ![f] = [state |-> "waiting", events |-> Unsent]])
  /\ UNCHANGED <<closed, callVars, serverVars>>

Close ==
  /\ MayClose /\ ~closed
  /\ closed' = TRUE
  /\ pending' = <<>>
  /\ Released
  /\ flush' = Notified(flush)
  /\ UNCHANGED <<draining, loops, given, before, returned, serverVars>>

Quiet == loops = <<>> /\ woken = <<>> /\ UNCHANGED vars

Next == \/ \E n \in Sizes : Enqueue(n)
        \/ EnqueueResumes
        \/ \E n \in DOMAIN loops : SendResolves(n) \/ SendFails(n) \/ WakeUp(n)
        \/ \E f \in Flushes : Flush(f)
        \/ Close
        \/ Quiet

Spec == Init /\ [][Next]_vars

\* Promises are continued, timers fire, and a POST is answered: postOnce() and
\* request() have timeouts.
Drained == \E n \in DOMAIN loops : SendResolves(n) \/ SendFails(n) \/ WakeUp(n)

FairSpec == Spec /\ WF_vars(EnqueueResumes) /\ WF_vars(Drained)

----------------------------------------------------------------------------
(* Properties                                                              *)

\* At most one drain() is under way, and so at most one POST: whoever calls it,
\* the flag tells whether there is one, through failures, sleeps and close().
OneInFlight == Len(loops) <= 1 /\ (draining <=> loops # <<>>)

\* An event that enqueue() has taken reaches the server, or is still on its
\* way there: a failed send, a retry or a full buffer loses nothing.  The
\* exceptions are the documented ones: close(), events that cannot be
\* serialized, and batches given up after maxConsecutiveFailures.
NothingLost ==
  ~closed => \A c \in returned : \A e \in ToSet(given[c]) :
               Good(e) => e \in ToSet(sent) \cup Unsent \cup dropped

\* A caller that awaits enqueue() before its next call sees its events arrive
\* in order, through failures, duplicates and a full buffer.
FirstAt(e) == SelectInSeq(sent, LAMBDA d : d = e)
Arrived(c) == {FirstAt(e) : e \in ToSet(given[c]) \cap ToSet(sent)}
AwaitedInOrder ==
  \A d \in DOMAIN given : \A c \in before[d] :
    \A m \in Arrived(c), n \in Arrived(d) : m < n

\* When flush() has returned, everything that was in the buffer or on its way
\* at the time of the call is at the server or was given up.
FlushCovers ==
  ~closed => \A f \in Flushes : flush[f].state = "returned" =>
    \A e \in flush[f].events : Good(e) => e \in ToSet(sent) \cup dropped

\* Nobody waits forever: flush() returns, or the uploader is closed, and a
\* caller of enqueue() that a full buffer blocks goes on again.
CallersReturn ==
  /\ \A f \in Flushes : flush[f].state = "waiting" ~> flush[f].state = "returned" \/ closed
  /\ \A c \in Calls : c \in ToSet(blocked) ~> c \in returned
=============================================================================
