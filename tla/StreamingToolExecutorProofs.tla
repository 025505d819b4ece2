-------------------- MODULE StreamingToolExecutorProofs --------------------
(***************************************************************************)
(* Theorems about StreamingToolExecutor, for every number of calls, every  *)
(* set of tools and every burst of messages: no call runs beside one it    *)
(* must not run beside, every call is answered once and results come in    *)
(* order; no call that could run is forgotten, none begins after the query *)
(* was cancelled, and the executor implements the schedule of readers and  *)
(* writers ToolSchedule.                                                   *)
(***************************************************************************)
EXTENDS StreamingToolExecutor, TLAPS

ToolRecords == [Tools -> Records]

\* The calls before position p have been looked at: none of them is still to
\* be started.
Past(T, p) == \A q \in Tools : q < p => T[q].status \notin {"absent", "queued"}

\* The list has no holes, no two calls run side by side that may not, and no
\* call has started before an earlier one that waits.
NoHoles(T) == \A i, j \in Tools : i < j /\ T[i].status = "absent" => T[j].status = "absent"
RunAlone(T) ==
  \A i, j \in Tools : T[i].status = "executing" /\ T[j].status = "executing" /\ i # j
                        => T[i].kind.safe /\ T[j].kind.safe
InOrder(T) ==
  \A i, j \in Tools : i < j /\ T[i].status = "queued" /\ T[j].kind.known
                        => T[j].status \in {"absent", "queued"}
Ordered(T) == NoHoles(T) /\ RunAlone(T) /\ InOrder(T)

\* A suspended processQueue() call leaves no queued tool behind its position:
\* that is what makes it safe for several of them to walk over the list.
PositionsPast ==
  /\ \A p \in resume : Past(tools, p)
  /\ pc = "pq" /\ at \in Tools => Past(tools, at)

Inv == TypeOK /\ Ordered(tools) /\ PositionsPast

----------------------------------------------------------------------------
(* The list of calls                                                       *)

\* One call at most goes on, without being started: everything that happens
\* to a call after its start, and yielding its results.
GoesOn(T, U) ==
  \E i \in Tools :
    /\ \A j \in Tools : U[j].kind = T[j].kind
    /\ \A j \in Tools : j # i => U[j].status = T[j].status
    /\ \/ U[i].status = T[i].status
       \/ T[i].status = "executing" /\ U[i].status = "completed"
       \/ T[i].status = "completed" /\ U[i].status = "yielded"

LEMMA FirstIsTool == 1 \in Tools
BY SizeAssumption DEF Tools

LEMMA UnchangedGoesOn == ASSUME NEW T PROVE GoesOn(T, T)
BY FirstIsTool DEF GoesOn

LEMMA ChangedGoesOn ==
  ASSUME NEW T \in ToolRecords, NEW i \in Tools, NEW t, t.kind = T[i].kind,
         \/ t.status = T[i].status
         \/ T[i].status = "executing" /\ t.status = "completed"
         \/ T[i].status = "completed" /\ t.status = "yielded"
  PROVE  GoesOn(T, [T EXCEPT ![i] = t])
<1> DEFINE U == [T EXCEPT ![i] = t]
<1>1. U[i] = t /\ \A j \in Tools : j # i => U[j] = T[j]
  BY DEF ToolRecords
<1> HIDE DEF U
<1>2. GoesOn(T, U)
  BY <1>1 DEF GoesOn
<1>3. QED
  BY <1>2 DEF U

LEMMA GoesOnOrdered ==
  ASSUME NEW T, NEW U, GoesOn(T, U), Ordered(T)
  PROVE  Ordered(U)
<1>1. NoHoles(U)
  BY DEF GoesOn, Ordered, NoHoles
<1>2. RunAlone(U)
  BY DEF GoesOn, Ordered, RunAlone
<1>3. InOrder(U)
  BY DEF GoesOn, Ordered, InOrder
<1>4. QED
  BY <1>1, <1>2, <1>3 DEF Ordered

LEMMA GoesOnPast ==
  ASSUME NEW T, NEW U, GoesOn(T, U), NEW p, Past(T, p)
  PROVE  Past(U, p)
BY DEF GoesOn, Past

LEMMA AbortReasonType ==
  ASSUME NEW k
  PROVE  AbortReason(k) \in Synthetic \cup {"none"}
BY DEF AbortReason, Synthetic

\* executeTool() starts the call or completes it at once.
LEMMA LaunchedType ==
  ASSUME NEW t \in Records
  PROVE  /\ Launched(t) \in Records
         /\ Launched(t).kind = t.kind
         /\ Launched(t).status \in {"executing", "completed"}
<1>1. CASE AbortReason(t.kind) # "none"
  <2>1. PICK r \in Synthetic : AbortReason(t.kind) = r
    BY <1>1, AbortReasonType
  <2>2. Launched(t) = [t EXCEPT !.status = "completed", !.results = <<r>>]
    BY <1>1, <2>1 DEF Launched
  <2>3. <<r>> \in Seq(Updates \cup Synthetic)
    OBVIOUS
  <2>4. QED
    BY <2>2, <2>3 DEF Records, Statuses
<1>2. CASE AbortReason(t.kind) = "none" /\ aborted # "no"
  <2>1. Launched(t) = [t EXCEPT !.status = "executing", !.inbox = <<"err">>,
                                !.closed = TRUE]
    BY <1>2 DEF Launched
  <2>2. <<"err">> \in Seq(Updates)
    BY DEF Updates
  <2>3. QED
    BY <2>1, <2>2 DEF Records, Statuses
<1>3. CASE AbortReason(t.kind) = "none" /\ aborted = "no"
  BY <1>3 DEF Launched, Records, Statuses
<1>4. QED
  BY <1>1, <1>2, <1>3

\* A segment of processQueue() starts one call, or nothing.
LEMMA ScanCases ==
  ASSUME NEW T, NEW p
  PROVE  \/ Scan(T, p) = T /\ NextAt(T, p) = MaxTools + 1
         \/ \E i \in Tools : /\ CanPick(T, p, i)
                             /\ Scan(T, p) = [T EXCEPT ![i] = Launched(T[i])]
                             /\ NextAt(T, p) = 1 + i
BY DEF Scan, NextAt, Picks

LEMMA ScanType ==
  ASSUME NEW T \in ToolRecords, NEW p
  PROVE  /\ Scan(T, p) \in ToolRecords
         /\ NextAt(T, p) \in 1..(MaxTools + 1)
<1>1. MaxTools \in Nat
  BY SizeAssumption
<1>2. CASE Scan(T, p) = T /\ NextAt(T, p) = MaxTools + 1
  BY <1>1, <1>2
<1>3. ASSUME NEW i \in Tools, Scan(T, p) = [T EXCEPT ![i] = Launched(T[i])],
             NextAt(T, p) = 1 + i
      PROVE  Scan(T, p) \in ToolRecords /\ NextAt(T, p) \in 1..(MaxTools + 1)
  <2>1. Launched(T[i]) \in Records
    BY LaunchedType DEF ToolRecords
  <2>2. QED
    BY <1>1, <1>3, <2>1 DEF ToolRecords, Tools
<1>4. QED
  BY <1>2, <1>3, ScanCases

\* The call a scan starts is the first that waits: what stands before it and
\* waits would be stopped by the same calls.
LEMMA PickIsFirst ==
  ASSUME NEW T \in ToolRecords, NEW p \in Nat, NEW i \in Tools,
         CanPick(T, p, i), Past(T, p), NoHoles(T)
  PROVE  Past(T, i)
<1> SUFFICES ASSUME NEW q \in Tools, q < i, q >= p
             PROVE  T[q].status \notin {"absent", "queued"}
  BY DEF Past, Tools
<1>1. T[i].status = "queued" /\ CanExecute(T, i)
  BY DEF CanPick
<1>2. T[q].status # "absent"
  BY <1>1 DEF NoHoles
<1>3. ASSUME T[q].status = "queued" PROVE FALSE
  <2>1. T[q].kind.safe /\ ~CanExecute(T, q)
    BY <1>3 DEF CanPick
  <2>2. QED
    BY <1>1, <2>1 DEF CanExecute
<1>4. QED
  BY <1>2, <1>3

LEMMA ScanOrdered ==
  ASSUME NEW T \in ToolRecords, NEW p \in Nat,
         p \in Tools => Past(T, p), Ordered(T)
  PROVE  /\ Ordered(Scan(T, p))
         /\ NextAt(T, p) \in Tools => Past(Scan(T, p), NextAt(T, p))
         /\ \A q : Past(T, q) => Past(Scan(T, p), q)
<1>1. CASE Scan(T, p) = T /\ NextAt(T, p) = MaxTools + 1
  BY <1>1, SizeAssumption DEF Tools
<1>2. ASSUME NEW i \in Tools, CanPick(T, p, i),
             Scan(T, p) = [T EXCEPT ![i] = Launched(T[i])], NextAt(T, p) = 1 + i
      PROVE  /\ Ordered(Scan(T, p))
             /\ NextAt(T, p) \in Tools => Past(Scan(T, p), NextAt(T, p))
             /\ \A q : Past(T, q) => Past(Scan(T, p), q)
  <2> DEFINE U == Scan(T, p)
  <2>1. /\ T[i].status = "queued" /\ CanExecute(T, i)
        /\ i >= p
    BY <1>2 DEF CanPick
  <2>2. /\ U[i].kind = T[i].kind /\ U[i].status \in {"executing", "completed"}
        /\ \A j \in Tools : j # i => U[j] = T[j]
    BY <1>2, LaunchedType DEF ToolRecords
  <2>3. Past(T, i)
    <3>1. CASE p \in Tools
      BY <1>2, <3>1, PickIsFirst DEF Ordered
    <3>2. CASE p = 0
      BY <1>2, <3>2, PickIsFirst DEF Ordered, Past, Tools
    <3>3. QED
      BY <2>1, <3>1, <3>2, SizeAssumption DEF Tools
  <2> HIDE DEF U
  <2>4. NoHoles(U)
    BY <2>1, <2>2 DEF Ordered, NoHoles
  <2>5. RunAlone(U)
    <3> SUFFICES ASSUME NEW a \in Tools, NEW b \in Tools, a # b,
                        U[a].status = "executing", U[b].status = "executing"
                 PROVE  U[a].kind.safe /\ U[b].kind.safe
      BY DEF RunAlone
    <3>1. CASE a # i /\ b # i
      BY <2>2, <3>1 DEF Ordered, RunAlone
    <3>2. CASE a = i
      BY <2>1, <2>2, <3>2 DEF CanExecute, Executing, InState
    <3>3. CASE b = i
      BY <2>1, <2>2, <3>3 DEF CanExecute, Executing, InState
    <3>4. QED
      BY <3>1, <3>2, <3>3
  <2>6. InOrder(U)
    <3> SUFFICES ASSUME NEW a \in Tools, NEW b \in Tools, a < b,
                        U[a].status = "queued", U[b].kind.known
                 PROVE  U[b].status \in {"absent", "queued"}
      BY DEF InOrder
    <3>1. a # i /\ T[a].status = "queued"
      BY <2>2
    <3>2. b # i
      BY <2>3, <3>1 DEF Past
    <3>3. QED
      BY <2>2, <3>1, <3>2 DEF Ordered, InOrder
  <2>7. Past(U, 1 + i)
    BY <2>2, <2>3 DEF Past, Tools
  <2>8. \A q : Past(T, q) => Past(U, q)
    BY <2>1, <2>2 DEF Past
  <2>9. QED
    BY <1>2, <2>4, <2>5, <2>6, <2>7, <2>8 DEF Ordered, U
<1>3. QED
  BY <1>1, <1>2, ScanCases

\* A new call goes behind all others.
LEMMA NewToolOrdered ==
  ASSUME tools \in ToolRecords, Ordered(tools), NEW n \in Slots,
         NEW k \in Kinds, NEW T, T = [tools EXCEPT ![n] = NewTool(k)]
  PROVE  /\ T \in ToolRecords
         /\ Ordered(T)
         /\ \A p \in Nat : Past(tools, p) => Past(T, p)
<1>1. /\ n \in Tools /\ tools[n].status = "absent"
      /\ \A j \in Tools : j < n => tools[j].status # "absent"
  BY DEF Slots
<1>2. k \in KindType
  BY KindAssumption
<1>3. NewTool(k) \in Records
  BY <1>2 DEF NewTool, TrackedTool, Records, Statuses, Updates
<1>4. T \in ToolRecords
  BY <1>3 DEF ToolRecords
<1>5. /\ T[n].kind = k
      /\ T[n].status = IF k.known THEN "queued" ELSE "completed"
      /\ \A j \in Tools : j # n => T[j] = tools[j]
  BY <1>1 DEF NewTool, TrackedTool, ToolRecords
<1>6. NoHoles(T)
  BY <1>1, <1>5 DEF Ordered, NoHoles, Tools
<1>7. RunAlone(T)
  BY <1>5 DEF Ordered, RunAlone
<1>8. InOrder(T)
  BY <1>1, <1>5 DEF Ordered, InOrder, NoHoles, Tools
<1>9. ASSUME NEW p \in Nat, Past(tools, p) PROVE Past(T, p)
  BY <1>1, <1>5, <1>9 DEF Past, Tools
<1>10. QED
  BY <1>4, <1>6, <1>7, <1>8, <1>9 DEF Ordered

\* Yielding a progress message or the results of a call.
LEMMA YieldFromType ==
  ASSUME NEW T \in ToolRecords, NEW p, NEW i \in YieldsAt(T, p), YieldFrom(T, i),
         emitted \in Seq(Tools)
  PROVE  /\ tools' \in ToolRecords
         /\ GoesOn(T, tools')
         /\ at' \in 1..(MaxTools + 1)
         /\ emitted' \in Seq(Tools)
<1>1. i \in Tools /\ Yieldable(T[i])
  BY DEF YieldsAt
<1>2. T[i] \in Records
  BY <1>1 DEF ToolRecords
<1>3. MaxTools \in Nat
  BY SizeAssumption
<1>4. CASE T[i].progress > 0
  <2>1. tools' = [T EXCEPT ![i].progress = T[i].progress - 1] /\ at' = i
        /\ emitted' = emitted
    BY <1>4 DEF YieldFrom
  <2>2. T[i].progress - 1 \in Nat
    BY <1>2, <1>4 DEF Records
  <2>3. tools' \in ToolRecords
    BY <1>1, <2>1, <2>2 DEF ToolRecords, Records
  <2> DEFINE t == [T[i] EXCEPT !.progress = T[i].progress - 1]
  <2>4. t.kind = T[i].kind /\ t.status = T[i].status
    BY <1>2 DEF Records
  <2>5. tools' = [T EXCEPT ![i] = t]
    BY <2>1
  <2> HIDE DEF t
  <2>6. GoesOn(T, tools')
    BY <1>1, <2>4, <2>5, ChangedGoesOn
  <2>7. QED
    BY <1>1, <1>3, <2>1, <2>3, <2>6 DEF Tools
<1>5. CASE ~(T[i].progress > 0)
  <2>1. tools' = [T EXCEPT ![i].status = "yielded"] /\ at' = i + 1
        /\ emitted' = Append(emitted, i) /\ T[i].status = "completed"
    BY <1>1, <1>5 DEF YieldFrom, Yieldable
  <2>2. tools' \in ToolRecords
    BY <1>1, <2>1 DEF ToolRecords, Records, Statuses
  <2> DEFINE t == [T[i] EXCEPT !.status = "yielded"]
  <2>3. t.kind = T[i].kind /\ t.status = "yielded"
    BY <1>2 DEF Records
  <2>4. tools' = [T EXCEPT ![i] = t] /\ T[i].status = "completed"
    BY <2>1
  <2> HIDE DEF t
  <2>5. GoesOn(T, tools')
    BY <1>1, <2>3, <2>4, ChangedGoesOn
  <2>6. QED
    BY <1>1, <1>3, <2>1, <2>2, <2>5 DEF Tools
<1>6. QED
  BY <1>4, <1>5
----------------------------------------------------------------------------
(* The steps                                                               *)

LEMMA FirstPosition == ASSUME NEW T PROVE Past(T, 1)
BY DEF Past, Tools

LEMMA RestartType == ASSUME NEW T, NEW p PROVE Restart(T, p) \subseteq {1}
BY DEF Restart

\* A scan, and what it leaves to do.
LEMMA ScanStep ==
  ASSUME NEW T \in ToolRecords, Ordered(T), NEW p \in Nat, p \in Tools => Past(T, p)
  PROVE  LET U == Scan(T, p)
             R == Positions({NextAt(T, p)}) \cup Restart(T, p)
         IN /\ U \in ToolRecords /\ Ordered(U)
            /\ R \subseteq Tools
            /\ \A q \in R : Past(U, q)
            /\ \A q : Past(T, q) => Past(U, q)
            /\ NextAt(T, p) \in Tools => Past(U, NextAt(T, p))
            /\ NextAt(T, p) \in 1..(MaxTools + 1)
<1>1. Positions({NextAt(T, p)}) \subseteq Tools
  BY DEF Positions
<1>2. Restart(T, p) \subseteq Tools /\ \A q \in Restart(T, p) : Past(Scan(T, p), q)
  BY RestartType, FirstIsTool, FirstPosition
<1>3. \A q \in Positions({NextAt(T, p)}) : q \in Tools /\ q = NextAt(T, p)
  BY DEF Positions
<1>4. QED
  BY <1>1, <1>2, <1>3, ScanType, ScanOrdered

LEMMA AddToolInv ==
  ASSUME Inv, NEW k \in Kinds, AddTool(k)
  PROVE  Inv'
<1> USE DEF Inv, TypeOK
<1>1. PICK n \in Slots :
        LET T == [tools EXCEPT ![n] = NewTool(k)]
            p == IF k.known THEN 1 ELSE MaxTools + 1
            S == Scan(T, p)
        IN /\ resume' = resume \cup Positions({NextAt(T, p)}) \cup Restart(T, p)
           /\ IF YieldsAt(S, 1) = {}
                THEN tools' = S /\ UNCHANGED <<pc, at, emitted>>
                ELSE pc' = "streamYield" /\ \E i \in YieldsAt(S, 1) : YieldFrom(S, i)
  BY DEF AddTool
<1> DEFINE T == [tools EXCEPT ![n] = NewTool(k)]
           p == IF k.known THEN 1 ELSE MaxTools + 1
           S == Scan(T, p)
           R == Positions({NextAt(T, p)}) \cup Restart(T, p)
<1>2. /\ T \in ToolRecords /\ Ordered(T)
      /\ \A q \in Nat : Past(tools, q) => Past(T, q)
  BY NewToolOrdered DEF ToolRecords
<1>3. p \in Nat /\ (p \in Tools => Past(T, p))
  BY FirstPosition, SizeAssumption DEF Tools
<1> HIDE DEF T, p
<1>4. /\ S \in ToolRecords /\ Ordered(S) /\ R \subseteq Tools
      /\ \A q \in R : Past(S, q)
      /\ \A q : Past(T, q) => Past(S, q)
  BY <1>2, <1>3, ScanStep
<1> HIDE DEF S, R
<1>5. /\ tools' \in ToolRecords /\ GoesOn(S, tools')
      /\ at' \in 1..(MaxTools + 1) /\ emitted' \in Seq(Tools)
      /\ pc' \in {"stream", "streamYield"}
  <2>1. CASE YieldsAt(S, 1) = {}
    BY <1>1, <1>4, <2>1, UnchangedGoesOn DEF S, T, p, AddTool
  <2>2. CASE YieldsAt(S, 1) # {}
    <3>1. PICK i \in YieldsAt(S, 1) : YieldFrom(S, i)
      BY <1>1, <2>2 DEF S, T, p
    <3>2. pc' = "streamYield"
      BY <1>1, <2>2 DEF S, T, p
    <3>3. QED
      BY <1>4, <3>1, <3>2, YieldFromType
  <2>3. QED
    BY <2>1, <2>2
<1>6. resume' = resume \cup R
  BY <1>1 DEF R, T, p
<1>7. \A q \in resume' : Past(S, q)
  BY <1>2, <1>4, <1>6, SizeAssumption DEF PositionsPast, Tools
<1>8. Ordered(tools') /\ PositionsPast'
  BY <1>4, <1>5, <1>7, GoesOnOrdered, GoesOnPast DEF PositionsPast
<1>9. TypeOK'
  BY <1>4, <1>5, <1>6 DEF AddTool, ToolRecords
<1>10. QED
  BY <1>8, <1>9

\* Steps after which each call has gone on: the positions stay behind.
LEMMA GoesOnPositions ==
  ASSUME Inv, GoesOn(tools, tools'), resume' \subseteq resume \cup {1},
         pc' = "pq" => pc = "pq" /\ at' = at
  PROVE  Ordered(tools') /\ PositionsPast'
<1>1. Ordered(tools')
  BY GoesOnOrdered DEF Inv
<1>2. \A q \in resume' : Past(tools', q)
  BY GoesOnPast, FirstPosition DEF Inv, PositionsPast
<1>3. pc' = "pq" /\ at' \in Tools => Past(tools', at')
  BY GoesOnPast DEF Inv, PositionsPast
<1>4. QED
  BY <1>1, <1>2, <1>3 DEF PositionsPast

\* A result is handed to the consumer.
LEMMA YieldInv ==
  ASSUME Inv, NEW p, NEW i \in YieldsAt(tools, p), YieldFrom(tools, i),
         pc' \in {"streamYield", "yield"},
         UNCHANGED <<hasErrored, aborted, resume, raced, ctx, orphans, attempt>>
  PROVE  Inv'
<1>1. /\ tools' \in ToolRecords /\ GoesOn(tools, tools')
      /\ at' \in 1..(MaxTools + 1) /\ emitted' \in Seq(Tools)
  BY YieldFromType DEF Inv, TypeOK, ToolRecords
<1>2. Ordered(tools') /\ PositionsPast'
  BY <1>1, GoesOnPositions
<1>3. QED
  BY <1>1, <1>2 DEF Inv, TypeOK, ToolRecords

LEMMA LoopHeadStep ==
  ASSUME Inv, LoopHead
  PROVE  /\ tools' \in ToolRecords /\ Ordered(tools')
         /\ PositionsPast'
         /\ at' \in 1..(MaxTools + 1) /\ resume' \subseteq Tools
         /\ pc' \in {"done", "pq"}
<1>1. CASE pc' = "done" /\ UNCHANGED <<tools, at, resume>>
  BY <1>1 DEF Inv, TypeOK, ToolRecords, PositionsPast
<1>2. CASE /\ pc' = "pq" /\ tools' = Scan(tools, 1) /\ at' = NextAt(tools, 1)
           /\ resume' = resume \cup Restart(tools, 1)
  <2>1. tools \in ToolRecords /\ Ordered(tools) /\ Past(tools, 1)
    BY FirstPosition DEF Inv, TypeOK, ToolRecords
  <2>2. /\ tools' \in ToolRecords /\ Ordered(tools')
        /\ Restart(tools, 1) \subseteq Tools
        /\ \A q \in Restart(tools, 1) : Past(tools', q)
        /\ \A q : Past(tools, q) => Past(tools', q)
        /\ at' \in Tools => Past(tools', at')
        /\ at' \in 1..(MaxTools + 1)
    BY <1>2, <2>1, ScanStep
  <2>3. QED
    BY <1>2, <2>2 DEF Inv, TypeOK, PositionsPast
<1>3. QED
  BY <1>1, <1>2 DEF LoopHead

LEMMA LoopHeadInv ==
  ASSUME Inv, LoopHead,
         UNCHANGED <<hasErrored, aborted, raced, emitted, ctx, orphans, attempt>>
  PROVE  Inv'
BY LoopHeadStep DEF Inv, TypeOK, ToolRecords

LEMMA YieldNextInv ==
  ASSUME Inv, NEW p, YieldNext(p),
         UNCHANGED <<hasErrored, aborted, ctx, orphans, attempt>>
  PROVE  Inv'
<1>1. CASE YieldsAt(tools, p) # {}
  BY <1>1, YieldInv DEF YieldNext
<1>2. CASE YieldsAt(tools, p) = {}
  <2>1. LoopTail /\ emitted' = emitted
    BY <1>2 DEF YieldNext
  <2>2. CASE /\ pc' = "race" /\ raced' = Executing(tools)
             /\ UNCHANGED <<tools, at, resume>>
    BY <2>1, <2>2 DEF Inv, TypeOK, PositionsPast, Executing, InState
  <2>3. CASE LoopHead /\ raced' = raced
    BY <2>1, <2>3, LoopHeadInv
  <2>4. QED
    BY <2>1, <2>2, <2>3 DEF LoopTail
<1>3. QED
  BY <1>1, <1>2

LEMMA DiscardInv ==
  ASSUME Inv, Discard
  PROVE  Inv'
<1> USE DEF Inv, TypeOK
<1>1. Absent \in Records
  BY DEF Absent, TrackedTool, Records, Statuses, Unknown, KindType, Updates
<1>2. /\ tools' = [i \in Tools |-> Absent] /\ resume' = {}
      /\ pc' = pc /\ pc = "stream"
  BY DEF Discard
<1>3. Ordered(tools') /\ PositionsPast'
  BY <1>2 DEF Ordered, NoHoles, RunAlone, InOrder, PositionsPast, Absent, TrackedTool
<1>4. orphans' \subseteq Orphans
  <2>1. ASSUME NEW i \in Tools
        PROVE  [of |-> attempt, tool |-> i, safe |-> tools[i].kind.safe] \in Orphans
    <3>1. tools[i].kind \in KindType
      BY DEF Records
    <3>2. tools[i].kind.safe \in BOOLEAN
      BY <3>1 DEF KindType
    <3>3. QED
      BY <3>2 DEF Orphans
  <2>2. orphans' = orphans \cup {[of |-> attempt, tool |-> i,
                                  safe |-> tools[i].kind.safe] : i \in Executing(tools)}
    BY DEF Discard
  <2>3. Executing(tools) \subseteq Tools
    BY DEF Executing, InState
  <2>4. QED
    BY <2>1, <2>2, <2>3
<1>5. attempt' \in 1..MaxAttempts
  BY SizeAssumption DEF Discard
<1>6. tools' \in [Tools -> Records]
  BY <1>1, <1>2
<1>7. emitted' \in Seq(Tools) /\ ctx' \in Seq(Tools)
  BY DEF Discard
<1>8. TypeOK'
  BY <1>2, <1>4, <1>5, <1>6, <1>7 DEF Discard
<1>9. QED
  BY <1>3, <1>8

LEMMA QueryLoopInv ==
  ASSUME Inv, QueryLoop
  PROVE  Inv'
<1>1. ASSUME NEW k \in Kinds, AddTool(k) PROVE Inv'
  BY <1>1, AddToolInv
<1>2. CASE StreamEvent
  BY <1>2, YieldInv DEF StreamEvent
<1>3. CASE StreamYieldResume
  <2>1. CASE YieldsAt(tools, at) = {}
    BY <1>3, <2>1 DEF StreamYieldResume, Inv, TypeOK, PositionsPast
  <2>2. CASE YieldsAt(tools, at) # {}
    BY <1>3, <2>2, YieldInv DEF StreamYieldResume
  <2>3. QED
    BY <2>1, <2>2
<1>4. CASE Discard
  BY <1>4, DiscardInv
<1>5. CASE StartRemaining
  BY <1>5, LoopHeadInv DEF StartRemaining
<1>6. CASE AwaitedScan
  <2>1. /\ tools \in ToolRecords /\ Ordered(tools) /\ at \in Nat
        /\ at \in Tools => Past(tools, at)
    BY <1>6, SizeAssumption DEF AwaitedScan, Inv, TypeOK, ToolRecords, PositionsPast
  <2>2. /\ tools' = Scan(tools, at) /\ at' = NextAt(tools, at)
        /\ resume' = resume \cup Restart(tools, at)
    BY <1>6 DEF AwaitedScan
  <2>3. /\ tools' \in ToolRecords /\ Ordered(tools')
        /\ Restart(tools, at) \subseteq Tools
        /\ \A q \in Restart(tools, at) : Past(tools', q)
        /\ \A q : Past(tools, q) => Past(tools', q)
        /\ at' \in Tools => Past(tools', at')
        /\ at' \in 1..(MaxTools + 1)
    BY <2>1, <2>2, ScanStep
  <2>4. PositionsPast'
    BY <2>2, <2>3 DEF Inv, PositionsPast
  <2>5. TypeOK'
    BY <1>6, <2>2, <2>3 DEF AwaitedScan, Inv, TypeOK, ToolRecords
  <2>6. QED
    BY <2>3, <2>4, <2>5 DEF Inv
<1>7. CASE AwaitedScanEnds
  BY <1>7, YieldNextInv DEF AwaitedScanEnds
<1>8. CASE YieldResume
  BY <1>8, YieldNextInv DEF YieldResume
<1>9. CASE RaceEnds
  BY <1>9, LoopHeadInv DEF RaceEnds
<1>10. QED
  BY <1>1, <1>2, <1>3, <1>4, <1>5, <1>6, <1>7, <1>8, <1>9 DEF QueryLoop

LEMMA ProcessQueueInv ==
  ASSUME Inv, NEW p \in Tools, ProcessQueue(p)
  PROVE  Inv'
<1>1. /\ tools \in ToolRecords /\ Ordered(tools) /\ p \in Nat /\ Past(tools, p)
  BY SizeAssumption DEF ProcessQueue, Inv, TypeOK, ToolRecords, PositionsPast, Tools
<1>2. /\ tools' = Scan(tools, p)
      /\ resume' = (resume \ {p}) \cup Positions({NextAt(tools, p)}) \cup Restart(tools, p)
      /\ pc' = pc /\ at' = at
  BY DEF ProcessQueue
<1> DEFINE R == Positions({NextAt(tools, p)}) \cup Restart(tools, p)
<1>3. /\ tools' \in ToolRecords /\ Ordered(tools') /\ R \subseteq Tools
      /\ \A q \in R : Past(tools', q)
      /\ \A q : Past(tools, q) => Past(tools', q)
  BY <1>1, <1>2, ScanStep
<1>4. resume' \subseteq resume \cup R
  BY <1>2
<1> HIDE DEF R
<1>5. PositionsPast'
  BY <1>2, <1>3, <1>4 DEF Inv, PositionsPast
<1>6. TypeOK'
  BY <1>3, <1>4 DEF ProcessQueue, Inv, TypeOK, ToolRecords
<1>7. QED
  BY <1>3, <1>5, <1>6 DEF Inv

\* A call goes on: its status stays, or it completes.
LEMMA ToolGoesOn ==
  ASSUME tools \in ToolRecords, NEW i \in Tools, tools[i].status = "executing",
         NEW t \in Records, t.kind = tools[i].kind, t.status \in {"executing", "completed"},
         tools' = [tools EXCEPT ![i] = t]
  PROVE  tools' \in ToolRecords /\ GoesOn(tools, tools')
BY ChangedGoesOn DEF ToolRecords

LEMMA CompleteInv ==
  ASSUME Inv, NEW i \in Tools, tools[i].status = "executing",
         NEW results \in Seq(Updates \cup Synthetic), Complete(i, results),
         UNCHANGED <<hasErrored, aborted, at, raced, emitted, orphans, attempt>>
  PROVE  Inv'
<1> USE DEF Inv, TypeOK
<1> DEFINE t == [tools[i] EXCEPT !.status = "completed", !.results = results,
                                 !.inbox = <<>>, !.closed = TRUE]
<1>1. tools[i] \in Records
  OBVIOUS
<1>2. /\ t \in Records /\ t.kind = tools[i].kind /\ t.status = "completed"
  <2>1. <<>> \in Seq(Updates)
    OBVIOUS
  <2>2. QED
    BY <1>1, <2>1 DEF Records, Statuses
<1>3. tools' = [tools EXCEPT ![i] = t]
  BY DEF Complete
<1> HIDE DEF t
<1>4. tools' \in ToolRecords /\ GoesOn(tools, tools')
  BY <1>2, <1>3, ToolGoesOn DEF ToolRecords
<1>5. /\ resume' = resume \cup {1} /\ pc' = Wake(i)
      /\ ctx' \in {ctx, Append(ctx, i)}
  BY DEF Complete
<1>6. pc' \in {pc, "woken"}
  BY <1>5 DEF Wake
<1>7. Ordered(tools') /\ PositionsPast'
  BY <1>4, <1>5, <1>6, GoesOnPositions
<1>8. ctx' \in Seq(Tools)
  BY <1>5
<1>9. tools' \in [Tools -> Records] /\ resume' \subseteq Tools
  BY <1>4, <1>5, FirstIsTool DEF ToolRecords
<1>10. pc' \in {"stream", "streamYield", "pq", "yield", "race", "woken", "done"}
  BY <1>6
<1>11. TypeOK'
  BY <1>8, <1>9, <1>10
<1>12. QED
  BY <1>7, <1>11

LEMMA TakeUpdateInv ==
  ASSUME Inv, NEW i \in Tools, TakeUpdate(i)
  PROVE  Inv'
<1> USE DEF Inv, TypeOK
<1> DEFINE u == Head(tools[i].inbox)
           t == [tools[i] EXCEPT
                   !.inbox = Tail(@),
                   !.erred = @ \/ u = "err",
                   !.progress = IF u = "progress" THEN @ + 1 ELSE @,
                   !.results = IF u = "progress" THEN @ ELSE Append(@, u)]
<1>1. /\ tools[i] \in Records /\ tools[i].status = "executing"
      /\ tools[i].inbox # <<>>
  BY DEF TakeUpdate
<1>2. /\ tools[i].inbox \in Seq(Updates) /\ tools[i].results \in Seq(Updates \cup Synthetic)
      /\ tools[i].progress \in Nat /\ tools[i].erred \in BOOLEAN
  BY <1>1 DEF Records
<1>3. u \in Updates /\ Tail(tools[i].inbox) \in Seq(Updates)
  BY <1>1, <1>2
<1>4. tools' = [tools EXCEPT ![i] = t]
  BY DEF TakeUpdate
<1>5. t \in Records /\ t.kind = tools[i].kind /\ t.status = "executing"
  <2> HIDE DEF u
  <2>1. (IF u = "progress" THEN tools[i].progress + 1 ELSE tools[i].progress) \in Nat
    BY <1>2
  <2>2. (IF u = "progress" THEN tools[i].results ELSE Append(tools[i].results, u))
           \in Seq(Updates \cup Synthetic)
    BY <1>2, <1>3
  <2>3. (tools[i].erred \/ u = "err") \in BOOLEAN
    OBVIOUS
  <2>4. QED
    BY <1>1, <1>3, <2>1, <2>2, <2>3 DEF Records
<1> HIDE DEF t, u
<1>6. tools' \in ToolRecords /\ GoesOn(tools, tools')
  BY <1>1, <1>4, <1>5, ToolGoesOn DEF ToolRecords
<1>7. /\ hasErrored' \in BOOLEAN /\ pc' \in {pc, "woken"}
      /\ UNCHANGED <<aborted, resume, at, raced, emitted, ctx, orphans, attempt>>
  BY DEF TakeUpdate
<1>8. Ordered(tools') /\ PositionsPast'
  BY <1>6, <1>7, GoesOnPositions
<1>9. TypeOK'
  BY <1>6, <1>7 DEF ToolRecords
<1>10. QED
  BY <1>8, <1>9

\* The messages of a call arrive.
LEMMA InboxInv ==
  ASSUME Inv, NEW i \in Tools, tools[i].status = "executing",
         NEW b \in Seq(Updates), NEW c \in BOOLEAN,
         tools' = [tools EXCEPT ![i].inbox = b, ![i].closed = c],
         aborted' \in {aborted, "user"},
         UNCHANGED <<hasErrored, resume, pc, at, raced, emitted, ctx, orphans, attempt>>
  PROVE  Inv'
<1> USE DEF Inv, TypeOK
<1> DEFINE t == [tools[i] EXCEPT !.inbox = b, !.closed = c]
<1>1. t \in Records /\ t.kind = tools[i].kind /\ t.status = "executing"
  BY DEF Records
<1>2. tools' = [tools EXCEPT ![i] = t]
  OBVIOUS
<1> HIDE DEF t
<1>3. tools' \in ToolRecords /\ GoesOn(tools, tools')
  BY <1>1, <1>2, ToolGoesOn DEF ToolRecords
<1>4. Ordered(tools') /\ PositionsPast'
  BY <1>3, GoesOnPositions
<1>5. TypeOK'
  BY <1>3 DEF ToolRecords
<1>6. QED
  BY <1>4, <1>5

LEMMA ToolStepInv ==
  ASSUME Inv, NEW i \in Tools, ToolStep(i)
  PROVE  Inv'
<1>1. /\ tools[i] \in Records
      /\ tools[i].inbox \in Seq(Updates) /\ tools[i].closed \in BOOLEAN
      /\ tools[i].results \in Seq(Updates \cup Synthetic)
  BY DEF Inv, TypeOK, Records
<1>2. CASE Progress(i)
  <2>1. Append(tools[i].inbox, "progress") \in Seq(Updates)
    BY <1>1 DEF Updates
  <2>2. /\ tools' = [tools EXCEPT ![i].inbox = Append(tools[i].inbox, "progress"),
                                  ![i].closed = tools[i].closed]
        /\ tools[i].status = "executing"
    BY <1>1, <1>2 DEF Progress, Awaits, Inv, TypeOK, Records
  <2>3. QED
    BY <1>1, <1>2, <2>1, <2>2, InboxInv DEF Progress
<1>3. CASE End(i)
  <2>1. PICK b \in Bursts :
          tools' = [tools EXCEPT ![i].inbox = tools[i].inbox \o b, ![i].closed = TRUE]
    BY <1>3 DEF End
  <2>2. b \in Seq(Updates)
    BY BurstAssumption
  <2>3. tools[i].inbox \o b \in Seq(Updates)
    BY <1>1, <2>2
  <2>4. QED
    BY <1>3, <2>1, <2>3, InboxInv DEF End, Awaits
<1>4. CASE RejectAndAbort(i)
  <2>1. tools[i].inbox \o <<"err">> \in Seq(Updates)
    BY <1>1 DEF Updates
  <2>2. tools' = [tools EXCEPT ![i].inbox = tools[i].inbox \o <<"err">>,
                               ![i].closed = TRUE]
    BY <1>4 DEF RejectAndAbort
  <2>3. QED
    BY <1>4, <2>1, <2>2, InboxInv DEF RejectAndAbort, Awaits
<1>5. CASE TakeUpdate(i)
  BY <1>5, TakeUpdateInv
<1>6. CASE CancelTool(i)
  <2>1. AbortReason(tools[i].kind) \in Synthetic
    BY <1>6, AbortReasonType DEF CancelTool, Cancelled
  <2>2. Append(tools[i].results, AbortReason(tools[i].kind)) \in Seq(Updates \cup Synthetic)
    BY <1>1, <2>1
  <2>3. QED
    BY <1>6, <2>2, CompleteInv DEF CancelTool
<1>7. CASE FinishTool(i)
  BY <1>1, <1>7, CompleteInv DEF FinishTool
<1>8. QED
  BY <1>2, <1>3, <1>4, <1>5, <1>6, <1>7 DEF ToolStep

LEMMA InitInv == Init => Inv
<1> SUFFICES ASSUME Init PROVE Inv
  OBVIOUS
<1>1. Absent \in Records
  BY DEF Absent, TrackedTool, Records, Statuses, Unknown, KindType, Updates
<1>2. TypeOK
  <2>1. tools \in [Tools -> Records]
    BY <1>1 DEF Init
  <2>2. at \in 1..(MaxTools + 1) /\ attempt \in 1..MaxAttempts
    BY SizeAssumption DEF Init
  <2>3. emitted \in Seq(Tools) /\ ctx \in Seq(Tools)
    BY DEF Init
  <2>4. QED
    BY <2>1, <2>2, <2>3 DEF Init, TypeOK
<1>3. Ordered(tools) /\ PositionsPast
  BY DEF Init, Ordered, NoHoles, RunAlone, InOrder, PositionsPast, Absent, TrackedTool
<1>4. QED
  BY <1>2, <1>3 DEF Inv

LEMMA NextInv == Inv /\ [Next]_vars => Inv'
<1> SUFFICES ASSUME Inv, [Next]_vars PROVE Inv'
  OBVIOUS
<1>1. CASE QueryLoop
  BY <1>1, QueryLoopInv
<1>2. CASE OrphanEnds
  BY <1>2 DEF OrphanEnds, Inv, TypeOK, PositionsPast
<1>3. ASSUME NEW p \in Tools, ProcessQueue(p) PROVE Inv'
  BY <1>3, ProcessQueueInv
<1>4. ASSUME NEW i \in Tools, ToolStep(i) PROVE Inv'
  BY <1>4, ToolStepInv
<1>5. CASE UserAbort
  BY <1>5 DEF UserAbort, Inv, TypeOK, PositionsPast
<1>6. CASE SubmitInterrupt
  BY <1>6 DEF SubmitInterrupt, Inv, TypeOK, PositionsPast
<1>7. CASE UNCHANGED vars
  BY <1>7 DEF vars, Inv, TypeOK, PositionsPast
<1>8. QED
  BY <1>1, <1>2, <1>3, <1>4, <1>5, <1>6, <1>7 DEF Next, Terminated

----------------------------------------------------------------------------
(* Results, and the order in which they are handed out                      *)

\* The messages in a sequence.
Messages(s) == {s[n] : n \in DOMAIN s}

Ended(t) == t.status \in {"completed", "yielded"}

\* What a call has to say at each stage: nothing before it starts; while it
\* runs only messages of its own, and among them or on their way a tool_result
\* once it is over; and at the end a tool_result, its own error excluding a
\* synthetic one.
Accounted(t) ==
  /\ t.status \in {"absent", "queued"} =>
       t.results = <<>> /\ t.inbox = <<>> /\ t.progress = 0 /\ ~t.erred /\ ~t.closed
  /\ t.status = "executing" =>
       /\ Messages(t.results) \subseteq Updates
       /\ t.erred <=> "err" \in Messages(t.results)
       /\ t.closed => \E r \in {"ok", "err"} : r \in Messages(t.results) \/ r \in Messages(t.inbox)
  /\ Ended(t) =>
       /\ Messages(t.results) \cap ToolResults # {}
       /\ "err" \in Messages(t.results) => Messages(t.results) \cap Synthetic = {}
  /\ ~t.kind.known => t.kind.safe /\ t.progress = 0 /\ t.status \in {"absent", "completed", "yielded"}
  /\ t.status = "absent" => ~t.kind.known

\* No call has started beyond one that runs alone.
AloneIsLast(T) ==
  \A i, j \in Tools : /\ i < j /\ T[i].status = "executing" /\ ~T[i].kind.safe /\ T[j].kind.known
                      => T[j].status \in {"absent", "queued"}

\* Of two calls the one at i must be handed out before anything from j on.
Precedes(T, i, j) == i < j /\ ~T[i].kind.safe /\ \A n \in i..j : T[n].kind.known

\* Each result is handed out once, and that of a call that runs alone in its place.
Handed(T, E) ==
  /\ \A i \in Tools : T[i].status = "yielded" <=> \E n \in DOMAIN E : E[n] = i
  /\ \A m, n \in DOMAIN E : E[m] = E[n] => m = n
  /\ \A m \in DOMAIN E, j \in Tools :
       Precedes(T, j, E[m]) => \E n \in DOMAIN E : n < m /\ E[n] = j

\* The generator at position p has left behind no call that runs alone.
Left(T, p) ==
  \A i \in Tools : /\ i < p /\ ~T[i].kind.safe /\ \A n \in i..(p - 1) : T[n].kind.known
                   => T[i].status = "yielded"

\* The context modifiers were applied, in order, of the calls that have some.
Modified(T, C) ==
  /\ \A n \in DOMAIN C : ~T[C[n]].kind.safe /\ Ended(T[C[n]])
  /\ \A m, n \in DOMAIN C : m < n => C[m] < C[n]
  /\ \A i \in Tools : Ended(T[i]) /\ ~T[i].kind.safe /\ "ok" \in Messages(T[i].results)
                        => \E n \in DOMAIN C : C[n] = i

Booked(T, E, C) ==
  /\ \A i \in Tools : Accounted(T[i])
  /\ AloneIsLast(T) /\ Handed(T, E) /\ Modified(T, C)

InPlace ==
  /\ Booked(tools, emitted, ctx)
  /\ pc \in {"streamYield", "yield"} => Left(tools, at)

\* A call that is not yet absent from the record has the type of one.
LEMMA RecordParts ==
  ASSUME NEW t \in Records
  PROVE  /\ t.kind \in KindType /\ t.kind.known \in BOOLEAN /\ t.kind.safe \in BOOLEAN
         /\ t.status \in Statuses /\ t.results \in Seq(Updates \cup Synthetic)
         /\ t.progress \in Nat /\ t.inbox \in Seq(Updates)
         /\ t.closed \in BOOLEAN /\ t.erred \in BOOLEAN
<1>1. t.kind \in KindType
  BY DEF Records
<1> QED BY <1>1 DEF Records, KindType

\* What a message more changes.
LEMMA MessagesMore ==
  ASSUME NEW S, NEW s \in Seq(S), NEW u \in S
  PROVE  Messages(Append(s, u)) = Messages(s) \cup {u}
<1> DEFINE r == Append(s, u)
<1>1. /\ DOMAIN r = 1..(Len(s) + 1) /\ DOMAIN s = 1..Len(s) /\ Len(s) \in Nat
      /\ r[Len(s) + 1] = u /\ \A n \in 1..Len(s) : r[n] = s[n]
  OBVIOUS
<1> QED BY <1>1 DEF Messages

LEMMA MessagesBoth ==
  ASSUME NEW S, NEW s \in Seq(S), NEW t \in Seq(S)
  PROVE  Messages(s \o t) = Messages(s) \cup Messages(t)
<1> DEFINE r == s \o t
<1>1. /\ DOMAIN r = 1..(Len(s) + Len(t)) /\ DOMAIN s = 1..Len(s) /\ DOMAIN t = 1..Len(t)
      /\ Len(s) \in Nat /\ Len(t) \in Nat
      /\ \A n \in 1..Len(s) : r[n] = s[n] /\ n \in 1..(Len(s) + Len(t))
      /\ \A n \in 1..Len(t) : r[Len(s) + n] = t[n] /\ Len(s) + n \in 1..(Len(s) + Len(t))
      /\ \A n \in 1..(Len(s) + Len(t)) : n \in 1..Len(s) \/ (n - Len(s) \in 1..Len(t) /\ r[n] = t[n - Len(s)])
  OBVIOUS
<1>2. ASSUME NEW x \in Messages(r) PROVE x \in Messages(s) \cup Messages(t)
  <2>1. PICK n \in 1..(Len(s) + Len(t)) : r[n] = x
    BY <1>1, <1>2 DEF Messages
  <2>2. n \in 1..Len(s) \/ (n - Len(s) \in 1..Len(t) /\ r[n] = t[n - Len(s)])
    BY <1>1
  <2> QED BY <1>1, <2>1, <2>2 DEF Messages
<1>3. ASSUME NEW x \in Messages(s) PROVE x \in Messages(r)
  <2>1. PICK n \in 1..Len(s) : s[n] = x
    BY <1>1, <1>3 DEF Messages
  <2> QED BY <1>1, <2>1 DEF Messages
<1>4. ASSUME NEW x \in Messages(t) PROVE x \in Messages(r)
  <2>1. PICK n \in 1..Len(t) : t[n] = x
    BY <1>1, <1>4 DEF Messages
  <2>2. Len(s) + n \in DOMAIN r /\ r[Len(s) + n] = x
    BY <1>1, <2>1
  <2> QED BY <2>2 DEF Messages
<1> QED BY <1>2, <1>3, <1>4

LEMMA MessagesFirst ==
  ASSUME NEW S, NEW s \in Seq(S), s # <<>>
  PROVE  Messages(s) = Messages(Tail(s)) \cup {Head(s)}
<1>1. /\ DOMAIN s = 1..Len(s) /\ DOMAIN Tail(s) = 1..(Len(s) - 1) /\ Len(s) \in Nat \ {0}
      /\ Head(s) = s[1] /\ 1 \in 1..Len(s)
      /\ \A n \in 1..(Len(s) - 1) : Tail(s)[n] = s[n + 1] /\ n + 1 \in 1..Len(s)
      /\ \A n \in 1..Len(s) : n = 1 \/ (n - 1 \in 1..(Len(s) - 1) /\ Tail(s)[n - 1] = s[n])
  OBVIOUS
<1>2. ASSUME NEW x \in Messages(s) PROVE x \in Messages(Tail(s)) \cup {Head(s)}
  <2>1. PICK n \in 1..Len(s) : s[n] = x
    BY <1>1, <1>2 DEF Messages
  <2>2. n = 1 \/ (n - 1 \in DOMAIN Tail(s) /\ Tail(s)[n - 1] = s[n])
    BY <1>1
  <2> QED BY <1>1, <2>1, <2>2 DEF Messages
<1>3. ASSUME NEW x \in Messages(Tail(s)) PROVE x \in Messages(s)
  <2>1. PICK n \in 1..(Len(s) - 1) : Tail(s)[n] = x
    BY <1>1, <1>3 DEF Messages
  <2>2. n + 1 \in DOMAIN s /\ s[n + 1] = x
    BY <1>1, <2>1
  <2> QED BY <2>2 DEF Messages
<1>4. Head(s) \in Messages(s)
  BY <1>1 DEF Messages
<1> QED BY <1>2, <1>3, <1>4

LEMMA NoMessages == Messages(<<>>) = {}
BY DEF Messages

\* executeTool() takes a call that waits.
LEMMA LaunchedAccounted ==
  ASSUME NEW t \in Records, t.status = "queued", Accounted(t), NEW u, u = Launched(t)
  PROVE  /\ Accounted(u) /\ u.kind = t.kind /\ u.status \in {"executing", "completed"}
         /\ u.status = "completed" => "ok" \notin Messages(u.results)
<1>1. /\ t.results = <<>> /\ t.inbox = <<>> /\ t.progress = 0 /\ ~t.erred /\ ~t.closed /\ t.kind.known
  BY DEF Accounted
<1>2. CASE AbortReason(t.kind) # "none"
  <2>1. PICK r \in Synthetic : AbortReason(t.kind) = r
    BY <1>2, AbortReasonType
  <2>2. u = [t EXCEPT !.status = "completed", !.results = <<r>>]
    BY <1>2, <2>1 DEF Launched
  <2>3. u.results = <<r>> /\ u.status = "completed" /\ u.kind = t.kind /\ u.progress = t.progress
    BY <2>2 DEF Records
  <2>4. Messages(u.results) = {r}
    BY <2>3 DEF Messages
  <2> QED BY <1>1, <2>1, <2>3, <2>4 DEF Accounted, Ended, ToolResults, Synthetic
<1>3. CASE AbortReason(t.kind) = "none" /\ aborted # "no"
  <2>1. u = [t EXCEPT !.status = "executing", !.inbox = <<"err">>, !.closed = TRUE]
    BY <1>3 DEF Launched
  <2>2. /\ u.status = "executing" /\ u.kind = t.kind /\ u.results = <<>> /\ u.inbox = <<"err">>
        /\ u.erred = t.erred
    BY <1>1, <2>1 DEF Records
  <2>3. Messages(u.results) = {} /\ Messages(u.inbox) = {"err"}
    BY <2>2 DEF Messages
  <2> QED BY <1>1, <2>2, <2>3 DEF Accounted, Ended
<1>4. CASE AbortReason(t.kind) = "none" /\ aborted = "no"
  <2>1. u = [t EXCEPT !.status = "executing"]
    BY <1>4 DEF Launched
  <2>2. u.status = "executing" /\ u.kind = t.kind /\ u.results = <<>> /\ u.erred = t.erred /\ u.closed = t.closed
    BY <1>1, <2>1 DEF Records
  <2> QED BY <1>1, <2>2, NoMessages DEF Accounted, Ended
<1> QED BY <1>2, <1>3, <1>4

\* Calls of the same kinds, the same of them handed out.
LEMMA SameHanded ==
  ASSUME NEW T, NEW U, NEW E, Handed(T, E), E \in Seq(Tools),
         \A j \in Tools : U[j].kind = T[j].kind,
         \A j \in Tools : U[j].status = "yielded" <=> T[j].status = "yielded"
  PROVE  Handed(U, E)
<1>1. \A i, j \in Tools : Precedes(U, i, j) => Precedes(T, i, j)
  <2> SUFFICES ASSUME NEW i \in Tools, NEW j \in Tools, Precedes(U, i, j) PROVE Precedes(T, i, j)
    OBVIOUS
  <2>1. \A n \in i..j : n \in Tools
    BY SizeAssumption DEF Tools
  <2> QED BY <2>1 DEF Precedes
<1>2. \A m \in DOMAIN E : E[m] \in Tools
  OBVIOUS
<1> QED BY <1>1, <1>2 DEF Handed

LEMMA SameLeft ==
  ASSUME NEW T, NEW U, NEW p \in 1..(MaxTools + 1), Left(T, p),
         \A j \in Tools : U[j].kind = T[j].kind,
         \A j \in Tools : T[j].status = "yielded" => U[j].status = "yielded"
  PROVE  Left(U, p)
<1> SUFFICES ASSUME NEW i \in Tools, i < p, ~U[i].kind.safe, \A n \in i..(p - 1) : U[n].kind.known
             PROVE  U[i].status = "yielded"
  BY DEF Left
<1>1. \A n \in i..(p - 1) : n \in Tools
  BY SizeAssumption DEF Tools
<1>2. \A n \in i..(p - 1) : T[n].kind.known
  BY <1>1
<1> QED BY <1>2 DEF Left

\* The call at i changes to t, the others stay.
Changed(T, U, i) ==
  /\ U[i].kind = T[i].kind
  /\ \A j \in Tools : j # i => U[j] = T[j]

LEMMA StartedBooked ==
  ASSUME NEW T \in ToolRecords, NEW i \in Tools, NEW p \in Nat, NEW E \in Seq(Tools), NEW C \in Seq(Tools),
         Booked(T, E, C), Ordered(T), CanPick(T, p, i),
         NEW U, U[i] = Launched(T[i]), \A j \in Tools : j # i => U[j] = T[j]
  PROVE  /\ Booked(U, E, C)
         /\ \A q \in 1..(MaxTools + 1) : Left(T, q) => Left(U, q)
<1>1. T[i].status = "queued" /\ CanExecute(T, i) /\ T[i] \in Records /\ Accounted(T[i])
  BY DEF CanPick, ToolRecords, Booked
<1>2. /\ U[i] = Launched(T[i]) /\ \A j \in Tools : j # i => U[j] = T[j]
  OBVIOUS
<1>3. /\ Accounted(U[i]) /\ U[i].kind = T[i].kind /\ U[i].status \in {"executing", "completed"}
      /\ U[i].status = "completed" => "ok" \notin Messages(U[i].results)
  BY <1>1, <1>2, LaunchedAccounted
<1>4. \A j \in Tools : Accounted(U[j])
  BY <1>2, <1>3 DEF Booked
<1>5. AloneIsLast(U)
  <2> SUFFICES ASSUME NEW a \in Tools, NEW b \in Tools, a < b, U[a].status = "executing",
                      ~U[a].kind.safe, U[b].kind.known
               PROVE  U[b].status \in {"absent", "queued"}
    BY DEF AloneIsLast
  <2>1. CASE a = i
    <3>1. b # i /\ U[b] = T[b] /\ T[b].kind.known
      BY <1>2, <2>1 DEF Tools
    <3> QED BY <1>1, <2>1, <3>1 DEF Ordered, InOrder
  <2>2. CASE b = i /\ a # i
    <3>1. T[a].status = "executing" /\ ~T[a].kind.safe
      BY <1>2, <2>2
    <3>2. a \in Executing(T)
      BY <3>1 DEF Executing, InState
    <3> QED BY <1>1, <3>1, <3>2 DEF CanExecute
  <2>3. CASE a # i /\ b # i
    BY <1>2, <2>3 DEF Booked, AloneIsLast
  <2> QED BY <2>1, <2>2, <2>3
<1>6. /\ \A j \in Tools : U[j].kind = T[j].kind
      /\ \A j \in Tools : U[j].status = "yielded" <=> T[j].status = "yielded"
  BY <1>1, <1>2, <1>3
<1>7. Handed(U, E)
  <2>1. Handed(T, E) BY DEF Booked
  <2> QED BY <1>6, <2>1, SameHanded
<1>8. Modified(U, C)
  <2>1. \A n \in DOMAIN C : C[n] \in Tools
    OBVIOUS
  <2>2. \A j \in Tools : Ended(T[j]) => j # i
    BY <1>1 DEF Ended
  <2> QED BY <1>2, <1>3, <2>1, <2>2 DEF Booked, Modified, Ended
<1>9. \A q \in 1..(MaxTools + 1) : Left(T, q) => Left(U, q)
  <2>1. \A j \in Tools : T[j].status = "yielded" => U[j].status = "yielded"
    BY <1>6
  <2> QED BY <1>6, <2>1, SameLeft
<1> QED BY <1>4, <1>5, <1>7, <1>8, <1>9 DEF Booked

LEMMA ScanBooked ==
  ASSUME NEW T \in ToolRecords, NEW p \in Nat, NEW E \in Seq(Tools), NEW C \in Seq(Tools),
         Booked(T, E, C), Ordered(T), NEW U, U = Scan(T, p)
  PROVE  /\ Booked(U, E, C)
         /\ \A q \in 1..(MaxTools + 1) : Left(T, q) => Left(U, q)
<1>1. CASE U = T
  BY <1>1
<1>2. ASSUME NEW i \in Tools, CanPick(T, p, i), U = [T EXCEPT ![i] = Launched(T[i])]
      PROVE  /\ Booked(U, E, C)
             /\ \A q \in 1..(MaxTools + 1) : Left(T, q) => Left(U, q)
  <2>1. U[i] = Launched(T[i]) /\ \A j \in Tools : j # i => U[j] = T[j]
    BY <1>2 DEF ToolRecords
  <2> QED BY <1>2, <2>1, StartedBooked
<1> QED BY <1>1, <1>2, ScanCases

\* The next call goes behind all that are there.
LEMMA NewToolBooked ==
  ASSUME tools \in ToolRecords, Ordered(tools), NEW n \in Slots, NEW k \in Kinds,
         NEW E \in Seq(Tools), NEW C \in Seq(Tools), Booked(tools, E, C),
         NEW T, T = [tools EXCEPT ![n] = NewTool(k)]
  PROVE  Booked(T, E, C)
<1>1. /\ n \in Tools /\ tools[n].status = "absent" /\ ~tools[n].kind.known
      /\ \A j \in Tools : j > n => tools[j].status = "absent" /\ ~tools[j].kind.known
  BY DEF Slots, Ordered, NoHoles, Booked, Accounted
<1>2. /\ T[n] = NewTool(k) /\ \A j \in Tools : j # n => T[j] = tools[j]
  BY <1>1 DEF ToolRecords
<1>3. /\ k \in KindType /\ (~k.known => k = Unknown)
  BY KindAssumption
<1>4. Accounted(T[n]) /\ T[n].status \in {"queued", "completed"} /\ (T[n].status = "completed" => T[n].kind.safe)
  <2>1. CASE k.known
    <3>1. /\ T[n].status = "queued" /\ T[n].results = <<>> /\ T[n].inbox = <<>> /\ T[n].progress = 0
          /\ T[n].erred = FALSE /\ T[n].closed = FALSE /\ T[n].kind = k
      BY <1>2, <2>1 DEF NewTool, TrackedTool
    <3> QED BY <2>1, <3>1 DEF Accounted, Ended
  <2>2. CASE ~k.known
    <3>1. T[n].status = "completed" /\ T[n].results = <<"err">> /\ T[n].progress = 0 /\ T[n].kind = Unknown
      BY <1>2, <1>3, <2>2 DEF NewTool, TrackedTool
    <3>2. Messages(T[n].results) = {"err"}
      <4>1. Messages(<<"err">>) = {"err"} BY DEF Messages
      <4> QED BY <3>1, <4>1
    <3>3. ~T[n].kind.known /\ T[n].kind.safe
      BY <3>1 DEF Unknown
    <3> QED BY <3>1, <3>2, <3>3 DEF Accounted, Ended, ToolResults, Synthetic
  <2> QED BY <2>1, <2>2
<1>5. \A j \in Tools : Accounted(T[j])
  BY <1>2, <1>4 DEF Booked
<1>6. AloneIsLast(T)
  <2> SUFFICES ASSUME NEW a \in Tools, NEW b \in Tools, a < b, T[a].status = "executing",
                      ~T[a].kind.safe, T[b].kind.known
               PROVE  T[b].status \in {"absent", "queued"}
    BY DEF AloneIsLast
  <2>1. a # n
    BY <1>4
  <2>2. CASE b = n
    <3>1. T[n].status = "queued"
      BY <1>2, <1>3, <2>2 DEF NewTool, TrackedTool, Unknown
    <3> QED BY <2>2, <3>1
  <2>3. CASE b # n
    BY <1>2, <2>1, <2>3 DEF Booked, AloneIsLast
  <2> QED BY <2>2, <2>3
<1>7. Handed(T, E)
  <2>1. \A j \in Tools : T[j].status = "yielded" <=> tools[j].status = "yielded"
    BY <1>1, <1>2, <1>4
  <2>2. \A m \in DOMAIN E : E[m] \in Tools
    OBVIOUS
  <2>3. ASSUME NEW m \in DOMAIN E, NEW j \in Tools, Precedes(T, j, E[m]) PROVE Precedes(tools, j, E[m])
    <3>1. tools[E[m]].status = "yielded" /\ E[m] \in Tools
      BY <2>2 DEF Booked, Handed
    <3>2. E[m] < n
      BY <1>1, <3>1 DEF Tools
    <3>3. \A i \in j..E[m] : i \in Tools /\ i # n
      BY <3>1, <3>2, SizeAssumption DEF Tools
    <3>4. \A i \in j..E[m] : T[i] = tools[i]
      BY <1>2, <3>3
    <3>5. j \in j..E[m]
      BY <2>3, <3>1, SizeAssumption DEF Precedes, Tools
    <3> QED BY <2>3, <3>4, <3>5 DEF Precedes
  <2> QED BY <2>1, <2>3 DEF Booked, Handed
<1>8. Modified(T, C)
  <2>1. \A m \in DOMAIN C : C[m] \in Tools
    OBVIOUS
  <2>2. \A m \in DOMAIN C : C[m] # n
    BY <1>1, <2>1 DEF Booked, Modified, Ended
  <2>3. ~(Ended(T[n]) /\ ~T[n].kind.safe)
    BY <1>4 DEF Ended
  <2> QED BY <1>2, <2>1, <2>2, <2>3 DEF Booked, Modified, Ended
<1> QED BY <1>5, <1>6, <1>7, <1>8 DEF Booked

\* What the generator comes to at position p has been handed out before it.
LEMMA AllBefore ==
  ASSUME NEW T \in ToolRecords, Ordered(T), \A j \in Tools : Accounted(T[j]),
         NEW p \in 1..(MaxTools + 1), Left(T, p), NEW i \in YieldsAt(T, p), T[i].kind.known,
         NEW h \in Tools, h < i, ~T[h].kind.safe, \A n \in h..(i - 1) : T[n].kind.known
  PROVE  T[h].status = "yielded"
<1>1. /\ i \in Tools /\ i >= p /\ Yieldable(T[i])
      /\ \A j \in Tools : p <= j /\ j < i => ~Yieldable(T[j]) /\ ~Barrier(T[j])
  BY DEF YieldsAt
<1>2. /\ i \in Int /\ h \in Int /\ p \in Int
  BY <1>1, SizeAssumption DEF Tools
<1>3. T[i].status \notin {"absent", "queued"}
  <2>1. T[i].progress \in Nat /\ Accounted(T[i])
    BY <1>1, RecordParts DEF ToolRecords
  <2> QED BY <1>1, <2>1 DEF Accounted, Yieldable
<1>4. CASE h < p
  <2>1. \A n \in h..(p - 1) : n \in h..(i - 1)
    BY <1>1, <1>2
  <2> QED BY <1>4, <2>1 DEF Left
<1>5. CASE ~(h < p)
  <2>1. ~Yieldable(T[h]) /\ ~Barrier(T[h])
    BY <1>1, <1>2, <1>5
  <2>2. T[h].status \notin {"completed", "executing"}
    BY <2>1 DEF Yieldable, Barrier
  <2>3. T[h].status # "absent" /\ T[h].status # "queued"
    BY <1>1, <1>3 DEF Ordered, NoHoles, InOrder
  <2>4. T[h].status \in Statuses
    BY RecordParts DEF ToolRecords
  <2> QED BY <2>2, <2>3, <2>4 DEF Statuses
<1> QED BY <1>4, <1>5

LEMMA YieldBooked ==
  ASSUME NEW T \in ToolRecords, Ordered(T), emitted \in Seq(Tools), NEW C \in Seq(Tools),
         Booked(T, emitted, C), NEW p \in 1..(MaxTools + 1), Left(T, p),
         NEW i \in YieldsAt(T, p), YieldFrom(T, i)
  PROVE  Booked(tools', emitted', C) /\ Left(tools', at')
<1>1. /\ i \in Tools /\ i \in Nat /\ Yieldable(T[i]) /\ T[i] \in Records /\ Accounted(T[i])
      /\ \A j \in Tools : Accounted(T[j])
  BY SizeAssumption DEF YieldsAt, Tools, ToolRecords, Booked
<1>2. \A h \in Tools : /\ T[i].kind.known /\ h < i /\ ~T[h].kind.safe
                       /\ \A n \in h..(i - 1) : T[n].kind.known
                       => T[h].status = "yielded"
  BY <1>1, AllBefore
<1>3. \A h \in Tools : \A n \in h..(i - 1) : n \in Tools /\ n # i
  BY <1>1, SizeAssumption DEF Tools
<1>4. CASE T[i].progress > 0
  <2> DEFINE t == [T[i] EXCEPT !.progress = T[i].progress - 1]
  <2>1. tools' = [T EXCEPT ![i] = t] /\ at' = i /\ emitted' = emitted
    BY <1>1, <1>4 DEF YieldFrom
  <2>2. /\ t.kind = T[i].kind /\ t.status = T[i].status /\ t.results = T[i].results
        /\ t.inbox = T[i].inbox /\ t.erred = T[i].erred /\ t.closed = T[i].closed
    BY <1>1 DEF Records
  <2> HIDE DEF t
  <2>3. /\ tools'[i] = t /\ \A j \in Tools : j # i => tools'[j] = T[j]
    BY <1>1, <2>1 DEF ToolRecords
  <2>4. T[i].kind.known /\ T[i].status \notin {"absent", "queued"}
    BY <1>1, <1>4 DEF Accounted
  <2>5. Accounted(t)
    BY <1>1, <2>2, <2>4 DEF Accounted, Ended
  <2>6. /\ \A j \in Tools : tools'[j].kind = T[j].kind
        /\ \A j \in Tools : tools'[j].status = T[j].status
        /\ \A j \in Tools : tools'[j].results = T[j].results
    BY <2>2, <2>3
  <2>7. \A j \in Tools : Accounted(tools'[j])
    BY <1>1, <2>3, <2>5
  <2>8. AloneIsLast(tools')
    BY <2>6 DEF Booked, AloneIsLast
  <2>9. Handed(tools', emitted')
    <3>1. \A j \in Tools : tools'[j].status = "yielded" <=> T[j].status = "yielded"
      BY <2>6
    <3>2. Handed(T, emitted)
      BY DEF Booked
    <3>3. Handed(tools', emitted)
      BY <2>6, <3>1, <3>2, SameHanded
    <3> QED BY <2>1, <3>3
  <2>10. Modified(tools', C)
    <3>1. \A n \in DOMAIN C : C[n] \in Tools
      OBVIOUS
    <3> QED BY <2>6, <3>1 DEF Booked, Modified, Ended
  <2>11. Left(tools', at')
    <3> SUFFICES ASSUME NEW h \in Tools, h < i, ~tools'[h].kind.safe,
                        \A n \in h..(i - 1) : tools'[n].kind.known
                 PROVE  tools'[h].status = "yielded"
      BY <2>1 DEF Left
    <3>1. \A n \in h..(i - 1) : T[n].kind.known
      BY <1>3, <2>6
    <3> QED BY <1>2, <2>4, <2>6, <3>1
  <2> QED BY <2>7, <2>8, <2>9, <2>10, <2>11 DEF Booked
<1>5. CASE ~(T[i].progress > 0)
  <2> DEFINE t == [T[i] EXCEPT !.status = "yielded"]
             F == Append(emitted, i)
  <2>1. tools' = [T EXCEPT ![i] = t] /\ at' = i + 1 /\ emitted' = F /\ T[i].status = "completed"
    BY <1>1, <1>5 DEF YieldFrom, Yieldable
  <2>2. /\ t.kind = T[i].kind /\ t.status = "yielded" /\ t.results = T[i].results
        /\ t.progress = T[i].progress
    BY <1>1 DEF Records
  <2> HIDE DEF t
  <2>3. /\ tools'[i] = t /\ \A j \in Tools : j # i => tools'[j] = T[j]
    BY <1>1, <2>1 DEF ToolRecords
  <2>4. Accounted(t)
    BY <1>1, <2>1, <2>2 DEF Accounted, Ended
  <2>5. /\ \A j \in Tools : tools'[j].kind = T[j].kind
        /\ \A j \in Tools : tools'[j].results = T[j].results
        /\ \A j \in Tools : Ended(tools'[j]) <=> Ended(T[j])
        /\ \A j \in Tools : tools'[j].status = "yielded" <=> T[j].status = "yielded" \/ j = i
    BY <2>1, <2>2, <2>3 DEF Ended
  <2>6. \A j \in Tools : Accounted(tools'[j])
    BY <1>1, <2>3, <2>4
  <2>7. AloneIsLast(tools')
    BY <2>1, <2>2, <2>3 DEF Booked, AloneIsLast
  <2>8. /\ F \in Seq(Tools) /\ Len(emitted) \in Nat
        /\ DOMAIN F = 1..(Len(emitted) + 1) /\ DOMAIN emitted = 1..Len(emitted)
        /\ F[Len(emitted) + 1] = i /\ \A n \in 1..Len(emitted) : F[n] = emitted[n] /\ emitted[n] \in Tools
    BY <1>1
  <2> HIDE DEF F
  <2>9. \A n \in 1..Len(emitted) : emitted[n] # i
    BY <1>1, <2>1, <2>8 DEF Booked, Handed
  <2>10. \A a, b \in Tools : Precedes(tools', a, b) => Precedes(T, a, b)
    <3> SUFFICES ASSUME NEW a \in Tools, NEW b \in Tools, Precedes(tools', a, b) PROVE Precedes(T, a, b)
      OBVIOUS
    <3>1. \A n \in a..b : n \in Tools
      BY SizeAssumption DEF Tools
    <3> QED BY <2>5, <3>1 DEF Precedes
  <2>11. Handed(tools', F)
    <3>1. ASSUME NEW j \in Tools PROVE tools'[j].status = "yielded" <=> \E n \in DOMAIN F : F[n] = j
      <4>1. T[j].status = "yielded" <=> \E n \in 1..Len(emitted) : emitted[n] = j
        BY <2>8 DEF Booked, Handed
      <4>2. (\E n \in DOMAIN F : F[n] = j) <=> (\E n \in 1..Len(emitted) : emitted[n] = j) \/ j = i
        BY <2>8
      <4> QED BY <2>5, <4>1, <4>2
    <3>2. ASSUME NEW m \in DOMAIN F, NEW n \in DOMAIN F, F[m] = F[n] PROVE m = n
      <4>1. \A a, b \in 1..Len(emitted) : emitted[a] = emitted[b] => a = b
        BY <2>8 DEF Booked, Handed
      <4> QED BY <2>8, <2>9, <3>2, <4>1
    <3>3. ASSUME NEW m \in DOMAIN F, NEW j \in Tools, Precedes(tools', j, F[m])
          PROVE  \E n \in DOMAIN F : n < m /\ F[n] = j
      <4>1. CASE m \in 1..Len(emitted)
        <5>1. Precedes(T, j, emitted[m])
          BY <2>8, <2>10, <3>3, <4>1
        <5>2. PICK n \in 1..Len(emitted) : n < m /\ emitted[n] = j
          BY <2>8, <4>1, <5>1 DEF Booked, Handed
        <5> QED BY <2>8, <5>2
      <4>2. CASE m = Len(emitted) + 1
        <5>1. Precedes(T, j, i)
          BY <1>1, <2>8, <2>10, <3>3, <4>2
        <5>2. T[i].kind.known /\ \A n \in j..(i - 1) : T[n].kind.known
          BY <1>1, <5>1, SizeAssumption DEF Precedes, Tools
        <5>3. T[j].status = "yielded"
          BY <1>2, <5>1, <5>2 DEF Precedes
        <5>4. PICK n \in 1..Len(emitted) : emitted[n] = j
          BY <2>8, <5>3 DEF Booked, Handed
        <5> QED BY <2>8, <4>2, <5>4
      <4> QED BY <2>8, <4>1, <4>2
    <3> QED BY <3>1, <3>2, <3>3 DEF Handed
  <2>12. Modified(tools', C)
    <3>1. \A n \in DOMAIN C : C[n] \in Tools
      OBVIOUS
    <3> QED BY <2>5, <3>1 DEF Booked, Modified
  <2>13. Left(tools', at')
    <3> SUFFICES ASSUME NEW h \in Tools, h < i + 1, ~tools'[h].kind.safe,
                        \A n \in h..i : tools'[n].kind.known
                 PROVE  tools'[h].status = "yielded"
      BY <1>1, <2>1 DEF Left
    <3>1. CASE h = i
      BY <2>5, <3>1
    <3>2. CASE h # i
      <4>1. h < i /\ i \in h..i /\ \A n \in h..(i - 1) : n \in h..i
        BY <1>1, <3>2, SizeAssumption DEF Tools
      <4>2. T[i].kind.known /\ \A n \in h..(i - 1) : T[n].kind.known
        BY <1>1, <1>3, <2>5, <4>1
      <4> QED BY <1>2, <2>5, <4>1, <4>2
    <3> QED BY <3>1, <3>2
  <2> QED BY <2>1, <2>6, <2>7, <2>11, <2>12, <2>13 DEF Booked
<1> QED BY <1>4, <1>5

\* A call that runs goes on to run, or ends.
LEMMA RunsBooked ==
  ASSUME NEW T \in ToolRecords, NEW U \in ToolRecords, NEW i \in Tools, NEW E \in Seq(Tools), NEW C \in Seq(Tools),
         NEW D \in Seq(Tools), Booked(T, E, C), T[i].status = "executing",
         U[i].kind = T[i].kind, \A j \in Tools : j # i => U[j] = T[j], Accounted(U[i]),
         \/ U[i].status = "executing" /\ D = C
         \/ /\ U[i].status = "completed"
            /\ D = IF ~T[i].kind.safe /\ "ok" \in Messages(U[i].results) THEN Append(C, i) ELSE C
  PROVE  /\ Booked(U, E, D)
         /\ \A q \in 1..(MaxTools + 1) : Left(T, q) => Left(U, q)
<1>1. \A j \in Tools : Accounted(U[j])
  BY DEF Booked
<1>2. AloneIsLast(U)
  BY DEF Booked, AloneIsLast
<1>3. /\ \A j \in Tools : U[j].kind = T[j].kind
      /\ \A j \in Tools : U[j].status = "yielded" <=> T[j].status = "yielded"
      /\ \A j \in Tools : j # i => (Ended(U[j]) <=> Ended(T[j])) /\ U[j].results = T[j].results
      /\ ~Ended(T[i])
  BY DEF Ended
<1>4. Handed(U, E)
  BY <1>3, SameHanded DEF Booked
<1>5. \A q \in 1..(MaxTools + 1) : Left(T, q) => Left(U, q)
  <2>1. \A j \in Tools : T[j].status = "yielded" => U[j].status = "yielded"
    BY <1>3
  <2> QED BY <1>3, <2>1, SameLeft
<1>6. /\ \A n \in DOMAIN C : C[n] \in Tools /\ C[n] # i
      /\ \A n \in DOMAIN C : ~T[i].kind.safe => C[n] < i
  <2>1. \A n \in DOMAIN C : C[n] \in Tools
    OBVIOUS
  <2>2. \A n \in DOMAIN C : C[n] # i
    BY <1>3, <2>1 DEF Booked, Modified
  <2>3. ASSUME NEW n \in DOMAIN C, ~T[i].kind.safe, ~(C[n] < i) PROVE FALSE
    <3>1. i < C[n] /\ C[n] \in Tools
      BY <2>1, <2>2, <2>3, SizeAssumption DEF Tools
    <3>2. T[C[n]].kind.known /\ Ended(T[C[n]])
      BY <3>1 DEF Booked, Modified, Accounted
    <3> QED BY <2>3, <3>1, <3>2 DEF Booked, AloneIsLast, Ended
  <2> QED BY <2>1, <2>2, <2>3
<1>7. Modified(U, D)
  <2>1. CASE /\ D = C
             /\ ~(Ended(U[i]) /\ ~U[i].kind.safe /\ "ok" \in Messages(U[i].results))
    BY <1>3, <1>6, <2>1 DEF Booked, Modified
  <2>2. CASE U[i].status = "completed" /\ ~T[i].kind.safe /\ D = Append(C, i)
    <3>1. /\ DOMAIN D = 1..(Len(C) + 1) /\ DOMAIN C = 1..Len(C) /\ Len(C) \in Nat
          /\ D[Len(C) + 1] = i /\ \A n \in 1..Len(C) : D[n] = C[n]
      BY <2>2
    <3>2. ASSUME NEW n \in DOMAIN D PROVE ~U[D[n]].kind.safe /\ Ended(U[D[n]])
      <4>1. CASE n = Len(C) + 1
        BY <1>3, <2>2, <3>1, <4>1 DEF Ended
      <4>2. CASE n \in 1..Len(C)
        BY <1>3, <1>6, <3>1, <4>2 DEF Booked, Modified
      <4> QED BY <3>1, <4>1, <4>2
    <3>3. ASSUME NEW m \in DOMAIN D, NEW n \in DOMAIN D, m < n PROVE D[m] < D[n]
      <4>1. CASE n = Len(C) + 1
        <5>1. m \in 1..Len(C)
          BY <3>1, <3>3, <4>1
        <5>2. C[m] < i /\ D[m] = C[m]
          BY <1>6, <2>2, <3>1, <5>1
        <5> QED BY <3>1, <4>1, <5>2
      <4>2. CASE n \in 1..Len(C)
        <5>1. m \in 1..Len(C)
          BY <3>1, <3>3, <4>2
        <5> QED BY <3>1, <3>3, <4>2, <5>1 DEF Booked, Modified
      <4> QED BY <3>1, <4>1, <4>2
    <3>4. ASSUME NEW j \in Tools, Ended(U[j]), ~U[j].kind.safe, "ok" \in Messages(U[j].results)
          PROVE  \E n \in DOMAIN D : D[n] = j
      <4>1. CASE j = i
        BY <3>1, <4>1
      <4>2. CASE j # i
        <5>1. PICK n \in 1..Len(C) : C[n] = j
          BY <1>3, <3>1, <3>4, <4>2 DEF Booked, Modified
        <5> QED BY <3>1, <5>1
      <4> QED BY <4>1, <4>2
    <3> QED BY <3>2, <3>3, <3>4 DEF Modified
  <2> QED BY <1>3, <2>1, <2>2 DEF Ended
<1> QED BY <1>1, <1>2, <1>4, <1>5, <1>7 DEF Booked

LEMMA OnlyThat ==
  ASSUME tools \in ToolRecords, NEW i \in Tools, NEW t, tools' = [tools EXCEPT ![i] = t]
  PROVE  tools'[i] = t /\ \A j \in Tools : j # i => tools'[j] = tools[j]
BY DEF ToolRecords

\* What happens to a call that runs, as a step of the executor.
LEMMA CallInPlace ==
  ASSUME Inv, InPlace, NEW i \in Tools, NEW t, t.kind = tools[i].kind, tools[i].status = "executing",
         tools'[i] = t, \A j \in Tools : j # i => tools'[j] = tools[j],
         tools' \in ToolRecords, ctx' \in Seq(Tools), Accounted(t),
         \/ t.status = "executing" /\ ctx' = ctx
         \/ /\ t.status = "completed"
            /\ ctx' = IF ~tools[i].kind.safe /\ "ok" \in Messages(t.results) THEN Append(ctx, i) ELSE ctx,
         UNCHANGED <<at, emitted>>, pc' \in {"streamYield", "yield"} => pc' = pc
  PROVE  InPlace'
<1>1. /\ tools \in ToolRecords /\ emitted \in Seq(Tools) /\ ctx \in Seq(Tools) /\ at \in 1..(MaxTools + 1)
  BY DEF Inv, TypeOK, ToolRecords
<1>2. Booked(tools, emitted, ctx)
  BY DEF InPlace
<1>3. /\ Booked(tools', emitted, ctx')
      /\ \A q \in 1..(MaxTools + 1) : Left(tools, q) => Left(tools', q)
  BY <1>1, <1>2, RunsBooked
<1> QED BY <1>1, <1>3 DEF InPlace

LEMMA CompleteInPlace ==
  ASSUME Inv, InPlace, NEW i \in Tools, tools[i].status = "executing",
         NEW results \in Seq(Updates \cup Synthetic), Complete(i, results), tools' \in ToolRecords, ctx' \in Seq(Tools),
         Messages(results) \cap ToolResults # {},
         "err" \in Messages(results) => Messages(results) \cap Synthetic = {},
         UNCHANGED <<at, emitted>>
  PROVE  InPlace'
<1> DEFINE t == [tools[i] EXCEPT !.status = "completed", !.results = results,
                                 !.inbox = <<>>, !.closed = TRUE]
<1>1. tools[i] \in Records /\ Accounted(tools[i])
  BY DEF Inv, TypeOK, InPlace, Booked
<1>2. /\ t.kind = tools[i].kind /\ t.status = "completed" /\ t.results = results
      /\ t.progress = tools[i].progress
  BY <1>1 DEF Records
<1>3. tools'[i] = t /\ \A j \in Tools : j # i => tools'[j] = tools[j]
  <2>1. tools' = [tools EXCEPT ![i] = t] /\ tools \in ToolRecords
    BY DEF Complete, Inv, TypeOK, ToolRecords
  <2> HIDE DEF t
  <2> QED BY <2>1, OnlyThat
<1> HIDE DEF t
<1>4. Accounted(t)
  BY <1>1, <1>2 DEF Accounted, Ended
<1>5. ctx' = IF ~tools[i].kind.safe /\ "ok" \in Messages(t.results) THEN Append(ctx, i) ELSE ctx
  BY <1>2 DEF Complete, Messages
<1>6. pc' = pc \/ pc' = "woken"
  BY DEF Complete, Wake
<1> QED BY <1>2, <1>3, <1>4, <1>5, <1>6, CallInPlace

LEMMA TakeUpdateInPlace ==
  ASSUME Inv, InPlace, NEW i \in Tools, TakeUpdate(i), tools' \in ToolRecords
  PROVE  InPlace'
<1> DEFINE u == Head(tools[i].inbox)
           t == [tools[i] EXCEPT
                   !.inbox = Tail(@),
                   !.erred = @ \/ u = "err",
                   !.progress = IF u = "progress" THEN @ + 1 ELSE @,
                   !.results = IF u = "progress" THEN @ ELSE Append(@, u)]
<1>1. /\ tools[i] \in Records /\ tools[i].status = "executing" /\ tools[i].inbox # <<>>
      /\ Accounted(tools[i]) /\ ctx \in Seq(Tools)
  BY DEF TakeUpdate, Inv, TypeOK, InPlace, Booked
<1>2. /\ tools[i].inbox \in Seq(Updates) /\ tools[i].results \in Seq(Updates \cup Synthetic)
      /\ tools[i].erred \in BOOLEAN
  BY <1>1, RecordParts
<1>3. /\ tools' = [tools EXCEPT ![i] = t] /\ tools \in ToolRecords
      /\ UNCHANGED <<at, emitted, ctx>> /\ (pc' = pc \/ pc' = "woken")
  BY DEF TakeUpdate, Inv, TypeOK, ToolRecords
<1>4. /\ t.kind = tools[i].kind /\ t.status = "executing" /\ t.inbox = Tail(tools[i].inbox)
      /\ t.closed = tools[i].closed
      /\ t.erred = (tools[i].erred \/ u = "err")
      /\ t.results = IF u = "progress" THEN tools[i].results ELSE Append(tools[i].results, u)
  BY <1>1 DEF Records
<1>5. u \in Updates /\ Messages(tools[i].inbox) = Messages(t.inbox) \cup {u}
  BY <1>1, <1>2, <1>4, MessagesFirst
<1> HIDE DEF t, u
<1>6. Messages(t.results) = IF u = "progress" THEN Messages(tools[i].results)
                                              ELSE Messages(tools[i].results) \cup {u}
  <2>1. CASE u = "progress"
    BY <1>4, <2>1
  <2>2. CASE u # "progress"
    <3>1. t.results = Append(tools[i].results, u) /\ u \in Updates \cup Synthetic
      BY <1>4, <1>5, <2>2
    <3>2. Messages(Append(tools[i].results, u)) = Messages(tools[i].results) \cup {u}
      BY <1>2, <3>1, MessagesMore
    <3> QED BY <2>2, <3>1, <3>2
  <2> QED BY <2>1, <2>2
<1>7. Accounted(t)
  <2>1. Messages(t.results) \subseteq Updates
    BY <1>1, <1>5, <1>6 DEF Accounted
  <2>2. t.erred <=> "err" \in Messages(t.results)
    BY <1>1, <1>2, <1>4, <1>6 DEF Accounted
  <2>3. t.closed => \E r \in {"ok", "err"} : r \in Messages(t.results) \/ r \in Messages(t.inbox)
    BY <1>1, <1>4, <1>5, <1>6 DEF Accounted
  <2>4. t.kind.known
    BY <1>1, <1>4 DEF Accounted
  <2> QED BY <1>4, <2>1, <2>2, <2>3, <2>4 DEF Accounted, Ended
<1>8. tools'[i] = t /\ \A j \in Tools : j # i => tools'[j] = tools[j]
  BY <1>3, OnlyThat
<1> QED BY <1>1, <1>3, <1>4, <1>7, <1>8, CallInPlace

\* Messages of the call are on their way.
LEMMA InboxInPlace ==
  ASSUME Inv, InPlace, NEW i \in Tools, tools[i].status = "executing",
         NEW b \in Seq(Updates), NEW c \in BOOLEAN,
         tools' = [tools EXCEPT ![i].inbox = tools[i].inbox \o b, ![i].closed = c], tools' \in ToolRecords,
         c => tools[i].closed \/ \E r \in {"ok", "err"} : r \in Messages(b),
         UNCHANGED <<pc, at, emitted, ctx>>
  PROVE  InPlace'
<1> DEFINE t == [tools[i] EXCEPT !.inbox = tools[i].inbox \o b, !.closed = c]
<1>1. tools[i] \in Records /\ Accounted(tools[i]) /\ ctx \in Seq(Tools) /\ tools[i].inbox \in Seq(Updates)
  <2>1. tools[i] \in Records /\ Accounted(tools[i]) /\ ctx \in Seq(Tools)
    BY DEF Inv, TypeOK, InPlace, Booked
  <2> QED BY <2>1, RecordParts
<1>2. /\ t.kind = tools[i].kind /\ t.status = "executing" /\ t.inbox = tools[i].inbox \o b
      /\ t.closed = c /\ t.erred = tools[i].erred /\ t.results = tools[i].results
  BY <1>1 DEF Records
<1>3. tools'[i] = t /\ \A j \in Tools : j # i => tools'[j] = tools[j]
  <2>1. tools' = [tools EXCEPT ![i] = t] /\ tools \in ToolRecords
    BY DEF Inv, TypeOK, ToolRecords
  <2> HIDE DEF t
  <2> QED BY <2>1, OnlyThat
<1> HIDE DEF t
<1>4. Messages(t.inbox) = Messages(tools[i].inbox) \cup Messages(b)
  <2>1. Messages(tools[i].inbox \o b) = Messages(tools[i].inbox) \cup Messages(b)
    BY <1>1, MessagesBoth
  <2> QED BY <1>2, <2>1
<1>5. Accounted(t)
  BY <1>1, <1>2, <1>4 DEF Accounted, Ended
<1> QED BY <1>1, <1>2, <1>3, <1>5, CallInPlace

LEMMA ToolStepInPlace ==
  ASSUME Inv, InPlace, Inv', NEW i \in Tools, ToolStep(i)
  PROVE  InPlace'
<1>1. /\ tools[i] \in Records /\ Accounted(tools[i]) /\ tools' \in ToolRecords
      /\ ctx \in Seq(Tools) /\ ctx' \in Seq(Tools)
  BY DEF Inv, TypeOK, ToolRecords, InPlace, Booked
<1>2. /\ tools[i].inbox \in Seq(Updates) /\ tools[i].closed \in BOOLEAN
      /\ tools[i].results \in Seq(Updates \cup Synthetic) /\ tools[i].erred \in BOOLEAN
  BY <1>1, RecordParts
<1>3. CASE Progress(i)
  <2>1. /\ tools' = [tools EXCEPT ![i].inbox = Append(tools[i].inbox, "progress")]
        /\ tools[i].status = "executing" /\ UNCHANGED <<pc, at, emitted, ctx>>
    BY <1>3 DEF Progress, Awaits
  <2>2. /\ Append(tools[i].inbox, "progress") = tools[i].inbox \o <<"progress">>
        /\ <<"progress">> \in Seq(Updates)
    BY <1>2 DEF Updates
  <2>3. tools' = [tools EXCEPT ![i].inbox = tools[i].inbox \o <<"progress">>, ![i].closed = tools[i].closed]
    BY <1>1, <2>1, <2>2 DEF Inv, TypeOK, Records
  <2> QED BY <1>1, <1>2, <2>1, <2>2, <2>3, InboxInPlace
<1>4. CASE End(i)
  <2>1. PICK b \in Bursts :
          tools' = [tools EXCEPT ![i].inbox = tools[i].inbox \o b, ![i].closed = TRUE]
    BY <1>4 DEF End
  <2>2. b \in Seq(Updates) /\ \E r \in {"ok", "err"} : r \in Messages(b)
    BY BurstAssumption DEF Messages
  <2> QED BY <1>1, <1>4, <2>1, <2>2, InboxInPlace DEF End, Awaits
<1>5. CASE RejectAndAbort(i)
  <2>1. /\ tools' = [tools EXCEPT ![i].inbox = tools[i].inbox \o <<"err">>, ![i].closed = TRUE]
        /\ tools[i].status = "executing" /\ UNCHANGED <<pc, at, emitted, ctx>>
    BY <1>5 DEF RejectAndAbort, Awaits
  <2>2. <<"err">> \in Seq(Updates) /\ "err" \in Messages(<<"err">>)
    BY DEF Updates, Messages
  <2> QED BY <1>1, <2>1, <2>2, InboxInPlace
<1>6. CASE TakeUpdate(i)
  BY <1>1, <1>6, TakeUpdateInPlace
<1>7. CASE CancelTool(i)
  <2> DEFINE r == AbortReason(tools[i].kind)
             s == Append(tools[i].results, r)
  <2>1. r \in Synthetic /\ ~tools[i].erred /\ tools[i].status = "executing" /\ Complete(i, s)
        /\ UNCHANGED <<at, emitted>>
    BY <1>7, AbortReasonType DEF CancelTool, Cancelled
  <2> HIDE DEF r
  <2>2. s \in Seq(Updates \cup Synthetic) /\ Messages(s) = Messages(tools[i].results) \cup {r}
    <3>1. r \in Updates \cup Synthetic
      BY <2>1
    <3>2. s \in Seq(Updates \cup Synthetic)
      BY <1>2, <3>1
    <3>3. Messages(Append(tools[i].results, r)) = Messages(tools[i].results) \cup {r}
      BY <1>2, <3>1, MessagesMore
    <3> QED BY <3>2, <3>3
  <2> HIDE DEF s
  <2>3. "err" \notin Messages(tools[i].results) /\ r # "err" /\ r \in ToolResults
    BY <1>1, <2>1 DEF Accounted, Synthetic, ToolResults
  <2> QED BY <1>1, <2>1, <2>2, <2>3, CompleteInPlace
<1>8. CASE FinishTool(i)
  <2>1. /\ tools[i].status = "executing" /\ tools[i].inbox = <<>> /\ tools[i].closed
        /\ Complete(i, tools[i].results) /\ UNCHANGED <<at, emitted>>
    BY <1>8 DEF FinishTool
  <2>2. /\ \E r \in {"ok", "err"} : r \in Messages(tools[i].results)
        /\ Messages(tools[i].results) \subseteq Updates
    BY <1>1, <2>1, NoMessages DEF Accounted
  <2> QED BY <1>1, <1>2, <2>1, <2>2, CompleteInPlace DEF ToolResults, Synthetic, Updates
<1> QED BY <1>3, <1>4, <1>5, <1>6, <1>7, <1>8 DEF ToolStep

\* The loop of getRemainingResults() goes to its head.
LEMMA LoopHeadInPlace ==
  ASSUME Inv, InPlace, LoopHead, UNCHANGED <<emitted, ctx>>
  PROVE  InPlace'
<1>1. tools \in ToolRecords /\ emitted \in Seq(Tools) /\ ctx \in Seq(Tools) /\ Ordered(tools)
  BY DEF Inv, TypeOK, ToolRecords
<1>2. pc' \in {"done", "pq"} /\ (tools' = tools \/ tools' = Scan(tools, 1))
  BY DEF LoopHead
<1>3. Booked(tools', emitted, ctx)
  BY <1>1, <1>2, ScanBooked DEF InPlace
<1> QED BY <1>2, <1>3 DEF InPlace

LEMMA YieldInPlace ==
  ASSUME Inv, InPlace, NEW p \in 1..(MaxTools + 1), Left(tools, p),
         NEW i \in YieldsAt(tools, p), YieldFrom(tools, i), ctx' = ctx
  PROVE  InPlace'
<1>1. tools \in ToolRecords /\ emitted \in Seq(Tools) /\ ctx \in Seq(Tools) /\ Ordered(tools)
  BY DEF Inv, TypeOK, ToolRecords
<1>2. Booked(tools', emitted', ctx) /\ Left(tools', at')
  BY <1>1, YieldBooked DEF InPlace
<1> QED BY <1>2 DEF InPlace

LEMMA NothingLeft == \A T : Left(T, 1) /\ 1 \in 1..(MaxTools + 1)
BY SizeAssumption DEF Left, Tools

LEMMA YieldNextInPlace ==
  ASSUME Inv, InPlace, NEW p \in 1..(MaxTools + 1), Left(tools, p), YieldNext(p), ctx' = ctx
  PROVE  InPlace'
<1>1. CASE YieldsAt(tools, p) # {}
  BY <1>1, YieldInPlace DEF YieldNext
<1>2. CASE YieldsAt(tools, p) = {}
  <2>1. LoopTail /\ emitted' = emitted
    BY <1>2 DEF YieldNext
  <2>2. CASE pc' = "race" /\ tools' = tools
    BY <2>1, <2>2 DEF InPlace
  <2>3. CASE LoopHead
    BY <2>1, <2>3, LoopHeadInPlace
  <2> QED BY <2>1, <2>2, <2>3 DEF LoopTail
<1> QED BY <1>1, <1>2

LEMMA AddToolInPlace ==
  ASSUME Inv, InPlace, NEW k \in Kinds, AddTool(k)
  PROVE  InPlace'
<1>0. tools \in ToolRecords /\ Ordered(tools) /\ emitted \in Seq(Tools) /\ ctx \in Seq(Tools)
  BY DEF Inv, TypeOK, ToolRecords
<1>1. PICK n \in Slots :
        LET T == [tools EXCEPT ![n] = NewTool(k)]
            p == IF k.known THEN 1 ELSE MaxTools + 1
            S == Scan(T, p)
        IN IF YieldsAt(S, 1) = {}
             THEN tools' = S /\ UNCHANGED <<pc, at, emitted>>
             ELSE pc' = "streamYield" /\ \E i \in YieldsAt(S, 1) : YieldFrom(S, i)
  BY DEF AddTool
<1> DEFINE T == [tools EXCEPT ![n] = NewTool(k)]
           p == IF k.known THEN 1 ELSE MaxTools + 1
           S == Scan(T, p)
<1>2. /\ T \in ToolRecords /\ Ordered(T) /\ Booked(T, emitted, ctx)
  BY <1>0, NewToolOrdered, NewToolBooked DEF InPlace
<1>3. p \in Nat /\ (p \in Tools => Past(T, p))
  BY FirstPosition, SizeAssumption DEF Tools
<1>4. IF YieldsAt(S, 1) = {}
        THEN tools' = S /\ UNCHANGED <<pc, at, emitted>>
        ELSE pc' = "streamYield" /\ \E i \in YieldsAt(S, 1) : YieldFrom(S, i)
  BY <1>1
<1>5. pc = "stream" /\ ctx' = ctx
  BY DEF AddTool
<1> HIDE DEF T, p
<1>6. S \in ToolRecords /\ Ordered(S) /\ Booked(S, emitted, ctx)
  BY <1>0, <1>2, <1>3, ScanType, ScanOrdered, ScanBooked
<1> HIDE DEF S
<1>7. CASE YieldsAt(S, 1) = {}
  BY <1>4, <1>5, <1>6, <1>7 DEF InPlace
<1>8. CASE YieldsAt(S, 1) # {}
  <2>1. PICK i \in YieldsAt(S, 1) : YieldFrom(S, i)
    BY <1>4, <1>8
  <2>2. Booked(tools', emitted', ctx) /\ Left(tools', at')
    BY <1>0, <1>6, <2>1, NothingLeft, YieldBooked
  <2> QED BY <1>5, <2>2 DEF InPlace
<1> QED BY <1>7, <1>8

\* Before the first call there is nothing to account for.
LEMMA NothingBooked ==
  ASSUME NEW T, T = [i \in Tools |-> Absent]
  PROVE  Booked(T, <<>>, <<>>)
<1>1. /\ Absent.status = "absent" /\ Absent.results = <<>> /\ Absent.inbox = <<>>
      /\ Absent.progress = 0 /\ Absent.erred = FALSE /\ Absent.closed = FALSE /\ Absent.kind = Unknown
      /\ Unknown.known = FALSE /\ Unknown.safe = TRUE
  BY DEF Absent, TrackedTool, Unknown
<1>2. Accounted(Absent)
  BY <1>1 DEF Accounted, Ended
<1>3. \A i \in Tools : T[i] = Absent
  OBVIOUS
<1> QED BY <1>1, <1>2, <1>3 DEF Booked, AloneIsLast, Handed, Modified, Ended

LEMMA QueryLoopInPlace ==
  ASSUME Inv, InPlace, QueryLoop
  PROVE  InPlace'
<1>0. /\ tools \in ToolRecords /\ Ordered(tools) /\ emitted \in Seq(Tools) /\ ctx \in Seq(Tools)
      /\ at \in 1..(MaxTools + 1) /\ at \in Nat
  BY SizeAssumption DEF Inv, TypeOK, ToolRecords
<1>1. ASSUME NEW k \in Kinds, AddTool(k) PROVE InPlace'
  BY <1>1, AddToolInPlace
<1>2. CASE StreamEvent
  <2>1. PICK i \in YieldsAt(tools, 1) : YieldFrom(tools, i)
    BY <1>2 DEF StreamEvent
  <2> QED BY <1>2, <2>1, NothingLeft, YieldInPlace DEF StreamEvent
<1>3. CASE StreamYieldResume
  <2>1. CASE YieldsAt(tools, at) = {}
    BY <1>3, <2>1 DEF StreamYieldResume, InPlace
  <2>2. CASE YieldsAt(tools, at) # {}
    BY <1>0, <1>3, <2>2, YieldInPlace DEF StreamYieldResume, InPlace
  <2> QED BY <2>1, <2>2
<1>4. CASE Discard
  <2>1. tools' = [i \in Tools |-> Absent] /\ emitted' = <<>> /\ ctx' = <<>> /\ pc' = "stream"
    BY <1>4 DEF Discard
  <2>2. Booked(tools', <<>>, <<>>)
    BY <2>1, NothingBooked
  <2> QED BY <2>1, <2>2 DEF InPlace
<1>5. CASE StartRemaining \/ RaceEnds
  BY <1>5, LoopHeadInPlace DEF StartRemaining, RaceEnds
<1>6. CASE AwaitedScan
  <2>1. tools' = Scan(tools, at) /\ UNCHANGED <<emitted, ctx, pc>> /\ pc = "pq"
    BY <1>6 DEF AwaitedScan
  <2>2. Booked(tools', emitted, ctx)
    BY <1>0, <2>1, ScanBooked DEF InPlace
  <2> QED BY <2>1, <2>2 DEF InPlace
<1>7. CASE AwaitedScanEnds
  BY <1>7, NothingLeft, YieldNextInPlace DEF AwaitedScanEnds
<1>8. CASE YieldResume
  BY <1>0, <1>8, YieldNextInPlace DEF YieldResume, InPlace
<1> QED
  BY <1>1, <1>2, <1>3, <1>4, <1>5, <1>6, <1>7, <1>8 DEF QueryLoop

LEMMA InitInPlace == Init => InPlace
BY NothingBooked DEF Init, InPlace

LEMMA NextInPlace == Inv /\ Inv' /\ InPlace /\ [Next]_vars => InPlace'
<1> SUFFICES ASSUME Inv, Inv', InPlace, [Next]_vars PROVE InPlace'
  OBVIOUS
<1>1. CASE QueryLoop
  BY <1>1, QueryLoopInPlace
<1>2. ASSUME NEW p \in Tools, ProcessQueue(p) PROVE InPlace'
  <2>1. /\ tools \in ToolRecords /\ Ordered(tools) /\ emitted \in Seq(Tools) /\ ctx \in Seq(Tools)
        /\ at \in 1..(MaxTools + 1) /\ p \in Nat
    BY SizeAssumption DEF Inv, TypeOK, ToolRecords, Tools
  <2>2. tools' = Scan(tools, p) /\ UNCHANGED <<pc, at, emitted, ctx>>
    BY <1>2 DEF ProcessQueue
  <2>3. /\ Booked(tools', emitted, ctx)
        /\ \A q \in 1..(MaxTools + 1) : Left(tools, q) => Left(tools', q)
    BY <2>1, <2>2, ScanBooked DEF InPlace
  <2> QED BY <2>1, <2>2, <2>3 DEF InPlace
<1>3. ASSUME NEW i \in Tools, ToolStep(i) PROVE InPlace'
  BY <1>3, ToolStepInPlace
<1>4. CASE OrphanEnds \/ UserAbort \/ SubmitInterrupt \/ UNCHANGED vars
  BY <1>4 DEF OrphanEnds, UserAbort, SubmitInterrupt, vars, InPlace
<1> QED
  BY <1>1, <1>2, <1>3, <1>4 DEF Next, Terminated

----------------------------------------------------------------------------
(* The theorems                                                            *)

\* The inductive invariant: types, the order of the list, and the positions
\* at which the suspended processQueue() calls go on.
THEOREM Invariant == Spec => []Inv
<1>1. Init => Inv
  BY InitInv
<1>2. Inv /\ [Next]_vars => Inv'
  BY NextInv
<1>3. QED
  BY <1>1, <1>2, PTL DEF Spec

\* The variables have their types in every reachable state.
THEOREM TypeCorrect == Spec => []TypeOK
<1>1. Inv => TypeOK
  BY DEF Inv
<1>2. QED
  BY <1>1, Invariant, PTL

\* A call that is not concurrency safe runs alone, for any number of calls and
\* however the suspended processQueue() calls interleave.
THEOREM RunsAlone == Spec => []Exclusive
<1>1. Inv => Exclusive
  BY DEF Inv, Ordered, RunAlone, Exclusive, Executing, InState
<1>2. QED
  BY <1>1, Invariant, PTL

\* No call has been started or cancelled before an earlier one that still
\* waits in the queue.
THEOREM StartsInOrder == Spec => []StartedInOrder
<1>1. Inv => StartedInOrder
  BY DEF Inv, Ordered, InOrder, StartedInOrder
<1>2. QED
  BY <1>1, Invariant, PTL

\* Both invariants together.
THEOREM ExecutorInv == Spec => [](Inv /\ InPlace)
<1>1. Init => Inv /\ InPlace
  BY InitInv, InitInPlace
<1>2. Inv /\ InPlace /\ [Next]_vars => (Inv /\ InPlace)'
  BY NextInv, NextInPlace
<1> QED BY <1>1, <1>2, PTL DEF Spec

\* Every call that is over has a tool_result, however it ended, and its own
\* error is never doubled by a synthetic one: for any number of calls, any tools
\* and any messages of them.
THEOREM AnswersAll == Spec => []Answered
<1>1. Inv /\ InPlace => Answered
  <2> SUFFICES ASSUME Inv, InPlace, NEW i \in Tools
               PROVE  /\ tools[i].status \in {"completed", "yielded"} => Results(i) \cap ToolResults # {}
                      /\ "err" \in Results(i) => Results(i) \cap Synthetic = {}
    BY DEF Answered
  <2>1. Accounted(tools[i]) /\ Results(i) = Messages(tools[i].results)
    BY DEF InPlace, Booked, Results, Messages
  <2>2. Updates \cap Synthetic = {}
    BY DEF Updates, Synthetic
  <2>3. CASE tools[i].status \in {"absent", "queued"}
    BY <2>1, <2>3, NoMessages DEF Accounted
  <2>4. CASE tools[i].status = "executing"
    BY <2>1, <2>2, <2>4 DEF Accounted
  <2>5. CASE Ended(tools[i])
    <3>1. /\ Messages(tools[i].results) \cap ToolResults # {}
          /\ "err" \in Messages(tools[i].results) => Messages(tools[i].results) \cap Synthetic = {}
      BY <2>1, <2>5 DEF Accounted
    <3> QED BY <2>1, <3>1
  <2>6. tools[i].status \in Statuses
    BY RecordParts DEF Inv, TypeOK
  <2> QED BY <2>1, <2>3, <2>4, <2>5, <2>6 DEF Ended, Statuses
<1> QED BY <1>1, ExecutorInv, PTL

\* The result of a call that is not concurrency safe comes out before those of
\* later calls, and its context modifiers are applied in order and before them,
\* however slowly the consumer takes what getCompletedResults() yields.
THEOREM OrdersResults == Spec => []ResultsInOrder
<1>1. Inv /\ InPlace => ResultsInOrder
  <2> SUFFICES ASSUME Inv, InPlace PROVE ResultsInOrder
    OBVIOUS
  <2>0. /\ emitted \in Seq(Tools) /\ DOMAIN emitted = 1..Len(emitted) /\ Len(emitted) \in Nat
        /\ Ordered(tools) /\ Handed(tools, emitted) /\ Modified(tools, ctx) /\ AloneIsLast(tools)
        /\ tools \in ToolRecords
    BY DEF Inv, TypeOK, InPlace, Booked, ToolRecords
  <2>1. ASSUME NEW i \in Tools, NEW n \in DOMAIN emitted, emitted[n] = i PROVE Pos(i) = n
    BY <2>0, <2>1 DEF Handed, Pos
  <2>2. ASSUME NEW i \in Tools, NEW j \in Tools, i < j, ~tools[i].kind.safe,
               tools[j].status = "yielded", \A n \in i..j : tools[n].kind.known
        PROVE  tools[i].status = "yielded" /\ Pos(i) < Pos(j)
    <3>1. PICK m \in DOMAIN emitted : emitted[m] = j
      BY <2>0, <2>2 DEF Handed
    <3>2. PICK n \in DOMAIN emitted : n < m /\ emitted[n] = i
      BY <2>0, <2>2, <3>1 DEF Handed, Precedes
    <3> QED BY <2>0, <2>1, <3>1, <3>2 DEF Handed
  <2>3. ASSUME NEW i \in Tools, NEW j \in Tools, i < j, tools[j].status = "yielded", tools[j].kind.known,
               ~tools[i].kind.safe, "ok" \in Results(i)
        PROVE  \E n \in DOMAIN ctx : ctx[n] = i
    <3>1. tools[i].status \notin {"absent", "queued", "executing"}
      BY <2>0, <2>3 DEF Ordered, NoHoles, InOrder, AloneIsLast
    <3>2. tools[i].status \in Statuses
      BY <2>0, RecordParts DEF ToolRecords
    <3> QED BY <2>0, <2>3, <3>1, <3>2 DEF Modified, Ended, Statuses, Results, Messages
  <2> QED BY <2>0, <2>2, <2>3 DEF ResultsInOrder, Modified
<1> QED BY <1>1, ExecutorInv, PTL

----------------------------------------------------------------------------
(* Positions that cover the call that could run                            *)

LEMMA CoveredByFirst == ASSUME NEW T, NEW R, 1 \in R PROVE Covered(T, R)
BY DEF Covered, Tools

LEMMA CoveredByMore ==
  ASSUME NEW T, NEW R, NEW R2, R \subseteq R2, Covered(T, R)
  PROVE  Covered(T, R2)
BY DEF Covered

LEMMA CoveredByTools ==
  ASSUME NEW T, NEW R, R \subseteq Nat \ {0}, Covered(T, R)
  PROVE  Covered(T, R \cap Tools)
BY SizeAssumption DEF Covered, Tools

\* What does not start or end a call does not make one able to run.
LEMMA CoveredAsBefore ==
  ASSUME NEW T, NEW U, NEW R, Covered(T, R),
         \A i \in Tools : /\ U[i].status = "queued" <=> T[i].status = "queued"
                          /\ U[i].status = "executing" <=> T[i].status = "executing"
                          /\ T[i].status \in {"queued", "executing"}
                               => U[i].kind = T[i].kind
  PROVE  Covered(U, R)
<1>1. Executing(U) = Executing(T)
  BY DEF Executing, InState
<1>2. \A i \in Tools : U[i].status = "queued" => (CanExecute(U, i) <=> CanExecute(T, i))
  BY <1>1 DEF CanExecute, Executing, InState
<1>3. QED
  BY <1>2 DEF Covered

\* A scan that finds nothing to start leaves nothing it would have covered.
LEMMA CoveredWithoutPick ==
  ASSUME NEW T, NEW R, NEW p, Picks(T, p) = {}, Covered(T, R \cup {p})
  PROVE  Covered(T, R)
<1> SUFFICES ASSUME NEW i \in Tools, T[i].status = "queued", CanExecute(T, i),
                    \A j \in Tools : j < i => T[j].status # "queued"
             PROVE  \E q \in R : q <= i
  BY DEF Covered
<1>1. PICK q \in R \cup {p} : q <= i
  BY DEF Covered
<1>2. q # p
  BY <1>1 DEF Picks, CanPick, Tools
<1>3. QED
  BY <1>1, <1>2

\* A scan goes on behind the call it starts, and starts again when that call
\* was over at once: it covers what its own position covered before.
LEMMA ScanCovered ==
  ASSUME NEW T \in ToolRecords, NEW p \in Nat, p \in Tools => Past(T, p), NoHoles(T),
         NEW R, Covered(T, R \cup {p})
  PROVE  Covered(Scan(T, p), R \cup {NextAt(T, p)} \cup Restart(T, p))
<1> DEFINE U == Scan(T, p)
           V == R \cup {NextAt(T, p)} \cup Restart(T, p)
<1>1. CASE Picks(T, p) = {}
  <2>1. U = T
    BY <1>1 DEF Scan
  <2>2. QED
    BY <1>1, <2>1, CoveredWithoutPick, CoveredByMore
<1>2. CASE Picks(T, p) # {}
  <2>1. PICK i \in Picks(T, p) : U = [T EXCEPT ![i] = Launched(T[i])] /\ NextAt(T, p) = 1 + i
    BY <1>2 DEF Scan, NextAt
  <2>2. /\ i \in Tools /\ i >= p /\ T[i].status = "queued" /\ CanExecute(T, i)
        /\ CanPick(T, p, i)
    BY DEF Picks, CanPick
  <2>3. /\ U[i].status \in {"executing", "completed"} /\ U[i].kind = T[i].kind
        /\ \A j \in Tools : j # i => U[j] = T[j]
    BY <2>1, <2>2, LaunchedType DEF ToolRecords
  <2>4. p \in Tools \/ p = 0
    BY <2>2, SizeAssumption DEF Tools
  <2>5. Past(T, i)
    BY <2>2, <2>4, PickIsFirst DEF Past, Tools
  <2> HIDE DEF U
  <2>6. CASE U[i].status = "completed"
    <3>1. InState(U, "completed") # InState(T, "completed")
      BY <2>2, <2>6 DEF InState
    <3>2. Restart(T, p) = {1}
      BY <3>1 DEF Restart, U
    <3>3. QED
      BY <3>2, CoveredByFirst DEF U
  <2>7. CASE U[i].status = "executing"
    <3> SUFFICES ASSUME NEW j \in Tools, U[j].status = "queued"
                 PROVE  1 + i <= j
      BY <2>1 DEF Covered, U
    <3>1. j # i /\ T[j].status = "queued"
      BY <2>3, <2>7
    <3>2. ~(j < i)
      BY <2>5, <3>1 DEF Past
    <3>3. QED
      BY <2>2, <3>1, <3>2 DEF Tools
  <2>8. QED
    BY <2>3, <2>6, <2>7
<1>3. QED
  BY <1>1, <1>2

----------------------------------------------------------------------------
(* No call is forgotten                                                    *)

Awaiting == IF pc = "pq" THEN {at} ELSE {}

LEMMA NoStallMeans == NoStall <=> Covered(tools, resume \cup Awaiting)
BY DEF NoStall, Awaiting

\* A segment of processQueue() that went on at p, of which R is left.
LEMMA ScanNoStall ==
  ASSUME NEW T \in ToolRecords, Ordered(T), NEW p \in Nat \ {0}, p \in Tools => Past(T, p),
         NEW R, R \subseteq Nat \ {0}, Covered(T, R \cup {p})
  PROVE  Covered(Scan(T, p), R \cup Positions({NextAt(T, p)}) \cup Restart(T, p))
<1> DEFINE V == R \cup {NextAt(T, p)} \cup Restart(T, p)
<1>1. Covered(Scan(T, p), V)
  BY ScanCovered DEF Ordered
<1>2. NextAt(T, p) \in Nat \ {0}
  BY ScanType, SizeAssumption
<1>3. V \subseteq Nat \ {0}
  <2>1. Restart(T, p) \subseteq Nat \ {0}
    BY RestartType
  <2>2. QED
    BY <1>2, <2>1
<1> DEFINE W == V \cap Tools
<1>4. Covered(Scan(T, p), W)
  BY <1>1, <1>3, CoveredByTools
<1>5. W \subseteq R \cup Positions({NextAt(T, p)}) \cup Restart(T, p)
  BY DEF Positions
<1> HIDE DEF W
<1>6. QED
  BY <1>4, <1>5, CoveredByMore

LEMMA GoesOnCovered ==
  ASSUME NEW T, NEW U, GoesOn(T, U), NEW R, Covered(T, R),
         \A i \in Tools : T[i].status = "executing" => U[i].status = "executing"
  PROVE  Covered(U, R)
<1>1. \A i \in Tools : /\ U[i].status = "queued" <=> T[i].status = "queued"
                       /\ U[i].status = "executing" <=> T[i].status = "executing"
                       /\ U[i].kind = T[i].kind
  BY DEF GoesOn
<1>2. QED
  BY <1>1, CoveredAsBefore

LEMMA YieldCovered ==
  ASSUME NEW T \in ToolRecords, NEW p, NEW i \in YieldsAt(T, p), YieldFrom(T, i),
         NEW R, Covered(T, R), emitted \in Seq(Tools)
  PROVE  Covered(tools', R)
<1>1. i \in Tools /\ T[i] \in Records /\ Yieldable(T[i])
  BY DEF YieldsAt, ToolRecords
<1>2. \A j \in Tools : T[j].status = "executing" => tools'[j].status = "executing"
  <2>1. CASE T[i].progress > 0
    <3>1. tools' = [T EXCEPT ![i].progress = T[i].progress - 1]
      BY <2>1 DEF YieldFrom
    <3>2. QED
      BY <1>1, <3>1 DEF ToolRecords, Records
  <2>2. CASE ~(T[i].progress > 0)
    <3>1. tools' = [T EXCEPT ![i].status = "yielded"] /\ T[i].status = "completed"
      BY <1>1, <2>2 DEF YieldFrom, Yieldable
    <3>2. QED
      BY <1>1, <3>1 DEF ToolRecords, Records
  <2>3. QED
    BY <2>1, <2>2
<1>3. GoesOn(T, tools')
  BY YieldFromType
<1>4. QED
  BY <1>2, <1>3, GoesOnCovered

LEMMA AddToolNoStall ==
  ASSUME Inv, NoStall, NEW k \in Kinds, AddTool(k)
  PROVE  NoStall'
<1>1. PICK n \in Slots :
        LET T == [tools EXCEPT ![n] = NewTool(k)]
            p == IF k.known THEN 1 ELSE MaxTools + 1
            S == Scan(T, p)
        IN /\ resume' = resume \cup Positions({NextAt(T, p)}) \cup Restart(T, p)
           /\ IF YieldsAt(S, 1) = {}
                THEN tools' = S /\ UNCHANGED <<pc, at, emitted>>
                ELSE pc' = "streamYield" /\ \E i \in YieldsAt(S, 1) : YieldFrom(S, i)
  BY DEF AddTool
<1> DEFINE T == [tools EXCEPT ![n] = NewTool(k)]
           p == IF k.known THEN 1 ELSE MaxTools + 1
           S == Scan(T, p)
<1>2. tools \in ToolRecords /\ Ordered(tools) /\ resume \subseteq Nat \ {0} /\ pc = "stream"
  BY SizeAssumption DEF Inv, TypeOK, ToolRecords, Tools, AddTool
<1>3. T \in ToolRecords /\ Ordered(T)
  BY <1>2, NewToolOrdered
<1>4. p \in Nat \ {0} /\ (p \in Tools => Past(T, p))
  BY FirstPosition, SizeAssumption DEF Tools
<1>5. Covered(T, resume \cup {p})
  <2>1. CASE k.known
    BY <2>1, CoveredByFirst
  <2>2. CASE ~k.known
    <3>1. Covered(tools, resume)
      BY <1>2 DEF NoStall
    <3>2. /\ n \in Tools /\ tools[n].status = "absent" /\ T[n].status = "completed"
          /\ \A j \in Tools : j # n => T[j] = tools[j]
      BY <1>2, <2>2 DEF Slots, NewTool, TrackedTool, ToolRecords
    <3> HIDE DEF T
    <3>3. Covered(T, resume)
      BY <3>1, <3>2, CoveredAsBefore
    <3>4. QED
      BY <3>3, CoveredByMore
  <2>3. QED
    BY <2>1, <2>2
<1> HIDE DEF T, p
<1>6. Covered(S, resume')
  BY <1>1, <1>2, <1>3, <1>4, <1>5, ScanNoStall DEF T, p
<1>7. S \in ToolRecords
  BY <1>3, ScanType
<1> HIDE DEF S
<1>8. Covered(tools', resume') /\ pc' \in {"stream", "streamYield"}
  <2>1. CASE YieldsAt(S, 1) = {}
    BY <1>1, <1>2, <1>6, <2>1 DEF S, T, p
  <2>2. CASE YieldsAt(S, 1) # {}
    BY <1>1, <1>6, <1>7, <2>2, YieldCovered DEF S, T, p, Inv, TypeOK
  <2>3. QED
    BY <2>1, <2>2
<1>9. QED
  BY <1>8 DEF NoStall

LEMMA LoopHeadNoStall ==
  ASSUME Inv, LoopHead, Covered(tools, resume)
  PROVE  NoStall'
<1>1. CASE /\ \A i \in Tools : tools[i].status \in {"absent", "yielded"}
           /\ pc' = "done" /\ UNCHANGED <<tools, at, resume>>
  BY <1>1 DEF NoStall, Covered
<1>2. CASE /\ pc' = "pq" /\ tools' = Scan(tools, 1) /\ at' = NextAt(tools, 1)
           /\ resume' = resume \cup Restart(tools, 1)
  <2>1. /\ tools \in ToolRecords /\ NoHoles(tools) /\ Past(tools, 1)
        /\ Covered(tools, resume \cup {1})
    BY FirstPosition, CoveredByFirst DEF Inv, TypeOK, ToolRecords, Ordered
  <2>2. Covered(tools', resume \cup {at'} \cup Restart(tools, 1))
    BY <1>2, <2>1, ScanCovered
  <2>3. QED
    BY <1>2, <2>2, CoveredByMore DEF NoStall
<1>3. QED
  BY <1>1, <1>2 DEF LoopHead

LEMMA YieldNextNoStall ==
  ASSUME Inv, NEW p, YieldNext(p), Covered(tools, resume)
  PROVE  NoStall'
<1>1. CASE YieldsAt(tools, p) # {}
  <2>1. pc' = "yield" /\ resume' = resume
    BY <1>1 DEF YieldNext
  <2>2. Covered(tools', resume)
    BY <1>1, YieldCovered DEF YieldNext, Inv, TypeOK, ToolRecords
  <2>3. QED
    BY <2>1, <2>2 DEF NoStall
<1>2. CASE YieldsAt(tools, p) = {}
  <2>1. LoopTail
    BY <1>2 DEF YieldNext
  <2>2. CASE LoopHead
    BY <2>2, LoopHeadNoStall
  <2>3. CASE pc' = "race" /\ UNCHANGED <<tools, resume>>
    BY <2>3 DEF NoStall
  <2>4. QED
    BY <2>1, <2>2, <2>3 DEF LoopTail
<1>3. QED
  BY <1>1, <1>2

LEMMA QueryLoopNoStall ==
  ASSUME Inv, NoStall, QueryLoop
  PROVE  NoStall'
<1>1. pc # "pq" => Covered(tools, resume)
  BY DEF NoStall
<1>2. tools \in ToolRecords /\ emitted \in Seq(Tools)
  BY DEF Inv, TypeOK, ToolRecords
<1>3. ASSUME NEW k \in Kinds, AddTool(k) PROVE NoStall'
  BY <1>3, AddToolNoStall
<1>4. ASSUME NEW p, NEW i \in YieldsAt(tools, p), YieldFrom(tools, i), pc # "pq",
             pc' # "pq", resume' = resume
      PROVE  NoStall'
  BY <1>1, <1>2, <1>4, YieldCovered DEF NoStall
<1>5. CASE StreamEvent
  BY <1>4, <1>5 DEF StreamEvent
<1>6. CASE StreamYieldResume
  <2>1. CASE YieldsAt(tools, at) = {}
    BY <1>1, <1>6, <2>1 DEF StreamYieldResume, NoStall
  <2>2. CASE YieldsAt(tools, at) # {}
    BY <1>4, <1>6, <2>2 DEF StreamYieldResume
  <2>3. QED
    BY <2>1, <2>2
<1>7. CASE Discard
  BY <1>7 DEF Discard, NoStall, Covered, Absent, TrackedTool
<1>8. CASE StartRemaining
  BY <1>1, <1>8, LoopHeadNoStall DEF StartRemaining
<1>9. CASE AwaitedScan
  <2>1. /\ tools' = Scan(tools, at) /\ at' = NextAt(tools, at)
        /\ resume' = resume \cup Restart(tools, at)
        /\ pc = "pq" /\ pc' = "pq"
    BY <1>9 DEF AwaitedScan
  <2>2. /\ at \in Nat
        /\ at \in Tools => Past(tools, at)
        /\ NoHoles(tools)
    BY <2>1, SizeAssumption DEF Inv, TypeOK, PositionsPast, Ordered
  <2>3. Covered(tools, resume \cup {at})
    BY <2>1 DEF NoStall
  <2>4. Covered(Scan(tools, at), resume \cup {NextAt(tools, at)} \cup Restart(tools, at))
    BY <1>2, <2>2, <2>3, ScanCovered
  <2>5. resume \cup {NextAt(tools, at)} \cup Restart(tools, at) \subseteq resume' \cup {at'}
    BY <2>1
  <2>6. Covered(tools', resume' \cup {at'})
    BY <2>1, <2>4, <2>5, CoveredByMore
  <2>7. QED
    BY <2>1, <2>6 DEF NoStall
<1>10. CASE AwaitedScanEnds
  <2>1. Covered(tools, resume \cup {at}) /\ Picks(tools, at) = {}
    BY <1>10 DEF AwaitedScanEnds, NoStall
  <2>2. Covered(tools, resume)
    BY <2>1, CoveredWithoutPick
  <2>3. QED
    BY <1>10, <2>2, YieldNextNoStall DEF AwaitedScanEnds
<1>11. CASE YieldResume
  BY <1>1, <1>11, YieldNextNoStall DEF YieldResume
<1>12. CASE RaceEnds
  BY <1>1, <1>12, LoopHeadNoStall DEF RaceEnds
<1>13. QED
  BY <1>3, <1>5, <1>6, <1>7, <1>8, <1>9, <1>10, <1>11, <1>12 DEF QueryLoop

LEMMA ProcessQueueNoStall ==
  ASSUME Inv, NoStall, NEW p \in Tools, ProcessQueue(p)
  PROVE  NoStall'
<1> DEFINE R == (resume \ {p}) \cup Awaiting
<1>1. /\ tools \in ToolRecords /\ Ordered(tools) /\ p \in Nat \ {0} /\ Past(tools, p)
      /\ p \in resume
  BY SizeAssumption DEF ProcessQueue, Inv, TypeOK, ToolRecords, PositionsPast, Tools
<1>2. R \subseteq Nat \ {0}
  BY SizeAssumption DEF Inv, TypeOK, Awaiting, Tools
<1>3. resume \cup Awaiting \subseteq R \cup {p}
  OBVIOUS
<1>4. Covered(tools, R \cup {p})
  BY <1>3, NoStallMeans, CoveredByMore
<1>5. /\ tools' = Scan(tools, p)
      /\ resume' = (resume \ {p}) \cup Positions({NextAt(tools, p)}) \cup Restart(tools, p)
      /\ pc' = pc /\ at' = at
  BY DEF ProcessQueue
<1>6. R \cup Positions({NextAt(tools, p)}) \cup Restart(tools, p)
        = resume' \cup (IF pc' = "pq" THEN {at'} ELSE {})
  BY <1>5 DEF Awaiting
<1> HIDE DEF R
<1>7. Covered(tools', R \cup Positions({NextAt(tools, p)}) \cup Restart(tools, p))
  BY <1>1, <1>2, <1>4, <1>5, ScanNoStall
<1>8. QED
  BY <1>6, <1>7 DEF NoStall

\* The messages of a call change neither its status nor its kind.
LEMMA MessagesKeepStatus ==
  ASSUME Inv, NEW i \in Tools,
         Progress(i) \/ End(i) \/ RejectAndAbort(i) \/ TakeUpdate(i)
  PROVE  /\ \A j \in Tools : tools'[j].status = tools[j].status
                             /\ tools'[j].kind = tools[j].kind
         /\ resume' = resume /\ at' = at
         /\ pc' = "pq" <=> pc = "pq"
<1>1. tools \in ToolRecords
  BY DEF Inv, TypeOK, ToolRecords
<1>2. CASE Progress(i)
  BY <1>1, <1>2 DEF Progress, ToolRecords, Records
<1>3. CASE End(i) \/ RejectAndAbort(i)
  <2>1. PICK b : tools' = [tools EXCEPT ![i].inbox = tools[i].inbox \o b, ![i].closed = TRUE]
    BY <1>3 DEF End, RejectAndAbort
  <2> DEFINE ib == tools[i].inbox \o b
  <2>2. tools' = [tools EXCEPT ![i].inbox = ib, ![i].closed = TRUE]
    BY <2>1
  <2> HIDE DEF ib
  <2>3. resume' = resume /\ at' = at /\ pc' = pc
    BY <1>3 DEF End, RejectAndAbort
  <2>4. QED
    BY <1>1, <2>2, <2>3 DEF ToolRecords, Records
<1>4. CASE TakeUpdate(i)
  <2>1. PICK u, ib, e, pr, rs :
          /\ tools' = [tools EXCEPT ![i].inbox = ib, ![i].erred = e,
                                    ![i].progress = pr, ![i].results = rs]
          /\ pc' = IF u = "progress" /\ pc = "race" THEN "woken" ELSE pc
          /\ UNCHANGED <<resume, at>>
    BY <1>4 DEF TakeUpdate
  <2>2. QED
    BY <1>1, <2>1 DEF ToolRecords, Records
<1>5. QED
  BY <1>2, <1>3, <1>4

LEMMA ToolStepNoStall ==
  ASSUME Inv, NoStall, NEW i \in Tools, ToolStep(i)
  PROVE  NoStall'
<1>1. CASE Progress(i) \/ End(i) \/ RejectAndAbort(i) \/ TakeUpdate(i)
  <2>1. Covered(tools', resume \cup Awaiting)
    BY <1>1, MessagesKeepStatus, NoStallMeans, CoveredAsBefore
  <2>2. QED
    BY <1>1, <2>1, MessagesKeepStatus DEF NoStall, Awaiting
<1>2. CASE CancelTool(i) \/ FinishTool(i)
  <2>1. 1 \in resume'
    BY <1>2 DEF CancelTool, FinishTool, Complete
  <2>2. QED
    BY <2>1, CoveredByFirst DEF NoStall
<1>3. QED
  BY <1>1, <1>2 DEF ToolStep

\* A call that waits first in line and may run is never forgotten, however
\* the suspended processQueue() calls and the ends of calls interleave.
THEOREM NeverStalls == Spec => []NoStall
<1>1. Init => NoStall
  BY DEF Init, NoStall, Covered, Absent, TrackedTool
<1>2. Inv /\ NoStall /\ [Next]_vars => NoStall'
  <2> SUFFICES ASSUME Inv, NoStall, [Next]_vars PROVE NoStall'
    OBVIOUS
  <2>1. CASE UNCHANGED <<tools, resume, pc, at>>
    BY <2>1 DEF NoStall
  <2>2. CASE OrphanEnds \/ UserAbort \/ SubmitInterrupt \/ UNCHANGED vars
    BY <2>1, <2>2 DEF OrphanEnds, UserAbort, SubmitInterrupt, vars
  <2>3. QED
    BY <2>2, QueryLoopNoStall, ProcessQueueNoStall, ToolStepNoStall DEF Next, Terminated
<1>3. QED
  BY <1>1, <1>2, Invariant, PTL DEF Spec

----------------------------------------------------------------------------
(* What a step does to the calls                                           *)

\* The end of a call completes it.
LEMMA CompleteGoesOn ==
  ASSUME Inv, NEW i \in Tools, tools[i].status = "executing",
         NEW results, Complete(i, results)
  PROVE  GoesOn(tools, tools')
<1> DEFINE t == [tools[i] EXCEPT !.status = "completed", !.results = results,
                                 !.inbox = <<>>, !.closed = TRUE]
<1>1. tools \in ToolRecords /\ tools[i] \in Records
  BY DEF Inv, TypeOK, ToolRecords
<1>2. t.kind = tools[i].kind /\ t.status = "completed"
  BY <1>1 DEF Records
<1>3. tools' = [tools EXCEPT ![i] = t]
  BY DEF Complete
<1> HIDE DEF t
<1>4. QED
  BY <1>1, <1>2, <1>3, ChangedGoesOn

LEMMA ToolStepGoesOn ==
  ASSUME Inv, NEW i \in Tools, ToolStep(i)
  PROVE  GoesOn(tools, tools')
<1>1. CASE Progress(i) \/ End(i) \/ RejectAndAbort(i) \/ TakeUpdate(i)
  BY <1>1, MessagesKeepStatus DEF GoesOn
<1>2. CASE CancelTool(i) \/ FinishTool(i)
  BY <1>2, CompleteGoesOn DEF CancelTool, FinishTool
<1>3. QED
  BY <1>1, <1>2 DEF ToolStep

\* One segment of some processQueue() call that has passed all calls before it.
ScanStepOf(T, U) ==
  \E p \in Nat \ {0} : (p \in Tools => Past(T, p)) /\ U = Scan(T, p)

LEMMA LoopHeadChanges ==
  ASSUME Inv, LoopHead
  PROVE  GoesOn(tools, tools') \/ ScanStepOf(tools, tools')
<1>1. CASE tools' = tools
  BY <1>1, UnchangedGoesOn
<1>2. CASE tools' = Scan(tools, 1)
  BY <1>2, FirstPosition DEF ScanStepOf
<1>3. QED
  BY <1>1, <1>2 DEF LoopHead

LEMMA YieldNextChanges ==
  ASSUME Inv, NEW p, YieldNext(p)
  PROVE  GoesOn(tools, tools') \/ ScanStepOf(tools, tools')
<1>1. CASE YieldsAt(tools, p) # {}
  BY <1>1, YieldFromType DEF YieldNext, Inv, TypeOK, ToolRecords
<1>2. CASE YieldsAt(tools, p) = {}
  BY <1>2, LoopHeadChanges, UnchangedGoesOn DEF YieldNext, LoopTail
<1>3. QED
  BY <1>1, <1>2

\* A step lets at most one call go on, is a segment of processQueue(), brings
\* a new call, or throws the response away.
LEMMA StepChanges ==
  ASSUME Inv, [Next]_vars
  PROVE  \/ GoesOn(tools, tools')
         \/ ScanStepOf(tools, tools')
         \/ \E k \in Kinds : AddTool(k)
         \/ Discard
<1>1. CASE UNCHANGED tools
  BY <1>1, UnchangedGoesOn
<1>2. tools \in ToolRecords /\ emitted \in Seq(Tools)
  BY DEF Inv, TypeOK, ToolRecords
<1>3. ASSUME NEW p, NEW i \in YieldsAt(tools, p), YieldFrom(tools, i)
      PROVE  GoesOn(tools, tools')
  BY <1>2, <1>3, YieldFromType
<1>4. CASE StreamEvent \/ StreamYieldResume
  BY <1>1, <1>3, <1>4 DEF StreamEvent, StreamYieldResume
<1>5. CASE StartRemaining \/ RaceEnds
  BY <1>5, LoopHeadChanges DEF StartRemaining, RaceEnds
<1>6. CASE AwaitedScan
  <2>1. at \in Nat \ {0} /\ (at \in Tools => Past(tools, at))
    BY <1>6, SizeAssumption DEF AwaitedScan, Inv, TypeOK, PositionsPast
  <2>2. QED
    BY <1>6, <2>1 DEF AwaitedScan, ScanStepOf
<1>7. CASE AwaitedScanEnds \/ YieldResume
  BY <1>7, YieldNextChanges DEF AwaitedScanEnds, YieldResume
<1>8. ASSUME NEW p \in Tools, ProcessQueue(p) PROVE ScanStepOf(tools, tools')
  <2>1. p \in Nat \ {0} /\ Past(tools, p)
    BY <1>8, SizeAssumption DEF ProcessQueue, Inv, PositionsPast, Tools
  <2>2. QED
    BY <1>8, <2>1 DEF ProcessQueue, ScanStepOf
<1>9. CASE OrphanEnds \/ UserAbort \/ SubmitInterrupt \/ UNCHANGED vars
  BY <1>1, <1>9 DEF OrphanEnds, UserAbort, SubmitInterrupt, vars
<1>10. QED
  BY <1>4, <1>5, <1>6, <1>7, <1>8, <1>9, ToolStepGoesOn
     DEF Next, QueryLoop, Terminated

----------------------------------------------------------------------------
(* Nothing begins after the query was cancelled                            *)

LEMMA GoesOnStartsNothing ==
  ASSUME NEW T, NEW U, GoesOn(T, U)
  PROVE  Executing(U) \subseteq Executing(T)
BY DEF GoesOn, Executing, InState

LEMMA CancelledScan ==
  ASSUME hasErrored \/ aborted = "user", NEW T \in ToolRecords, NEW p
  PROVE  Executing(Scan(T, p)) \subseteq Executing(T)
<1>1. CASE Scan(T, p) = T
  BY <1>1
<1>2. ASSUME NEW i \in Tools, Scan(T, p) = [T EXCEPT ![i] = Launched(T[i])]
      PROVE  Executing(Scan(T, p)) \subseteq Executing(T)
  <2>1. AbortReason(T[i].kind) # "none"
    BY DEF AbortReason
  <2>2. Launched(T[i]).status = "completed"
    BY <2>1 DEF Launched, ToolRecords, Records
  <2>3. QED
    BY <1>2, <2>2 DEF Executing, InState, ToolRecords
<1>3. QED
  BY <1>1, <1>2, ScanCases

LEMMA CancelledAddTool ==
  ASSUME hasErrored \/ aborted = "user", Inv, NEW k \in Kinds, AddTool(k)
  PROVE  Executing(tools') \subseteq Executing(tools)
<1>1. PICK n \in Slots :
        LET T == [tools EXCEPT ![n] = NewTool(k)]
            S == Scan(T, IF k.known THEN 1 ELSE MaxTools + 1)
        IN IF YieldsAt(S, 1) = {} THEN tools' = S
                                  ELSE \E i \in YieldsAt(S, 1) : YieldFrom(S, i)
  BY DEF AddTool
<1> DEFINE T == [tools EXCEPT ![n] = NewTool(k)]
           S == Scan(T, IF k.known THEN 1 ELSE MaxTools + 1)
<1>2. tools \in ToolRecords /\ Ordered(tools) /\ emitted \in Seq(Tools)
  BY DEF Inv, TypeOK, ToolRecords
<1>3. T \in ToolRecords
  BY <1>2, NewToolOrdered
<1>4. Executing(T) \subseteq Executing(tools)
  BY <1>2 DEF Executing, InState, NewTool, TrackedTool, ToolRecords
<1> HIDE DEF T
<1>5. S \in ToolRecords /\ Executing(S) \subseteq Executing(T)
  BY <1>3, ScanType, CancelledScan
<1> HIDE DEF S
<1>6. Executing(tools') \subseteq Executing(S)
  <2>1. CASE YieldsAt(S, 1) = {}
    BY <1>1, <2>1 DEF S, T
  <2>2. CASE YieldsAt(S, 1) # {}
    <3>1. PICK i \in YieldsAt(S, 1) : YieldFrom(S, i)
      BY <1>1, <2>2 DEF S, T
    <3>2. GoesOn(S, tools')
      BY <1>2, <1>5, <3>1, YieldFromType
    <3>3. QED
      BY <3>2, GoesOnStartsNothing
  <2>3. QED
    BY <2>1, <2>2
<1>7. QED
  BY <1>4, <1>5, <1>6

\* After a Bash error or an abort by the user no further call begins to run,
\* whichever of the suspended processQueue() calls goes on.
THEOREM NothingStartsAfterCancel == Spec => NoStartAfterCancel
<1>1. Inv /\ [Next]_vars =>
        [hasErrored \/ aborted = "user" => Executing(tools') \subseteq Executing(tools)]_vars
  <2> SUFFICES ASSUME Inv, [Next]_vars, hasErrored \/ aborted = "user"
               PROVE  Executing(tools') \subseteq Executing(tools)
    OBVIOUS
  <2>1. CASE GoesOn(tools, tools')
    BY <2>1, GoesOnStartsNothing
  <2>2. CASE ScanStepOf(tools, tools')
    BY <2>2, CancelledScan DEF ScanStepOf, Inv, TypeOK, ToolRecords
  <2>3. CASE Discard
    BY <2>3 DEF Discard, Executing, InState, Absent, TrackedTool
  <2>4. QED
    BY <2>1, <2>2, <2>3, StepChanges, CancelledAddTool
<1>2. QED
  BY <1>1, Invariant, PTL DEF Spec, NoStartAfterCancel

----------------------------------------------------------------------------
(* The executor implements the schedule                                    *)

Phases(T) == [i \in Tools |-> Phase(T[i])]
Safety(T) == [i \in Tools |-> T[i].kind.safe]

LEMMA PhaseIs ==
  ASSUME NEW t
  PROVE  /\ Phase(t) = "absent" <=> t.status = "absent"
         /\ Phase(t) = "waiting" <=> t.status = "queued"
         /\ Phase(t) = "running" <=> t.status = "executing"
         /\ t.status \in {"completed", "yielded"} => Phase(t) = "ended"
BY DEF Phase

\* What happens to a call after its start ends it, or is not seen.
LEMMA GoesOnPhases ==
  ASSUME NEW T, NEW U, GoesOn(T, U)
  PROVE  /\ Safety(U) = Safety(T)
         /\ \/ Phases(U) = Phases(T)
            \/ \E i \in Tools : /\ T[i].status = "executing"
                                /\ Phases(U) = [Phases(T) EXCEPT ![i] = "ended"]
<1>1. Safety(U) = Safety(T)
  BY DEF GoesOn, Safety
<1>2. PICK i \in Tools :
        /\ \A j \in Tools : j # i => U[j].status = T[j].status
        /\ \/ U[i].status = T[i].status
           \/ T[i].status = "executing" /\ U[i].status = "completed"
           \/ T[i].status = "completed" /\ U[i].status = "yielded"
  BY DEF GoesOn
<1>3. \A j \in Tools : j # i => Phase(U[j]) = Phase(T[j])
  BY <1>2 DEF Phase
<1>4. CASE U[i].status = T[i].status \/ (T[i].status = "completed" /\ U[i].status = "yielded")
  <2>1. Phase(U[i]) = Phase(T[i])
    BY <1>4 DEF Phase
  <2>2. QED
    BY <1>1, <1>3, <2>1 DEF Phases
<1>5. CASE T[i].status = "executing" /\ U[i].status = "completed"
  <2>1. Phase(U[i]) = "ended"
    BY <1>5, PhaseIs
  <2>2. Phases(U) = [Phases(T) EXCEPT ![i] = "ended"]
    BY <1>3, <2>1 DEF Phases
  <2>3. QED
    BY <1>1, <1>5, <2>2
<1>6. QED
  BY <1>2, <1>4, <1>5

\* Yielding is not seen at all.
LEMMA YieldPhases ==
  ASSUME NEW T \in ToolRecords, NEW p, NEW i \in YieldsAt(T, p), YieldFrom(T, i),
         emitted \in Seq(Tools)
  PROVE  Phases(tools') = Phases(T) /\ Safety(tools') = Safety(T)
<1>1. i \in Tools /\ T[i] \in Records /\ Yieldable(T[i])
  BY DEF YieldsAt, ToolRecords
<1>2. Safety(tools') = Safety(T)
  BY YieldFromType, GoesOnPhases
<1>3. \A j \in Tools : Phase(tools'[j]) = Phase(T[j])
  <2>1. CASE T[i].progress > 0
    <3>1. tools' = [T EXCEPT ![i].progress = T[i].progress - 1]
      BY <2>1 DEF YieldFrom
    <3>2. \A j \in Tools : tools'[j].status = T[j].status
      BY <1>1, <3>1 DEF ToolRecords, Records
    <3>3. QED
      BY <3>2 DEF Phase
  <2>2. CASE ~(T[i].progress > 0)
    <3>1. tools' = [T EXCEPT ![i].status = "yielded"] /\ T[i].status = "completed"
      BY <1>1, <2>2 DEF YieldFrom, Yieldable
    <3>2. /\ \A j \in Tools : j # i => tools'[j].status = T[j].status
          /\ tools'[i].status = "yielded"
      BY <1>1, <3>1 DEF ToolRecords, Records
    <3>3. QED
      BY <3>1, <3>2 DEF Phase
  <2>3. QED
    BY <2>1, <2>2
<1>4. QED
  BY <1>2, <1>3 DEF Phases

\* A segment of processQueue() takes up the call it picks, or nothing.
LEMMA ScanPhases ==
  ASSUME NEW T \in ToolRecords, NEW p
  PROVE  /\ Safety(Scan(T, p)) = Safety(T)
         /\ \/ Scan(T, p) = T
            \/ \E i \in Tools :
                 /\ CanPick(T, p, i)
                 /\ \/ Phases(Scan(T, p)) = [Phases(T) EXCEPT ![i] = "running"]
                    \/ Phases(Scan(T, p)) = [Phases(T) EXCEPT ![i] = "ended"]
<1>1. CASE Scan(T, p) = T
  BY <1>1
<1>2. ASSUME NEW i \in Tools, CanPick(T, p, i),
             Scan(T, p) = [T EXCEPT ![i] = Launched(T[i])]
      PROVE  /\ Safety(Scan(T, p)) = Safety(T)
             /\ \/ Phases(Scan(T, p)) = [Phases(T) EXCEPT ![i] = "running"]
                \/ Phases(Scan(T, p)) = [Phases(T) EXCEPT ![i] = "ended"]
  <2> DEFINE U == Scan(T, p)
  <2>1. /\ U[i].kind = T[i].kind /\ U[i].status \in {"executing", "completed"}
        /\ \A j \in Tools : j # i => U[j] = T[j]
    BY <1>2, LaunchedType DEF ToolRecords
  <2> HIDE DEF U
  <2>2. Safety(U) = Safety(T)
    BY <2>1 DEF Safety
  <2>3. Phase(U[i]) \in {"running", "ended"}
    BY <2>1, PhaseIs
  <2>4. \/ Phases(U) = [Phases(T) EXCEPT ![i] = "running"]
        \/ Phases(U) = [Phases(T) EXCEPT ![i] = "ended"]
    BY <2>1, <2>3 DEF Phases
  <2>5. QED
    BY <2>2, <2>4 DEF U
<1>3. QED
  BY <1>1, <1>2, ScanCases

\* What the schedule asks of a call that is taken up.
LEMMA PickMayRun ==
  ASSUME NEW T, NEW i \in Tools, CanExecute(T, i)
  PROVE  \/ {d \in Tools : Phases(T)[d] = "running"} = {}
         \/ /\ Safety(T)[i]
            /\ \A d \in {c \in Tools : Phases(T)[c] = "running"} : Safety(T)[d]
<1>1. {d \in Tools : Phases(T)[d] = "running"} = Executing(T)
  BY PhaseIs DEF Phases, Executing, InState
<1>2. QED
  BY <1>1 DEF CanExecute, Safety, Executing, InState

LEMMA ScheduleVars ==
  ASSUME Phases(tools') = Phases(tools), Safety(tools') = Safety(tools)
  PROVE  UNCHANGED Schedule!vars
BY DEF Phases, Safety, Schedule!vars

LEMMA GoesOnRefines ==
  ASSUME GoesOn(tools, tools')
  PROVE  [Schedule!Next]_(Schedule!vars)
<1>1. CASE Phases(tools') = Phases(tools)
  BY <1>1, GoesOnPhases, ScheduleVars
<1>2. ASSUME NEW i \in Tools, tools[i].status = "executing",
             Phases(tools') = [Phases(tools) EXCEPT ![i] = "ended"]
      PROVE  Schedule!End(i)
  <2>1. Phase(tools[i]) = "running"
    BY <1>2, PhaseIs
  <2>2. Safety(tools') = Safety(tools)
    BY GoesOnPhases
  <2>3. QED
    BY <1>2, <2>1, <2>2 DEF Schedule!End, Phases, Safety
<1>3. QED
  BY <1>1, <1>2, GoesOnPhases DEF Schedule!Next

LEMMA ScanRefines ==
  ASSUME Inv, ScanStepOf(tools, tools')
  PROVE  [Schedule!Next]_(Schedule!vars)
<1>1. PICK p \in Nat \ {0} : (p \in Tools => Past(tools, p)) /\ tools' = Scan(tools, p)
  BY DEF ScanStepOf
<1>2. tools \in ToolRecords /\ NoHoles(tools)
  BY DEF Inv, TypeOK, ToolRecords, Ordered
<1>3. CASE tools' = tools
  BY <1>3, ScheduleVars
<1>4. ASSUME NEW i \in Tools, CanPick(tools, p, i),
             \/ Phases(tools') = [Phases(tools) EXCEPT ![i] = "running"]
             \/ Phases(tools') = [Phases(tools) EXCEPT ![i] = "ended"]
      PROVE  Schedule!Take(i)
  <2>1. i >= p /\ tools[i].status = "queued" /\ CanExecute(tools, i)
    BY <1>4 DEF CanPick
  <2>2. p \in Tools
    BY <2>1, SizeAssumption DEF Tools
  <2>3. Past(tools, i)
    BY <1>1, <1>2, <1>4, <2>2, PickIsFirst
  <2>4. Schedule!First(i)
    BY <2>1, <2>3, PhaseIs DEF Schedule!First, Past
  <2>5. Schedule!MayRun(i)
    BY <2>1, PickMayRun DEF Schedule!MayRun, Schedule!Running, Phases, Safety
  <2>6. Safety(tools') = Safety(tools)
    BY <1>1, <1>2, ScanPhases
  <2>7. QED
    BY <1>4, <2>4, <2>5, <2>6 DEF Schedule!Take, Phases, Safety
<1>5. QED
  BY <1>1, <1>2, <1>3, <1>4, ScanPhases DEF Schedule!Next

\* Where a new call goes: all calls before it have arrived, none behind it.
LEMMA SlotArrives ==
  ASSUME Inv, NEW n \in Slots, NEW s, Safety(tools') = [Safety(tools) EXCEPT ![n] = s]
  PROVE  /\ Schedule!Arrive(n, s)
         /\ \A d \in Tools : d > n => tools[d].status = "absent"
<1>1. /\ n \in Tools /\ tools[n].status = "absent"
      /\ \A j \in Tools : j < n => tools[j].status # "absent"
  BY DEF Slots
<1>2. \A d \in Tools : d > n => tools[d].status = "absent"
  BY <1>1 DEF Inv, Ordered, NoHoles, Tools
<1>3. Phase(tools[n]) = "absent" /\ \A d \in Tools : d < n => Phase(tools[d]) # "absent"
  BY <1>1, PhaseIs
<1>4. QED
  BY <1>1, <1>2, <1>3 DEF Schedule!Arrive, Safety

LEMMA AddToolRefines ==
  ASSUME Inv, NoStall, NEW k \in Kinds, AddTool(k)
  PROVE  Schedule!Next
<1>1. PICK n \in Slots :
        LET T == [tools EXCEPT ![n] = NewTool(k)]
            S == Scan(T, IF k.known THEN 1 ELSE MaxTools + 1)
        IN IF YieldsAt(S, 1) = {} THEN tools' = S
                                  ELSE \E i \in YieldsAt(S, 1) : YieldFrom(S, i)
  BY DEF AddTool
<1> DEFINE T == [tools EXCEPT ![n] = NewTool(k)]
           p == IF k.known THEN 1 ELSE MaxTools + 1
           S == Scan(T, p)
<1>2. /\ tools \in ToolRecords /\ Ordered(tools) /\ emitted \in Seq(Tools)
      /\ n \in Tools /\ tools[n].status = "absent"
  BY DEF Inv, TypeOK, ToolRecords, Slots
<1>3. T \in ToolRecords /\ Ordered(T)
  BY <1>2, NewToolOrdered
<1>4. /\ T[n].kind = k /\ T[n].status = IF k.known THEN "queued" ELSE "completed"
      /\ \A j \in Tools : j # n => T[j] = tools[j]
  BY <1>2 DEF NewTool, TrackedTool, ToolRecords
<1>5. Covered(tools, {}) /\ k \in KindType /\ (~k.known => k = Unknown)
  BY KindAssumption DEF NoStall, AddTool, Macrotask, MicrotaskPending
<1> HIDE DEF T
<1>6. S \in ToolRecords
  BY <1>3, ScanType
<1>7. Phases(tools') = Phases(S) /\ Safety(tools') = Safety(S)
  <2> HIDE DEF S
  <2>1. CASE YieldsAt(S, 1) = {}
    BY <1>1, <2>1 DEF S, T, p
  <2>2. CASE YieldsAt(S, 1) # {}
    <3>1. PICK i \in YieldsAt(S, 1) : YieldFrom(S, i)
      BY <1>1, <2>2 DEF S, T, p
    <3>2. QED
      BY <1>2, <1>6, <3>1, YieldPhases
  <2>3. QED
    BY <2>1, <2>2
<1>8. Safety(tools') = [Safety(tools) EXCEPT ![n] = k.safe]
  <2>1. Safety(S) = Safety(T)
    BY <1>3, ScanPhases
  <2>2. Safety(T) = [Safety(tools) EXCEPT ![n] = k.safe]
    BY <1>4 DEF Safety
  <2>3. QED
    BY <1>7, <2>1, <2>2
<1>9. /\ Schedule!Arrive(n, k.safe)
      /\ \A d \in Tools : d > n => tools[d].status = "absent"
  BY <1>8, SlotArrives
<1>10. CASE ~k.known
  <2>1. S = T
    <3>1. Picks(T, p) = {}
      BY <1>10, SizeAssumption DEF Picks, CanPick, Tools
    <3>2. QED
      BY <3>1 DEF Scan
  <2>2. Phase(T[n]) = "ended" /\ k.safe = TRUE
    BY <1>4, <1>5, <1>10, PhaseIs DEF Unknown
  <2>3. Phases(tools') = [Phases(tools) EXCEPT ![n] = "ended"]
    BY <1>4, <1>7, <2>1, <2>2 DEF Phases
  <2>4. Schedule!ArriveUnknown(n)
    BY <1>9, <2>2, <2>3 DEF Schedule!ArriveUnknown, Phases
  <2>5. QED
    BY <1>2, <2>4 DEF Schedule!Next
<1>11. CASE k.known
  <2>1. Phases(T) = [Phases(tools) EXCEPT ![n] = "waiting"]
    <3>1. Phase(T[n]) = "waiting"
      BY <1>4, <1>11, PhaseIs
    <3>2. QED
      BY <1>4, <3>1 DEF Phases
  <2>2. CASE S = T
    <3>1. Schedule!ArriveAndWait(n, k.safe)
      BY <1>7, <1>9, <2>1, <2>2 DEF Schedule!ArriveAndWait, Phases
    <3>2. QED
      BY <1>2, <1>5, <3>1 DEF Schedule!Next, KindType
  <2>3. ASSUME NEW i \in Tools, CanPick(T, 1, i),
               \/ Phases(S) = [Phases(T) EXCEPT ![i] = "running"]
               \/ Phases(S) = [Phases(T) EXCEPT ![i] = "ended"]
        PROVE  Schedule!ArriveAndGo(n, k.safe)
    <3>1. Past(T, i)
      BY <1>3, <2>3, FirstPosition, PickIsFirst DEF Ordered
    <3>2. T[i].status = "queued" /\ CanExecute(T, i)
      BY <2>3 DEF CanPick
    \* A call that could have gone before this one would not have waited.
    <3>3. i = n
      <4> SUFFICES ASSUME i # n PROVE FALSE
        OBVIOUS
      <4>1. tools[i].status = "queued" /\ i < n
        BY <1>2, <1>4, <1>9, <3>2 DEF Tools
      <4>2. \A j \in Tools : j < i => tools[j].status # "queued"
        BY <1>2, <1>4, <3>1, <4>1 DEF Past, Tools
      <4>3. Executing(T) = Executing(tools)
        BY <1>2, <1>4, <1>11 DEF Executing, InState
      <4>4. CanExecute(tools, i)
        BY <1>2, <1>4, <3>2, <4>3 DEF CanExecute, Executing, InState
      <4>5. QED
        BY <1>5, <4>1, <4>2, <4>4 DEF Covered
    <3>4. \A d \in Tools : Phase(tools[d]) # "waiting"
      <4>1. \A d \in Tools : tools[d].status # "queued"
        BY <1>2, <1>4, <1>9, <3>1, <3>3 DEF Past, Tools
      <4>2. QED
        BY <4>1, PhaseIs
    <3>5. \/ Executing(tools) = {}
          \/ k.safe /\ \A d \in Executing(tools) : tools[d].kind.safe
      <4>1. Executing(T) = Executing(tools)
        BY <1>2, <1>4, <1>11 DEF Executing, InState
      <4>2. \A d \in Executing(tools) : T[d] = tools[d]
        BY <1>2, <1>4 DEF Executing, InState
      <4>3. QED
        BY <1>4, <3>2, <3>3, <4>1, <4>2 DEF CanExecute
    <3>6. Executing(tools) = {d \in Tools : Phase(tools[d]) = "running"}
      BY PhaseIs DEF Executing, InState
    <3>7. \/ Phases(tools') = [Phases(tools) EXCEPT ![n] = "running"]
          \/ Phases(tools') = [Phases(tools) EXCEPT ![n] = "ended"]
      BY <1>7, <2>1, <2>3, <3>3 DEF Phases
    <3>8. QED
      BY <1>9, <3>4, <3>5, <3>6, <3>7 DEF Schedule!ArriveAndGo, Schedule!Running, Phases
  <2>4. QED
    BY <1>2, <1>3, <1>5, <1>11, <2>2, <2>3, ScanPhases DEF Schedule!Next, KindType
<1>12. QED
  BY <1>10, <1>11

LEMMA DiscardRefines == Discard => Schedule!Next
BY DEF Discard, Schedule!Next, Schedule!Reset, Absent, TrackedTool, Unknown, Phase

\* The executor implements the schedule of readers and writers: a call is
\* taken up only when no earlier one waits, and a writer runs alone.
THEOREM SchedulesReadersAndWriters == Spec => ImplementsSchedule
<1>1. Init => Schedule!Init
  BY DEF Init, Schedule!Init, Absent, TrackedTool, Unknown, Phase
<1>2. Inv /\ NoStall /\ [Next]_vars => [Schedule!Next]_(Schedule!vars)
  BY StepChanges, GoesOnRefines, ScanRefines, AddToolRefines, DiscardRefines
<1>3. QED
  BY <1>1, <1>2, Invariant, NeverStalls, PTL DEF Spec, ImplementsSchedule, Schedule!Spec
=============================================================================
