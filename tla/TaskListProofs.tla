--------------------------- MODULE TaskListProofs ---------------------------
(***************************************************************************)
(* What TaskList promises, for any number of workers, tools, tasks,        *)
(* crashes and calls, and for any tasks at the start: its types, that no   *)
(* id is given twice, that no two workers work on the same task, and that  *)
(* a completed task stays so.                                              *)
(*                                                                         *)
(* A call has the locks it needs where it needs them (Holds), whatever     *)
(* the others do, as a lock is only taken over from the dead (CallsKept).  *)
(*                                                                         *)
(* An id is covered, by the mark or by the file of a higher one, from when *)
(* it is given, and a file only goes when the mark covers it.              *)
(*                                                                         *)
(* What a worker read without the lock is read again under it, and only    *)
(* who has the lock writes - but for creations, which write what nobody    *)
(* can know of as its id is new, deletions, after which there is nothing   *)
(* to claim, and unassignments, which only concern the tasks of the dead.  *)
(*                                                                         *)
(* Who claims a task or is going to free it does not find it completed,    *)
(* nor anybody about to write that it is (Undone): a worker completes only *)
(* the task it works on, which nobody else claims or frees.                *)
(***************************************************************************)
EXTENDS TaskList, FiniteSetTheorems, SequenceTheorems, WellFoundedInduction, TLAPS

Statuses == {"pending", "in_progress", "completed"}
Owners == Callers \cup {Nobody}
Values == Owners \cup Statuses \cup SUBSET Ids

Patches ==
  {p \in UNION {[D -> Values] : D \in SUBSET {"owner", "status", "blocks", "blockedBy"}} :
     /\ "owner" \in DOMAIN p => p["owner"] \in Owners
     /\ "status" \in DOMAIN p => p["status"] \in Statuses
     /\ "blocks" \in DOMAIN p => p["blocks"] \subseteq Ids
     /\ "blockedBy" \in DOMAIN p => p["blockedBy"] \subseteq Ids}

Updates == [id : Ids, patch : Patches]

WorkerOps == {"claim", "complete"}
ToolOps == {"create", "reset", "delete", "block", "unassign"}

\* Where an update of a task is, and where its lock is held.
Updating == {"precheck", "lock", "merge", "truncate", "write", "unlock"}
Holding == {"reread", "blockers", "merge", "truncate", "write", "unlock"}

UpdatingOps == {"claim", "complete", "delete", "block", "unassign"}

\* Where a call can be.
PointOK(r) ==
  \/ r.op = "none" /\ r.pc = "idle"
  \/ r.op \in UpdatingOps /\ r.pc \in Updating
  \/ r.op = "claim" /\ r.pc \in {"reread", "blockers"}
  \/ r.op = "create" /\ r.pc \in {"lockList", "find", "findNames", "findMark", "truncate", "write", "unlock"}
  \/ r.op = "reset" /\ r.pc \in {"lockList", "findNames", "readMark", "emptyMark", "writeMark", "wipe", "unlock"}
  \/ r.op = "delete" /\ r.pc \in {"readMark", "emptyMark", "writeMark", "unlink"}
  \/ r.op \in {"delete", "block", "unassign"} /\ r.pc = "list"

AllPoints ==
  {"idle", "reread", "blockers", "lockList", "find", "findNames", "findMark", "readMark", "emptyMark",
   "writeMark", "wipe", "unlink", "list"} \cup Updating

Calls ==
  [op : {"none"} \cup WorkerOps \cup ToolOps, pc : AllPoints, id : Nat, to : Nat, high : 0..MaxId,
   saw : File, rest : SUBSET Ids, seen : [Ids -> File], todo : Seq(Updates)]

Own(c, r) == Update(r.id, Patch("owner", c))
Start(r) == Update(r.id, Patch("status", "in_progress"))

\* A claim makes two updates: first the owner, then the status.
ClaimOK(c, r) ==
  /\ r.todo \in {<<>>, <<Own(c, r), Start(r)>>, <<Start(r)>>}
  /\ r.pc \in {"reread", "blockers"} => r.todo = <<>>
  /\ r.pc \in {"merge", "truncate", "write"} => r.todo # <<>>
  /\ r.pc \in {"precheck", "lock"} => Len(r.todo) # 2
  /\ r.pc \in {"truncate", "write"} /\ Len(r.todo) = 2 => r.saw.owner = c

\* Only claims and unassignments change owners, and no task is unassigned twice.
TodoOK(r) ==
  /\ r.op \in {"none", "create", "reset"} \/ (r.op # "claim" /\ r.pc \notin Updating) => r.todo = <<>>
  /\ r.op \in {"complete", "delete", "block", "unassign"} /\ r.pc \in Updating =>
       r.todo # <<>> /\ r.id = r.todo[1].id
  /\ r.op \in {"complete", "delete", "block"} =>
       \A n \in DOMAIN r.todo : "owner" \notin DOMAIN r.todo[n].patch
  /\ r.op = "unassign" =>
       \A m, n \in DOMAIN r.todo : r.todo[m].id = r.todo[n].id => m = n

CallOK(c, r) ==
  /\ r \in Calls /\ PointOK(r)
  /\ r.op \in WorkerOps => c \in Workers
  /\ r.op \in ToolOps => c \in Tools
  /\ r.op \in {"claim", "complete", "delete", "block"} \/ (r.op = "unassign" /\ r.pc # "list") =>
       r.id \in Ids
  /\ r.op = "block" => r.to \in Ids
  /\ r.op = "claim" => ClaimOK(c, r)
  /\ TodoOK(r)
  /\ \A i \in Ids : r.seen[i].kind \in {"absent", "task"}

\* The lock that a call has where it needs one.
Holds(locks, c, r) ==
  /\ r.op \in {"create", "reset"} /\ r.pc # "lockList" => locks[List] = c
  /\ r.op \notin {"create", "reset"} /\ r.pc \in Holding => locks[r.id] = c

\* Only the living are in a call; an unassignment is about the dead.
Lives(dead, c, r) ==
  /\ r.op # "none" => c \notin dead
  /\ r.op = "unassign" /\ r.pc = "list" => r.saw.owner \in dead

CallsInv ==
  /\ call \in [Callers -> Calls]
  /\ \A c \in Callers : /\ CallOK(c, call[c]) /\ Holds(lock, c, call[c])
                        /\ Lives(crashed, c, call[c])

StateInv ==
  /\ setup \in Setups /\ files \in [Ids -> File] /\ mark \in 0..MaxId
  /\ lock \in [Ids \cup {List} -> Owners] /\ crashed \subseteq Callers
  /\ mine \in [Workers -> Ids \cup {0}] /\ \A w \in crashed \cap Workers : mine[w] = 0
  /\ uses \in [Ids -> Nat] /\ calls \in 0..setup.calls /\ raced \in BOOLEAN

TypeInv == StateInv /\ CallsInv

-----------------------------------------------------------------------------
(* Helpers                                                                 *)

LEMMA Named == Workers \subseteq Callers /\ Tools \subseteq Callers /\ 0 \notin Ids /\ Nobody \notin Callers
<1>1. Workers \subseteq Callers /\ Tools \subseteq Callers
  BY DEF Callers
<1>2. 0 \notin Ids
  BY CallersAssumption DEF Ids
<1> QED BY <1>1, <1>2, CallersAssumption

\* A set of ids has a greatest one.
LEMMA MaxIn == ASSUME NEW S \in SUBSET (0..MaxId), S # {} PROVE MaxOf(S) \in S /\ \A n \in S : n <= MaxOf(S)
<1> DEFINE T == {n \in Nat : \E m \in S : n = MaxId - m}
<1>0. MaxId \in Nat
  BY CallersAssumption
<1>1. PICK m \in S : TRUE
  OBVIOUS
<1>2. MaxId - m \in T
  BY <1>0
<1>3. T \subseteq Nat /\ T # {}
  BY <1>2
<1>4. PICK n \in T : \A k \in T : ~(<<k, n>> \in OpToRel(<, Nat))
  <2> HIDE DEF T
  <2> QED BY <1>3, NatLessThanWellFounded, WFMin
<1>5. \A k \in T : ~(k < n)
  BY <1>3, <1>4 DEF OpToRel
<1>6. PICK x \in S : n = MaxId - x
  OBVIOUS
<1>7. ASSUME NEW y \in S PROVE y <= x
  <2>1. MaxId - y \in T
    BY <1>0
  <2>2. ~(MaxId - y < MaxId - x)
    BY <1>5, <1>6, <2>1
  <2>3. x \in 0..MaxId /\ y \in 0..MaxId
    OBVIOUS
  <2> QED BY <1>0, <2>2, <2>3
<1> QED BY <1>7 DEF MaxOf

LEMMA MaxBound == ASSUME NEW S \in SUBSET (0..MaxId) PROVE MaxOf(S) \in 0..MaxId
<1>1. CASE S = {}
  BY <1>1, CallersAssumption DEF MaxOf
<1>2. CASE S # {}
  BY <1>2, MaxIn
<1> QED BY <1>1, <1>2

\* A set of ids as a sequence: each of them once.
LEMMA Enumerated ==
  ASSUME NEW S \in SUBSET Ids
  PROVE  /\ SetToSeq(S) \in Seq(S)
         /\ \A m, n \in DOMAIN SetToSeq(S) : SetToSeq(S)[m] = SetToSeq(S)[n] => m = n
<1>1. IsFiniteSet(Ids)
  BY FS_Interval, CallersAssumption DEF Ids
<1>2. IsFiniteSet(S)
  BY <1>1, FS_Subset
<1>3. Cardinality(S) \in Nat /\ ExistsBijection(1..Cardinality(S), S)
  BY <1>2, FS_CardinalityType
<1>4. \E f \in [1..Cardinality(S) -> S] : IsInjective(f)
  BY <1>3 DEF ExistsBijection, Bijection, Injection
<1>5. SetToSeq(S) \in [1..Cardinality(S) -> S] /\ IsInjective(SetToSeq(S))
  BY <1>4 DEF SetToSeq
<1> QED BY <1>3, <1>5 DEF IsInjective
LEMMA Merged ==
  ASSUME NEW f \in File, NEW p \in Patches
  PROVE  /\ Merge(f, p) \in File
         /\ Merge(f, p).kind = f.kind
         /\ Merge(f, p).owner = IF "owner" \in DOMAIN p THEN p["owner"] ELSE f.owner
<1>1. DOMAIN f = {"kind", "owner", "status", "blocks", "blockedBy"}
  BY DEF File
<1>2. DOMAIN p \subseteq {"owner", "status", "blocks", "blockedBy"}
  BY DEF Patches
<1> DEFINE g == Merge(f, p)
<1>3. /\ DOMAIN g = DOMAIN f
      /\ \A k \in DOMAIN f : g[k] = IF k \in DOMAIN p THEN p[k] ELSE f[k]
  BY DEF Merge
<1>4. g = [k \in {"kind", "owner", "status", "blocks", "blockedBy"} |-> g[k]]
  BY <1>1, <1>3 DEF Merge
<1>5. g["kind"] \in {"absent", "torn", "task"} /\ g["kind"] = f.kind
  BY <1>1, <1>2, <1>3 DEF File
<1>6. g["owner"] \in Owners /\ g["owner"] = IF "owner" \in DOMAIN p THEN p["owner"] ELSE f.owner
  BY <1>1, <1>2, <1>3 DEF File, Patches, Owners
<1>7. g["status"] \in Statuses
  BY <1>1, <1>2, <1>3 DEF File, Patches, Statuses
<1>8. g["blocks"] \in SUBSET Ids /\ g["blockedBy"] \in SUBSET Ids
  BY <1>1, <1>2, <1>3 DEF File, Patches
<1> HIDE DEF g
<1>9. g \in File /\ g.kind = f.kind /\ g.owner = IF "owner" \in DOMAIN p THEN p["owner"] ELSE f.owner
  BY <1>4, <1>5, <1>6, <1>7, <1>8 DEF File, Owners, Statuses
<1> QED BY <1>9 DEF g

LEMMA PatchesMade ==
  /\ \A o \in Owners : Patch("owner", o) \in Patches
  /\ \A s \in Statuses : Patch("status", s) \in Patches
  /\ \A S \in SUBSET Ids : Patch("blocks", S) \in Patches /\ Patch("blockedBy", S) \in Patches
<1>1. \A o \in Owners : Patch("owner", o) \in Patches
  BY DEF Patches, Patch, Values
<1>2. \A s \in Statuses : Patch("status", s) \in Patches
  BY DEF Patches, Patch, Values
<1>3. ASSUME NEW S \in SUBSET Ids PROVE Patch("blocks", S) \in Patches /\ Patch("blockedBy", S) \in Patches
  BY DEF Patches, Patch, Values
<1> QED BY <1>1, <1>2, <1>3

LEMMA TypeOfAbsent == Absent \in File /\ NewTask \in File /\ Absent.kind = "absent"
  BY DEF Absent, NewTask, File

LEMMA TypeOfNoCall ==
  /\ NoCall \in Calls
  /\ \A c \in Callers : CallOK(c, NoCall)
  /\ \A k, d, c : Holds(k, c, NoCall) /\ Lives(d, c, NoCall)
<1>1. NoCall \in Calls
  <2>1. [i \in Ids |-> Absent] \in [Ids -> File]
    BY TypeOfAbsent
  <2>2. <<>> \in Seq(Updates) /\ 0 \in 0..MaxId
    BY CallersAssumption
  <2> QED BY <2>1, <2>2, TypeOfAbsent DEF NoCall, Calls, AllPoints
<1>2. ASSUME NEW c \in Callers PROVE CallOK(c, NoCall)
  BY <1>1, TypeOfAbsent DEF NoCall, CallOK, TodoOK, PointOK, WorkerOps, ToolOps, Updating
<1>3. \A k, d, c : Holds(k, c, NoCall) /\ Lives(d, c, NoCall)
  BY DEF NoCall, Holds, Lives, Holding
<1> QED BY <1>1, <1>2, <1>3

LEMMA TypeOfRead == \A f \in File : Read(f) \in File /\ Read(f).kind \in {"absent", "task"}
  BY TypeOfAbsent DEF Read, File

\* A call that makes its updates one after the other.
LEMMA Continues ==
  ASSUME NEW c \in Callers, NEW r \in Calls, NEW todo \in Seq(Updates),
         todo # <<>>, r.op \in UpdatingOps,
         r.op \in WorkerOps => c \in Workers,
         r.op \in ToolOps => c \in Tools,
         r.op = "block" => r.to \in Ids,
         r.op = "claim" => todo = <<Update(todo[1].id, Patch("status", "in_progress"))>>,
         r.op \in {"complete", "delete", "block"} => \A n \in DOMAIN todo : "owner" \notin DOMAIN todo[n].patch,
         r.op = "unassign" => \A m, n \in DOMAIN todo : todo[m].id = todo[n].id => m = n
  PROVE  /\ CallOK(c, Continue(r, todo))
         /\ Continue(r, todo).op = r.op /\ Continue(r, todo).pc = "precheck"
         /\ Continue(r, todo).id = todo[1].id /\ Continue(r, todo).todo = todo
         /\ Continue(r, todo).seen = NoCall.seen
         /\ \A k, d : Holds(k, c, Continue(r, todo)) /\ (c \notin d => Lives(d, c, Continue(r, todo)))
<1> DEFINE v == Continue(r, todo)
<1>1. todo[1] \in Updates /\ Head(todo) = todo[1]
  OBVIOUS
<1>2. v = [r EXCEPT !.pc = "precheck", !.id = todo[1].id, !.todo = todo,
                    !.saw = Absent, !.rest = {}, !.seen = NoCall.seen]
  BY <1>1 DEF Continue
<1>3. todo[1].id \in Ids /\ Ids \subseteq Nat
  BY <1>1, CallersAssumption DEF Updates, Ids
<1>4. NoCall.seen = [i \in Ids |-> Absent]
  BY DEF NoCall
<1>11. NoCall.seen \in [Ids -> File]
  BY <1>4, TypeOfAbsent
<1>12. todo[1].id \in Nat
  BY <1>3
<1>5. /\ v \in Calls /\ v.op = r.op /\ v.pc = "precheck" /\ v.id = todo[1].id /\ v.todo = todo
      /\ v.to = r.to /\ v.seen = NoCall.seen
  BY <1>2, <1>12, <1>11, TypeOfAbsent DEF Calls, AllPoints, Updating
<1> HIDE DEF v
<1>6. PointOK(v)
  BY <1>5 DEF PointOK, Updating, UpdatingOps
<1>7. v.op = "claim" => ClaimOK(c, v)
  BY <1>5 DEF ClaimOK, Start
<1>8. TodoOK(v)
  BY <1>5 DEF TodoOK, UpdatingOps, Updating
<1>9. CallOK(c, v)
  BY <1>3, <1>4, <1>5, <1>6, <1>7, <1>8, TypeOfAbsent DEF CallOK, UpdatingOps, WorkerOps, ToolOps
<1>10. \A k, d : Holds(k, c, v) /\ (c \notin d => Lives(d, c, v))
  BY <1>5 DEF Holds, Lives, Holding, UpdatingOps
<1> QED BY <1>5, <1>9, <1>10 DEF v

-----------------------------------------------------------------------------
(* Every step keeps the types.                                             *)

\* One caller goes on; the locks of the others that live stay theirs.
LEMMA CallsKept ==
  ASSUME CallsInv, NEW c \in Callers, NEW v, Set(c, v),
         CallOK(c, v), Holds(lock', c, v), Lives(crashed', c, v),
         crashed \subseteq crashed', crashed' \subseteq crashed \cup {c},
         \A d \in Callers \ ({c} \cup crashed) : \A l \in Ids \cup {List} : lock[l] = d => lock'[l] = d
  PROVE  CallsInv' /\ call'[c] = v /\ \A d \in Callers \ {c} : call'[d] = call[d]
<1>1. call'[c] = v /\ (\A d \in Callers \ {c} : call'[d] = call[d]) /\ call' \in [Callers -> Calls]
  BY DEF CallsInv, Set, CallOK
<1>2. ASSUME NEW d \in Callers \ {c}
      PROVE  CallOK(d, call[d]) /\ Holds(lock', d, call[d]) /\ Lives(crashed', d, call[d])
  <2>1. CallOK(d, call[d]) /\ Holds(lock, d, call[d]) /\ Lives(crashed, d, call[d])
    BY DEF CallsInv
  <2>2. Lives(crashed', d, call[d])
    BY <2>1 DEF Lives
  <2>3. CASE d \in crashed
    <3>1. call[d].op = "none" /\ call[d].pc = "idle"
      BY <2>1, <2>3 DEF Lives, CallOK, PointOK, UpdatingOps
    <3> QED BY <2>1, <2>2, <3>1 DEF Holds, Holding
  <2>4. CASE d \notin crashed
    <3>1. call[d].op \notin {"create", "reset"} /\ call[d].pc \in Holding => call[d].id \in Ids
      BY <2>1 DEF CallOK, Holding, PointOK, UpdatingOps, Updating, Calls, WorkerOps, ToolOps
    <3> QED BY <2>1, <2>2, <2>4, <3>1 DEF Holds
  <2> QED BY <2>3, <2>4
<1>3. \A d \in Callers : CallOK(d, call'[d]) /\ Holds(lock', d, call'[d]) /\ Lives(crashed', d, call'[d])
  BY <1>1, <1>2
<1>4. CallsInv'
  BY <1>1, <1>3 DEF CallsInv, CallOK, ClaimOK, TodoOK, Own, Start, Update, Patch
<1> QED BY <1>1, <1>4

LEMMA CallsSame ==
  ASSUME CallsInv, NEW c \in Callers, NEW v, Set(c, v),
         CallOK(c, v), Holds(lock, c, v), Lives(crashed, c, v), UNCHANGED <<lock, crashed>>
  PROVE  CallsInv' /\ call'[c] = v /\ \A d \in Callers \ {c} : call'[d] = call[d]
  BY CallsKept

\* What is known of the call that goes on.
LEMMA CallFacts ==
  ASSUME TypeInv, NEW c \in Callers
  PROVE  /\ call[c] \in Calls /\ CallOK(c, call[c]) /\ Holds(lock, c, call[c]) /\ Lives(crashed, c, call[c])
         /\ call[c].todo \in Seq(Updates) /\ call[c].rest \subseteq Ids
         /\ call[c].seen \in [Ids -> File] /\ call[c].saw \in File
  BY DEF TypeInv, CallsInv, Calls

LEMMA FileFacts ==
  ASSUME TypeInv, NEW i \in Ids
  PROVE  files[i] \in File /\ Read(files[i]) \in File /\ Read(files[i]).kind \in {"absent", "task"}
  BY TypeOfRead DEF TypeInv, StateInv

LEMMA ReadOneOK ==
  ASSUME TypeInv, NEW c \in Callers, ReadOne(c)
  PROVE  CallsInv'
<1>1. PICK i \in call[c].rest : Set(c, [call[c] EXCEPT !.rest = @ \ {i}, !.seen[i] = Read(files[i])])
  BY DEF ReadOne
<1> DEFINE r == call[c]
           v == [r EXCEPT !.rest = @ \ {i}, !.seen[i] = Read(files[i])]
<1>2. i \in Ids /\ Read(files[i]) \in File /\ Read(files[i]).kind \in {"absent", "task"}
  BY CallFacts, FileFacts
<1>3. /\ v \in Calls /\ v.op = r.op /\ v.pc = r.pc /\ v.id = r.id /\ v.to = r.to /\ v.todo = r.todo
      /\ v.saw = r.saw /\ v.seen = [r.seen EXCEPT ![i] = Read(files[i])]
  BY <1>2, CallFacts DEF Calls
<1>4. \A j \in Ids : v.seen[j].kind \in {"absent", "task"}
  BY <1>2, <1>3, CallFacts DEF CallOK
<1>5. Set(c, v)
  BY <1>1
<1> HIDE DEF v
<1>6. CallOK(c, v)
  BY <1>3, <1>4, CallFacts DEF CallOK, PointOK, ClaimOK, TodoOK, Own, Start
<1>7. Holds(lock, c, v) /\ Lives(crashed, c, v)
  BY <1>3, CallFacts DEF Holds, Lives
<1> QED BY <1>5, <1>6, <1>7, CallsSame DEF ReadOne, TypeInv

\* A call that is given up, or goes on with its next update.
LEMMA EndOK ==
  ASSUME TypeInv, NEW c \in Callers, Set(c, NoCall), UNCHANGED <<lock, crashed>>
  PROVE  CallsInv'
  BY TypeOfNoCall, CallsSame DEF TypeInv

\* What is left of the updates of a call after the first.
Rest(r) == IF r.todo = <<>> THEN <<>> ELSE Tail(r.todo)

LEMMA RestOfTodo ==
  ASSUME NEW c \in Callers, NEW r, CallOK(c, r), r.pc \in Updating, r.op \notin {"create", "reset"}
  PROVE  /\ Rest(r) \in Seq(Updates)
         /\ \A n \in DOMAIN Rest(r) : n + 1 \in DOMAIN r.todo /\ Rest(r)[n] = r.todo[n + 1]
         /\ r.op = "claim" => Rest(r) \in {<<>>, <<Start(r)>>}
         /\ r.op = "claim" /\ Rest(r) # <<>> => r.todo = <<Own(c, r), Start(r)>>
<1>1. r \in Calls /\ r.todo \in Seq(Updates)
  BY DEF CallOK, Calls
<1>2. Rest(r) \in Seq(Updates)
  BY <1>1 DEF Rest
<1>3. \A n \in DOMAIN Rest(r) : n + 1 \in DOMAIN r.todo /\ Rest(r)[n] = r.todo[n + 1]
  BY <1>1 DEF Rest
<1>4. ASSUME r.op = "claim"
      PROVE  Rest(r) \in {<<>>, <<Start(r)>>} /\ (Rest(r) # <<>> => r.todo = <<Own(c, r), Start(r)>>)
  <2>1. r.todo \in {<<>>, <<Own(c, r), Start(r)>>, <<Start(r)>>}
    BY <1>4 DEF CallOK, ClaimOK
  <2>2. \A a, b : Tail(<<a, b>>) = <<b>> /\ Tail(<<b>>) = <<>> /\ <<a, b>> # <<>> /\ <<b>> # <<>>
    OBVIOUS
  <2> QED BY <2>1, <2>2 DEF Rest
<1> QED BY <1>2, <1>3, <1>4

LEMMA ContinueOK ==
  ASSUME NEW c \in Callers, NEW r, CallOK(c, r), r.pc \in Updating, r.op \notin {"create", "reset"},
         NEW k, NEW d, c \notin d
  PROVE  /\ CallOK(c, Continue(r, Rest(r))) /\ Holds(k, c, Continue(r, Rest(r)))
         /\ Lives(d, c, Continue(r, Rest(r)))
<1>1. CASE Rest(r) = <<>>
  BY <1>1, TypeOfNoCall DEF Continue
<1>2. CASE Rest(r) # <<>>
  <2> DEFINE todo == Rest(r)
  <2>1. /\ r \in Calls /\ r.op \in UpdatingOps
        /\ r.op \in WorkerOps => c \in Workers
        /\ r.op \in ToolOps => c \in Tools
        /\ r.op = "block" => r.to \in Ids
    BY DEF CallOK, PointOK, Updating, UpdatingOps, Calls, WorkerOps, ToolOps
  <2>2. todo \in Seq(Updates) /\ todo # <<>>
    BY <1>2, RestOfTodo
  <2>3. r.op = "claim" => todo = <<Update(todo[1].id, Patch("status", "in_progress"))>>
    <3>1. r.op = "claim" => todo = <<Start(r)>>
      BY <1>2, RestOfTodo
    <3>2. <<Start(r)>>[1].id = r.id
      BY DEF Start, Update
    <3> QED BY <3>1, <3>2 DEF Start
  <2>4. r.op \in {"complete", "delete", "block"} => \A n \in DOMAIN todo : "owner" \notin DOMAIN todo[n].patch
    BY RestOfTodo DEF CallOK, TodoOK
  <2>5. r.op = "unassign" => \A m, n \in DOMAIN todo : todo[m].id = todo[n].id => m = n
    <3>1. SUFFICES ASSUME r.op = "unassign", NEW m \in DOMAIN todo, NEW n \in DOMAIN todo, todo[m].id = todo[n].id
                   PROVE  m = n
      OBVIOUS
    <3>2. m + 1 \in DOMAIN r.todo /\ n + 1 \in DOMAIN r.todo /\ r.todo[m + 1].id = r.todo[n + 1].id
      BY <3>1, RestOfTodo
    <3>3. m + 1 = n + 1
      BY <3>1, <3>2 DEF CallOK, TodoOK
    <3>4. m \in Int /\ n \in Int
      BY <2>2
    <3> QED BY <3>3, <3>4
  <2> HIDE DEF todo
  <2>6. CallOK(c, Continue(r, todo)) /\ Holds(k, c, Continue(r, todo)) /\ Lives(d, c, Continue(r, todo))
    BY <2>1, <2>2, <2>3, <2>4, <2>5, Continues
  <2> QED BY <2>6 DEF todo
<1> QED BY <1>1, <1>2

LEMMA PrecheckOK ==
  ASSUME TypeInv, NEW c \in Callers, Precheck(c)
  PROVE  CallsInv'
<1> DEFINE r == call[c]
<1>1. r.pc = "precheck" /\ c \notin crashed /\ CallOK(c, r) /\ r \in Calls
  BY CallFacts DEF Precheck, At
<1>2. r.op \notin {"create", "reset", "none"}
  BY <1>1 DEF CallOK, PointOK, Updating, UpdatingOps, Calls
<1>3. CASE Set(c, Goto(c, "lock"))
  <2> DEFINE v == Goto(c, "lock")
  <2>1. v \in Calls /\ v = [r EXCEPT !.pc = "lock"]
    BY <1>1 DEF Goto, Calls, AllPoints, Updating
  <2>2. PointOK(v)
    BY <1>1, <1>2, <2>1 DEF PointOK, Updating, UpdatingOps, Calls, CallOK
  <2>3. CallOK(c, v)
    BY <1>1, <2>1, <2>2 DEF Calls, CallOK, ClaimOK, TodoOK, Own, Start, Updating
  <2>4. Holds(lock, c, v) /\ Lives(crashed, c, v)
    BY <1>1, <1>2, <2>1 DEF Holds, Lives, Holding, Calls
  <2> HIDE DEF v
  <2> QED BY <1>3, <2>3, <2>4, CallsSame DEF Precheck, TypeInv, v
<1>4. CASE Set(c, Continue(r, Rest(r)))
  BY <1>1, <1>2, <1>4, ContinueOK, CallsSame DEF Precheck, TypeInv, Updating
<1> QED BY <1>3, <1>4 DEF Precheck, Rest

LEMMA AcquireOK ==
  ASSUME TypeInv, NEW c \in Callers, Acquire(c)
  PROVE  CallsInv' /\ lock' \in [Ids \cup {List} -> Owners]
<1> DEFINE r == call[c]
           v == Goto(c, IF r.todo = <<>> THEN "reread" ELSE "merge")
<1>1. r.pc = "lock" /\ c \notin crashed /\ CallOK(c, r) /\ r \in Calls
  BY CallFacts DEF Acquire, At
<1>2. r.op \notin {"create", "reset", "none"} /\ r.id \in Ids
  BY <1>1 DEF CallOK, PointOK, Updating, UpdatingOps, Calls
<1>3. lock' = [lock EXCEPT ![r.id] = c] /\ lock' \in [Ids \cup {List} -> Owners] /\ lock'[r.id] = c
  BY <1>2 DEF Acquire, TypeInv, StateInv, Owners
<1>4. \A d \in Callers \ ({c} \cup crashed) : \A l \in Ids \cup {List} : lock[l] = d => lock'[l] = d
  <2>1. lock[r.id] = Nobody \/ lock[r.id] \in crashed
    BY DEF Acquire, Free
  <2> QED BY <1>2, <1>3, <2>1, CallersAssumption DEF TypeInv, StateInv
<1>5. v \in Calls /\ v = [r EXCEPT !.pc = IF r.todo = <<>> THEN "reread" ELSE "merge"]
  BY <1>1 DEF Goto, Calls, AllPoints, Updating
<1>6. /\ v.op = r.op /\ v.id = r.id /\ v.todo = r.todo /\ v.to = r.to /\ v.seen = r.seen /\ v.saw = r.saw
      /\ r.todo = <<>> => v.pc = "reread"
      /\ r.todo # <<>> => v.pc = "merge"
  BY <1>1, <1>5 DEF Calls
<1>7. Set(c, v)
  BY DEF Acquire
<1> HIDE DEF v
<1>8. r.op # "claim" => r.todo # <<>>
  BY <1>1, <1>2 DEF CallOK, TodoOK, Updating, Calls, WorkerOps, ToolOps
<1>9. PointOK(v)
  BY <1>1, <1>2, <1>6, <1>8 DEF PointOK, Updating, UpdatingOps, Calls, CallOK
<1>10. CallOK(c, v)
  BY <1>1, <1>5, <1>6, <1>9 DEF CallOK, ClaimOK, TodoOK, Own, Start, Updating
<1>11. Holds(lock', c, v) /\ Lives(crashed', c, v)
  BY <1>1, <1>2, <1>3, <1>6 DEF Holds, Lives, Acquire
<1> QED BY <1>3, <1>4, <1>7, <1>10, <1>11, CallsKept DEF TypeInv, Acquire

LEMMA ReadToMergeOK ==
  ASSUME TypeInv, NEW c \in Callers, ReadToMerge(c)
  PROVE  /\ CallsInv'
         /\ Head(call[c].todo).patch \in Patches /\ call[c].todo # <<>>
         /\ Head(call[c].todo) = call[c].todo[1] /\ call[c].op \notin {"create", "reset", "none"}
<1> DEFINE r == call[c]
           f == Read(files[r.id])
<1>1. r.pc = "merge" /\ c \notin crashed /\ CallOK(c, r) /\ r \in Calls
  BY CallFacts DEF ReadToMerge, At
<1>2. r.op \notin {"create", "reset", "none"} /\ r.id \in Ids
  BY <1>1 DEF CallOK, PointOK, Updating, UpdatingOps, Calls
<1>3. r.todo # <<>> /\ r.todo \in Seq(Updates)
  BY <1>1, <1>2 DEF CallOK, TodoOK, ClaimOK, Updating, Calls, WorkerOps, ToolOps
<1>4. Head(r.todo) = r.todo[1] /\ Head(r.todo).patch \in Patches
  <2>1. Head(r.todo) = r.todo[1] /\ Head(r.todo) \in Updates
    BY <1>3
  <2> QED BY <2>1 DEF Updates
<1>5. f \in File
  BY <1>2, FileFacts
<1>6. CASE f.kind = "task"
  <2> DEFINE saw == Merge(f, Head(r.todo).patch)
             v == [Goto(c, "truncate") EXCEPT !.saw = saw]
  <2>1. saw \in File
    BY <1>4, <1>5, Merged
  <2>2. r.op = "claim" /\ Len(r.todo) = 2 => saw.owner = c
    <3>1. SUFFICES ASSUME r.op = "claim", Len(r.todo) = 2 PROVE saw.owner = c
      OBVIOUS
    <3>2. r.todo = <<Own(c, r), Start(r)>>
      BY <1>1, <3>1 DEF CallOK, ClaimOK
    <3>3. Head(r.todo).patch = Patch("owner", c)
      BY <3>2 DEF Own, Update
    <3>4. "owner" \in DOMAIN Patch("owner", c) /\ Patch("owner", c)["owner"] = c
      BY DEF Patch
    <3> QED BY <1>4, <1>5, <3>3, <3>4, Merged
  <2> HIDE DEF saw
  <2>3. /\ v \in Calls /\ v.op = r.op /\ v.id = r.id /\ v.todo = r.todo /\ v.to = r.to
        /\ v.seen = r.seen /\ v.saw = saw /\ v.pc = "truncate"
    BY <1>1, <2>1 DEF Goto, Calls, AllPoints, Updating
  <2>4. Set(c, v)
    BY <1>6 DEF ReadToMerge, saw
  <2> HIDE DEF v
  <2>5. PointOK(v)
    BY <1>1, <1>2, <2>3 DEF PointOK, Updating, UpdatingOps, Calls, CallOK
  <2>6. CallOK(c, v)
    BY <1>1, <1>3, <2>2, <2>3, <2>5 DEF CallOK, ClaimOK, TodoOK, Own, Start, Updating
  <2>7. Holds(lock, c, v) /\ Lives(crashed, c, v)
    BY <1>1, <2>3, CallFacts DEF Holds, Lives, Holding
  <2> QED BY <1>2, <1>3, <1>4, <2>4, <2>6, <2>7, CallsSame DEF TypeInv, ReadToMerge
<1>7. CASE f.kind # "task"
  <2> DEFINE v == Goto(c, "unlock")
  <2>1. /\ v \in Calls /\ v.op = r.op /\ v.id = r.id /\ v.todo = r.todo /\ v.to = r.to
        /\ v.seen = r.seen /\ v.saw = r.saw /\ v.pc = "unlock"
    BY <1>1 DEF Goto, Calls, AllPoints, Updating
  <2>2. Set(c, v)
    BY <1>7 DEF ReadToMerge
  <2> HIDE DEF v
  <2>3. PointOK(v)
    BY <1>1, <1>2, <2>1 DEF PointOK, Updating, UpdatingOps, Calls, CallOK
  <2>4. CallOK(c, v)
    BY <1>1, <2>1, <2>3 DEF CallOK, ClaimOK, TodoOK, Own, Start, Updating
  <2>5. Holds(lock, c, v) /\ Lives(crashed, c, v)
    BY <1>1, <2>1, CallFacts DEF Holds, Lives, Holding
  <2> QED BY <1>2, <1>3, <1>4, <2>2, <2>4, <2>5, CallsSame DEF TypeInv, ReadToMerge
<1> QED BY <1>6, <1>7

LEMMA WritingOK ==
  ASSUME TypeInv, NEW c \in Callers, Truncate(c) \/ Write(c)
  PROVE  CallsInv'
<1> DEFINE r == call[c]
           v == Goto(c, IF r.pc = "truncate" THEN "write" ELSE "unlock")
<1>1. r.pc \in {"truncate", "write"} /\ c \notin crashed /\ CallOK(c, r) /\ r \in Calls
  BY CallFacts DEF Truncate, Write, At
<1>2. Set(c, v)
  BY DEF Truncate, Write, At
<1>3. /\ v \in Calls /\ v.op = r.op /\ v.id = r.id /\ v.todo = r.todo /\ v.to = r.to
      /\ v.seen = r.seen /\ v.saw = r.saw /\ v.pc = IF r.pc = "truncate" THEN "write" ELSE "unlock"
  BY <1>1 DEF Goto, Calls, AllPoints, Updating
<1> HIDE DEF v
<1>4. PointOK(v)
  BY <1>1, <1>3 DEF PointOK, Updating, UpdatingOps, Calls, CallOK
<1>5. CallOK(c, v)
  BY <1>1, <1>3, <1>4 DEF CallOK, ClaimOK, TodoOK, Own, Start, Updating
<1>6. Holds(lock, c, v) /\ Lives(crashed, c, v)
  BY <1>1, <1>3, CallFacts DEF Holds, Lives, Holding
<1> QED BY <1>2, <1>5, <1>6, CallsSame DEF TypeInv, Truncate, Write

LEMMA UnlockOK ==
  ASSUME TypeInv, NEW c \in Callers, Unlock(c)
  PROVE  /\ CallsInv' /\ lock' \in [Ids \cup {List} -> Owners]
         /\ call' = [call EXCEPT ![c] = Continue(call[c], Rest(call[c]))]
<1> DEFINE r == call[c]
<1>1. r.pc = "unlock" /\ c \notin crashed /\ CallOK(c, r) /\ r \in Calls
  BY CallFacts DEF Unlock, At
<1>2. \A d \in Callers \ ({c} \cup crashed) : \A l \in Ids \cup {List} : lock[l] = d => lock'[l] = d
  BY DEF Unlock, TypeInv, StateInv
<1>3. lock' \in [Ids \cup {List} -> Owners]
  BY DEF Unlock, TypeInv, StateInv, Owners
<1>4. Set(c, Continue(r, Rest(r)))
  BY DEF Unlock, Rest
<1>5. CallOK(c, Continue(r, Rest(r))) /\ Holds(lock', c, Continue(r, Rest(r))) /\ Lives(crashed, c, Continue(r, Rest(r)))
  <2>1. CASE r.op \in {"create", "reset"}
    <3>1. Continue(r, Rest(r)) = NoCall
      BY <1>1, <2>1 DEF CallOK, TodoOK, Rest, Continue
    <3> QED BY <3>1, TypeOfNoCall
  <2>2. CASE r.op \notin {"create", "reset"}
    BY <1>1, <2>2, ContinueOK DEF Updating
  <2> QED BY <2>1, <2>2
<1>6. CallsInv'
  BY <1>2, <1>4, <1>5, CallsKept DEF TypeInv, Unlock
<1> QED BY <1>3, <1>4, <1>6 DEF Set

LEMMA PollOK ==
  ASSUME TypeInv, NEW w \in Workers, Poll(w)
  PROVE  CallsInv'
<1>1. PICK i \in Ids : Set(w, [NoCall EXCEPT !.op = "claim", !.pc = "precheck", !.id = i])
  BY DEF Poll, Available
<1> DEFINE v == [NoCall EXCEPT !.op = "claim", !.pc = "precheck", !.id = i]
<1>2. /\ v \in Calls /\ v.op = "claim" /\ v.id = i /\ v.todo = <<>> /\ v.to = 0
      /\ v.seen = NoCall.seen /\ v.saw = Absent /\ v.pc = "precheck"
  <2>1. NoCall \in Calls /\ i \in Nat /\ NoCall.todo = <<>> /\ NoCall.to = 0 /\ NoCall.saw = Absent
    BY TypeOfNoCall, CallersAssumption DEF Ids, NoCall
  <2> HIDE DEF NoCall
  <2> QED BY <2>1 DEF Calls, WorkerOps, AllPoints, Updating
<1>3. Set(w, v)
  BY <1>1
<1>4. w \notin crashed /\ w \in Callers
  BY DEF Poll, At, Callers
<1> HIDE DEF v
<1>5. PointOK(v) /\ ClaimOK(w, v) /\ TodoOK(v)
  BY <1>2 DEF PointOK, UpdatingOps, Updating, ClaimOK, TodoOK
<1>6. \A j \in Ids : v.seen[j].kind = "absent"
  BY <1>2, TypeOfAbsent DEF NoCall
<1>7. CallOK(w, v)
  BY <1>2, <1>5, <1>6 DEF CallOK, WorkerOps, ToolOps
<1>8. Holds(lock, w, v) /\ Lives(crashed, w, v)
  BY <1>2, <1>4 DEF Holds, Lives, Holding
<1> QED BY <1>3, <1>4, <1>7, <1>8, CallsSame DEF TypeInv, Poll

LEMMA RereadOK ==
  ASSUME TypeInv, NEW w \in Workers, Reread(w)
  PROVE  CallsInv'
<1> DEFINE r == call[w]
           v == [Goto(w, "blockers") EXCEPT !.saw = files[r.id], !.rest = Names \cap files[r.id].blockedBy]
           u == Goto(w, "unlock")
<1>1. r.pc = "reread" /\ w \notin crashed /\ CallOK(w, r) /\ r \in Calls /\ w \in Callers
  BY CallFacts DEF Reread, At, Callers
<1>2. r.op = "claim" /\ r.id \in Ids /\ r.todo = <<>>
  BY <1>1 DEF CallOK, PointOK, Updating, ClaimOK
<1>3. files[r.id] \in File /\ Names \subseteq Ids
  BY <1>2, FileFacts DEF Names
<1>4. /\ v \in Calls /\ v.op = r.op /\ v.id = r.id /\ v.todo = r.todo /\ v.to = r.to
      /\ v.seen = r.seen /\ v.pc = "blockers"
  BY <1>1, <1>3 DEF Goto, Calls, AllPoints
<1>5. /\ u \in Calls /\ u.op = r.op /\ u.id = r.id /\ u.todo = r.todo /\ u.to = r.to
      /\ u.seen = r.seen /\ u.pc = "unlock"
  BY <1>1 DEF Goto, Calls, AllPoints, Updating
<1>6. Set(w, v) \/ Set(w, u)
  BY DEF Reread
<1> HIDE DEF v, u
<1>7. PointOK(v) /\ ClaimOK(w, v) /\ TodoOK(v) /\ PointOK(u) /\ ClaimOK(w, u) /\ TodoOK(u)
  BY <1>2, <1>4, <1>5 DEF PointOK, UpdatingOps, Updating, ClaimOK, TodoOK
<1>8. CallOK(w, v) /\ CallOK(w, u)
  BY <1>1, <1>4, <1>5, <1>7 DEF CallOK
<1>9. lock[r.id] = w
  BY <1>1, <1>2, CallFacts DEF Holds, Holding
<1>10. /\ Holds(lock, w, v) /\ Lives(crashed, w, v)
       /\ Holds(lock, w, u) /\ Lives(crashed, w, u)
  BY <1>1, <1>2, <1>4, <1>5, <1>9 DEF Holds, Lives, Holding
<1> QED BY <1>1, <1>6, <1>8, <1>10, CallsSame DEF TypeInv, Reread

LEMMA DecideOK ==
  ASSUME TypeInv, NEW w \in Workers, Decide(w)
  PROVE  CallsInv'
<1> DEFINE r == call[w]
           v == [Goto(w, "merge") EXCEPT !.seen = NoCall.seen, !.todo = <<Own(w, r), Start(r)>>]
           u == Goto(w, "unlock")
<1>1. r.pc = "blockers" /\ w \notin crashed /\ CallOK(w, r) /\ r \in Calls /\ w \in Callers
  BY CallFacts DEF Decide, At, Callers
<1>2. r.op = "claim" /\ r.id \in Ids /\ r.todo = <<>>
  BY <1>1 DEF CallOK, PointOK, Updating, ClaimOK
<1>3. <<Own(w, r), Start(r)>> \in Seq(Updates)
  <2>1. Patch("owner", w) \in Patches /\ Patch("status", "in_progress") \in Patches
    BY <1>1, PatchesMade DEF Owners, Statuses
  <2>2. Own(w, r) \in Updates /\ Start(r) \in Updates
    BY <1>2, <2>1 DEF Own, Start, Update, Updates
  <2> QED BY <2>2
<1>4. NoCall.seen \in [Ids -> File] /\ \A j \in Ids : NoCall.seen[j].kind = "absent"
  BY TypeOfAbsent DEF NoCall
<1>5. /\ v \in Calls /\ v.op = r.op /\ v.id = r.id /\ v.todo = <<Own(w, r), Start(r)>> /\ v.to = r.to
      /\ v.seen = NoCall.seen /\ v.pc = "merge"
  <2> DEFINE todo == <<Own(w, r), Start(r)>>
  <2>1. todo \in Seq(Updates)
    BY <1>3
  <2> HIDE DEF todo
  <2>2. [Goto(w, "merge") EXCEPT !.seen = NoCall.seen, !.todo = todo] \in Calls
    BY <1>1, <2>1, <1>4 DEF Goto, Calls, AllPoints, Updating
  <2> QED BY <1>1, <2>2 DEF Goto, Calls, todo
<1>6. /\ u \in Calls /\ u.op = r.op /\ u.id = r.id /\ u.todo = r.todo /\ u.to = r.to
      /\ u.seen = r.seen /\ u.pc = "unlock"
  BY <1>1 DEF Goto, Calls, AllPoints, Updating
<1>7. Set(w, v) \/ Set(w, u)
  BY DEF Decide, Own, Start
<1> HIDE DEF v, u
<1>8. Own(w, r) = Own(w, v) /\ Start(r) = Start(v)
  BY <1>5 DEF Own, Start
<1>9. PointOK(v) /\ TodoOK(v) /\ PointOK(u) /\ ClaimOK(w, u) /\ TodoOK(u)
  BY <1>2, <1>5, <1>6 DEF PointOK, UpdatingOps, Updating, ClaimOK, TodoOK
<1>10. ClaimOK(w, v)
  BY <1>5, <1>8 DEF ClaimOK
<1>11. CallOK(w, v) /\ CallOK(w, u)
  BY <1>1, <1>4, <1>5, <1>6, <1>9, <1>10 DEF CallOK
<1>12. lock[r.id] = w
  BY <1>1, <1>2, CallFacts DEF Holds, Holding
<1>13. /\ Holds(lock, w, v) /\ Lives(crashed, w, v)
       /\ Holds(lock, w, u) /\ Lives(crashed, w, u)
  BY <1>1, <1>2, <1>5, <1>6, <1>12 DEF Holds, Lives, Holding
<1> QED BY <1>1, <1>7, <1>11, <1>13, CallsSame DEF TypeInv, Decide

LEMMA CompleteOK ==
  ASSUME TypeInv, NEW w \in Workers, Complete(w)
  PROVE  CallsInv'
<1> DEFINE r == [NoCall EXCEPT !.op = "complete"]
           todo == <<Update(mine[w], Patch("status", "completed"))>>
<1>1. w \in Callers /\ w \notin crashed /\ mine[w] \in Ids
  BY DEF Complete, At, Callers, TypeInv, StateInv
<1>2. todo \in Seq(Updates) /\ todo # <<>> /\ \A n \in DOMAIN todo : "owner" \notin DOMAIN todo[n].patch
  <2>1. Patch("status", "completed") \in Patches /\ "owner" \notin DOMAIN Patch("status", "completed")
    BY PatchesMade DEF Statuses, Patch
  <2>2. Update(mine[w], Patch("status", "completed")) \in Updates
    BY <1>1, <2>1 DEF Update, Updates
  <2>3. "owner" \notin DOMAIN Update(mine[w], Patch("status", "completed")).patch
    BY <2>1 DEF Update
  <2> QED BY <2>2, <2>3
<1>3. r \in Calls /\ r.op = "complete"
  <2> HIDE DEF NoCall
  <2> QED BY TypeOfNoCall DEF Calls, WorkerOps
<1>4. Set(w, Continue(r, todo)) \/ call' = call
  BY DEF Complete
<1> HIDE DEF r, todo
<1>5. CallOK(w, Continue(r, todo)) /\ Holds(lock, w, Continue(r, todo)) /\ Lives(crashed, w, Continue(r, todo))
  BY <1>1, <1>2, <1>3, Continues DEF UpdatingOps, WorkerOps, ToolOps
<1>6. CASE call' = call
  BY <1>6 DEF Complete, TypeInv, CallsInv, Holds, Lives, CallOK, ClaimOK, TodoOK, Own, Start, Update, Patch
<1> QED BY <1>1, <1>4, <1>5, <1>6, CallsSame DEF TypeInv, Complete

\* The calls of a tool other than its updates.
LEMMA ToolMoves ==
  ASSUME NEW t \in Tools, NEW v \in Calls, v.op \in ToolOps, PointOK(v), v.todo = <<>>,
         v.pc \notin Updating \/ v.op \in {"create", "reset"},
         v.op \in {"delete", "block"} => v.id \in Ids,
         v.op = "block" => v.to \in Ids,
         \A i \in Ids : v.seen[i].kind \in {"absent", "task"}
  PROVE  CallOK(t, v)
<1>1. v.op \notin {"claim", "complete"} /\ v.op \notin WorkerOps /\ (v.op = "unassign" => v.pc = "list")
  BY DEF ToolOps, WorkerOps, PointOK, UpdatingOps
<1>2. TodoOK(v)
  BY <1>1 DEF TodoOK
<1> QED BY <1>1, <1>2 DEF CallOK

LEMMA BeginOK ==
  ASSUME TypeInv, NEW t \in Tools, NEW op \in ToolOps, NEW r \in Calls, Begin(t, op, r),
         PointOK([r EXCEPT !.op = op]), r.todo = <<>>,
         r.pc \in {"lockList", "readMark", "list"},
         op \in {"delete", "block"} => r.id \in Ids,
         op = "block" => r.to \in Ids,
         op = "unassign" => r.saw.owner \in crashed,
         op \in {"create", "reset"} => r.pc = "lockList",
         \A i \in Ids : r.seen[i].kind \in {"absent", "task"}
  PROVE  CallsInv'
<1> DEFINE v == [r EXCEPT !.op = op]
<1>1. /\ v \in Calls /\ v.op = op /\ v.pc = r.pc /\ v.todo = r.todo /\ v.id = r.id /\ v.to = r.to
      /\ v.seen = r.seen /\ v.saw = r.saw
  BY DEF Calls
<1>2. Set(t, v) /\ t \in Callers /\ t \notin crashed /\ PointOK(v)
  BY DEF Begin, At, Callers
<1> HIDE DEF v
<1>3. CallOK(t, v)
  BY <1>1, <1>2, ToolMoves DEF Updating
<1>4. Holds(lock, t, v) /\ Lives(crashed, t, v)
  BY <1>1, <1>2 DEF Holds, Lives, Holding
<1> QED BY <1>2, <1>3, <1>4, CallsSame DEF TypeInv, Begin

LEMMA CallOfTool ==
  ASSUME TypeInv, NEW t \in Tools, Call(t)
  PROVE  CallsInv'
<1>1. /\ NoCall \in Calls /\ NoCall.op = "none" /\ NoCall.todo = <<>> /\ NoCall.id = 0 /\ NoCall.saw = Absent
      /\ \A i \in Ids : NoCall.seen[i].kind \in {"absent", "task"}
  BY TypeOfNoCall, TypeOfAbsent DEF NoCall
<1>2. Ids \subseteq Nat /\ Ids \subseteq 0..MaxId
  BY CallersAssumption DEF Ids
<1>3. CASE Create(t) \/ Reset(t)
  <2> DEFINE r == [NoCall EXCEPT !.pc = "lockList"]
  <2>1. /\ r \in Calls /\ r.pc = "lockList" /\ r.todo = <<>> /\ r.seen = NoCall.seen
        /\ \A op \in ToolOps : [r EXCEPT !.op = op].op = op /\ [r EXCEPT !.op = op].pc = "lockList"
    <3> HIDE DEF NoCall
    <3> QED BY <1>1 DEF Calls, AllPoints
  <2>2. Begin(t, "create", r) \/ Begin(t, "reset", r)
    BY <1>3 DEF Create, Reset
  <2> HIDE DEF r
  <2>3. \A op \in {"create", "reset"} : op \in ToolOps /\ PointOK([r EXCEPT !.op = op])
    BY <2>1 DEF ToolOps, PointOK
  <2> QED BY <1>1, <2>1, <2>2, <2>3, BeginOK
<1>4. ASSUME NEW i \in Ids, Delete(t, i) PROVE CallsInv'
  <2> DEFINE r == [NoCall EXCEPT !.pc = "readMark", !.id = i, !.high = i]
  <2>1. /\ r \in Calls /\ r.pc = "readMark" /\ r.todo = <<>> /\ r.seen = NoCall.seen /\ r.id = i
        /\ [r EXCEPT !.op = "delete"].op = "delete" /\ [r EXCEPT !.op = "delete"].pc = "readMark"
    <3> HIDE DEF NoCall
    <3>1. i \in Nat /\ i \in 0..MaxId
      BY <1>2
    <3> QED BY <1>1, <3>1 DEF Calls, AllPoints
  <2>2. Begin(t, "delete", r)
    BY <1>4 DEF Delete
  <2> HIDE DEF r
  <2>3. "delete" \in ToolOps /\ PointOK([r EXCEPT !.op = "delete"])
    BY <2>1 DEF ToolOps, PointOK
  <2> QED BY <1>1, <2>1, <2>2, <2>3, BeginOK
<1>5. ASSUME NEW i \in Ids, NEW j \in Ids, Block(t, i, j) PROVE CallsInv'
  <2> DEFINE r == [NoCall EXCEPT !.pc = "list", !.id = i, !.to = j, !.rest = {i, j}]
  <2>1. /\ r \in Calls /\ r.pc = "list" /\ r.todo = <<>> /\ r.seen = NoCall.seen /\ r.id = i /\ r.to = j
        /\ [r EXCEPT !.op = "block"].op = "block" /\ [r EXCEPT !.op = "block"].pc = "list"
    <3> HIDE DEF NoCall
    <3>1. i \in Nat /\ j \in Nat
      BY <1>2
    <3> QED BY <1>1, <3>1 DEF Calls, AllPoints
  <2>2. Begin(t, "block", r)
    BY <1>5 DEF Block
  <2> HIDE DEF r
  <2>3. "block" \in ToolOps /\ PointOK([r EXCEPT !.op = "block"])
    BY <2>1 DEF ToolOps, PointOK
  <2> QED BY <1>1, <2>1, <2>2, <2>3, BeginOK
<1>6. ASSUME NEW w \in Workers, Unassign(t, w) PROVE CallsInv'
  <2> DEFINE r == [Listing(NoCall, "list") EXCEPT !.saw.owner = w]
  <2>1. /\ r \in Calls /\ r.pc = "list" /\ r.todo = <<>> /\ r.seen = NoCall.seen /\ r.saw.owner = w
        /\ [r EXCEPT !.op = "unassign"].op = "unassign" /\ [r EXCEPT !.op = "unassign"].pc = "list"
    <3> DEFINE saw == [Absent EXCEPT !.owner = w]
    <3>1. saw \in File /\ saw.owner = w
      BY TypeOfAbsent DEF File, Callers
    <3>2. r = [NoCall EXCEPT !.pc = "list", !.rest = Names, !.seen = NoCall.seen, !.saw = saw]
      BY <1>1 DEF Listing, Calls
    <3>3. Names \subseteq Ids
      BY DEF Names
    <3> HIDE DEF NoCall, saw, r
    <3> QED BY <1>1, <3>1, <3>2, <3>3 DEF Calls, AllPoints
  <2>2. Begin(t, "unassign", r) /\ w \in crashed
    BY <1>6 DEF Unassign
  <2> HIDE DEF r
  <2>3. "unassign" \in ToolOps /\ PointOK([r EXCEPT !.op = "unassign"])
    BY <2>1 DEF ToolOps, PointOK
  <2> QED BY <1>1, <2>1, <2>2, <2>3, BeginOK
<1> QED BY <1>3, <1>4, <1>5, <1>6 DEF Call

LEMMA AcquireListOK ==
  ASSUME TypeInv, NEW t \in Tools, AcquireList(t)
  PROVE  CallsInv' /\ lock' \in [Ids \cup {List} -> Owners]
<1> DEFINE r == call[t]
           v == Goto(t, IF r.op = "create" THEN "find" ELSE "findNames")
<1>1. r.pc = "lockList" /\ t \notin crashed /\ t \in Callers /\ CallOK(t, r) /\ r \in Calls
  BY CallFacts DEF AcquireList, At, Callers
<1>2. r.op \in {"create", "reset"} /\ r.todo = <<>>
  BY <1>1 DEF CallOK, PointOK, Updating, TodoOK
<1>3. /\ v \in Calls /\ v.op = r.op /\ v.id = r.id /\ v.todo = r.todo /\ v.to = r.to /\ v.seen = r.seen
      /\ v.pc = IF r.op = "create" THEN "find" ELSE "findNames"
  BY <1>1 DEF Goto, Calls, AllPoints
<1>4. Set(t, v)
  BY DEF AcquireList
<1>5. lock' = [lock EXCEPT ![List] = t] /\ lock' \in [Ids \cup {List} -> Owners] /\ lock'[List] = t
  BY <1>1 DEF AcquireList, TypeInv, StateInv, Owners
<1>6. \A d \in Callers \ ({t} \cup crashed) : \A l \in Ids \cup {List} : lock[l] = d => lock'[l] = d
  <2>1. lock[List] = Nobody \/ lock[List] \in crashed
    BY DEF AcquireList, Free
  <2> QED BY <1>5, <2>1, CallersAssumption DEF TypeInv, StateInv
<1> HIDE DEF v
<1>7. CallOK(t, v)
  <2>1. PointOK(v) /\ v.op \in ToolOps
    BY <1>2, <1>3 DEF PointOK, ToolOps
  <2> QED BY <1>1, <1>2, <1>3, <2>1, ToolMoves DEF CallOK
<1>8. Holds(lock', t, v) /\ Lives(crashed, t, v)
  BY <1>1, <1>2, <1>3, <1>5 DEF Holds, Lives
<1> QED BY <1>1, <1>4, <1>5, <1>6, <1>7, <1>8, CallsKept DEF TypeInv, AcquireList

\* A creation, a reset or a deletion goes on, under the lock it has.
LEMMA ToolGoesOn ==
  ASSUME TypeInv, NEW t \in Tools, t \notin crashed, NEW v \in Calls, Set(t, v), UNCHANGED <<lock, crashed>>,
         v.op = call[t].op, v.op \in {"create", "reset", "delete"}, v.todo = <<>>, PointOK(v),
         v.pc \notin Updating \/ v.op \in {"create", "reset"},
         call[t].pc # "lockList", v.op = "delete" => v.id \in Ids,
         \A i \in Ids : v.seen[i].kind \in {"absent", "task"}
  PROVE  CallsInv'
<1>1. t \in Callers
  BY DEF Callers
<1>2. CallOK(t, v)
  BY ToolMoves DEF ToolOps
<1>3. v.op \in {"create", "reset"} => lock[List] = t
  BY <1>1, CallFacts DEF Holds
<1>4. v.op = "delete" => v.pc \notin Holding
  BY DEF Updating, Holding, PointOK, UpdatingOps
<1>5. Holds(lock, t, v) /\ Lives(crashed, t, v)
  BY <1>3, <1>4 DEF Holds, Lives
<1> QED BY <1>1, <1>2, <1>5, CallsSame DEF TypeInv

\* What is known of it before.
LEMMA ToolFacts ==
  ASSUME TypeInv, NEW t \in Tools,
         call[t].pc \in {"find", "findNames", "findMark", "readMark", "emptyMark", "writeMark", "wipe", "unlink"}
  PROVE  /\ call[t] \in Calls /\ call[t].todo = <<>> /\ call[t].op \in {"create", "reset", "delete"}
         /\ call[t].op = "delete" => call[t].id \in Ids
         /\ call[t].pc = "find" => call[t].op = "create"
         /\ call[t].op = "create" => call[t].pc \in {"find", "findNames", "findMark"}
         /\ call[t].op = "delete" => call[t].pc \in {"readMark", "emptyMark", "writeMark", "unlink"}
         /\ call[t].op = "reset" => call[t].pc \in {"findNames", "readMark", "emptyMark", "writeMark", "wipe"}
         /\ \A i \in Ids : call[t].seen[i].kind \in {"absent", "task"}
<1>1. t \in Callers
  BY DEF Callers
<1>2. call[t] \in Calls /\ CallOK(t, call[t])
  BY <1>1, CallFacts
<1>3. call[t].op \in {"create", "reset", "delete"}
  BY <1>2 DEF CallOK, PointOK, Updating
<1>4. call[t].todo = <<>>
  BY <1>2, <1>3 DEF CallOK, PointOK, UpdatingOps, Updating, TodoOK, ClaimOK, Calls
<1>5. /\ call[t].pc = "find" => call[t].op = "create"
      /\ call[t].op = "create" => call[t].pc \in {"find", "findNames", "findMark"}
      /\ call[t].op = "delete" => call[t].pc \in {"readMark", "emptyMark", "writeMark", "unlink"}
      /\ call[t].op = "reset" => call[t].pc \in {"findNames", "readMark", "emptyMark", "writeMark", "wipe"}
  BY <1>2, <1>3 DEF CallOK, PointOK, UpdatingOps, Updating
<1> QED BY <1>2, <1>3, <1>4, <1>5 DEF CallOK

LEMMA FoundOK ==
  ASSUME TypeInv, NEW t \in Tools, t \notin crashed, NEW high \in 0..MaxId, Set(t, Found(t, high)),
         call[t].pc \in {"findNames", "findMark"}, UNCHANGED <<lock, crashed>>
  PROVE  CallsInv'
<1> DEFINE r == call[t]
           v == Found(t, high)
<1>1. /\ r \in Calls /\ r.todo = <<>> /\ r.op \in {"create", "reset"}
      /\ \A i \in Ids : r.seen[i].kind \in {"absent", "task"}
  BY ToolFacts
<1>2. high + 1 \in Nat /\ Names \subseteq Ids /\ 0 \in 0..MaxId /\ NewTask \in File
  BY CallersAssumption, TypeOfAbsent DEF Names
<1>3. CASE r.op = "create"
  <2>1. v = [r EXCEPT !.pc = "truncate", !.id = high + 1, !.high = 0, !.saw = NewTask]
    BY <1>3 DEF Found
  <2>2. v \in Calls /\ v.op = "create" /\ v.pc = "truncate" /\ v.todo = <<>> /\ v.seen = r.seen
    BY <1>1, <1>2, <1>3, <2>1 DEF Calls, AllPoints, Updating
  <2> HIDE DEF v
  <2>3. PointOK(v)
    BY <2>2 DEF PointOK
  <2> QED BY <1>1, <1>3, <2>2, <2>3, ToolGoesOn DEF v
<1>4. CASE r.op = "reset"
  <2>1. v = [r EXCEPT !.pc = IF high > 0 THEN "readMark" ELSE "wipe", !.high = high,
                      !.rest = IF high > 0 THEN {} ELSE Names]
    BY <1>4 DEF Found
  <2>2. v \in Calls /\ v.op = "reset" /\ v.pc \in {"readMark", "wipe"} /\ v.todo = <<>> /\ v.seen = r.seen
    BY <1>1, <1>2, <1>4, <2>1 DEF Calls, AllPoints
  <2> HIDE DEF v
  <2>3. PointOK(v)
    BY <2>2 DEF PointOK
  <2> QED BY <1>1, <1>4, <2>2, <2>3, ToolGoesOn DEF v
<1> QED BY <1>1, <1>3, <1>4

LEMMA FindOK ==
  ASSUME TypeInv, NEW t \in Tools, FindNames(t) \/ FindMark(t)
  PROVE  CallsInv'
<1> DEFINE r == call[t]
           high == IF FindNames(t) THEN MaxOf(Names \cup {r.high}) ELSE MaxOf({mark, r.high})
<1>1. t \notin crashed /\ r.pc \in {"find", "findNames", "findMark"}
  BY DEF FindNames, FindMark
<1>2. r \in Calls /\ r.todo = <<>> /\ \A i \in Ids : r.seen[i].kind \in {"absent", "task"}
  BY <1>1, ToolFacts
<1>3. MaxOf(Names \cup {r.high}) \in 0..MaxId /\ MaxOf({mark, r.high}) \in 0..MaxId
  <2>1. r.high \in 0..MaxId /\ mark \in 0..MaxId
    BY <1>2 DEF Calls, TypeInv, StateInv
  <2>2. Names \subseteq 0..MaxId
    BY CallersAssumption DEF Names, Ids
  <2> QED BY <2>1, <2>2, MaxBound
<1>4. ASSUME NEW pc \in {"findMark", "findNames"}, NEW m \in 0..MaxId, r.pc = "find",
             Set(t, [r EXCEPT !.pc = pc, !.high = m]), UNCHANGED <<lock, crashed>>
      PROVE  CallsInv'
  <2> DEFINE v == [r EXCEPT !.pc = pc, !.high = m]
  <2>1. v \in Calls /\ v.op = r.op /\ v.pc = pc /\ v.todo = <<>> /\ v.seen = r.seen
    BY <1>2 DEF Calls, AllPoints
  <2>2. r.op = "create"
    BY <1>4, ToolFacts
  <2> HIDE DEF v
  <2>3. PointOK(v)
    BY <2>1, <2>2 DEF PointOK
  <2> QED BY <1>1, <1>2, <1>4, <2>1, <2>2, <2>3, ToolGoesOn DEF v
<1>5. CASE FindNames(t)
  BY <1>1, <1>3, <1>4, <1>5, FoundOK DEF FindNames
<1>6. CASE FindMark(t)
  BY <1>1, <1>3, <1>4, <1>6, FoundOK DEF FindMark
<1> QED BY <1>5, <1>6

LEMMA MarkOK ==
  ASSUME TypeInv, NEW t \in Tools, ReadMark(t) \/ EmptyMark(t) \/ WriteMark(t)
  PROVE  CallsInv' /\ mark' \in 0..MaxId
<1> DEFINE r == call[t]
<1>1. t \notin crashed /\ r.pc \in {"readMark", "emptyMark", "writeMark"} /\ UNCHANGED <<lock, crashed>>
  BY DEF ReadMark, EmptyMark, WriteMark, At
<1>2. /\ r \in Calls /\ r.todo = <<>> /\ r.op \in {"delete", "reset"} /\ (r.op = "delete" => r.id \in Ids)
      /\ \A i \in Ids : r.seen[i].kind \in {"absent", "task"}
  BY <1>1, ToolFacts
<1>3. mark' \in 0..MaxId
  BY <1>2, CallersAssumption DEF ReadMark, EmptyMark, WriteMark, Calls, TypeInv, StateInv
<1>4. Names \subseteq Ids
  BY DEF Names
<1>5. PICK v : Set(t, v) /\ v \in {Marked(t), Goto(t, "emptyMark"), Goto(t, "writeMark")}
  BY DEF ReadMark, EmptyMark, WriteMark
<1>6. /\ v \in Calls /\ v.op = r.op /\ v.todo = r.todo /\ v.seen = r.seen /\ v.id = r.id
      /\ v.pc \in {"emptyMark", "writeMark"} \/ (v.pc = "unlink" /\ v.op = "delete") \/ (v.pc = "wipe" /\ v.op = "reset")
  BY <1>2, <1>4, <1>5 DEF Marked, Goto, Calls, AllPoints
<1>7. PointOK(v) /\ v.pc \notin Updating
  BY <1>2, <1>6 DEF PointOK, Updating
<1> QED BY <1>1, <1>2, <1>3, <1>5, <1>6, <1>7, ToolGoesOn

LEMMA WipeOK ==
  ASSUME TypeInv, NEW t \in Tools, Wipe(t)
  PROVE  CallsInv'
<1> DEFINE r == call[t]
<1>1. t \notin crashed /\ r.pc = "wipe" /\ UNCHANGED <<lock, crashed>>
  BY DEF Wipe, At
<1>2. /\ r \in Calls /\ r.todo = <<>> /\ r.op = "reset"
      /\ \A i \in Ids : r.seen[i].kind \in {"absent", "task"}
  BY <1>1, ToolFacts
<1>3. PICK v : Set(t, v) /\ (v = Goto(t, "unlock") \/ \E i \in r.rest : v = [r EXCEPT !.rest = @ \ {i}])
  BY DEF Wipe
<1>4. v \in Calls /\ v.op = r.op /\ v.todo = r.todo /\ v.seen = r.seen /\ v.pc \in {"unlock", "wipe"}
  BY <1>1, <1>2, <1>3 DEF Goto, Calls, AllPoints, Updating
<1>5. PointOK(v)
  BY <1>2, <1>4 DEF PointOK
<1> QED BY <1>1, <1>2, <1>3, <1>4, <1>5, ToolGoesOn

LEMMA UnlinkOK ==
  ASSUME TypeInv, NEW t \in Tools, Unlink(t)
  PROVE  CallsInv'
<1> DEFINE r == call[t]
           v == Listing(r, "list")
<1>1. t \notin crashed /\ r.pc = "unlink" /\ UNCHANGED <<lock, crashed>> /\ t \in Callers
  BY DEF Unlink, At, Callers
<1>2. r \in Calls /\ r.todo = <<>> /\ r.op = "delete" /\ r.id \in Ids
  BY <1>1, ToolFacts
<1>3. CASE Set(t, NoCall)
  BY <1>1, <1>3, EndOK
<1>4. CASE Set(t, v)
  <2>1. NoCall.seen \in [Ids -> File] /\ \A j \in Ids : NoCall.seen[j].kind = "absent"
    BY TypeOfAbsent DEF NoCall
  <2>2. v \in Calls /\ v.op = r.op /\ v.todo = r.todo /\ v.seen = NoCall.seen /\ v.pc = "list" /\ v.id = r.id
    BY <1>2, <2>1 DEF Listing, Calls, AllPoints, Names
  <2> HIDE DEF v
  <2>3. PointOK(v) /\ v.pc \notin Updating
    BY <1>2, <2>2 DEF PointOK, Updating
  <2> QED BY <1>1, <1>2, <1>4, <2>1, <2>2, <2>3, ToolGoesOn DEF v
<1> QED BY <1>3, <1>4 DEF Unlink

\* The updates that follow from a listing are updates of what was read, one for
\* each task.
LEMMA Chosen ==
  ASSUME NEW S \in SUBSET Ids, NEW P, \A i \in S : P[i] \in Patches
  PROVE  LET found == SetToSeq(S)
             todo == [n \in DOMAIN found |-> Update(found[n], P[found[n]])]
         IN /\ todo \in Seq(Updates)
            /\ \A n \in DOMAIN todo : todo[n].id \in S /\ todo[n].patch = P[todo[n].id]
            /\ \A m, n \in DOMAIN todo : todo[m].id = todo[n].id => m = n
<1> DEFINE found == SetToSeq(S)
           todo == [n \in DOMAIN found |-> Update(found[n], P[found[n]])]
<1>1. found \in Seq(S) /\ \A m, n \in DOMAIN found : found[m] = found[n] => m = n
  BY Enumerated
<1> HIDE DEF found
<1>2. \A n \in DOMAIN found : found[n] \in S
  BY <1>1
<1>3. DOMAIN todo = DOMAIN found /\ \A n \in DOMAIN todo : todo[n] = Update(found[n], P[found[n]])
  OBVIOUS
<1>4. \A n \in DOMAIN todo : todo[n].id = found[n] /\ todo[n].patch = P[found[n]]
  BY <1>3 DEF Update
<1>5. \A n \in DOMAIN found : Update(found[n], P[found[n]]) \in Updates
  BY <1>2 DEF Update, Updates
<1>6. todo \in Seq(Updates)
  <2>1. PICK k \in Nat : DOMAIN found = 1..k
    BY <1>1
  <2> QED BY <1>5, <2>1
<1>7. todo \in Seq(Updates)
            /\ (\A n \in DOMAIN todo : todo[n].id \in S /\ todo[n].patch = P[todo[n].id])
            /\ \A m, n \in DOMAIN todo : todo[m].id = todo[n].id => m = n
  BY <1>1, <1>2, <1>3, <1>4, <1>6
<1> QED BY <1>7 DEF found

LEMMA ReferencesOK ==
  ASSUME NEW r \in Calls
  PROVE  /\ References(r) \in Seq(Updates)
         /\ \A n \in DOMAIN References(r) : {"owner", "status"} \cap DOMAIN References(r)[n].patch = {}
         /\ \A n \in DOMAIN References(r) : r.seen[References(r)[n].id].kind = "task"
<1> DEFINE S == {i \in Ids : r.seen[i].kind = "task" /\ r.id \in r.seen[i].blocks \cup r.seen[i].blockedBy}
           P == [i \in Ids |-> [k \in {"blocks", "blockedBy"} |-> r.seen[i][k] \ {r.id}]]
           found == SetToSeq(S)
           todo == [n \in DOMAIN found |-> Update(found[n], P[found[n]])]
<1>1. r.seen \in [Ids -> File]
  BY DEF Calls
<1>2. \A i \in Ids : P[i] \in Patches /\ {"owner", "status"} \cap DOMAIN P[i] = {}
  <2> SUFFICES ASSUME NEW i \in Ids PROVE P[i] \in Patches /\ {"owner", "status"} \cap DOMAIN P[i] = {}
    OBVIOUS
  <2>1. r.seen[i]["blocks"] \subseteq Ids /\ r.seen[i]["blockedBy"] \subseteq Ids
    BY <1>1 DEF File
  <2>2. P[i] = [k \in {"blocks", "blockedBy"} |-> r.seen[i][k] \ {r.id}]
    OBVIOUS
  <2> HIDE DEF P
  <2> QED BY <2>1, <2>2 DEF Patches, Values
<1>3. S \subseteq Ids
  OBVIOUS
<1>4. /\ todo \in Seq(Updates)
      /\ \A n \in DOMAIN todo : todo[n].id \in S /\ todo[n].patch = P[todo[n].id]
  <2> HIDE DEF S, P
  <2> QED BY <1>2, <1>3, Chosen
<1>5. \A n \in DOMAIN found : found[n] \in Ids
  BY Enumerated
<1>6. References(r) = todo
  <2>1. \A n \in DOMAIN found : P[found[n]] = [k \in {"blocks", "blockedBy"} |-> r.seen[found[n]][k] \ {r.id}]
    BY <1>5
  <2>2. References(r) = [n \in DOMAIN found |->
                           Update(found[n], [k \in {"blocks", "blockedBy"} |-> r.seen[found[n]][k] \ {r.id}])]
    BY DEF References
  <2> HIDE DEF found, P
  <2> QED BY <2>1, <2>2
<1> HIDE DEF todo
<1> QED BY <1>2, <1>4, <1>6

LEMMA AssignedOK ==
  ASSUME NEW r \in Calls
  PROVE  /\ Assigned(r) \in Seq(Updates)
         /\ \A n \in DOMAIN Assigned(r) : LET i == Assigned(r)[n].id
                                          IN /\ r.seen[i].kind = "task" /\ r.seen[i].owner = r.saw.owner
                                             /\ r.seen[i].status # "completed"
         /\ \A n \in DOMAIN Assigned(r) : Assigned(r)[n].patch["status"] # "completed"
         /\ \A m, n \in DOMAIN Assigned(r) : Assigned(r)[m].id = Assigned(r)[n].id => m = n
<1> DEFINE S == {i \in Unresolved(r.seen) : r.seen[i].owner = r.saw.owner}
           Freeing == [k \in {"owner", "status"} |-> IF k = "owner" THEN Nobody ELSE "pending"]
           P == [i \in Ids |-> Freeing]
           found == SetToSeq(S)
           todo == [n \in DOMAIN found |-> Update(found[n], P[found[n]])]
<1>1. Freeing \in Patches
  BY DEF Patches, Values, Owners, Statuses
<1>2. S \subseteq Ids /\ \A i \in S : /\ r.seen[i].kind = "task" /\ r.seen[i].owner = r.saw.owner
                                    /\ r.seen[i].status # "completed"
  BY DEF Unresolved
<1>3. /\ todo \in Seq(Updates)
      /\ \A n \in DOMAIN todo : todo[n].id \in S /\ todo[n].patch = P[todo[n].id]
      /\ \A m, n \in DOMAIN todo : todo[m].id = todo[n].id => m = n
  <2>1. \A i \in S : P[i] \in Patches
    BY <1>1, <1>2
  <2> HIDE DEF S, P
  <2> QED BY <1>2, <2>1, Chosen
<1>4. \A n \in DOMAIN found : found[n] \in Ids
  BY <1>2, Enumerated
<1>5. Assigned(r) = todo
  <2>1. Assigned(r) = [n \in DOMAIN found |-> Update(found[n], Freeing)]
    BY DEF Assigned
  <2>2. \A n \in DOMAIN found : P[found[n]] = Freeing
    BY <1>4
  <2> HIDE DEF found, P, Freeing
  <2> QED BY <2>1, <2>2
<1>6. \A i \in S : P[i]["status"] # "completed"
  BY <1>2
<1> HIDE DEF todo, S, P
<1> QED BY <1>2, <1>3, <1>5, <1>6

LEMMA DependencyOK ==
  ASSUME NEW r \in Calls, r.id \in Ids, r.to \in Ids, \A i \in Ids : r.seen[i].kind \in {"absent", "task"}
  PROVE  /\ Dependency(r) \in Seq(Updates)
         /\ \A n \in DOMAIN Dependency(r) : {"owner", "status"} \cap DOMAIN Dependency(r)[n].patch = {}
         /\ \A n \in DOMAIN Dependency(r) : r.seen[Dependency(r)[n].id].kind = "task"
<1> DEFINE from == r.seen[r.id]
           to == r.seen[r.to]
           a == Update(r.id, Patch("blocks", from.blocks \cup {r.to}))
           b == Update(r.to, Patch("blockedBy", to.blockedBy \cup {r.id}))
<1>1. from.blocks \cup {r.to} \in SUBSET Ids /\ to.blockedBy \cup {r.id} \in SUBSET Ids
  BY DEF Calls, File
<1>2. Patch("blocks", from.blocks \cup {r.to}) \in Patches /\ Patch("blockedBy", to.blockedBy \cup {r.id}) \in Patches
  <2> HIDE DEF from, to
  <2> QED BY <1>1, PatchesMade
<1>3. a \in Updates /\ b \in Updates /\ a.id = r.id /\ b.id = r.to
  BY <1>2 DEF Update, Updates
<1>4. {"owner", "status"} \cap DOMAIN a.patch = {} /\ {"owner", "status"} \cap DOMAIN b.patch = {}
  BY DEF Update, Patch
<1>5. from.kind \in {"absent", "task"} /\ to.kind \in {"absent", "task"}
  OBVIOUS
<1>6. \/ Dependency(r) = <<>>
      \/ from.kind = "task" /\ to.kind = "task" /\ Dependency(r) \in {<<>>, <<a>>, <<b>>, <<a>> \o <<b>>}
  <2> DEFINE first == IF r.to \in from.blocks THEN <<>> ELSE <<a>>
             second == IF r.id \in to.blockedBy THEN <<>> ELSE <<b>>
  <2>1. Dependency(r) = IF from.kind = "absent" \/ to.kind = "absent" THEN <<>> ELSE first \o second
    BY DEF Dependency
  <2>2. <<>> \o <<>> = <<>> /\ <<>> \o <<b>> = <<b>> /\ <<a>> \o <<>> = <<a>>
    <3>1. <<>> \in Seq({a, b}) /\ <<a>> \in Seq({a, b}) /\ <<b>> \in Seq({a, b})
      OBVIOUS
    <3> HIDE DEF a, b
    <3> QED BY <3>1, ConcatEmptySeq
  <2>3. first \in {<<>>, <<a>>} /\ second \in {<<>>, <<b>>}
    OBVIOUS
  <2> HIDE DEF first, second
  <2> QED BY <1>5, <2>1, <2>2, <2>3
<1> HIDE DEF a, b
<1>7. \A s \in {<<>>, <<a>>, <<b>>, <<a>> \o <<b>>} : s \in Seq(Updates) /\ \A n \in DOMAIN s : s[n] \in {a, b}
  <2>1. <<>> \in Seq(Updates) /\ \A n \in DOMAIN <<>> : <<>>[n] \in {a, b}
    OBVIOUS
  <2>2. \A x \in Updates : <<x>> \in Seq(Updates) /\ \A n \in DOMAIN <<x>> : <<x>>[n] = x
    OBVIOUS
  <2>3. <<a>> \o <<b>> \in Seq({a, b}) /\ {a, b} \subseteq Updates
    <3>1. <<a>> \in Seq({a, b}) /\ <<b>> \in Seq({a, b})
      OBVIOUS
    <3> QED BY <1>3, <3>1, ConcatProperties
  <2>4. <<a>> \o <<b>> \in Seq(Updates) /\ \A n \in DOMAIN (<<a>> \o <<b>>) : (<<a>> \o <<b>>)[n] \in {a, b}
    <3> DEFINE ab == <<a>> \o <<b>>
    <3> HIDE DEF ab
    <3>1. ab \in Seq({a, b}) => ab \in Seq(Updates) /\ \A n \in DOMAIN ab : ab[n] \in {a, b}
      BY <2>3
    <3> QED BY <2>3, <3>1 DEF ab
  <2> QED BY <1>3, <2>1, <2>2, <2>4
<1>8. Dependency(r) \in {<<>>, <<a>>, <<b>>, <<a>> \o <<b>>}
  BY <1>6
<1>9. \A n \in DOMAIN Dependency(r) : from.kind = "task" /\ to.kind = "task" /\ Dependency(r)[n] \in {a, b}
  BY <1>6, <1>7
<1> QED BY <1>3, <1>4, <1>7, <1>8, <1>9

\* What a tool does after its listing.
Follows(r) ==
  CASE r.op = "delete" -> References(r) [] r.op = "block" -> Dependency(r) [] r.op = "unassign" -> Assigned(r)

LEMMA FollowsOK ==
  ASSUME TypeInv, NEW t \in Tools, Listed(t)
  PROVE  /\ Set(t, Continue(call[t], Follows(call[t])))
         /\ call[t] \in Calls /\ call[t].op \in {"delete", "block", "unassign"} /\ call[t].pc = "list"
         /\ Follows(call[t]) \in Seq(Updates)
         /\ call[t].op \in {"delete", "block"} =>
              \A n \in DOMAIN Follows(call[t]) : {"owner", "status"} \cap DOMAIN Follows(call[t])[n].patch = {}
         /\ \A n \in DOMAIN Follows(call[t]) : call[t].seen[Follows(call[t])[n].id].kind = "task"
         /\ call[t].op = "unassign" =>
              /\ \A n \in DOMAIN Follows(call[t]) : call[t].seen[Follows(call[t])[n].id].owner = call[t].saw.owner
              /\ \A n \in DOMAIN Follows(call[t]) : call[t].seen[Follows(call[t])[n].id].status # "completed"
              /\ \A n \in DOMAIN Follows(call[t]) : Follows(call[t])[n].patch["status"] # "completed"
              /\ \A m, n \in DOMAIN Follows(call[t]) : Follows(call[t])[m].id = Follows(call[t])[n].id => m = n
<1> DEFINE r == call[t]
<1>1. t \in Callers /\ r.pc = "list" /\ Set(t, Continue(r, Follows(r)))
  BY DEF Listed, At, Callers, Follows
<1>2. CallOK(t, r) /\ r \in Calls
  BY <1>1, CallFacts
<1>3. r.op \in {"delete", "block", "unassign"}
  BY <1>1, <1>2 DEF CallOK, PointOK, Updating
<1>4. CASE r.op = "delete"
  BY <1>1, <1>2, <1>4, ReferencesOK DEF Follows
<1>5. CASE r.op = "block"
  <2>1. r.id \in Ids /\ r.to \in Ids /\ \A i \in Ids : r.seen[i].kind \in {"absent", "task"}
    BY <1>2, <1>5 DEF CallOK
  <2> QED BY <1>1, <1>2, <1>5, <2>1, DependencyOK DEF Follows
<1>6. CASE r.op = "unassign"
  BY <1>1, <1>2, <1>6, AssignedOK DEF Follows
<1> QED BY <1>3, <1>4, <1>5, <1>6

LEMMA ListedOK ==
  ASSUME TypeInv, NEW t \in Tools, Listed(t)
  PROVE  CallsInv'
<1> DEFINE r == call[t]
           todo == Follows(r)
<1>1. /\ Set(t, Continue(r, todo)) /\ r \in Calls /\ r.op \in {"delete", "block", "unassign"}
      /\ todo \in Seq(Updates)
      /\ r.op \in {"delete", "block"} => \A n \in DOMAIN todo : "owner" \notin DOMAIN todo[n].patch
      /\ r.op = "unassign" => \A m, n \in DOMAIN todo : todo[m].id = todo[n].id => m = n
  BY FollowsOK
<1>2. t \in Callers /\ t \notin crashed /\ UNCHANGED <<lock, crashed>>
  BY DEF Listed, At, Callers
<1>3. CASE todo = <<>>
  BY <1>1, <1>2, <1>3, EndOK DEF Continue
<1>4. CASE todo # <<>>
  <2>1. r.op = "block" => r.to \in Ids
    BY <1>2, CallFacts DEF CallOK
  <2> HIDE DEF todo
  <2>2. CallOK(t, Continue(r, todo)) /\ Holds(lock, t, Continue(r, todo)) /\ Lives(crashed, t, Continue(r, todo))
    BY <1>1, <1>2, <1>4, <2>1, Continues DEF UpdatingOps, WorkerOps, ToolOps
  <2> QED BY <1>1, <1>2, <2>2, CallsSame DEF TypeInv
<1> QED BY <1>3, <1>4

LEMMA CrashOK ==
  ASSUME TypeInv, NEW c \in Callers, Crash(c)
  PROVE  CallsInv'
<1>1. crashed' = crashed \cup {c} /\ Set(c, NoCall) /\ lock' = lock
  BY DEF Crash
<1> QED BY <1>1, TypeOfNoCall, CallsKept DEF TypeInv

LEMMA CallsNext == TypeInv /\ [Next]_vars => CallsInv'
<1> SUFFICES ASSUME TypeInv, [Next]_vars PROVE CallsInv'
  OBVIOUS
<1>1. ASSUME NEW w \in Workers, WorkerStep(w) PROVE CallsInv'
  BY <1>1, PollOK, RereadOK, DecideOK, CompleteOK DEF WorkerStep
<1>2. ASSUME NEW t \in Tools, Call(t) \/ ToolStep(t) \/ AcquireList(t) PROVE CallsInv'
  BY <1>2, CallOfTool, AcquireListOK, FindOK, MarkOK, WipeOK, UnlinkOK, ListedOK DEF ToolStep
<1>3. ASSUME NEW c \in Callers, FileStep(c) \/ Acquire(c) PROVE CallsInv'
  <2>1. CASE Missing(c)
    BY <2>1, EndOK DEF Missing
  <2> QED BY <1>3, <2>1, ReadOneOK, PrecheckOK, ReadToMergeOK, WritingOK, UnlockOK, AcquireOK DEF FileStep
<1>4. ASSUME NEW c \in Callers, GiveUp(c) \/ Crash(c) PROVE CallsInv'
  BY <1>4, EndOK, CrashOK DEF GiveUp
<1>5. CASE UNCHANGED vars
  BY <1>5 DEF vars, TypeInv, CallsInv, Holds, Lives, CallOK, ClaimOK, TodoOK, Own, Start, Update, Patch
<1> QED BY <1>1, <1>2, <1>3, <1>4, <1>5 DEF Next

-----------------------------------------------------------------------------

\* A file changes where a call writes or deletes.
LEMMA FilesNext ==
  TypeInv /\ [Next]_vars =>
    /\ files' \in [Ids -> File] /\ uses' \in [Ids -> Nat] /\ \A i \in Ids : uses'[i] >= uses[i]
<1> SUFFICES ASSUME TypeInv, [Next]_vars
             PROVE  /\ files' \in [Ids -> File] /\ uses' \in [Ids -> Nat] /\ \A i \in Ids : uses'[i] >= uses[i]
  OBVIOUS
<1>1. files \in [Ids -> File] /\ uses \in [Ids -> Nat]
  BY DEF TypeInv, StateInv
<1>2. CASE UNCHANGED <<files, uses>>
  BY <1>1, <1>2
<1>3. ASSUME NEW c \in Callers, Truncate(c) \/ Write(c) \/ (c \in Tools /\ (Wipe(c) \/ Unlink(c)))
      PROVE  /\ files' \in [Ids -> File] /\ uses' \in [Ids -> Nat] /\ \A i \in Ids : uses'[i] >= uses[i]
  <2>1. uses' \in [Ids -> Nat] /\ \A i \in Ids : uses'[i] >= uses[i]
    BY <1>1, <1>3 DEF Truncate, Write, Wipe, Unlink
  <2>2. CASE Truncate(c)
    <3>1. \A i \in Ids : [files[i] EXCEPT !.kind = "torn"] \in File
      BY <1>1 DEF File
    <3>2. files' = [files EXCEPT ![call[c].id] = [@ EXCEPT !.kind = "torn"]]
      BY <2>2 DEF Truncate
    <3> QED BY <1>1, <2>1, <3>1, <3>2
  <2>3. CASE Write(c)
    <3>1. call[c].saw \in File
      BY CallFacts
    <3> QED BY <1>1, <2>1, <2>3, <3>1 DEF Write
  <2>4. CASE Wipe(c) \/ Unlink(c)
    BY <1>1, <2>1, <2>4, TypeOfAbsent DEF Wipe, Unlink
  <2> QED BY <1>3, <2>2, <2>3, <2>4
<1>4. ASSUME NEW c \in Callers, FileStep(c) \/ Acquire(c) \/ GiveUp(c) \/ Crash(c)
      PROVE  UNCHANGED <<files, uses>> \/ Truncate(c) \/ Write(c)
  BY <1>4 DEF FileStep, ReadOne, Precheck, Missing, ReadToMerge, Unlock, Acquire, GiveUp, Crash
<1>5. ASSUME NEW w \in Workers, WorkerStep(w) PROVE UNCHANGED <<files, uses>>
  BY <1>5 DEF WorkerStep, Poll, Reread, Decide, Complete
<1>6. ASSUME NEW t \in Tools, Call(t) \/ ToolStep(t) \/ AcquireList(t)
      PROVE  UNCHANGED <<files, uses>> \/ Wipe(t) \/ Unlink(t)
  BY <1>6 DEF Call, Create, Reset, Delete, Block, Unassign, Begin, ToolStep, FindNames, FindMark, ReadMark, EmptyMark,
              WriteMark, Listed, AcquireList
<1>7. CASE UNCHANGED vars
  BY <1>2, <1>7 DEF vars
<1>8. Tools \subseteq Callers
  BY DEF Callers
<1> QED BY <1>2, <1>3, <1>4, <1>5, <1>6, <1>7, <1>8 DEF Next

\* A worker that lives starts on a task, or ends it.
LEMMA MineNext ==
  TypeInv /\ [Next]_vars =>
    mine' \in [Workers -> Ids \cup {0}] /\ \A w \in crashed' \cap Workers : mine'[w] = 0
<1> SUFFICES ASSUME TypeInv, [Next]_vars
             PROVE  mine' \in [Workers -> Ids \cup {0}] /\ \A w \in crashed' \cap Workers : mine'[w] = 0
  OBVIOUS
<1>1. mine \in [Workers -> Ids \cup {0}] /\ \A w \in crashed \cap Workers : mine[w] = 0
  BY DEF TypeInv, StateInv
<1>2. CASE UNCHANGED <<mine, crashed>>
  BY <1>1, <1>2
<1>3. ASSUME NEW c \in Callers, NEW todo, At(c, "precheck") \/ At(c, "unlock"), mine' = Returned(c, todo), crashed' = crashed
      PROVE  mine' \in [Workers -> Ids \cup {0}] /\ \A w \in crashed' \cap Workers : mine'[w] = 0
  <2>1. call[c].op = "claim" => call[c].id \in Ids
    BY CallFacts DEF CallOK
  <2> QED BY <1>1, <1>3, <2>1 DEF Returned, Started, At
<1>4. ASSUME NEW c \in Callers, FileStep(c) \/ Acquire(c) \/ GiveUp(c)
      PROVE  mine' \in [Workers -> Ids \cup {0}] /\ \A w \in crashed' \cap Workers : mine'[w] = 0
  <2>1. CASE Precheck(c) \/ Unlock(c)
    BY <1>2, <1>3, <2>1 DEF Precheck, Unlock
  <2>2. CASE ~(Precheck(c) \/ Unlock(c))
    BY <1>2, <1>4, <2>2 DEF FileStep, ReadOne, Missing, ReadToMerge, Truncate, Write, Acquire, GiveUp
  <2> QED BY <2>1, <2>2
<1>5. ASSUME NEW c \in Callers, Crash(c)
      PROVE  mine' \in [Workers -> Ids \cup {0}] /\ \A w \in crashed' \cap Workers : mine'[w] = 0
  BY <1>1, <1>5 DEF Crash
<1>6. ASSUME NEW w \in Workers, WorkerStep(w)
      PROVE  mine' \in [Workers -> Ids \cup {0}] /\ \A v \in crashed' \cap Workers : mine'[v] = 0
  BY <1>1, <1>6 DEF WorkerStep, Poll, Reread, Decide, Complete
<1>7. ASSUME NEW t \in Tools, Call(t) \/ ToolStep(t) \/ AcquireList(t)
      PROVE  UNCHANGED <<mine, crashed>>
  BY <1>7 DEF Call, Create, Reset, Delete, Block, Unassign, Begin, ToolStep, FindNames, FindMark, ReadMark, EmptyMark,
              WriteMark, Wipe, Unlink, Listed, AcquireList
<1>8. CASE UNCHANGED vars
  BY <1>2, <1>8 DEF vars
<1> QED BY <1>2, <1>4, <1>5, <1>6, <1>7, <1>8 DEF Next

\* The rest of the state.
LEMMA OthersNext ==
  TypeInv /\ [Next]_vars =>
    /\ setup' = setup /\ mark' \in 0..MaxId /\ lock' \in [Ids \cup {List} -> Owners]
    /\ crashed' \subseteq Callers /\ calls' \in 0..setup.calls /\ raced' \in BOOLEAN /\ (raced => raced')
<1> SUFFICES ASSUME TypeInv, [Next]_vars
             PROVE  /\ setup' = setup /\ mark' \in 0..MaxId /\ lock' \in [Ids \cup {List} -> Owners]
                    /\ crashed' \subseteq Callers /\ calls' \in 0..setup.calls /\ raced' \in BOOLEAN /\ (raced => raced')
  OBVIOUS
<1>1. /\ mark \in 0..MaxId /\ lock \in [Ids \cup {List} -> Owners]
      /\ crashed \subseteq Callers /\ calls \in 0..setup.calls /\ raced \in BOOLEAN
  BY DEF TypeInv, StateInv
<1>2. CASE UNCHANGED vars
  BY <1>1, <1>2 DEF vars
<1>3. ASSUME NEW w \in Workers, WorkerStep(w) PROVE UNCHANGED <<setup, mark, lock, crashed, calls, raced>>
  BY <1>3 DEF WorkerStep, Poll, Reread, Decide, Complete
<1>4. ASSUME NEW c \in Callers, FileStep(c) \/ Acquire(c) \/ GiveUp(c) \/ Crash(c)
      PROVE  /\ UNCHANGED <<setup, mark, calls, raced>> /\ crashed' \subseteq Callers
             /\ lock' \in [Ids \cup {List} -> Owners]
  <2>1. UNCHANGED <<setup, mark, calls, raced>> /\ (crashed' = crashed \/ crashed' = crashed \cup {c})
    BY <1>4 DEF FileStep, ReadOne, Precheck, Missing, ReadToMerge, Truncate, Write, Unlock, Acquire, GiveUp, Crash
  <2>2. lock' = lock \/ Unlock(c) \/ Acquire(c)
    BY <1>4 DEF FileStep, ReadOne, Precheck, Missing, ReadToMerge, Truncate, Write, GiveUp, Crash
  <2> QED BY <1>1, <2>1, <2>2, UnlockOK, AcquireOK
<1>5. ASSUME NEW t \in Tools, Call(t)
      PROVE  /\ UNCHANGED <<setup, mark, lock, crashed>> /\ calls' \in 0..setup.calls
             /\ raced' \in BOOLEAN /\ (raced => raced')
  <2>1. \E op, r : Begin(t, op, r)
    BY <1>5 DEF Call, Create, Reset, Delete, Block, Unassign
  <2>2. setup.calls \in Nat
    BY SetupsAssumption DEF TypeInv, StateInv
  <2>3. PICK op, r : Begin(t, op, r)
    BY <2>1
  <2>4. raced' = (raced \/ Races(t, op)) /\ Races(t, op) \in BOOLEAN
    BY <2>3 DEF Begin, Races
  <2> QED BY <1>1, <2>2, <2>3, <2>4 DEF Begin
<1>6. ASSUME NEW t \in Tools, ToolStep(t) \/ AcquireList(t)
      PROVE  /\ UNCHANGED <<setup, crashed, calls, raced>> /\ mark' \in 0..MaxId
             /\ lock' \in [Ids \cup {List} -> Owners]
  <2>1. UNCHANGED <<setup, crashed, calls, raced>>
    BY <1>6 DEF ToolStep, FindNames, FindMark, ReadMark, EmptyMark, WriteMark, Wipe, Unlink, Listed, AcquireList
  <2>2. lock' = lock \/ AcquireList(t)
    BY <1>6 DEF ToolStep, FindNames, FindMark, ReadMark, EmptyMark, WriteMark, Wipe, Unlink, Listed
  <2>3. mark' = mark \/ EmptyMark(t) \/ WriteMark(t)
    BY <1>6 DEF ToolStep, FindNames, FindMark, ReadMark, Wipe, Unlink, Listed, AcquireList
  <2> QED BY <1>1, <2>1, <2>2, <2>3, AcquireListOK, MarkOK
<1> QED BY <1>1, <1>2, <1>3, <1>4, <1>5, <1>6 DEF Next

LEMMA TypeInit == Init => TypeInv
<1> SUFFICES ASSUME Init PROVE TypeInv
  OBVIOUS
<1>1. files \in [Ids -> File] /\ uses \in [Ids -> Nat]
  <2>1. setup.tasks \in Seq(File)
    BY SetupsAssumption DEF Init
  <2>2. \A i \in Ids : i <= Len(setup.tasks) => setup.tasks[i] \in File
    BY <2>1, CallersAssumption DEF Ids
  <2> QED BY <2>2, TypeOfAbsent DEF Init
<1>2. setup.calls \in Nat
  BY SetupsAssumption DEF Init
<1>3. StateInv
  <2>1. 0 \in 0..MaxId /\ 0 \in 0..setup.calls
    BY <1>2, CallersAssumption
  <2>2. lock \in [Ids \cup {List} -> Owners] /\ mine \in [Workers -> Ids \cup {0}]
    BY DEF Init, Owners
  <2>3. setup \in Setups /\ mark = 0 /\ crashed = {} /\ calls = 0 /\ raced = FALSE
    BY DEF Init
  <2> QED BY <1>1, <2>1, <2>2, <2>3 DEF StateInv
<1>4. call = [c \in Callers |-> NoCall]
  BY DEF Init
<1> HIDE DEF Init
<1>5. CallsInv
  BY <1>4, TypeOfNoCall DEF CallsInv
<1> QED BY <1>3, <1>5 DEF TypeInv

LEMMA TypeNext == TypeInv /\ [Next]_vars => TypeInv'
  BY CallsNext, FilesNext, MineNext, OthersNext DEF TypeInv, StateInv

\* The variables have their types, and a file is written under a lock: the one of
\* the list when the task is created, otherwise that of the task.
THEOREM TypeCorrect == Spec => []TypeOK
<1>1. TypeInv => TypeOK
  <2> SUFFICES ASSUME TypeInv PROVE TypeOK
    OBVIOUS
  <2>1. ASSUME NEW c \in Callers, call[c].pc \in {"truncate", "write"}
        PROVE  lock[IF call[c].op = "create" THEN List ELSE call[c].id] = c
    <3>1. CallOK(c, call[c]) /\ Holds(lock, c, call[c])
      BY CallFacts
    <3>2. call[c].op # "reset"
      BY <2>1, <3>1 DEF CallOK, PointOK, UpdatingOps
    <3> QED BY <2>1, <3>1, <3>2 DEF Holds, Holding
  <2>2. 0..MaxId = {0} \cup Ids
    BY CallersAssumption DEF Ids
  <2> QED BY <2>1, <2>2 DEF TypeOK, TypeInv, StateInv, Owners
<1> QED BY <1>1, TypeInit, TypeNext, PTL DEF Spec

-----------------------------------------------------------------------------
(* How ids are given.                                                      *)

\* The mark and the files cover an id: the next one is higher.
Covers(m, ns, i) == i <= m \/ \E j \in ns : i <= j

\* A creation knows all ids that were given; a deletion and a reset have marked
\* those whose files they remove, and until then the file of the highest is there.
NumberOK(r, m, ns, us) ==
  /\ r.op = "create" /\ r.pc = "findNames" => m <= r.high
  /\ r.op = "create" /\ r.pc = "findMark" => \A i \in Ids : us[i] > 0 => i <= m \/ i <= r.high
  /\ r.op = "create" /\ r.pc = "truncate" => \A i \in Ids : us[i] > 0 => i < r.id
  /\ r.op = "delete" /\ r.pc \in {"readMark", "emptyMark", "writeMark", "unlink"} => r.high = r.id /\ r.id \in ns
  /\ r.op = "delete" /\ r.pc = "unlink" => r.id <= m
  /\ r.op = "reset" /\ r.pc \in {"lockList", "findNames"} => r.high = 0
  /\ r.op = "reset" /\ r.pc \in {"readMark", "emptyMark", "writeMark"} =>
       r.high \in ns /\ \A i \in Ids : us[i] > 0 => i <= m \/ i <= r.high
  /\ r.op = "reset" /\ r.pc = "wipe" => \A i \in Ids : us[i] > 0 => i <= m
  /\ r.pc \in {"emptyMark", "writeMark"} => m <= r.high
  /\ r.pc \in {"truncate", "write"} => r.saw.kind # "absent"

\* Deletions run alone.
Lone(r, s) == r.op = "delete" => s.op \notin {"create", "delete", "reset"}

NumberInv ==
  /\ \A c \in Callers : NumberOK(call[c], mark, Names, uses)
  /\ \A c, d \in Callers : c # d => Lone(call[c], call[d])
  /\ \A i \in Ids : uses[i] <= 1 /\ (uses[i] > 0 => Covers(mark, Names, i))

\* One caller goes on; the marks and the files of the others stay what they were.
LEMMA NumberStep ==
  ASSUME TypeInv, NumberInv, NEW c \in Callers, NEW v, Set(c, v),
         \/ UNCHANGED <<mark, uses>> /\ Names \subseteq Names'
         \/ call[c].op = "delete"
         \/ call[c].op \in {"create", "reset"} /\ call[c].pc # "lockList",
         NumberOK(v, mark', Names', uses'),
         v.op \in {"create", "delete", "reset"} => v.op = call[c].op,
         \A i \in Ids : uses'[i] <= 1 /\ (uses'[i] > 0 => Covers(mark', Names', i))
  PROVE  NumberInv'
<1>1. call'[c] = v /\ \A d \in Callers \ {c} : call'[d] = call[d]
  BY DEF Set, TypeInv, CallsInv
<1>2. ASSUME NEW d \in Callers \ {c} PROVE NumberOK(call[d], mark', Names', uses')
  <2> DEFINE r == call[d]
  <2>1. NumberOK(r, mark, Names, uses)
    BY DEF NumberInv
  <2>2. CASE UNCHANGED <<mark, uses>> /\ Names \subseteq Names'
    BY <2>1, <2>2 DEF NumberOK
  <2>3. CASE call[c].op = "delete" \/ (call[c].op \in {"create", "reset"} /\ call[c].pc # "lockList")
    <3>1. Lone(call[c], r) /\ Lone(r, call[c])
      BY DEF NumberInv
    <3>2. Holds(lock, c, call[c]) /\ Holds(lock, d, r) /\ PointOK(r)
      BY CallFacts DEF CallOK
    <3>3. r.op \in {"create", "reset"} => r.pc = "lockList"
      BY <2>3, <3>1, <3>2 DEF Lone, Holds
    <3>4. r.op # "delete"
      BY <2>3, <3>1 DEF Lone
    <3>5. r.pc \in {"emptyMark", "writeMark"} => r.op \in {"delete", "reset"}
      BY <3>2 DEF PointOK, Updating
    <3> QED BY <2>1, <3>3, <3>4, <3>5 DEF NumberOK
  <2> QED BY <2>2, <2>3
<1>3. \A d, e \in Callers : d # e => Lone(call'[d], call'[e])
  BY <1>1 DEF NumberInv, Lone
<1>4. \A d \in Callers : NumberOK(call'[d], mark', Names', uses')
  BY <1>1, <1>2
<1> QED BY <1>3, <1>4 DEF NumberInv

\* A call is where no number matters.
Harmless(v) ==
  v.pc \notin {"lockList", "findNames", "findMark", "truncate", "write", "readMark", "emptyMark", "writeMark",
               "unlink", "wipe"}

LEMMA HarmlessOK == ASSUME NEW v, Harmless(v), NEW m, NEW ns, NEW us PROVE NumberOK(v, m, ns, us)
  BY DEF Harmless, NumberOK

LEMMA NumberKept ==
  ASSUME TypeInv, NumberInv, NEW c \in Callers, NEW v, Set(c, v),
         UNCHANGED <<mark, uses>>, Names \subseteq Names',
         Harmless(v) \/ NumberOK(v, mark, Names', uses),
         v.op \in {"create", "delete", "reset"} => v.op = call[c].op
  PROVE  NumberInv'
<1>1. NumberOK(v, mark', Names', uses')
  BY HarmlessOK
<1>2. \A i \in Ids : uses'[i] <= 1 /\ (uses'[i] > 0 => Covers(mark', Names', i))
  BY DEF NumberInv, Covers
<1> QED BY <1>1, <1>2, NumberStep

LEMMA NumberEnd ==
  ASSUME TypeInv, NumberInv, NEW c \in Callers, Set(c, NoCall), UNCHANGED <<mark, uses, files>>
  PROVE  NumberInv'
<1>1. Harmless(NoCall) /\ NoCall.op = "none"
  BY DEF Harmless, NoCall
<1>2. Names' = Names
  BY DEF Names
<1> QED BY <1>1, <1>2, NumberKept

\* What is left of a call after one update.
LEMMA ContinueHarmless ==
  ASSUME NEW r \in Calls, NEW todo \in Seq(Updates)
  PROVE  /\ Harmless(Continue(r, todo))
         /\ Continue(r, todo).op \in {"create", "delete", "reset"} => Continue(r, todo).op = r.op
<1>1. CASE todo = <<>>
  BY <1>1 DEF Continue, NoCall, Harmless
<1>2. CASE todo # <<>>
  <2> DEFINE v == Continue(r, todo)
  <2>1. v.op = r.op /\ v.pc = "precheck"
    BY <1>2 DEF Continue, Calls
  <2> QED BY <2>1 DEF Harmless
<1> QED BY <1>1, <1>2

\* What an update writes is a task, and what a call finds is what it was.
LEMMA NumberUpdates ==
  ASSUME TypeInv, NumberInv, NEW c \in Callers,
         ReadOne(c) \/ Precheck(c) \/ Acquire(c) \/ ReadToMerge(c) \/ Write(c) \/ Unlock(c)
  PROVE  NumberInv'
<1> DEFINE r == call[c]
<1>1. r \in Calls /\ CallOK(c, r) /\ NumberOK(r, mark, Names, uses) /\ UNCHANGED <<mark, uses>>
  BY CallFacts DEF NumberInv, ReadOne, Precheck, Acquire, ReadToMerge, Write, Unlock
<1>2. CASE ReadOne(c)
  <2>1. PICK i \in r.rest : Set(c, [r EXCEPT !.rest = @ \ {i}, !.seen[i] = Read(files[i])])
    BY <1>2 DEF ReadOne
  <2> DEFINE v == [r EXCEPT !.rest = @ \ {i}, !.seen[i] = Read(files[i])]
  <2>2. v.op = r.op /\ v.pc = r.pc /\ Set(c, v)
    BY <1>1, <2>1 DEF Calls
  <2>3. Harmless(v)
    BY <1>2, <2>2 DEF ReadOne, Harmless
  <2>4. Names' = Names
    BY <1>2 DEF ReadOne, Names
  <2> HIDE DEF v
  <2> QED BY <1>1, <2>2, <2>3, <2>4, NumberKept
<1>3. CASE Precheck(c) \/ Unlock(c)
  <2>1. Rest(r) \in Seq(Updates)
    BY <1>1 DEF Rest, Calls
  <2>2. Names' = Names
    BY <1>3 DEF Precheck, Unlock, Names
  <2>3. Set(c, Goto(c, "lock")) \/ Set(c, Continue(r, Rest(r)))
    BY <1>3 DEF Precheck, Unlock, Rest
  <2>4. CASE Set(c, Goto(c, "lock"))
    <3> DEFINE v == Goto(c, "lock")
    <3>1. v.op = r.op /\ v.pc = "lock"
      BY <1>1 DEF Goto, Calls
    <3>2. Harmless(v)
      BY <3>1 DEF Harmless
    <3> HIDE DEF v
    <3> QED BY <1>1, <2>2, <2>4, <3>1, <3>2, NumberKept DEF v
  <2>5. CASE Set(c, Continue(r, Rest(r)))
    BY <1>1, <2>1, <2>2, <2>5, ContinueHarmless, NumberKept
  <2> QED BY <2>3, <2>4, <2>5
<1>4. CASE Acquire(c)
  <2> DEFINE v == Goto(c, IF r.todo = <<>> THEN "reread" ELSE "merge")
  <2>1. v.op = r.op /\ v.pc \in {"reread", "merge"} /\ Set(c, v)
    BY <1>1, <1>4 DEF Goto, Calls, Acquire
  <2>2. Harmless(v)
    BY <2>1 DEF Harmless
  <2>3. Names' = Names
    BY <1>4 DEF Acquire, Names
  <2> HIDE DEF v
  <2> QED BY <1>1, <2>1, <2>2, <2>3, NumberKept
<1>5. CASE ReadToMerge(c)
  <2> DEFINE f == Read(files[r.id])
             saw == Merge(f, Head(r.todo).patch)
             v == [Goto(c, "truncate") EXCEPT !.saw = saw]
             u == Goto(c, "unlock")
  <2>1. Names' = Names
    BY <1>5 DEF ReadToMerge, Names
  <2>2. v.op = r.op /\ v.pc = "truncate" /\ v.saw = saw /\ u.op = r.op /\ u.pc = "unlock"
    <3> HIDE DEF saw
    <3> QED BY <1>1 DEF Goto, Calls
  <2>3. Head(r.todo).patch \in Patches /\ r.op \notin {"create", "reset", "none"} /\ r.pc = "merge"
    BY <1>5, ReadToMergeOK DEF ReadToMerge, At
  <2>4. f \in File
    <3>1. r.id \in Ids
      BY <1>1, <2>3 DEF CallOK, PointOK, Updating, UpdatingOps, Calls
    <3> QED BY <3>1, FileFacts
  <2>5. f.kind = "task" => saw.kind = "task"
    BY <2>3, <2>4, Merged
  <2>6. (Set(c, v) /\ f.kind = "task") \/ Set(c, u)
    BY <1>5 DEF ReadToMerge
  <2> HIDE DEF v, u, saw, f
  <2>7. CASE Set(c, v) /\ f.kind = "task"
    <3>1. NumberOK(v, mark, Names', uses)
      BY <2>2, <2>3, <2>5, <2>7 DEF NumberOK
    <3> QED BY <1>1, <2>1, <2>2, <2>7, <3>1, NumberKept
  <2>8. CASE Set(c, u)
    <3>1. Harmless(u)
      BY <2>2 DEF Harmless
    <3> QED BY <1>1, <2>1, <2>2, <2>8, <3>1, NumberKept
  <2> QED BY <2>6, <2>7, <2>8
<1>6. CASE Write(c)
  <2> DEFINE v == Goto(c, "unlock")
  <2>1. v.op = r.op /\ v.pc = "unlock" /\ Set(c, v)
    BY <1>1, <1>6 DEF Goto, Calls, Write
  <2>2. Harmless(v)
    BY <2>1 DEF Harmless
  <2>3. r.saw.kind # "absent"
    BY <1>1, <1>6 DEF Write, At, NumberOK
  <2>4. \A i \in Ids : files'[i] = files[i] \/ files'[i] = r.saw
    BY <1>6 DEF Write, TypeInv, StateInv
  <2>5. Names \subseteq Names'
    BY <2>3, <2>4 DEF Names
  <2> HIDE DEF v
  <2> QED BY <1>1, <2>1, <2>2, <2>5, NumberKept
<1> QED BY <1>2, <1>3, <1>4, <1>5, <1>6

\* A file is opened: for an update, or for a new task, whose number was never given.
LEMMA NumberTruncate ==
  ASSUME TypeInv, NumberInv, NEW c \in Callers, Truncate(c)
  PROVE  NumberInv'
<1> DEFINE r == call[c]
           v == Goto(c, "write")
<1>1. r \in Calls /\ r.pc = "truncate" /\ NumberOK(r, mark, Names, uses) /\ Set(c, v) /\ mark' = mark
  BY CallFacts DEF NumberInv, Truncate, At
<1>2. v.op = r.op /\ v.id = r.id /\ v.saw = r.saw /\ v.pc = "write"
  BY <1>1 DEF Goto, Calls
<1> HIDE DEF v
<1>3. \A i \in Ids : (i = r.id => files'[i].kind = "torn") /\ (i # r.id => files'[i] = files[i])
  BY DEF Truncate, TypeInv, StateInv, File
<1>4. Names \subseteq Names' /\ (r.id \in Ids => r.id \in Names')
  BY <1>3 DEF Names
<1>5. \A m, ns, us : NumberOK(v, m, ns, us)
  BY <1>1, <1>2 DEF NumberOK
<1>6. CASE r.op # "create"
  <2>1. uses' = uses
    BY <1>6 DEF Truncate
  <2> QED BY <1>1, <1>2, <1>4, <1>5, <2>1, NumberKept
<1>7. CASE r.op = "create"
  <2>1. \A i \in Ids : uses[i] \in Nat /\ uses'[i] = IF i = r.id THEN uses[i] + 1 ELSE uses[i]
    BY <1>7 DEF Truncate, TypeInv, StateInv
  <2>2. \A i \in Ids : uses[i] > 0 => i < r.id
    BY <1>1, <1>7 DEF NumberOK
  <2>3. ASSUME NEW i \in Ids PROVE uses'[i] <= 1 /\ (uses'[i] > 0 => Covers(mark', Names', i))
    <3>1. uses[i] <= 1 /\ (uses[i] > 0 => Covers(mark, Names, i))
      BY DEF NumberInv
    <3>2. i \in Int
      BY DEF Ids
    <3>3. CASE i = r.id
      <4>1. uses[i] = 0
        BY <2>1, <2>2, <3>2, <3>3
      <4> QED BY <1>4, <2>1, <3>2, <3>3, <4>1 DEF Covers
    <3>4. CASE i # r.id
      BY <1>1, <1>4, <2>1, <3>1, <3>4 DEF Covers
    <3> QED BY <3>3, <3>4
  <2> QED BY <1>1, <1>2, <1>5, <1>7, <2>3, NumberStep
<1> QED BY <1>6, <1>7

LEMMA NumberWorkers ==
  ASSUME TypeInv, NumberInv, NEW w \in Workers, WorkerStep(w)
  PROVE  NumberInv'
<1> DEFINE r == call[w]
<1>1. r \in Calls /\ UNCHANGED <<mark, uses, files>> /\ w \in Callers
  BY Named, CallFacts DEF WorkerStep, Poll, Reread, Decide, Complete
<1>2. Names' = Names
  BY <1>1 DEF Names
<1>3. ASSUME NEW v, Set(w, v), v.op \in {r.op, "claim", "complete"}, Harmless(v) PROVE NumberInv'
  BY <1>1, <1>2, <1>3, NumberKept
<1>4. CASE Poll(w)
  <2>1. PICK i \in Ids : Set(w, [NoCall EXCEPT !.op = "claim", !.pc = "precheck", !.id = i])
    BY <1>4 DEF Poll, Available
  <2> DEFINE v == [NoCall EXCEPT !.op = "claim", !.pc = "precheck", !.id = i]
  <2>2. v.op = "claim" /\ v.pc = "precheck"
    BY TypeOfNoCall DEF NoCall
  <2> QED BY <1>3, <2>1, <2>2 DEF Harmless
<1>5. CASE Reread(w) \/ Decide(w)
  <2>1. PICK v : /\ Set(w, v)
                 /\ \/ v = Goto(w, "unlock")
                    \/ \E saw, rest : v = [Goto(w, "blockers") EXCEPT !.saw = saw, !.rest = rest]
                    \/ \E seen, todo : v = [Goto(w, "merge") EXCEPT !.seen = seen, !.todo = todo]
    BY <1>5 DEF Reread, Decide
  <2>2. v.op = r.op /\ v.pc \in {"unlock", "blockers", "merge"}
    BY <1>1, <2>1 DEF Goto, Calls
  <2> QED BY <1>3, <2>1, <2>2 DEF Harmless
<1>6. CASE Complete(w)
  <2> DEFINE s == [NoCall EXCEPT !.op = "complete"]
             todo == <<Update(mine[w], Patch("status", "completed"))>>
             v == Continue(s, todo)
  <2>1. v.op = "complete" /\ v.pc = "precheck"
    BY DEF Continue, NoCall
  <2>2. Set(w, v) \/ call' = call
    BY <1>6 DEF Complete
  <2> HIDE DEF v
  <2>3. CASE call' = call
    BY <1>1, <1>2, <2>3 DEF NumberInv
  <2> QED BY <1>3, <2>1, <2>2, <2>3 DEF Harmless
<1> QED BY <1>4, <1>5, <1>6 DEF WorkerStep

\* A call begins beside those that exclude it, or not at all.
LEMMA NumberCalls ==
  ASSUME TypeInv, NumberInv, NEW t \in Tools, Call(t), ~raced'
  PROVE  NumberInv'
<1>1. NoCall \in Calls /\ NoCall.high = 0
  BY TypeOfNoCall DEF NoCall
<1> HIDE DEF NoCall
<1>2. ASSUME NEW op, NEW r, Begin(t, op, r), NEW v, v = [r EXCEPT !.op = op], v.op = op, NumberOK(v, mark, Names, uses)
      PROVE  NumberInv'
  <2>1. call'[t] = v /\ (\A d \in Callers \ {t} : call'[d] = call[d]) /\ UNCHANGED <<files, mark, uses>>
    BY <1>2, Named DEF Begin, Set, TypeInv, CallsInv
  <2>2. ~Races(t, op)
    BY <1>2 DEF Begin
  <2>3. ASSUME NEW d \in Callers \ {t} PROVE Lone(v, call[d]) /\ Lone(call[d], v)
    <3>1. call[d].op \in ToolOps => d \in Tools
      BY CallFacts DEF CallOK
    <3> QED BY <1>2, <2>2, <3>1 DEF Lone, Races, ToolOps
  <2>4. Names' = Names
    BY <2>1 DEF Names
  <2>5. \A c, d \in Callers : c # d => Lone(call'[c], call'[d])
    BY <2>1, <2>3 DEF NumberInv
  <2>6. \A c \in Callers : NumberOK(call'[c], mark', Names', uses')
    BY <1>2, <2>1, <2>4 DEF NumberInv
  <2> QED BY <2>1, <2>4, <2>5, <2>6 DEF NumberInv
<1>3. CASE Create(t) \/ Reset(t)
  <2>1. PICK op \in {"create", "reset"} : Begin(t, op, [NoCall EXCEPT !.pc = "lockList"])
    BY <1>3 DEF Create, Reset
  <2> DEFINE v == [[NoCall EXCEPT !.pc = "lockList"] EXCEPT !.op = op]
  <2>2. v.op = op /\ v.pc = "lockList" /\ v.high = 0
    BY <1>1 DEF Calls
  <2>3. NumberOK(v, mark, Names, uses)
    BY <2>2 DEF NumberOK
  <2> QED BY <1>2, <2>1, <2>2, <2>3
<1>4. ASSUME NEW i \in Ids, Delete(t, i) PROVE NumberInv'
  <2> DEFINE v == [[NoCall EXCEPT !.pc = "readMark", !.id = i, !.high = i] EXCEPT !.op = "delete"]
  <2>1. v.op = "delete" /\ v.pc = "readMark" /\ v.high = i /\ v.id = i
    BY <1>1 DEF Calls
  <2>2. i \in Names
    BY <1>4, TypeOfAbsent DEF Delete, Read, Names
  <2>3. NumberOK(v, mark, Names, uses)
    BY <2>1, <2>2 DEF NumberOK
  <2> QED BY <1>2, <1>4, <2>1, <2>3 DEF Delete
<1>5. CASE (\E i, j \in Ids : Block(t, i, j)) \/ \E w \in Workers : Unassign(t, w)
  <2>1. PICK op, b : op \in {"block", "unassign"} /\ Begin(t, op, b) /\ b \in Calls /\ b.pc = "list"
    <3>1. ASSUME NEW i \in Ids, NEW j \in Ids, Block(t, i, j)
          PROVE  \E op, b : op \in {"block", "unassign"} /\ Begin(t, op, b) /\ b \in Calls /\ b.pc = "list"
      <4> DEFINE b == [NoCall EXCEPT !.pc = "list", !.id = i, !.to = j, !.rest = {i, j}]
      <4>1. i \in Nat /\ j \in Nat
        BY CallersAssumption DEF Ids
      <4>2. b \in Calls /\ b.pc = "list"
        BY <1>1, <4>1 DEF Calls, AllPoints
      <4> QED BY <3>1, <4>2 DEF Block
    <3>2. ASSUME NEW w \in Workers, Unassign(t, w)
          PROVE  \E op, b : op \in {"block", "unassign"} /\ Begin(t, op, b) /\ b \in Calls /\ b.pc = "list"
      <4> DEFINE b == [Listing(NoCall, "list") EXCEPT !.saw.owner = w]
      <4>1. NoCall.seen \in [Ids -> File] /\ Names \subseteq Ids
        BY <1>1 DEF Calls, Names
      <4>2. Listing(NoCall, "list") \in Calls /\ Listing(NoCall, "list").pc = "list"
        BY <1>1, <4>1 DEF Listing, Calls, AllPoints
      <4>3. w \in Callers
        BY Named
      <4>4. [Listing(NoCall, "list").saw EXCEPT !.owner = w] \in File
        BY <4>2, <4>3 DEF Calls, File
      <4>5. b \in Calls /\ b.pc = "list"
        <5> DEFINE q == Listing(NoCall, "list")
        <5>1. q \in Calls /\ q.pc = "list" /\ [q.saw EXCEPT !.owner = w] \in File
          BY <4>2, <4>4
        <5> HIDE DEF q
        <5>2. [q EXCEPT !.saw.owner = w] \in Calls /\ [q EXCEPT !.saw.owner = w].pc = "list"
          BY <5>1 DEF Calls
        <5> QED BY <5>2 DEF q
      <4> QED BY <3>2, <4>5 DEF Unassign
    <3> QED BY <1>5, <3>1, <3>2
  <2> DEFINE v == [b EXCEPT !.op = op]
  <2>2. v.op = op /\ v.pc = "list"
    BY <2>1 DEF Calls
  <2>3. NumberOK(v, mark, Names, uses)
    BY <2>2 DEF NumberOK
  <2> QED BY <1>2, <2>1, <2>2, <2>3
<1> QED BY <1>3, <1>4, <1>5 DEF Call

\* What the mark and the files cover is at most the highest of them.
LEMMA Bounded ==
  ASSUME TypeInv, NEW h \in 0..MaxId
  PROVE  /\ MaxOf(Names \cup {h}) \in Names \cup {h} /\ MaxOf(Names \cup {h}) \in 0..MaxId
         /\ \A i \in Names \cup {h} : i <= MaxOf(Names \cup {h})
         /\ MaxOf({mark, h}) \in 0..MaxId /\ mark <= MaxOf({mark, h}) /\ h <= MaxOf({mark, h})
         /\ Names \subseteq Ids /\ Names \subseteq 0..MaxId
<1>1. Names \subseteq Ids /\ Names \subseteq 0..MaxId
  BY CallersAssumption DEF Names, Ids
<1>2. Names \cup {h} \in SUBSET (0..MaxId) /\ Names \cup {h} # {} /\ {mark, h} \in SUBSET (0..MaxId) /\ {mark, h} # {}
  BY <1>1 DEF TypeInv, StateInv
<1> QED BY <1>1, <1>2, MaxIn, MaxBound

LEMMA NumberFind ==
  ASSUME TypeInv, NumberInv, NEW t \in Tools, FindNames(t) \/ FindMark(t)
  PROVE  NumberInv'
<1> DEFINE r == call[t]
<1>1. r.pc \in {"find", "findNames", "findMark"} /\ UNCHANGED <<mark, uses, files>> /\ t \in Callers
  BY Named DEF FindNames, FindMark
<1>2. /\ r \in Calls /\ r.op \in {"create", "reset"} /\ r.high \in 0..MaxId /\ mark \in 0..MaxId
      /\ r.pc \in {"find", "findMark"} => r.op = "create"
  BY <1>1, ToolFacts DEF Calls, TypeInv, StateInv
<1>3. NumberOK(r, mark, Names, uses) /\ \A i \in Ids : uses[i] > 0 => Covers(mark, Names, i)
  BY <1>1 DEF NumberInv
<1>4. Names' = Names
  BY <1>1 DEF Names
<1>5. ASSUME NEW v, Set(t, v), v.op = r.op, NumberOK(v, mark, Names, uses) PROVE NumberInv'
  BY <1>1, <1>4, <1>5, NumberKept
<1>6. ASSUME NEW high \in 0..MaxId, Set(t, Found(t, high)), \A i \in Ids : uses[i] > 0 => i <= mark \/ i <= high,
             r.op = "create" => mark <= high,
             r.op = "reset" => /\ high > 0 => high \in Names
                               /\ high = 0 => Names = {}
      PROVE  NumberInv'
  <2> DEFINE v == Found(t, high)
  <2>1. CASE r.op = "create"
    <3>1. v.op = "create" /\ v.pc = "truncate" /\ v.id = high + 1 /\ v.saw = NewTask
      BY <1>2, <2>1 DEF Found, Calls
    <3>2. NewTask.kind # "absent"
      BY DEF NewTask, Absent
    <3>3. \A i \in Ids : uses[i] > 0 => i < high + 1
      BY <1>2, <1>6, <2>1 DEF Ids
    <3> HIDE DEF v
    <3>4. NumberOK(v, mark, Names, uses)
      BY <3>1, <3>2, <3>3 DEF NumberOK
    <3> QED BY <1>5, <1>6, <2>1, <3>1, <3>4 DEF v
  <2>2. CASE r.op = "reset"
    <3>1. v.op = "reset" /\ v.pc = (IF high > 0 THEN "readMark" ELSE "wipe") /\ v.high = high
      BY <1>2, <2>2 DEF Found, Calls
    <3> HIDE DEF v
    <3>2. CASE high > 0
      <4>1. NumberOK(v, mark, Names, uses)
        BY <1>6, <2>2, <3>1, <3>2 DEF NumberOK
      <4> QED BY <1>5, <1>6, <2>2, <3>1, <4>1 DEF v
    <3>3. CASE ~(high > 0)
      <4>1. high = 0 /\ \A i \in Ids : uses[i] > 0 => i <= mark
        BY <1>3, <1>6, <2>2, <3>3 DEF Covers
      <4>2. NumberOK(v, mark, Names, uses)
        BY <3>1, <3>3, <4>1 DEF NumberOK
      <4> QED BY <1>5, <1>6, <2>2, <3>1, <4>2 DEF v
    <3> QED BY <3>2, <3>3
  <2> QED BY <1>2, <2>1, <2>2
<1>7. CASE FindNames(t)
  <2> DEFINE high == MaxOf(Names \cup {r.high})
  <2>1. high \in Names \cup {r.high} /\ high \in 0..MaxId /\ (\A i \in Names \cup {r.high} : i <= high) /\ Names \subseteq Ids
    BY <1>2, Bounded
  <2>2. Set(t, IF r.pc = "find" THEN [r EXCEPT !.pc = "findMark", !.high = high] ELSE Found(t, high))
    BY <1>7 DEF FindNames
  <2> HIDE DEF high
  <2>3. \A i \in Ids : uses[i] > 0 => i <= mark \/ i <= high
    <3> SUFFICES ASSUME NEW i \in Ids, uses[i] > 0, ~(i <= mark) PROVE i <= high
      OBVIOUS
    <3>1. PICK j \in Names : i <= j
      BY <1>3 DEF Covers
    <3> QED BY <2>1, <3>1 DEF Ids
  <2>4. CASE r.pc = "find"
    <3> DEFINE v == [r EXCEPT !.pc = "findMark", !.high = high]
    <3>1. v.op = r.op /\ v.pc = "findMark" /\ v.high = high
      BY <1>2 DEF Calls
    <3>2. Set(t, v)
      BY <2>2, <2>4
    <3> HIDE DEF v
    <3>3. NumberOK(v, mark, Names, uses)
      BY <1>2, <2>3, <2>4, <3>1 DEF NumberOK
    <3> QED BY <1>5, <3>1, <3>2, <3>3
  <2>5. CASE r.pc # "find"
    <3>1. r.pc = "findNames"
      BY <1>7, <2>5 DEF FindNames
    <3>2. r.op = "create" => mark <= high
      BY <1>2, <1>3, <2>1, <3>1 DEF NumberOK
    <3>3. r.op = "reset" => r.high = 0
      BY <1>3, <3>1 DEF NumberOK
    <3>4. r.op = "reset" => (high > 0 => high \in Names) /\ (high = 0 => Names = {})
      <4>1. ASSUME r.op = "reset", high = 0, NEW i \in Names PROVE FALSE
        BY <2>1, <4>1 DEF Ids
      <4> QED BY <2>1, <3>3, <4>1
    <3> QED BY <1>6, <2>1, <2>2, <2>3, <2>5, <3>2, <3>4
  <2> QED BY <2>4, <2>5
<1>8. CASE FindMark(t)
  <2> DEFINE high == MaxOf({mark, r.high})
  <2>1. high \in 0..MaxId /\ mark <= high /\ r.high <= high
    BY <1>2, Bounded
  <2>2. Set(t, IF r.pc = "find" THEN [r EXCEPT !.pc = "findNames", !.high = high] ELSE Found(t, high))
    BY <1>8 DEF FindMark
  <2>3. r.op = "create"
    BY <1>2, <1>8 DEF FindMark
  <2> HIDE DEF high
  <2>4. CASE r.pc = "find"
    <3> DEFINE v == [r EXCEPT !.pc = "findNames", !.high = high]
    <3>1. v.op = r.op /\ v.pc = "findNames" /\ v.high = high
      BY <1>2 DEF Calls
    <3>2. Set(t, v)
      BY <2>2, <2>4
    <3> HIDE DEF v
    <3>3. NumberOK(v, mark, Names, uses)
      BY <2>1, <2>3, <3>1 DEF NumberOK
    <3> QED BY <1>5, <3>1, <3>2, <3>3
  <2>5. CASE r.pc # "find"
    <3>1. r.pc = "findMark"
      BY <1>8, <2>5 DEF FindMark
    <3>2. \A i \in Ids : uses[i] > 0 => i <= mark \/ i <= r.high
      BY <1>3, <2>3, <3>1 DEF NumberOK
    <3>3. \A i \in Ids : uses[i] > 0 => i <= mark \/ i <= high
      BY <1>2, <2>1, <3>2 DEF Ids
    <3> QED BY <1>6, <2>1, <2>2, <2>3, <2>5, <3>3
  <2> QED BY <2>4, <2>5
<1> QED BY <1>7, <1>8

\* The mark is emptied while the file of the highest id is there, and is written before it goes.
LEMMA NumberMark ==
  ASSUME TypeInv, NumberInv, NEW t \in Tools, ReadMark(t) \/ EmptyMark(t) \/ WriteMark(t)
  PROVE  NumberInv'
<1> DEFINE r == call[t]
<1>1. /\ r.pc \in {"readMark", "emptyMark", "writeMark"} /\ UNCHANGED <<uses, files>> /\ t \in Callers
  BY Named DEF ReadMark, EmptyMark, WriteMark, At
<1>2. /\ r \in Calls /\ r.op \in {"delete", "reset"} /\ r.high \in 0..MaxId /\ mark \in 0..MaxId
  BY <1>1, ToolFacts DEF Calls, TypeInv, StateInv
<1>3. /\ NumberOK(r, mark, Names, uses) /\ r.high \in Names
      /\ \A i \in Ids : uses[i] <= 1 /\ (uses[i] > 0 => Covers(mark, Names, i))
  <2>1. NumberOK(r, mark, Names, uses)
    BY <1>1 DEF NumberInv
  <2>2. r.high \in Names
    BY <1>1, <1>2, <2>1 DEF NumberOK
  <2> QED BY <2>1, <2>2 DEF NumberInv
<1>4. Names' = Names
  BY <1>1 DEF Names
<1>5. ASSUME NEW v, Set(t, v), v.op = r.op, NumberOK(v, mark', Names, uses),
             \A i \in Ids : uses[i] > 0 => Covers(mark', Names, i)
      PROVE  NumberInv'
  BY <1>1, <1>2, <1>3, <1>4, <1>5, NumberStep
<1>6. \A i \in Ids : i \in Nat
  BY DEF Ids
<1>7. CASE r.high > mark /\ ReadMark(t)
  <2> DEFINE v == Goto(t, "emptyMark")
  <2>1. v.op = r.op /\ v.pc = "emptyMark" /\ v.high = r.high /\ v.id = r.id /\ Set(t, v) /\ mark' = mark
    BY <1>2, <1>7 DEF Goto, Calls, ReadMark
  <2> HIDE DEF v
  <2>2. NumberOK(v, mark, Names, uses)
    BY <1>2, <1>3, <1>7, <2>1 DEF NumberOK, ReadMark, At
  <2> QED BY <1>3, <1>5, <2>1, <2>2
<1>8. CASE EmptyMark(t)
  <2> DEFINE v == Goto(t, "writeMark")
  <2>1. v.op = r.op /\ v.pc = "writeMark" /\ v.high = r.high /\ v.id = r.id /\ Set(t, v) /\ mark' = 0
    BY <1>2, <1>8 DEF Goto, Calls, EmptyMark
  <2> HIDE DEF v
  <2>2. r.pc = "emptyMark" /\ mark <= r.high
    BY <1>3, <1>8 DEF EmptyMark, At, NumberOK
  <2>3. r.op = "reset" => \A i \in Ids : uses[i] > 0 => i <= r.high
    BY <1>2, <1>3, <1>6, <2>2 DEF NumberOK
  <2>4. NumberOK(v, 0, Names, uses)
    BY <1>2, <1>3, <2>1, <2>2, <2>3 DEF NumberOK
  <2>5. \A i \in Ids : uses[i] > 0 => Covers(0, Names, i)
    <3> SUFFICES ASSUME NEW i \in Ids, Covers(mark, Names, i) PROVE Covers(0, Names, i)
      BY <1>3
    <3>1. CASE i <= mark
      BY <1>2, <1>3, <1>6, <2>2, <3>1 DEF Covers
    <3>2. CASE ~(i <= mark)
      BY <3>2 DEF Covers
    <3> QED BY <3>1, <3>2
  <2> QED BY <1>5, <2>1, <2>4, <2>5
<1>9. ASSUME Set(t, Marked(t)), mark' \in 0..MaxId, r.high <= mark', mark <= mark' PROVE NumberInv'
  <2>1. \A i \in Ids : uses[i] > 0 => Covers(mark', Names, i)
    BY <1>2, <1>3, <1>6, <1>9 DEF Covers
  <2>2. CASE r.op = "delete"
    <3> DEFINE v == Goto(t, "unlink")
    <3>1. v.op = "delete" /\ v.pc = "unlink" /\ v.high = r.high /\ v.id = r.id /\ Marked(t) = v
      BY <1>2, <2>2 DEF Goto, Calls, Marked
    <3> HIDE DEF v
    <3>2. r.high = r.id /\ r.id \in Names
      BY <1>1, <1>3, <2>2 DEF NumberOK
    <3>3. NumberOK(v, mark', Names, uses)
      BY <1>9, <3>1, <3>2 DEF NumberOK
    <3> QED BY <1>5, <1>9, <2>1, <2>2, <3>1, <3>3
  <2>3. CASE r.op = "reset"
    <3> DEFINE v == [Goto(t, "wipe") EXCEPT !.rest = Names]
    <3>1. v.op = "reset" /\ v.pc = "wipe" /\ Marked(t) = v
      BY <1>2, <2>3 DEF Goto, Calls, Marked
    <3> HIDE DEF v
    <3>2. \A i \in Ids : uses[i] > 0 => i <= mark \/ i <= r.high
      BY <1>1, <1>3, <2>3 DEF NumberOK
    <3>3. \A i \in Ids : uses[i] > 0 => i <= mark'
      BY <1>2, <1>6, <1>9, <3>2
    <3>4. NumberOK(v, mark', Names, uses)
      BY <3>1, <3>3 DEF NumberOK
    <3> QED BY <1>5, <1>9, <2>1, <2>3, <3>1, <3>4
  <2> QED BY <1>2, <2>2, <2>3
<1>10. CASE WriteMark(t)
  <2>1. Set(t, Marked(t)) /\ mark' = r.high /\ mark <= r.high
    BY <1>3, <1>10 DEF WriteMark, At, NumberOK
  <2> QED BY <1>2, <1>9, <2>1
<1>11. CASE ~(r.high > mark) /\ ReadMark(t)
  <2>1. Set(t, Marked(t)) /\ mark' = mark
    BY <1>11 DEF ReadMark
  <2> QED BY <1>2, <1>9, <1>11, <2>1
<1> QED BY <1>7, <1>8, <1>10, <1>11

LEMMA NumberRemove ==
  ASSUME TypeInv, NumberInv, NEW t \in Tools, Wipe(t) \/ Unlink(t)
  PROVE  NumberInv'
<1> DEFINE r == call[t]
<1>1. /\ r.pc \in {"wipe", "unlink"} /\ UNCHANGED <<uses, mark>> /\ t \in Callers
  BY Named DEF Wipe, Unlink, At
<1>2. /\ r \in Calls /\ mark \in 0..MaxId /\ r.op = (IF r.pc = "wipe" THEN "reset" ELSE "delete")
      /\ r.op = "delete" => r.id \in Ids
  BY <1>1, ToolFacts DEF TypeInv, StateInv
<1>3. /\ NumberOK(r, mark, Names, uses)
      /\ \A i \in Ids : uses[i] <= 1 /\ (uses[i] > 0 => Covers(mark, Names, i))
  BY <1>1 DEF NumberInv
<1>4. \A i \in Ids : i \in Nat
  BY DEF Ids
<1>5. ASSUME NEW v, Set(t, v), v.op = r.op \/ v.op = "none", NumberOK(v, mark', Names', uses'),
             \A i \in Ids : uses[i] > 0 => Covers(mark, Names', i)
      PROVE  NumberInv'
  BY <1>1, <1>2, <1>3, <1>5, NumberStep
<1>6. CASE Wipe(t)
  <2>1. PICK v : Set(t, v) /\ (v = Goto(t, "unlock") \/ \E i \in r.rest : v = [r EXCEPT !.rest = @ \ {i}])
    BY <1>6 DEF Wipe
  <2>2. v.op = r.op /\ v.pc \in {"unlock", "wipe"} /\ r.pc = "wipe"
    BY <1>2, <1>6, <2>1 DEF Goto, Calls, Wipe, At
  <2>3. \A i \in Ids : uses[i] > 0 => i <= mark
    BY <1>2, <1>3, <2>2 DEF NumberOK
  <2>4. NumberOK(v, mark', Names', uses')
    BY <1>1, <1>2, <2>2, <2>3 DEF NumberOK
  <2> QED BY <1>5, <2>1, <2>2, <2>3, <2>4 DEF Covers
<1>7. CASE Unlink(t)
  <2>1. r.id <= mark /\ r.op = "delete" /\ r.pc = "unlink"
    BY <1>2, <1>3, <1>7 DEF Unlink, At, NumberOK
  <2>2. Names \ {r.id} \subseteq Names'
    BY <1>2, <1>7, <2>1 DEF Unlink, Names, TypeInv, StateInv
  <2>3. ASSUME NEW i \in Ids, uses[i] > 0 PROVE Covers(mark, Names', i)
    <3>1. CASE i <= mark
      BY <3>1 DEF Covers
    <3>2. CASE ~(i <= mark)
      <4>1. PICK j \in Names : i <= j
        BY <1>3, <2>3, <3>2 DEF Covers
      <4>2. j # r.id
        BY <1>2, <1>4, <2>1, <3>2, <4>1
      <4> QED BY <2>2, <4>1, <4>2 DEF Covers
    <3> QED BY <3>1, <3>2
  <2>4. PICK v \in {NoCall, Listing(r, "list")} : Set(t, v)
    BY <1>7 DEF Unlink
  <2>5. Harmless(v) /\ (v.op = r.op \/ v.op = "none")
    <3>1. Listing(r, "list").op = r.op /\ Listing(r, "list").pc = "list"
      BY <1>2 DEF Listing, Calls
    <3>2. NoCall.op = "none" /\ NoCall.pc = "idle"
      BY DEF NoCall
    <3> QED BY <3>1, <3>2 DEF Harmless
  <2> QED BY <1>5, <2>3, <2>4, <2>5, HarmlessOK
<1> QED BY <1>6, <1>7

LEMMA NumberTools ==
  ASSUME TypeInv, NumberInv, NEW t \in Tools, AcquireList(t) \/ Listed(t)
  PROVE  NumberInv'
<1> DEFINE r == call[t]
<1>1. /\ r \in Calls /\ t \in Callers /\ UNCHANGED <<mark, uses, files>> /\ NumberOK(r, mark, Names, uses)
      /\ CallOK(t, r)
  BY Named, CallFacts DEF AcquireList, Listed, NumberInv
<1>2. Names' = Names
  BY <1>1 DEF Names
<1>3. CASE AcquireList(t)
  <2> DEFINE v == Goto(t, IF r.op = "create" THEN "find" ELSE "findNames")
  <2>1. v.op = r.op /\ v.pc = (IF r.op = "create" THEN "find" ELSE "findNames") /\ v.high = r.high /\ Set(t, v)
    BY <1>1, <1>3 DEF Goto, Calls, AcquireList
  <2>2. r.pc = "lockList" /\ r.op \in {"create", "reset"}
    BY <1>1, <1>3 DEF AcquireList, At, CallOK, PointOK, Updating
  <2> HIDE DEF v
  <2>3. NumberOK(v, mark, Names, uses)
    BY <1>1, <2>1, <2>2 DEF NumberOK
  <2> QED BY <1>1, <1>2, <2>1, <2>3, NumberKept
<1>4. CASE Listed(t)
  <2>1. Set(t, Continue(r, Follows(r))) /\ Follows(r) \in Seq(Updates)
    BY <1>4, FollowsOK
  <2> QED BY <1>1, <1>2, <2>1, ContinueHarmless, NumberKept
<1> QED BY <1>3, <1>4

LEMMA NumberInit == Init => NumberInv
<1> SUFFICES ASSUME Init PROVE NumberInv
  OBVIOUS
<1>1. \A c \in Callers : call[c] = NoCall
  BY DEF Init
<1>2. Harmless(NoCall) /\ NoCall.op = "none"
  BY DEF Harmless, NoCall
<1>3. setup.tasks \in Seq(File) /\ \A n \in DOMAIN setup.tasks : setup.tasks[n].kind # "absent"
  BY SetupsAssumption DEF Init
<1>4. ASSUME NEW i \in Ids PROVE uses[i] <= 1 /\ (uses[i] > 0 => Covers(mark, Names, i))
  <2>1. i \in Nat /\ i >= 1
    BY DEF Ids
  <2>2. i <= Len(setup.tasks) => files[i].kind # "absent"
    BY <1>3, <2>1 DEF Init
  <2>3. uses[i] = IF i <= Len(setup.tasks) THEN 1 ELSE 0
    BY DEF Init
  <2> QED BY <2>1, <2>2, <2>3 DEF Covers, Names
<1> QED BY <1>1, <1>2, <1>4, HarmlessOK DEF NumberInv, Lone

LEMMA NumberNext == TypeInv /\ NumberInv /\ ~raced' /\ [Next]_vars => NumberInv'
<1> SUFFICES ASSUME TypeInv, NumberInv, ~raced', [Next]_vars PROVE NumberInv'
  OBVIOUS
<1>1. ASSUME NEW t \in Tools, Call(t) \/ ToolStep(t) \/ AcquireList(t) PROVE NumberInv'
  BY <1>1, NumberCalls, NumberFind, NumberMark, NumberRemove, NumberTools DEF ToolStep
<1>2. ASSUME NEW c \in Callers, FileStep(c) \/ Acquire(c) PROVE NumberInv'
  <2>1. CASE Missing(c)
    BY <2>1, NumberEnd DEF Missing
  <2> QED BY <1>2, <2>1, NumberUpdates, NumberTruncate DEF FileStep
<1>3. ASSUME NEW c \in Callers, GiveUp(c) \/ Crash(c) PROVE NumberInv'
  BY <1>3, NumberEnd DEF GiveUp, Crash
<1>4. CASE UNCHANGED vars
  <2>1. Names' = Names
    BY <1>4 DEF vars, Names
  <2> QED BY <1>4, <2>1 DEF vars, NumberInv
<1> QED BY <1>1, <1>2, <1>3, <1>4, NumberWorkers DEF Next

-----------------------------------------------------------------------------
(* Ids.                                                                    *)

\* What raced stays so.
LEMMA RacedStays == TypeInv /\ [Next]_vars /\ ~raced' => ~raced
<1> SUFFICES ASSUME TypeInv, [Next]_vars, ~raced' PROVE ~raced
  OBVIOUS
<1>1. raced' = raced \/ \E t \in Tools : Call(t)
  BY DEF Next, vars, WorkerStep, Poll, Reread, Decide, Complete, ToolStep, FindNames, FindMark, ReadMark,
         EmptyMark, WriteMark, Wipe, Unlink, Listed, AcquireList, FileStep, ReadOne, Precheck, Missing,
         ReadToMerge, Truncate, Write, Unlock, Acquire, GiveUp, Crash
<1>2. ASSUME NEW t \in Tools, Call(t) PROVE \E op : raced' = (raced \/ Races(t, op))
  BY <1>2 DEF Call, Create, Reset, Delete, Block, Unassign, Begin
<1> QED BY <1>1, <1>2 DEF TypeInv, StateInv

Numbered == TypeInv /\ (~raced => NumberInv)

LEMMA NumberedInit == Init => Numbered
  BY TypeInit, NumberInit DEF Numbered

LEMMA NumberedNext == Numbered /\ [Next]_vars => Numbered'
  BY TypeNext, RacedStays, NumberNext DEF Numbered

\* No id is given to two tasks by createTask(), resetTaskList() and deleteTask()
\* (src/src/utils/tasks.ts:284), although names and mark are read one after the other
\* and the mark is written in two steps.
THEOREM IdsOnce == Spec => []IdsNotReused
<1>1. Numbered => IdsNotReused
  BY DEF Numbered, NumberInv, IdsNotReused
<1> QED BY <1>1, NumberedInit, NumberedNext, PTL DEF Spec

-----------------------------------------------------------------------------
(* What keeps two workers apart.                                           *)

\* A task that was not yet made, or is being made: nobody knows of it.
Making(r, i) == r.op = "create" /\ r.pc = "write" /\ r.id = i
Unborn(i) == uses[i] = 0 \/ \E c \in Callers : Making(call[c], i)

Refers(r, i) ==
  \/ r.op # "create" /\ r.id = i
  \/ r.seen[i].kind = "task"
  \/ \E n \in DOMAIN r.todo : r.todo[n].id = i

\* A call writes the file i; it is about to claim the task; it has claimed it.
Writes(r, i) == r.op # "create" /\ r.pc \in {"truncate", "write"} /\ r.id = i
Wants(r, i) == r.op = "claim" /\ r.id = i /\ (r.pc = "blockers" \/ r.todo # <<>>)
Claimed(r, i) ==
  r.op = "claim" /\ r.id = i /\ r.todo # <<>> /\ (Len(r.todo) = 1 \/ r.pc = "unlock")

\* A worker has the task, as far as it knows.
Has(w, i) == mine[w] = i \/ Claimed(call[w], i)

\* An unassignment is going to free the task; it has just done so.
Targets(r, i) ==
  /\ r.op = "unassign"
  /\ IF r.pc = "list"
       THEN r.seen[i].kind = "task" /\ r.seen[i].owner = r.saw.owner /\ r.seen[i].status # "completed"
     ELSE \E n \in DOMAIN r.todo : r.todo[n].id = i
Freed(r, i) == r.pc = "unlock" /\ r.id = i

FreshInv ==
  /\ \A c \in Callers, i \in Ids : Making(call[c], i) => uses[i] # 0
  /\ \A i \in Ids : Unborn(i) =>
       /\ files[i].kind # "task"
       /\ \A w \in Workers : mine[w] # i
       /\ \A c \in Callers : ~Refers(call[c], i)

\* What is written is what was read, but for what claims and unassignments say.
WriteInv ==
  \A c \in Callers, i \in Ids : Writes(call[c], i) =>
    /\ call[c].pc = "write" => files[i].kind # "task"
    /\ files[i].kind = "task" /\ ~Wants(call[c], i) /\ call[c].op # "unassign" =>
         call[c].saw.owner = files[i].owner

\* A task that a worker has is its own, is written as such, and wanted by no other.
HasInv ==
  \A w \in Workers, i \in Ids : Has(w, i) =>
    /\ files[i].kind = "task" => files[i].owner = w
    /\ \A c \in Callers : Writes(call[c], i) => call[c].saw.owner = w
    /\ \A v \in Workers \ {w} : mine[v] # i /\ ~Wants(call[v], i)

\* One that it is about to claim is nobody's.
WantsInv ==
  \A w \in Workers, i \in Ids :
    Wants(call[w], i) /\ ~Claimed(call[w], i) /\ files[i].kind = "task" => files[i].owner \in {Nobody, w}

\* The tasks that an unassignment is going to free belong to the dead.
TargetInv ==
  \A t \in Tools, i \in Ids : Targets(call[t], i) =>
    /\ \A w \in Workers : ~Has(w, i) /\ ~Wants(call[w], i)
    /\ ~Freed(call[t], i) =>
         /\ files[i].kind = "task" => files[i].owner \in crashed
         /\ \A c \in Callers \ {t} : Writes(call[c], i) => call[c].saw.owner \in crashed

OneUnassigns == \A t, u \in Tools : call[t].op = "unassign" /\ call[u].op = "unassign" => t = u

Apart == FreshInv /\ WriteInv /\ HasInv /\ WantsInv /\ TargetInv /\ OneUnassigns

Inv == Numbered /\ (~raced => Apart)

\* A call goes from r to v without anything new of this kind.
Modest(r, v) ==
  /\ v.op = "unassign" => r.op = "unassign"
  /\ \A i \in Ids :
       /\ Making(v, i) => Making(r, i)
       /\ Writes(v, i) => Writes(r, i) /\ v.op = r.op /\ v.saw = r.saw /\ v.todo = r.todo
       /\ Wants(v, i) => Wants(r, i)
       /\ Claimed(v, i) => Claimed(r, i)
       /\ Targets(v, i) => Targets(r, i) /\ (Freed(r, i) => Freed(v, i))

\* Nothing is made, written, claimed, targeted or learned in a step; what a worker
\* comes to want is open to it; files are emptied at most.
Open(w, i) ==
  /\ files[i].kind = "task" /\ files[i].owner \in {Nobody, w} /\ w \notin crashed
  /\ files[i].status # "completed" /\ \A c \in Callers : ~Writes(call[c], i)
  /\ \A t \in Tools : ~(Targets(call[t], i) /\ Freed(call[t], i))

SameMaking == uses' = uses /\ \A c \in Callers, i \in Ids : Making(call'[c], i) => Making(call[c], i)
SameWrites ==
  \A c \in Callers, i \in Ids : Writes(call'[c], i) =>
    /\ Writes(call[c], i) /\ call'[c].op = call[c].op /\ call'[c].saw = call[c].saw /\ call'[c].todo = call[c].todo
    /\ call'[c].pc = "write" => call[c].pc = "write" \/ files'[i].kind # "task"
SameWants == \A c \in Callers, i \in Ids : Wants(call'[c], i) => Wants(call[c], i) \/ Open(c, i)
SameMine == \A w \in Workers : mine'[w] \in {mine[w], 0} \/ Claimed(call[w], mine'[w])
SameHas == SameMine /\ \A c \in Callers, i \in Ids : Claimed(call'[c], i) => Claimed(call[c], i)
SameTargets ==
  \A c \in Callers, i \in Ids : Targets(call'[c], i) =>
    Targets(call[c], i) /\ (Freed(call[c], i) => Freed(call'[c], i))
SameRefers ==
  \A c \in Callers, i \in Ids :
    Refers(call'[c], i) => Refers(call[c], i) \/ files[i].kind = "task" \/ \E w \in Workers : mine[w] = i
Emptied == crashed \subseteq crashed' /\ \A i \in Ids : files'[i] = files[i] \/ files'[i].kind # "task"
SameUnassigns == \A c \in Callers : call'[c].op = "unassign" => call[c].op = "unassign"

LEMMA KeepsFresh ==
  ASSUME Apart, SameMaking, SameRefers, SameMine, \A i \in Ids : Unborn(i) => files'[i].kind # "task"
  PROVE  FreshInv'
<1>1. \A c \in Callers, i \in Ids : Making(call'[c], i) => uses'[i] # 0
  BY DEF SameMaking, Apart, FreshInv
<1>2. ASSUME NEW i \in Ids, Unborn(i)'
      PROVE  /\ files'[i].kind # "task"
             /\ \A w \in Workers : mine'[w] # i
             /\ \A c \in Callers : ~Refers(call'[c], i)
  <2>1. Unborn(i)
    BY <1>2 DEF SameMaking, Unborn
  <2>2. files[i].kind # "task" /\ (\A w \in Workers : mine[w] # i) /\ \A c \in Callers : ~Refers(call[c], i)
    BY <2>1 DEF Apart, FreshInv
  <2>3. \A w \in Workers : ~Claimed(call[w], i)
    BY <2>2, Named DEF Claimed, Refers
  <2>4. \A w \in Workers : mine'[w] # i
    BY <2>2, <2>3, Named DEF SameMine
  <2> QED BY <2>1, <2>2, <2>4 DEF SameRefers
<1> QED BY <1>1, <1>2 DEF FreshInv

LEMMA KeepsWrite ==
  ASSUME Apart, SameWrites, Emptied
  PROVE  WriteInv'
<1> SUFFICES ASSUME NEW c \in Callers, NEW i \in Ids, Writes(call'[c], i)
             PROVE  /\ call'[c].pc = "write" => files'[i].kind # "task"
                    /\ files'[i].kind = "task" /\ ~Wants(call'[c], i) /\ call'[c].op # "unassign" =>
                         call'[c].saw.owner = files'[i].owner
  BY DEF WriteInv
<1>1. /\ Writes(call[c], i) /\ call'[c].op = call[c].op /\ call'[c].saw = call[c].saw /\ call'[c].todo = call[c].todo
      /\ call'[c].pc = "write" => call[c].pc = "write" \/ files'[i].kind # "task"
  BY DEF SameWrites
<1>2. files'[i].kind = "task" => files'[i] = files[i]
  BY DEF Emptied
<1>3. Wants(call[c], i) => Wants(call'[c], i)
  BY <1>1 DEF Writes, Wants
<1> QED BY <1>1, <1>2, <1>3 DEF Apart, WriteInv

LEMMA KeepsHas ==
  ASSUME Apart, SameWrites, SameWants, SameHas, Emptied
  PROVE  HasInv' /\ \A w \in Workers, i \in Ids : Has(w, i)' => Has(w, i)
<1>1. \A w \in Workers, i \in Ids : Has(w, i)' => Has(w, i)
  BY Named DEF SameHas, SameMine, Has
<1>2. ASSUME NEW w \in Workers, NEW i \in Ids, Has(w, i)'
      PROVE  /\ files'[i].kind = "task" => files'[i].owner = w
             /\ \A c \in Callers : Writes(call'[c], i) => call'[c].saw.owner = w
             /\ \A v \in Workers \ {w} : mine'[v] # i /\ ~Wants(call'[v], i)
  <2>1. /\ files[i].kind = "task" => files[i].owner = w
        /\ \A c \in Callers : Writes(call[c], i) => call[c].saw.owner = w
        /\ \A v \in Workers \ {w} : mine[v] # i /\ ~Wants(call[v], i)
    BY <1>1, <1>2 DEF Apart, HasInv
  <2>2. ASSUME NEW v \in Workers \ {w} PROVE mine'[v] # i /\ ~Wants(call'[v], i)
    <3>1. ~Claimed(call[v], i)
      BY <2>1 DEF Wants, Claimed
    <3>2. ~Open(v, i)
      BY <2>1, Named DEF Open
    <3> QED BY <2>1, <3>1, <3>2, Named DEF SameHas, SameMine, SameWants
  <2> QED BY <2>1, <2>2 DEF SameWrites, Emptied
<1> QED BY <1>1, <1>2 DEF HasInv

LEMMA KeepsWants ==
  ASSUME Apart, SameWants, Emptied
  PROVE  WantsInv'
<1> SUFFICES ASSUME NEW w \in Workers, NEW i \in Ids, Wants(call'[w], i), files'[i].kind = "task"
             PROVE  files'[i].owner \in {Nobody, w}
  BY DEF WantsInv
<1>1. files'[i] = files[i]
  BY DEF Emptied
<1>2. CASE Open(w, i)
  BY <1>1, <1>2 DEF Open
<1>3. CASE Wants(call[w], i)
  BY <1>1, <1>3 DEF Apart, HasInv, Has, WantsInv
<1> QED BY <1>2, <1>3, Named DEF SameWants

LEMMA KeepsTarget ==
  ASSUME Apart, crashed \subseteq Callers, SameWrites, SameWants, SameHas, SameTargets, Emptied
  PROVE  TargetInv'
<1> SUFFICES ASSUME NEW t \in Tools, NEW i \in Ids, Targets(call'[t], i)
             PROVE  /\ \A w \in Workers : ~Has(w, i)' /\ ~Wants(call'[w], i)
                    /\ ~Freed(call'[t], i) =>
                         /\ files'[i].kind = "task" => files'[i].owner \in crashed'
                         /\ \A c \in Callers \ {t} : Writes(call'[c], i) => call'[c].saw.owner \in crashed'
  BY DEF TargetInv
<1>1. Targets(call[t], i) /\ (Freed(call[t], i) => Freed(call'[t], i))
  BY Named DEF SameTargets
<1>2. /\ \A w \in Workers : ~Has(w, i) /\ ~Wants(call[w], i)
      /\ ~Freed(call[t], i) =>
           /\ files[i].kind = "task" => files[i].owner \in crashed
           /\ \A c \in Callers \ {t} : Writes(call[c], i) => call[c].saw.owner \in crashed
  BY <1>1 DEF Apart, TargetInv
<1>3. ASSUME NEW w \in Workers PROVE ~Open(w, i)
  <2>1. CASE Freed(call[t], i)
    BY <1>1, <2>1 DEF Open
  <2>2. CASE ~Freed(call[t], i)
    BY <1>2, <2>2, Named DEF Open
  <2> QED BY <2>1, <2>2
<1>4. \A w \in Workers : ~Has(w, i)' /\ ~Wants(call'[w], i)
  BY <1>2, <1>3, KeepsHas, Named DEF SameWants
<1> QED BY <1>1, <1>2, <1>4 DEF SameWrites, Emptied

LEMMA KeepsOne == ASSUME Apart, SameUnassigns PROVE OneUnassigns'
  BY Named DEF Apart, OneUnassigns, SameUnassigns

\* A step in which none of these happens.
Quiet ==
  SameMaking /\ SameWrites /\ SameWants /\ SameHas /\ SameTargets /\ SameRefers /\ Emptied /\ SameUnassigns

LEMMA QuietKeepsApart == ASSUME Apart, crashed \subseteq Callers, Quiet PROVE Apart'
<1>1. \A i \in Ids : Unborn(i) => files'[i].kind # "task"
  BY DEF Apart, FreshInv, Quiet, Emptied
<1> QED BY <1>1, KeepsFresh, KeepsWrite, KeepsHas, KeepsWants, KeepsTarget, KeepsOne DEF Quiet, Apart, SameHas

-----------------------------------------------------------------------------
(* The steps that are quiet.                                               *)

\* One caller goes on, and the others see nothing of it.
LEMMA QuietCall ==
  ASSUME TypeInv, NEW c \in Callers, NEW v, Set(c, v), Modest(call[c], v),
         \A i \in Ids : Refers(v, i) => Refers(call[c], i) \/ files[i].kind = "task" \/ \E w \in Workers : mine[w] = i,
         \A i \in Ids : Writes(v, i) /\ v.pc = "write" => call[c].pc = "write" \/ files'[i].kind # "task",
         \A i \in Ids : files'[i] = files[i] \/ files'[i].kind # "task",
         \A w \in Workers : mine'[w] \in {mine[w], 0} \/ Claimed(call[w], mine'[w]),
         crashed \subseteq crashed', uses' = uses
  PROVE  Quiet
<1>1. call'[c] = v /\ \A d \in Callers \ {c} : call'[d] = call[d]
  BY DEF TypeInv, CallsInv, Set
<1>2. ASSUME NEW r PROVE Modest(r, r)
  BY DEF Modest
<1>3. \A d \in Callers : Modest(call[d], call'[d])
  BY <1>1, <1>2
<1>4. SameMaking /\ SameWants /\ SameTargets /\ SameUnassigns /\ SameHas /\ Emptied
  BY <1>3 DEF Modest, SameMaking, SameWants, SameTargets, SameUnassigns, SameHas, SameMine, Emptied
<1>5. SameWrites
  BY <1>1, <1>3 DEF Modest, SameWrites
<1>6. SameRefers
  BY <1>1 DEF SameRefers
<1> QED BY <1>4, <1>5, <1>6 DEF Quiet

\* A record in which there is nothing yet, but perhaps an id.
Blank(v) ==
  /\ v.todo = <<>> /\ \A i \in Ids : v.seen[i].kind # "task"
  /\ v.op # "unassign" /\ v.pc \notin {"truncate", "write", "blockers"}

LEMMA BlankIsModest == ASSUME NEW r, NEW v, Blank(v) PROVE Modest(r, v)
  BY DEF Blank, Modest, Making, Writes, Wants, Claimed, Targets

LEMMA NoCallIsBlank == Blank(NoCall) /\ \A i \in Ids : ~Refers(NoCall, i)
  BY CallersAssumption, TypeOfAbsent DEF NoCall, Blank, Refers, Ids

\* A call that only moves on.
LEMMA MovedIsModest ==
  ASSUME NEW r \in Calls, NEW v, v.op = r.op, v.id = r.id, v.todo = r.todo, v.seen = r.seen, v.saw = r.saw,
         v.pc \notin {"truncate", "write", "blockers", "list"}, r.pc # "list",
         v.pc = "unlock" => r.op # "claim" \/ r.todo = <<>> \/ Len(r.todo) = 1,
         Freed(r, r.id) => Freed(v, r.id)
  PROVE  Modest(r, v) /\ \A i \in Ids : Refers(v, i) => Refers(r, i)
  BY DEF Modest, Making, Writes, Wants, Claimed, Targets, Freed, Refers

LEMMA EndQuiet ==
  ASSUME TypeInv, NEW c \in Callers, Set(c, NoCall), UNCHANGED <<files, crashed, uses, mine>>
  PROVE  Quiet
  BY QuietCall, NoCallIsBlank, BlankIsModest DEF Blank, Writes

\* What is left of a call after an update.
LEMMA ContinueModest ==
  ASSUME TypeInv, NEW c \in Callers, call[c].pc \in {"precheck", "unlock"}
  PROVE  /\ Modest(call[c], Continue(call[c], Rest(call[c])))
         /\ \A i \in Ids : Refers(Continue(call[c], Rest(call[c])), i) => Refers(call[c], i)
         /\ Continue(call[c], Rest(call[c])).pc \notin {"truncate", "write"}
<1> DEFINE r == call[c]
           v == Continue(r, Rest(r))
<1>1. r \in Calls /\ CallOK(c, r) /\ r.todo \in Seq(Updates)
  BY CallFacts
<1>2. CASE Rest(r) = <<>>
  <2>1. v = NoCall
    BY <1>2 DEF Continue
  <2>2. NoCall.pc = "idle"
    BY DEF NoCall
  <2> QED BY <2>1, <2>2, NoCallIsBlank, BlankIsModest
<1>3. CASE Rest(r) # <<>>
  <2>1. r.op \in UpdatingOps /\ r.pc \in Updating
    BY <1>1, <1>3 DEF CallOK, TodoOK, PointOK, Updating, UpdatingOps, Rest
  <2>2. /\ Rest(r) \in Seq(Updates)
        /\ \A n \in DOMAIN Rest(r) : n + 1 \in DOMAIN r.todo /\ Rest(r)[n] = r.todo[n + 1]
        /\ r.op = "claim" => Rest(r) = <<Start(r)>> /\ r.todo = <<Own(c, r), Start(r)>>
    BY <1>1, <1>3, <2>1, RestOfTodo DEF UpdatingOps
  <2>3. Rest(r)[1].id \in Ids /\ Head(Rest(r)) = Rest(r)[1] /\ 1 \in DOMAIN Rest(r)
    <3> DEFINE todo == Rest(r)
    <3>1. todo \in Seq(Updates) /\ todo # <<>>
      BY <1>3, <2>2
    <3> HIDE DEF todo
    <3>2. todo[1] \in Updates /\ Head(todo) = todo[1] /\ 1 \in DOMAIN todo
      BY <3>1
    <3>3. todo[1].id \in Ids
      BY <3>2 DEF Updates
    <3> QED BY <3>2, <3>3 DEF todo
  <2>4. v = [r EXCEPT !.pc = "precheck", !.id = Rest(r)[1].id, !.todo = Rest(r),
                      !.saw = Absent, !.rest = {}, !.seen = NoCall.seen]
    BY <1>3, <2>3 DEF Continue
  <2>5. v.op = r.op /\ v.pc = "precheck" /\ v.id = Rest(r)[1].id /\ v.todo = Rest(r) /\ v.seen = NoCall.seen
    BY <1>1, <2>4 DEF Calls
  <2> HIDE DEF v
  <2>6. \A i \in Ids : NoCall.seen[i].kind # "task"
    BY TypeOfAbsent DEF NoCall
  <2>7. \A i \in Ids : (\E n \in DOMAIN v.todo : v.todo[n].id = i) => \E n \in DOMAIN r.todo : r.todo[n].id = i
    BY <2>2, <2>5
  <2>8. ASSUME NEW i \in Ids, Refers(v, i) PROVE Refers(r, i)
    <3>1. \E n \in DOMAIN v.todo : v.todo[n].id = i
      BY <2>3, <2>5, <2>6, <2>8 DEF Refers
    <3> QED BY <2>7, <3>1 DEF Refers
  <2>9. ASSUME r.op = "claim" PROVE v.id = r.id /\ r.todo # <<>> /\ r.pc = "unlock"
    <3>1. \A a, b : Len(<<a, b>>) = 2 /\ <<a, b>> # <<>> /\ <<b>>[1] = b
      OBVIOUS
    <3>2. Len(r.todo) = 2 /\ r.todo # <<>> /\ Rest(r)[1] = Start(r)
      BY <2>2, <2>9, <3>1
    <3>3. Start(r).id = r.id
      BY DEF Start, Update
    <3>4. r.pc # "precheck"
      BY <1>1, <2>9, <3>2 DEF CallOK, ClaimOK
    <3> QED BY <2>5, <3>2, <3>3, <3>4
  <2>10. ASSUME NEW i \in Ids, Wants(v, i) PROVE Claimed(r, i)
    BY <2>5, <2>9, <2>10 DEF Wants, Claimed
  <2>11. ASSUME NEW i \in Ids, Targets(v, i) PROVE Targets(r, i) /\ ~Freed(r, i)
    <3>1. r.op = "unassign" /\ \E n \in DOMAIN v.todo : v.todo[n].id = i
      BY <2>5, <2>11 DEF Targets
    <3>2. Targets(r, i)
      BY <2>7, <3>1 DEF Targets
    <3>3. PICK n \in DOMAIN Rest(r) : Rest(r)[n].id = i
      BY <2>5, <3>1
    <3>4. n + 1 \in DOMAIN r.todo /\ r.todo[n + 1].id = i /\ n \in Nat /\ n >= 1 /\ 1 \in DOMAIN r.todo
      <4>1. n + 1 \in DOMAIN r.todo /\ r.todo[n + 1].id = i
        BY <2>2, <3>3
      <4>2. DOMAIN r.todo = 1..Len(r.todo) /\ Len(r.todo) \in Nat /\ DOMAIN Rest(r) = 1..Len(Rest(r)) /\ Len(Rest(r)) \in Nat
        BY <1>1, <2>2
      <4> QED BY <4>1, <4>2
    <3>5. r.id = r.todo[1].id /\ \A m, k \in DOMAIN r.todo : r.todo[m].id = r.todo[k].id => m = k
      BY <1>1, <2>1, <3>1 DEF CallOK, TodoOK
    <3>6. r.id # i
      <4>1. SUFFICES ASSUME r.id = i PROVE FALSE
        OBVIOUS
      <4>2. n + 1 = 1
        BY <3>4, <3>5, <4>1
      <4> QED BY <3>4, <4>2
    <3> QED BY <3>2, <3>6 DEF Freed
  <2>12. \A i \in Ids : ~Making(v, i) /\ ~Writes(v, i)
    BY <2>5 DEF Making, Writes
  <2>13. \A i \in Ids : (Claimed(v, i) => Claimed(r, i)) /\ (Wants(v, i) => Wants(r, i))
    BY <2>10 DEF Claimed, Wants
  <2>14. Modest(r, v)
    <3>1. v.op = "unassign" => r.op = "unassign"
      BY <2>5
    <3> HIDE DEF r
    <3> QED BY <3>1, <2>11, <2>12, <2>13 DEF Modest
  <2> QED BY <2>5, <2>8, <2>14 DEF v
<1> QED BY <1>2, <1>3

\* The record moves on, and only the call changes.
LEMMA MovedQuiet ==
  ASSUME TypeInv, NEW c \in Callers, NEW v, Set(c, v), Modest(call[c], v), v.pc # "write",
         \A i \in Ids : Refers(v, i) => Refers(call[c], i) \/ files[i].kind = "task" \/ \E w \in Workers : mine[w] = i,
         \A i \in Ids : files'[i] = files[i] \/ files'[i].kind # "task",
         UNCHANGED <<mine, crashed, uses>>
  PROVE  Quiet
  BY QuietCall

LEMMA GoesOnQuiet ==
  ASSUME TypeInv, NEW c \in Callers, call[c].pc \in {"precheck", "unlock"},
         Set(c, Continue(call[c], Rest(call[c]))), mine' = Returned(c, Rest(call[c])),
         UNCHANGED <<files, crashed, uses>>
  PROVE  Quiet
<1> DEFINE r == call[c]
<1>1. r \in Calls /\ CallOK(c, r) /\ r.todo \in Seq(Updates)
  BY CallFacts
<1>2. ASSUME NEW w \in Workers PROVE mine'[w] \in {mine[w], 0} \/ Claimed(call[w], mine'[w])
  <2>1. CASE r.op = "complete"
    BY <2>1 DEF Returned, TypeInv, StateInv
  <2>2. CASE r.op = "claim" /\ Rest(r) = <<>> /\ Len(r.todo) > 0
    <3>1. c \in Workers
      BY <1>1, <2>2 DEF CallOK, WorkerOps
    <3>2. mine' = [mine EXCEPT ![c] = r.id]
      BY <2>2 DEF Returned, Started
    <3>3. r.todo # <<>>
      BY <2>2
    <3>4. Len(r.todo) = 1 \/ r.pc = "unlock"
      <4>1. r.todo \in {<<>>, <<Own(c, r), Start(r)>>, <<Start(r)>>} /\ (r.pc = "precheck" => Len(r.todo) # 2)
        BY <1>1, <2>2 DEF CallOK, ClaimOK
      <4>2. \A a, b : Len(<<a, b>>) = 2 /\ Len(<<b>>) = 1
        OBVIOUS
      <4> QED BY <3>3, <4>1, <4>2
    <3>5. Claimed(r, r.id)
      BY <2>2, <3>3, <3>4 DEF Claimed
    <3> QED BY <3>1, <3>2, <3>5 DEF TypeInv, StateInv
  <2> QED BY <2>1, <2>2 DEF Returned, Started
<1>3. /\ Modest(r, Continue(r, Rest(r)))
      /\ \A i \in Ids : Refers(Continue(r, Rest(r)), i) => Refers(r, i)
      /\ Continue(r, Rest(r)).pc \notin {"truncate", "write"}
  BY ContinueModest
<1> QED BY <1>2, <1>3, QuietCall

LEMMA PrecheckQuiet == ASSUME TypeInv, NEW c \in Callers, Precheck(c) PROVE Quiet
<1>1. call[c] \in Calls /\ call[c].pc = "precheck" /\ UNCHANGED <<files, crashed, uses>>
  BY CallFacts DEF Precheck, At
<1>2. CASE Set(c, Goto(c, "lock")) /\ mine' = mine
  <2> DEFINE r == call[c]
             v == Goto(c, "lock")
  <2>1. v.op = r.op /\ v.id = r.id /\ v.todo = r.todo /\ v.seen = r.seen /\ v.saw = r.saw /\ v.pc = "lock"
    BY <1>1 DEF Goto, Calls
  <2> HIDE DEF v
  <2>2. ~Freed(r, r.id)
    BY <1>1 DEF Freed
  <2>3. Modest(r, v) /\ \A i \in Ids : Refers(v, i) => Refers(r, i)
    BY <1>1, <2>1, <2>2, MovedIsModest
  <2> QED BY <1>1, <1>2, <2>1, <2>3, MovedQuiet DEF v
<1> QED BY <1>1, <1>2, GoesOnQuiet DEF Precheck, Rest

LEMMA UnlockQuiet == ASSUME TypeInv, NEW c \in Callers, Unlock(c) PROVE Quiet
  BY GoesOnQuiet DEF Unlock, Rest, At

LEMMA AcquireQuiet == ASSUME TypeInv, NEW c \in Callers, Acquire(c) PROVE Quiet
<1> DEFINE r == call[c]
           v == Goto(c, IF r.todo = <<>> THEN "reread" ELSE "merge")
<1>1. r \in Calls /\ r.pc = "lock" /\ Set(c, v) /\ UNCHANGED <<files, crashed, uses, mine>>
  BY CallFacts DEF Acquire, At
<1>2. /\ v.op = r.op /\ v.id = r.id /\ v.todo = r.todo /\ v.seen = r.seen /\ v.saw = r.saw
      /\ v.pc \in {"reread", "merge"}
  BY <1>1 DEF Goto, Calls
<1> HIDE DEF v
<1>3. ~Freed(r, r.id)
  BY <1>1 DEF Freed
<1>4. Modest(r, v) /\ \A i \in Ids : Refers(v, i) => Refers(r, i)
  BY <1>1, <1>2, <1>3, MovedIsModest
<1> QED BY <1>1, <1>2, <1>4, MovedQuiet

LEMMA PollQuiet == ASSUME TypeInv, NEW w \in Workers, Poll(w) PROVE Quiet
<1>1. PICK i \in Available([j \in Ids |-> Read(files[j])]) :
             Set(w, [NoCall EXCEPT !.op = "claim", !.pc = "precheck", !.id = i])
  BY DEF Poll
<1> DEFINE v == [NoCall EXCEPT !.op = "claim", !.pc = "precheck", !.id = i]
<1>2. i \in Ids /\ files[i].kind = "task"
  BY TypeOfAbsent DEF Available, Read
<1>3. v.op = "claim" /\ v.id = i /\ v.todo = <<>> /\ v.seen = NoCall.seen /\ v.pc = "precheck"
  <2>1. NoCall \in Calls /\ NoCall.todo = <<>>
    BY TypeOfNoCall DEF NoCall
  <2> HIDE DEF NoCall
  <2> QED BY <2>1 DEF Calls
<1>4. Set(w, v) /\ w \in Callers /\ UNCHANGED <<files, mine, crashed, uses>>
  BY <1>1 DEF Poll, Callers
<1> HIDE DEF v
<1>5. Blank(v)
  BY <1>3, NoCallIsBlank DEF Blank
<1>6. \A j \in Ids : Refers(v, j) => j = i
  BY <1>3, <1>5 DEF Refers, Blank
<1> QED BY <1>2, <1>3, <1>4, <1>5, <1>6, BlankIsModest, MovedQuiet

LEMMA DecideQuiet == ASSUME TypeInv, NEW w \in Workers, Decide(w) PROVE Quiet
<1> DEFINE r == call[w]
           v == [Goto(w, "merge") EXCEPT !.seen = NoCall.seen, !.todo = <<Own(w, r), Start(r)>>]
           u == Goto(w, "unlock")
<1>1. r.pc = "blockers" /\ CallOK(w, r) /\ r \in Calls /\ w \in Callers /\ UNCHANGED <<files, mine, crashed, uses>>
  BY CallFacts DEF Decide, At, Callers
<1>2. r.op = "claim" /\ r.todo = <<>>
  BY <1>1 DEF CallOK, PointOK, Updating, ClaimOK
<1>3. /\ v.op = "claim" /\ v.id = r.id /\ v.todo = <<Own(w, r), Start(r)>>
      /\ v.seen = NoCall.seen /\ v.pc = "merge"
  BY <1>1, <1>2 DEF Goto, Calls
<1>4. u.op = r.op /\ u.id = r.id /\ u.todo = r.todo /\ u.seen = r.seen /\ u.saw = r.saw /\ u.pc = "unlock"
  BY <1>1 DEF Goto, Calls
<1>5. Set(w, v) \/ Set(w, u)
  BY DEF Decide, Own, Start
<1> HIDE DEF v, u
<1>6. ~Freed(r, r.id)
  BY <1>1 DEF Freed
<1>7. Modest(r, u) /\ \A i \in Ids : Refers(u, i) => Refers(r, i)
  BY <1>1, <1>2, <1>4, <1>6, MovedIsModest
<1>8. Modest(r, v) /\ \A i \in Ids : Refers(v, i) => Refers(r, i)
  <2>1. Len(<<Own(w, r), Start(r)>>) = 2 /\ \A n \in DOMAIN <<Own(w, r), Start(r)>> : <<Own(w, r), Start(r)>>[n].id = r.id
    <3>1. Own(w, r).id = r.id /\ Start(r).id = r.id
      BY DEF Own, Start, Update
    <3>2. \A a, b : Len(<<a, b>>) = 2 /\ \A n \in DOMAIN <<a, b>> : <<a, b>>[n] \in {a, b}
      OBVIOUS
    <3> HIDE DEF r
    <3> QED BY <3>1, <3>2
  <2>2. Len(v.todo) = 2 /\ \A n \in DOMAIN v.todo : v.todo[n].id = r.id
    BY <1>3, <2>1
  <2>3. \A i \in Ids : v.seen[i].kind # "task"
    BY <1>3, NoCallIsBlank DEF Blank
  <2>4. Modest(r, v)
    BY <1>1, <1>2, <1>3, <2>2 DEF Modest, Making, Writes, Wants, Claimed, Targets
  <2>5. \A i \in Ids : Refers(v, i) => Refers(r, i)
    BY <1>2, <1>3, <2>2, <2>3 DEF Refers
  <2> QED BY <2>4, <2>5
<1> QED BY <1>1, <1>3, <1>4, <1>5, <1>7, <1>8, MovedQuiet

LEMMA CompleteQuiet == ASSUME TypeInv, NEW w \in Workers, Complete(w) PROVE Quiet
<1> DEFINE r == [NoCall EXCEPT !.op = "complete"]
           todo == <<Update(mine[w], Patch("status", "completed"))>>
           v == Continue(r, todo)
<1>1. w \in Callers /\ UNCHANGED <<files, crashed, uses>>
  BY DEF Complete, Callers
<1>2. CASE Set(w, v) /\ mine' = mine
  <2>1. todo # <<>> /\ Head(todo).id = mine[w] /\ \A n \in DOMAIN todo : todo[n].id = mine[w]
    BY DEF Update
  <2>2. v.op = "complete" /\ v.pc = "precheck" /\ v.id = mine[w] /\ v.todo = todo /\ v.seen = NoCall.seen
    <3>1. NoCall \in Calls
      BY TypeOfNoCall
    <3> HIDE DEF NoCall, todo
    <3>2. v = [r EXCEPT !.pc = "precheck", !.id = Head(todo).id, !.todo = todo, !.saw = Absent, !.rest = {}, !.seen = NoCall.seen]
      BY <2>1 DEF Continue
    <3> QED BY <2>1, <3>1, <3>2 DEF Calls
  <2> HIDE DEF v, todo
  <2>3. \A i \in Ids : v.seen[i].kind # "task"
    BY <2>2, NoCallIsBlank DEF Blank
  <2>4. Modest(call[w], v)
    BY <2>2 DEF Modest, Making, Writes, Wants, Claimed, Targets
  <2>5. \A i \in Ids : Refers(v, i) => mine[w] = i
    BY <2>1, <2>2, <2>3 DEF Refers
  <2> QED BY <1>1, <1>2, <2>2, <2>4, <2>5, MovedQuiet
<1>3. CASE call' = call /\ mine' = [mine EXCEPT ![w] = 0]
  <2>1. SameHas
    BY <1>3 DEF SameHas, SameMine, TypeInv, StateInv
  <2>2. SameMaking /\ SameWrites /\ SameWants /\ SameTargets /\ SameRefers /\ Emptied /\ SameUnassigns
    BY <1>1, <1>3 DEF SameMaking, SameWrites, SameWants, SameTargets, SameRefers, Emptied, SameUnassigns
  <2> QED BY <2>1, <2>2 DEF Quiet
<1> QED BY <1>2, <1>3 DEF Complete

\* A tool that neither writes nor has updates to make.
LEMMA ToolQuiet ==
  ASSUME TypeInv, NEW t \in Tools, NEW v, Set(t, v),
         v.op \in {"create", "reset", "delete"}, v.todo = <<>>,
         v.pc # "write", v.op = "create" \/ v.pc # "truncate",
         \A i \in Ids : v.op # "create" /\ v.id = i => Refers(call[t], i) \/ files[i].kind = "task",
         \A i \in Ids : v.seen[i].kind = "task" => call[t].seen[i].kind = "task",
         \A i \in Ids : files'[i] = files[i] \/ files'[i].kind # "task",
         UNCHANGED <<mine, crashed, uses>>
  PROVE  Quiet
<1>1. Modest(call[t], v)
  BY DEF Modest, Making, Writes, Wants, Claimed, Targets
<1>2. \A i \in Ids : Refers(v, i) => Refers(call[t], i) \/ files[i].kind = "task"
  BY DEF Refers
<1> QED BY <1>1, <1>2, Named, MovedQuiet

LEMMA CallQuiet ==
  ASSUME TypeInv, NEW t \in Tools, Create(t) \/ Reset(t) \/ (\E i \in Ids : Delete(t, i))
  PROVE  Quiet
<1>1. PICK op \in {"create", "reset", "delete"}, i \in Ids \cup {0} :
         /\ \/ op # "delete" /\ Begin(t, op, [NoCall EXCEPT !.pc = "lockList"])
            \/ op = "delete" /\ i \in Ids /\ Read(files[i]).kind = "task"
               /\ Begin(t, op, [NoCall EXCEPT !.pc = "readMark", !.id = i, !.high = i])
  BY DEF Create, Reset, Delete
<1>2. NoCall \in Calls /\ NoCall.todo = <<>> /\ NoCall.id = 0 /\ \A j \in Ids : NoCall.seen[j].kind # "task"
  BY TypeOfNoCall, NoCallIsBlank DEF NoCall, Blank
<1> HIDE DEF NoCall
<1>3. CASE op # "delete"
  <2> DEFINE v == [[NoCall EXCEPT !.pc = "lockList"] EXCEPT !.op = op]
  <2>1. v.op = op /\ v.pc = "lockList" /\ v.todo = <<>> /\ v.id = 0 /\ v.seen = NoCall.seen
    BY <1>2 DEF Calls
  <2>2. Set(t, v) /\ UNCHANGED <<files, mine, crashed, uses>>
    BY <1>1, <1>3 DEF Begin
  <2> HIDE DEF v
  <2> QED BY <1>1, <1>2, <1>3, <2>1, <2>2, Named, ToolQuiet
<1>4. CASE op = "delete"
  <2> DEFINE v == [[NoCall EXCEPT !.pc = "readMark", !.id = i, !.high = i] EXCEPT !.op = op]
  <2>1. v.op = op /\ v.pc = "readMark" /\ v.todo = <<>> /\ v.id = i /\ v.seen = NoCall.seen
    BY <1>2 DEF Calls
  <2>2. Set(t, v) /\ UNCHANGED <<files, mine, crashed, uses>>
    BY <1>1, <1>4 DEF Begin
  <2>3. i \in Ids /\ files[i].kind = "task"
    BY <1>1, <1>4, TypeOfAbsent DEF Read
  <2> HIDE DEF v
  <2> QED BY <1>2, <1>4, <2>1, <2>2, <2>3, ToolQuiet
<1> QED BY <1>3, <1>4

LEMMA BlockQuiet ==
  ASSUME TypeInv, NEW t \in Tools, NEW i \in Ids, NEW j \in Ids, Block(t, i, j)
  PROVE  Quiet
<1> DEFINE v == [[NoCall EXCEPT !.pc = "list", !.id = i, !.to = j, !.rest = {i, j}] EXCEPT !.op = "block"]
<1>1. Set(t, v) /\ UNCHANGED <<files, mine, crashed, uses>> /\ files[i].kind = "task"
  BY TypeOfAbsent DEF Block, Begin, Read
<1>2. v.op = "block" /\ v.pc = "list" /\ v.todo = <<>> /\ v.id = i /\ v.seen = NoCall.seen
  <2>1. NoCall \in Calls /\ NoCall.todo = <<>>
    BY TypeOfNoCall DEF NoCall
  <2> HIDE DEF NoCall
  <2> QED BY <2>1 DEF Calls
<1> HIDE DEF v
<1>3. Blank(v) /\ \A k \in Ids : Refers(v, k) => k = i
  BY <1>2, NoCallIsBlank DEF Blank, Refers
<1> QED BY <1>1, <1>2, <1>3, Named, BlankIsModest, MovedQuiet

LEMMA AcquireListQuiet == ASSUME TypeInv, NEW t \in Tools, AcquireList(t) PROVE Quiet
<1> DEFINE r == call[t]
           v == Goto(t, IF r.op = "create" THEN "find" ELSE "findNames")
<1>1. r \in Calls /\ r.pc = "lockList" /\ Set(t, v) /\ UNCHANGED <<files, crashed, uses, mine>>
  BY Named, CallFacts DEF AcquireList, At
<1>2. /\ v.op = r.op /\ v.id = r.id /\ v.todo = r.todo /\ v.seen = r.seen /\ v.saw = r.saw
      /\ v.pc \in {"find", "findNames"}
  BY <1>1 DEF Goto, Calls
<1> HIDE DEF v
<1>3. ~Freed(r, r.id)
  BY <1>1 DEF Freed
<1>4. Modest(r, v) /\ \A i \in Ids : Refers(v, i) => Refers(r, i)
  BY <1>1, <1>2, <1>3, MovedIsModest
<1> QED BY <1>1, <1>2, <1>4, Named, MovedQuiet

\* The other steps of creations, deletions and resets.
LEMMA ToolStepQuiet ==
  ASSUME TypeInv, NEW t \in Tools,
         FindNames(t) \/ FindMark(t) \/ ReadMark(t) \/ EmptyMark(t) \/ WriteMark(t) \/ Wipe(t) \/ Unlink(t)
  PROVE  Quiet
<1> DEFINE r == call[t]
<1>1. r.pc \in {"find", "findNames", "findMark", "readMark", "emptyMark", "writeMark", "wipe", "unlink"}
  BY DEF FindNames, FindMark, ReadMark, EmptyMark, WriteMark, Wipe, Unlink, At
<1>2. /\ r \in Calls /\ r.todo = <<>> /\ r.op \in {"create", "reset", "delete"}
      /\ r.pc \in {"readMark", "emptyMark", "writeMark", "wipe", "unlink"} => r.op # "create"
      /\ r.pc = "find" => r.op = "create"
  BY <1>1, ToolFacts
<1>3. UNCHANGED <<mine, crashed, uses>>
  BY DEF FindNames, FindMark, ReadMark, EmptyMark, WriteMark, Wipe, Unlink
<1>4. \A i \in Ids : files'[i] = files[i] \/ files'[i].kind # "task"
  BY TypeOfAbsent DEF FindNames, FindMark, ReadMark, EmptyMark, WriteMark, Wipe, Unlink, TypeInv, StateInv
<1>5. NoCall.seen = [i \in Ids |-> Absent]
  BY DEF NoCall
<1>6. ASSUME NEW v, Set(t, v), v.op = r.op, v.todo = <<>>, v.pc # "write", v.op = "create" \/ v.pc # "truncate",
             v.op = "create" \/ v.id = r.id, v.seen \in {r.seen, NoCall.seen}
      PROVE  Quiet
  <2>1. \A i \in Ids : v.op # "create" /\ v.id = i => Refers(r, i)
    BY <1>6 DEF Refers
  <2>2. \A i \in Ids : v.seen[i].kind = "task" => r.seen[i].kind = "task"
    BY <1>5, <1>6, TypeOfAbsent
  <2> QED BY <1>2, <1>3, <1>4, <1>6, <2>1, <2>2, ToolQuiet
<1>7. CASE FindNames(t) \/ FindMark(t)
  <2>1. PICK v : /\ Set(t, v)
                 /\ \/ \E high : v = Found(t, high)
                    \/ r.pc = "find" /\ \E high : \E pc \in {"findMark", "findNames"} : v = [r EXCEPT !.pc = pc, !.high = high]
    BY <1>7 DEF FindNames, FindMark
  <2>2. CASE \E high : v = Found(t, high)
    <3>1. PICK high : v = Found(t, high)
      BY <2>2
    <3>2. /\ v.op = r.op /\ v.todo = r.todo /\ v.seen = r.seen /\ v.pc \in {"truncate", "readMark", "wipe"}
          /\ r.op = "create" \/ (v.id = r.id /\ v.pc # "truncate")
      BY <1>2, <3>1 DEF Found, Calls
    <3> QED BY <1>2, <1>6, <2>1, <3>2
  <2>3. CASE r.pc = "find" /\ \E high : \E pc \in {"findMark", "findNames"} : v = [r EXCEPT !.pc = pc, !.high = high]
    <3>1. PICK high, pc : pc \in {"findMark", "findNames"} /\ v = [r EXCEPT !.pc = pc, !.high = high]
      BY <2>3
    <3>2. v.op = r.op /\ v.todo = r.todo /\ v.seen = r.seen /\ v.pc = pc /\ v.id = r.id
      BY <1>2, <3>1 DEF Calls
    <3> QED BY <1>2, <1>6, <2>1, <3>1, <3>2
  <2> QED BY <2>1, <2>2, <2>3
<1>8. CASE ReadMark(t) \/ EmptyMark(t) \/ WriteMark(t)
  <2>1. PICK v \in {Marked(t), Goto(t, "emptyMark"), Goto(t, "writeMark")} : Set(t, v)
    BY <1>8 DEF ReadMark, EmptyMark, WriteMark
  <2>2. /\ v.op = r.op /\ v.todo = r.todo /\ v.seen = r.seen /\ v.id = r.id
        /\ v.pc \in {"emptyMark", "writeMark", "unlink", "wipe"}
    BY <1>2, <2>1 DEF Marked, Goto, Calls
  <2> QED BY <1>2, <1>6, <2>1, <2>2
<1>9. CASE Wipe(t)
  <2>1. PICK v : Set(t, v) /\ (v = Goto(t, "unlock") \/ \E i \in r.rest : v = [r EXCEPT !.rest = @ \ {i}])
    BY <1>9 DEF Wipe
  <2>2. r.pc = "wipe"
    BY <1>9 DEF Wipe, At
  <2>3. v.op = r.op /\ v.todo = r.todo /\ v.seen = r.seen /\ v.id = r.id /\ v.pc \in {"unlock", "wipe"}
    BY <1>2, <2>1, <2>2 DEF Goto, Calls
  <2> QED BY <1>2, <1>6, <2>1, <2>3
<1>10. CASE Unlink(t)
  <2>1. CASE Set(t, Listing(r, "list"))
    <3> DEFINE v == Listing(r, "list")
    <3>1. v.op = r.op /\ v.todo = r.todo /\ v.seen = NoCall.seen /\ v.id = r.id /\ v.pc = "list"
      <4> HIDE DEF NoCall
      <4> QED BY <1>2 DEF Listing, Calls
    <3> HIDE DEF v
    <3> QED BY <1>2, <1>6, <2>1, <3>1 DEF v
  <2>2. CASE Set(t, NoCall)
    BY <1>3, <1>4, <2>2, Named, QuietCall, NoCallIsBlank, BlankIsModest DEF Blank, Writes
  <2> QED BY <1>10, <2>1, <2>2 DEF Unlink
<1> QED BY <1>7, <1>8, <1>9, <1>10

\* What follows from a listing.
LEMMA ListedQuiet == ASSUME TypeInv, NEW t \in Tools, Listed(t) PROVE Quiet
<1> DEFINE r == call[t]
           todo == Follows(r)
           v == Continue(r, todo)
<1>1. /\ Set(t, v) /\ r \in Calls /\ r.op \in {"delete", "block", "unassign"} /\ r.pc = "list"
      /\ todo \in Seq(Updates)
      /\ \A n \in DOMAIN todo : r.seen[todo[n].id].kind = "task"
      /\ r.op = "unassign" =>
           \A n \in DOMAIN todo : r.seen[todo[n].id].owner = r.saw.owner /\ r.seen[todo[n].id].status # "completed"
  BY FollowsOK
<1>2. t \in Callers /\ UNCHANGED <<files, mine, crashed, uses>>
  BY Named DEF Listed
<1>3. CASE todo = <<>>
  BY <1>1, <1>2, <1>3, EndQuiet DEF Continue
<1>4. CASE todo # <<>>
  <2> HIDE DEF todo, v
  <2>1. todo[1] \in Updates /\ Head(todo) = todo[1] /\ 1 \in DOMAIN todo
    BY <1>1, <1>4
  <2>2. v = [r EXCEPT !.pc = "precheck", !.id = todo[1].id, !.todo = todo,
                      !.saw = Absent, !.rest = {}, !.seen = NoCall.seen]
    BY <1>4, <2>1 DEF Continue, v
  <2>3. v.op = r.op /\ v.pc = "precheck" /\ v.id = todo[1].id /\ v.todo = todo /\ v.seen = NoCall.seen
    <3> HIDE DEF NoCall
    <3> QED BY <1>1, <2>2 DEF Calls
  <2>4. \A i \in Ids : (\E n \in DOMAIN todo : todo[n].id = i) =>
          r.seen[i].kind = "task" /\ (r.op = "unassign" => r.seen[i].owner = r.saw.owner /\ r.seen[i].status # "completed")
    BY <1>1
  <2>5. \A i \in Ids : v.seen[i].kind # "task"
    BY <2>3, NoCallIsBlank DEF Blank
  <2>6. \A i \in Ids : Refers(v, i) => Refers(r, i)
    BY <2>1, <2>3, <2>4, <2>5 DEF Refers
  <2>7. Modest(r, v)
    BY <1>1, <2>3, <2>4 DEF Modest, Making, Writes, Wants, Claimed, Targets, Freed
  <2> QED BY <1>1, <1>2, <2>3, <2>6, <2>7, MovedQuiet
<1> QED BY <1>3, <1>4

LEMMA CrashQuiet == ASSUME TypeInv, NEW c \in Callers, Crash(c) PROVE Quiet
<1>1. Set(c, NoCall) /\ UNCHANGED <<files, uses>> /\ crashed \subseteq crashed'
  BY DEF Crash
<1>2. \A w \in Workers : mine'[w] \in {mine[w], 0}
  BY DEF Crash, TypeInv, StateInv
<1> QED BY <1>1, <1>2, QuietCall, NoCallIsBlank, BlankIsModest DEF Blank, Writes

-----------------------------------------------------------------------------
(* The steps that are not.                                                 *)

\* Only one has a lock.
LEMMA LockedAlone ==
  ASSUME TypeInv, NEW c \in Callers, NEW d \in Callers,
         call[c].op \notin {"create", "reset"}, call[c].pc \in Holding,
         call[d].op \notin {"create", "reset"}, call[d].pc \in Holding, call[c].id = call[d].id
  PROVE  c = d
<1>1. Holds(lock, c, call[c]) /\ Holds(lock, d, call[d])
  BY CallFacts
<1> QED BY <1>1 DEF Holds

\* Who is about to claim a task and has not the lock is past the first update.
LEMMA WantsUnlocked ==
  ASSUME TypeInv, NEW w \in Workers, NEW i \in Ids, Wants(call[w], i), call[w].pc \notin Holding
  PROVE  Claimed(call[w], i)
<1> DEFINE r == call[w]
<1>1. CallOK(w, r) /\ r \in Calls /\ r.op = "claim" /\ r.id = i /\ r.todo # <<>>
  BY Named, CallFacts DEF Wants, Holding
<1>2. r.pc \in {"precheck", "lock"}
  BY <1>1 DEF CallOK, PointOK, Updating, Holding
<1>3. r.todo \in {<<Own(w, r), Start(r)>>, <<Start(r)>>} /\ Len(r.todo) # 2
  BY <1>1, <1>2 DEF CallOK, ClaimOK
<1>4. \A a, b : Len(<<a, b>>) = 2 /\ Len(<<b>>) = 1
  OBVIOUS
<1> QED BY <1>1, <1>3, <1>4 DEF Claimed

\* A worker that has a task, or wants it, lives.
LEMMA AliveWorkers ==
  ASSUME TypeInv, NEW w \in Workers, NEW i \in Ids, Has(w, i) \/ Wants(call[w], i)
  PROVE  w \notin crashed
<1>1. mine[w] = i => w \notin crashed
  BY Named DEF TypeInv, StateInv
<1>2. call[w].op = "claim" => w \notin crashed
  BY Named, CallFacts DEF Lives
<1> QED BY <1>1, <1>2 DEF Has, Claimed, Wants

LEMMA ReadOneQuiet ==
  ASSUME TypeInv, NEW c \in Callers, ReadOne(c), call[c].op # "unassign"
  PROVE  Quiet
<1>1. PICK i \in call[c].rest : Set(c, [call[c] EXCEPT !.rest = @ \ {i}, !.seen[i] = Read(files[i])])
  BY DEF ReadOne
<1> DEFINE r == call[c]
           v == [r EXCEPT !.rest = @ \ {i}, !.seen[i] = Read(files[i])]
<1>2. i \in Ids /\ r.pc \in {"list", "blockers"} /\ UNCHANGED <<files, mine, crashed, uses>>
  BY CallFacts DEF ReadOne
<1>3. /\ v.op = r.op /\ v.pc = r.pc /\ v.id = r.id /\ v.todo = r.todo /\ v.saw = r.saw
      /\ v.seen = [r.seen EXCEPT ![i] = Read(files[i])]
  BY CallFacts DEF Calls
<1>4. Set(c, v)
  BY <1>1
<1> HIDE DEF v
<1>5. Modest(r, v)
  BY <1>2, <1>3 DEF Modest, Making, Writes, Wants, Claimed, Targets
<1>6. \A j \in Ids : v.seen[j] = IF j = i THEN Read(files[i]) ELSE r.seen[j]
  BY <1>2, <1>3, CallFacts
<1>7. Read(files[i]).kind = "task" => files[i].kind = "task"
  BY TypeOfAbsent DEF Read
<1>8. \A j \in Ids : Refers(v, j) => Refers(r, j) \/ files[j].kind = "task"
  BY <1>3, <1>6, <1>7 DEF Refers
<1> QED BY <1>2, <1>3, <1>4, <1>5, <1>8, MovedQuiet

\* A task of the dead is found: nobody living has it or can come to have it.
LEMMA ReadOneKeeps ==
  ASSUME TypeInv, Apart, NEW c \in Callers, ReadOne(c), call[c].op = "unassign"
  PROVE  Apart'
<1>1. PICK i \in call[c].rest : Set(c, [call[c] EXCEPT !.rest = @ \ {i}, !.seen[i] = Read(files[i])])
  BY DEF ReadOne
<1> DEFINE r == call[c]
           v == [r EXCEPT !.rest = @ \ {i}, !.seen[i] = Read(files[i])]
<1>2. i \in Ids /\ UNCHANGED <<files, mine, crashed, uses>> /\ r.pc = "list"
  BY CallFacts DEF ReadOne, CallOK, PointOK, Updating
<1>3. /\ v.op = r.op /\ v.pc = r.pc /\ v.id = r.id /\ v.todo = r.todo /\ v.saw = r.saw
      /\ v.seen = [r.seen EXCEPT ![i] = Read(files[i])]
  BY CallFacts DEF Calls
<1>4. call'[c] = v /\ \A d \in Callers \ {c} : call'[d] = call[d]
  BY <1>1 DEF Set, TypeInv, CallsInv
<1> HIDE DEF v
<1>5. \A j \in Ids : v.seen[j] = IF j = i THEN Read(files[i]) ELSE r.seen[j]
  BY <1>2, <1>3, CallFacts
<1>6. Read(files[i]).kind = "task" => files[i].kind = "task" /\ Read(files[i]) = files[i]
  BY TypeOfAbsent DEF Read
<1>7. \A j \in Ids : Refers(v, j) => Refers(r, j) \/ files[j].kind = "task"
  BY <1>3, <1>5, <1>6 DEF Refers
<1>8. c \in Tools /\ r.saw.owner \in crashed /\ crashed \subseteq Callers
  BY <1>2, CallFacts DEF CallOK, Lives, ToolOps, TypeInv, StateInv
<1>9. \A j \in Ids : (Making(v, j) <=> Making(r, j)) /\ ~Writes(v, j) /\ ~Wants(v, j) /\ ~Claimed(v, j) /\ ~Freed(v, j)
  BY <1>2, <1>3 DEF Making, Writes, Wants, Claimed, Freed
<1>10. SameMaking /\ SameWrites /\ SameWants /\ SameHas /\ SameRefers /\ Emptied /\ SameUnassigns
  <2>1. SameMaking /\ SameWants /\ SameHas /\ Emptied /\ SameUnassigns
    BY <1>2, <1>3, <1>4, <1>9 DEF SameMaking, SameWants, SameHas, SameMine, Emptied, SameUnassigns
  <2>2. SameWrites /\ SameRefers
    BY <1>4, <1>7, <1>9 DEF SameWrites, SameRefers
  <2> QED BY <2>1, <2>2
<1>11. \A w \in Workers, j \in Ids : (Has(w, j)' => Has(w, j)) /\ (Wants(call'[w], j) => Wants(call[w], j))
  BY <1>4, <1>9, <1>10, KeepsHas, Named
<1>12. TargetInv'
  <2> SUFFICES ASSUME NEW t \in Tools, NEW j \in Ids, Targets(call'[t], j)
               PROVE  /\ \A w \in Workers : ~Has(w, j)' /\ ~Wants(call'[w], j)
                      /\ ~Freed(call'[t], j) =>
                           /\ files'[j].kind = "task" => files'[j].owner \in crashed'
                           /\ \A d \in Callers \ {t} : Writes(call'[d], j) => call'[d].saw.owner \in crashed'
    BY DEF TargetInv
  <2>1. ASSUME NEW d \in Callers, Writes(call'[d], j) PROVE Writes(call[d], j) /\ call'[d] = call[d]
    BY <1>4, <1>9, <2>1
  <2>2. CASE Targets(call[t], j)
    <3>1. Freed(call[t], j) => Freed(call'[t], j)
      BY <1>2, <1>4, Named DEF Freed
    <3> QED BY <1>2, <1>11, <2>1, <2>2, <3>1 DEF Apart, TargetInv
  <2>3. CASE ~Targets(call[t], j)
    <3>1. t = c /\ j = i /\ files[i].kind = "task" /\ files[i].owner = r.saw.owner
      <4>1. t = c
        BY <1>4, <2>3, Named
      <4>2. v.seen[j].kind = "task" /\ v.seen[j].owner = r.saw.owner /\ v.seen[j].status # "completed"
        BY <1>2, <1>3, <1>4, <4>1 DEF Targets
      <4>3. j = i
        BY <1>2, <1>3, <1>5, <2>3, <4>1, <4>2 DEF Targets
      <4> QED BY <1>5, <1>6, <4>1, <4>2, <4>3
    <3>2. ASSUME NEW w \in Workers PROVE ~Has(w, i)
      BY <1>8, <3>1, <3>2, AliveWorkers DEF Apart, HasInv
    <3>3. ASSUME NEW w \in Workers PROVE ~Wants(call[w], i)
      BY <1>8, <3>1, <3>2, AliveWorkers, Named DEF Apart, WantsInv, Has
    <3>4. ASSUME NEW d \in Callers \ {c}, Writes(call[d], i) PROVE call[d].saw.owner \in crashed
      <4>1. call[d].op # "unassign"
        <5>1. call[d].op = "unassign" => d \in Tools
          BY CallFacts DEF CallOK, ToolOps
        <5> QED BY <1>8, <5>1 DEF Apart, OneUnassigns
      <4>2. ~Wants(call[d], i)
        <5>1. call[d].op = "claim" => d \in Workers
          BY CallFacts DEF CallOK, WorkerOps
        <5> QED BY <3>3, <5>1 DEF Wants
      <4> QED BY <1>8, <3>1, <3>4, <4>1, <4>2 DEF Apart, WriteInv
    <3> QED BY <1>2, <1>8, <1>11, <2>1, <3>1, <3>2, <3>3, <3>4
  <2> QED BY <2>2, <2>3
<1>13. \A j \in Ids : Unborn(j) => files'[j].kind # "task"
  BY <1>2 DEF Apart, FreshInv
<1> QED BY <1>10, <1>12, <1>13, KeepsFresh, KeepsWrite, KeepsHas, KeepsWants, KeepsOne DEF Apart, SameHas

\* A teammate is unassigned: nobody else is unassigned at this time.
LEMMA UnassignSame ==
  ASSUME TypeInv, Apart, NEW t \in Tools, NEW w \in Workers, Unassign(t, w), ~raced'
  PROVE  SameMaking /\ SameWrites /\ SameWants /\ SameHas /\ SameTargets /\ SameRefers /\ Emptied /\ OneUnassigns'
<1> DEFINE r == [Listing(NoCall, "list") EXCEPT !.saw.owner = w]
           v == [r EXCEPT !.op = "unassign"]
<1>1. t \in Callers /\ UNCHANGED <<files, mine, crashed, uses>> /\ ~Races(t, "unassign") /\ Set(t, v)
  BY Named DEF Unassign, Begin
<1>2. v.op = "unassign" /\ v.pc = "list" /\ v.id = 0 /\ v.todo = <<>> /\ v.seen = NoCall.seen
  <2>1. NoCall \in Calls /\ NoCall.id = 0 /\ NoCall.todo = <<>>
    BY TypeOfNoCall DEF NoCall
  <2> HIDE DEF NoCall
  <2> QED BY <2>1 DEF Calls, Listing
<1>3. call'[t] = v /\ \A d \in Callers \ {t} : call'[d] = call[d]
  BY <1>1 DEF Set, TypeInv, CallsInv
<1> HIDE DEF v
<1>4. \A i \in Ids : v.seen[i].kind # "task"
  BY <1>2, NoCallIsBlank DEF Blank
<1>5. \A i \in Ids : /\ ~Making(v, i) /\ ~Writes(v, i) /\ ~Wants(v, i) /\ ~Claimed(v, i)
                     /\ ~Targets(v, i) /\ ~Refers(v, i)
  BY <1>2, <1>4, Named DEF Making, Writes, Wants, Claimed, Targets, Refers
<1>6. SameMaking /\ SameWrites /\ SameWants /\ SameHas /\ SameTargets /\ SameRefers /\ Emptied
  <2>1. SameMaking /\ SameWants /\ SameHas /\ SameTargets /\ Emptied
    BY <1>1, <1>3, <1>5 DEF SameMaking, SameWants, SameHas, SameMine, SameTargets, Emptied
  <2>2. SameWrites /\ SameRefers
    BY <1>3, <1>5 DEF SameWrites, SameRefers
  <2> QED BY <2>1, <2>2
<1>7. OneUnassigns'
  BY <1>1, <1>3, Named DEF Races, OneUnassigns, Apart
<1> QED BY <1>6, <1>7

LEMMA UnassignKeeps ==
  ASSUME TypeInv, Apart, NEW t \in Tools, NEW w \in Workers, Unassign(t, w), ~raced'
  PROVE  Apart'
<1>1. SameMaking /\ SameWrites /\ SameWants /\ SameHas /\ SameTargets /\ SameRefers /\ Emptied /\ OneUnassigns'
  BY UnassignSame
<1>2. crashed \subseteq Callers
  BY DEF TypeInv, StateInv
<1>3. \A i \in Ids : Unborn(i) => files'[i].kind # "task"
  BY DEF Apart, FreshInv, Unassign, Begin
<1> QED BY <1>1, <1>2, <1>3, KeepsFresh, KeepsWrite, KeepsHas, KeepsWants, KeepsTarget DEF Apart, SameHas

\* The claim is checked under the lock.
LEMMA RereadKeeps ==
  ASSUME TypeInv, NEW w \in Workers, Reread(w)
  PROVE  Quiet
<1> DEFINE r == call[w]
           v == [Goto(w, "blockers") EXCEPT !.saw = files[r.id], !.rest = Names \cap files[r.id].blockedBy]
           u == Goto(w, "unlock")
<1>1. r.pc = "reread" /\ w \notin crashed /\ CallOK(w, r) /\ r \in Calls /\ UNCHANGED <<files, mine, crashed, uses>>
  BY Named, CallFacts DEF Reread, At
<1>2. r.op = "claim" /\ r.id \in Ids /\ r.todo = <<>>
  BY <1>1 DEF CallOK, PointOK, Updating, ClaimOK
<1>3. v.op = r.op /\ v.id = r.id /\ v.todo = r.todo /\ v.seen = r.seen /\ v.pc = "blockers"
  BY <1>1 DEF Goto, Calls
<1>4. u.op = r.op /\ u.id = r.id /\ u.todo = r.todo /\ u.seen = r.seen /\ u.saw = r.saw /\ u.pc = "unlock"
  BY <1>1 DEF Goto, Calls
<1>5. (Set(w, v) /\ MayClaim(w, Read(files[r.id]))) \/ Set(w, u)
  BY DEF Reread
<1> HIDE DEF v, u
<1>6. CASE Set(w, u)
  <2>1. ~Freed(r, r.id)
    BY <1>1 DEF Freed
  <2>2. Modest(r, u) /\ \A i \in Ids : Refers(u, i) => Refers(r, i)
    BY <1>1, <1>2, <1>4, <2>1, MovedIsModest
  <2> QED BY <1>1, <1>4, <1>6, <2>2, Named, MovedQuiet
<1>7. CASE Set(w, v) /\ MayClaim(w, Read(files[r.id]))
  <2>1. call'[w] = v /\ \A d \in Callers \ {w} : call'[d] = call[d]
    BY <1>7, Named DEF Set, TypeInv, CallsInv
  <2>2. files[r.id].kind = "task" /\ files[r.id].owner \in {Nobody, w} /\ files[r.id].status # "completed"
    BY <1>7, TypeOfAbsent DEF MayClaim, Read
  <2>3. ASSUME NEW t \in Tools, Targets(call[t], r.id), Freed(call[t], r.id) PROVE FALSE
    <3>1. call[t].op = "unassign" /\ call[t].pc = "unlock" /\ call[t].id = r.id
      BY <2>3 DEF Targets, Freed
    <3>2. t = w
      BY <1>1, <1>2, <3>1, Named, LockedAlone DEF Holding
    <3> QED BY <3>2, CallersAssumption
  <2>4. Open(w, r.id)
    <3>1. ASSUME NEW c \in Callers, Writes(call[c], r.id) PROVE FALSE
      <4>1. call[c].pc \in Holding /\ call[c].id = r.id /\ call[c].op \notin {"create", "reset"} /\ call[c].pc # "reread"
        BY <3>1, CallFacts DEF CallOK, PointOK, Writes, UpdatingOps, Holding
      <4> QED BY <1>1, <1>2, <4>1, LockedAlone, Named DEF Holding
    <3> QED BY <1>1, <2>2, <2>3, <3>1 DEF Open
  <2>5. \A i \in Ids : /\ ~Making(v, i) /\ ~Writes(v, i) /\ (Wants(v, i) => i = r.id) /\ ~Claimed(v, i)
                       /\ ~Targets(v, i) /\ (Refers(v, i) => Refers(r, i))
    BY <1>2, <1>3 DEF Making, Writes, Wants, Claimed, Targets, Refers
  <2>6. SameMaking /\ SameHas /\ SameTargets /\ Emptied
    BY <1>1, <2>1, <2>5 DEF SameMaking, SameHas, SameMine, SameTargets, Emptied
  <2>7. SameWrites /\ SameRefers /\ SameUnassigns
    BY <1>2, <1>3, <2>1, <2>5 DEF SameWrites, SameRefers, SameUnassigns
  <2>8. SameWants
    BY <2>1, <2>4, <2>5 DEF SameWants
  <2> QED BY <2>6, <2>7, <2>8 DEF Quiet
<1> QED BY <1>5, <1>6, <1>7

LEMMA TruncateQuiet ==
  ASSUME TypeInv, NEW c \in Callers, Truncate(c), call[c].op # "create"
  PROVE  Quiet
<1> DEFINE r == call[c]
           v == Goto(c, "write")
<1>1. r \in Calls /\ r.pc = "truncate" /\ Set(c, v) /\ UNCHANGED <<mine, crashed, uses>>
  BY CallFacts DEF Truncate, At
<1>2. v.op = r.op /\ v.id = r.id /\ v.todo = r.todo /\ v.seen = r.seen /\ v.saw = r.saw /\ v.pc = "write"
  BY <1>1 DEF Goto, Calls
<1> HIDE DEF v
<1>3. \A i \in Ids : files'[i] = IF i = r.id THEN [files[i] EXCEPT !.kind = "torn"] ELSE files[i]
  BY DEF Truncate, TypeInv, StateInv
<1>4. \A i \in Ids : (i = r.id => files'[i].kind = "torn") /\ (i # r.id => files'[i] = files[i])
  BY <1>3 DEF File, TypeInv, StateInv
<1>5. Modest(r, v)
  BY <1>1, <1>2 DEF Modest, Making, Writes, Wants, Claimed, Targets, Freed
<1>6. \A i \in Ids : Refers(v, i) => Refers(r, i)
  BY <1>2 DEF Refers
<1>7. \A i \in Ids : Writes(v, i) => files'[i].kind # "task"
  BY <1>2, <1>4 DEF Writes
<1>8. \A i \in Ids : files'[i] = files[i] \/ files'[i].kind # "task"
  BY <1>4
<1>9. \A w \in Workers : mine'[w] \in {mine[w], 0}
  BY <1>1
<1> QED BY <1>1, <1>5, <1>6, <1>7, <1>8, <1>9, QuietCall

\* An id is given to a new task, which nobody knows of.
LEMMA CreatedSame ==
  ASSUME TypeInv, Apart, NEW c \in Callers, Truncate(c), call[c].op = "create",
         \A i \in Ids : uses'[i] <= 1
  PROVE  /\ SameWrites /\ SameWants /\ SameHas /\ SameTargets /\ SameRefers /\ Emptied /\ SameUnassigns /\ FreshInv'
         /\ \A i \in Ids : Unborn(i)' => Unborn(i)
<1> DEFINE r == call[c]
           v == Goto(c, "write")
<1>1. r \in Calls /\ r.pc = "truncate" /\ Set(c, v) /\ UNCHANGED <<mine, crashed>> /\ uses' = [uses EXCEPT ![r.id] = @ + 1]
  BY CallFacts DEF Truncate, At
<1>2. v.op = r.op /\ v.id = r.id /\ v.todo = r.todo /\ v.seen = r.seen /\ v.saw = r.saw /\ v.pc = "write"
  BY <1>1 DEF Goto, Calls
<1>3. call'[c] = v /\ \A d \in Callers \ {c} : call'[d] = call[d]
  BY <1>1 DEF Set, TypeInv, CallsInv
<1> HIDE DEF v
<1>4. \A i \in Ids : (i = r.id => files'[i].kind = "torn") /\ (i # r.id => files'[i] = files[i])
  BY DEF Truncate, TypeInv, StateInv, File
<1>5. \A i \in Ids : /\ ~Writes(v, i) /\ ~Wants(v, i) /\ ~Claimed(v, i) /\ ~Targets(v, i)
                     /\ Making(v, i) => i = r.id
                     /\ Refers(v, i) => Refers(r, i)
  BY <1>2 DEF Writes, Wants, Claimed, Targets, Making, Refers
<1>6. SameWants /\ SameHas /\ SameTargets /\ Emptied
  BY <1>1, <1>3, <1>4, <1>5 DEF SameWants, SameHas, SameMine, SameTargets, Emptied
<1>7. SameWrites /\ SameRefers /\ SameUnassigns
  BY <1>2, <1>3, <1>5 DEF SameWrites, SameRefers, SameUnassigns
<1>8. FreshInv' /\ \A i \in Ids : Unborn(i)' => Unborn(i)
  <2>1. \A i \in Ids : uses[i] \in Nat /\ uses'[i] = IF i = r.id THEN uses[i] + 1 ELSE uses[i]
    BY <1>1 DEF TypeInv, StateInv
  <2>2. \A d \in Callers, i \in Ids : Making(call'[d], i) => Making(call[d], i) \/ i = r.id
    BY <1>3, <1>5
  <2>3. \A d \in Callers, i \in Ids : Making(call'[d], i) => uses'[i] # 0
    BY <2>1, <2>2 DEF Apart, FreshInv
  <2>4. ASSUME NEW i \in Ids, Unborn(i)' PROVE Unborn(i)
    <3>1. CASE i = r.id
      <4>1. uses[i] = 0
        BY <2>1, <3>1
      <4> QED BY <4>1 DEF Unborn
    <3>2. CASE i # r.id
      BY <2>1, <2>2, <2>4, <3>2 DEF Unborn
    <3> QED BY <3>1, <3>2
  <2>5. ASSUME NEW i \in Ids, Unborn(i)'
        PROVE  /\ files'[i].kind # "task"
               /\ \A w \in Workers : mine'[w] # i
               /\ \A d \in Callers : ~Refers(call'[d], i)
    <3>1. files[i].kind # "task" /\ (\A w \in Workers : mine[w] # i) /\ \A d \in Callers : ~Refers(call[d], i)
      BY <2>4, <2>5 DEF Apart, FreshInv
    <3> QED BY <1>1, <1>3, <1>4, <1>5, <3>1
  <2> QED BY <2>3, <2>4, <2>5 DEF FreshInv
<1> QED BY <1>6, <1>7, <1>8

LEMMA CreatedKeeps ==
  ASSUME TypeInv, Apart, NEW c \in Callers, Truncate(c), call[c].op = "create",
         \A i \in Ids : uses'[i] <= 1
  PROVE  Apart'
<1>1. crashed \subseteq Callers
  BY DEF TypeInv, StateInv
<1> QED BY <1>1, CreatedSame, KeepsWrite, KeepsHas, KeepsWants, KeepsTarget, KeepsOne DEF Apart

\* Who is about to claim a task and has its lock is alone with it.
LEMMA ClaimAlone ==
  ASSUME TypeInv, Apart, NEW w \in Workers, NEW i \in Ids, Wants(call[w], i), call[w].pc \in Holding
  PROVE  /\ \A v \in Workers \ {w} : mine[v] # i /\ ~Wants(call[v], i) /\ ~Has(v, i)
         /\ \A c \in Callers \ {w} : ~Writes(call[c], i)
         /\ \A t \in Tools : ~Targets(call[t], i)
<1>1. call[w].op = "claim" /\ call[w].id = i
  BY DEF Wants
<1>2. ASSUME NEW v \in Workers \ {w} PROVE mine[v] # i /\ ~Wants(call[v], i) /\ ~Has(v, i)
  <2>1. ~Has(v, i)
    BY DEF Apart, HasInv
  <2>2. ASSUME Wants(call[v], i) PROVE FALSE
    <3>1. call[v].op = "claim" /\ call[v].id = i
      BY <2>2 DEF Wants
    <3>2. call[v].pc \in Holding
      BY <2>1, <2>2, WantsUnlocked DEF Has
    <3> QED BY <1>1, <3>1, <3>2, LockedAlone, Named
  <2> QED BY <2>1, <2>2 DEF Has
<1>3. ASSUME NEW c \in Callers \ {w}, Writes(call[c], i) PROVE FALSE
  <2>1. call[c].pc \in Holding /\ call[c].id = i /\ call[c].op # "create"
    BY <1>3 DEF Writes, Holding
  <2>2. call[c].op # "reset"
    BY <1>3, CallFacts DEF CallOK, PointOK, Writes, UpdatingOps
  <2> QED BY <1>1, <2>1, <2>2, LockedAlone, Named
<1>4. ASSUME NEW t \in Tools, Targets(call[t], i) PROVE FALSE
  BY <1>4 DEF Apart, TargetInv
<1> QED BY <1>2, <1>3, <1>4

\* It may write itself in, and has claimed it then.
LEMMA ClaimKeeps ==
  ASSUME TypeInv, Apart, NEW w \in Workers, NEW i \in Ids, Wants(call[w], i), call[w].pc \in Holding,
         NEW v, Set(w, v), v.op = "claim", v.id = i, v.pc = "unlock", v.todo = call[w].todo, v.seen = call[w].seen,
         files'[i].kind = "task" => files'[i].owner = w,
         \A j \in Ids \ {i} : files'[j] = files[j],
         UNCHANGED <<mine, crashed, uses>>
  PROVE  Apart'
<1>1. call'[w] = v /\ \A d \in Callers \ {w} : call'[d] = call[d]
  BY Named DEF Set, TypeInv, CallsInv
<1>2. \A j \in Ids : /\ ~Making(v, j) /\ ~Writes(v, j) /\ ~Targets(v, j)
                     /\ (Wants(v, j) \/ Claimed(v, j)) => j = i
  BY DEF Making, Writes, Targets, Wants, Claimed
<1>3. call[w].op = "claim" /\ call[w].id = i
  BY DEF Wants
<1>4. \A j \in Ids : Refers(v, j) => Refers(call[w], j)
  BY <1>3 DEF Refers
<1>5. /\ \A u \in Workers \ {w} : mine[u] # i /\ ~Wants(call[u], i) /\ ~Has(u, i)
      /\ \A c \in Callers \ {w} : ~Writes(call[c], i)
      /\ \A t \in Tools : ~Targets(call[t], i)
  BY ClaimAlone
<1>6. \A c \in Callers, j \in Ids : Writes(call'[c], j) => Writes(call[c], j) /\ call'[c] = call[c] /\ j # i
  BY <1>1, <1>2, <1>5
<1>7. ASSUME NEW u \in Workers, NEW j \in Ids
      PROVE  /\ Has(u, j)' => (u = w /\ j = i) \/ (j # i /\ Has(u, j))
             /\ Wants(call'[u], j) => (u = w /\ j = i) \/ (j # i /\ u # w /\ Wants(call[u], j))
  BY <1>1, <1>2, <1>5, Named DEF Has
<1>8. FreshInv'
  <2>1. SameMaking /\ SameRefers /\ SameMine
    BY <1>1, <1>2, <1>4 DEF SameMaking, SameRefers, SameMine
  <2>2. Refers(call[w], i)
    BY <1>3 DEF Refers
  <2>3. \A j \in Ids : Unborn(j) => files'[j].kind # "task"
    BY <2>2, Named DEF Apart, FreshInv
  <2> QED BY <2>1, <2>3, KeepsFresh
<1>9. WriteInv'
  BY <1>6 DEF Apart, WriteInv
<1>10. HasInv'
  <2> SUFFICES ASSUME NEW u \in Workers, NEW j \in Ids, Has(u, j)'
               PROVE  /\ files'[j].kind = "task" => files'[j].owner = u
                      /\ \A c \in Callers : Writes(call'[c], j) => call'[c].saw.owner = u
                      /\ \A x \in Workers \ {u} : mine'[x] # j /\ ~Wants(call'[x], j)
    BY DEF HasInv
  <2>1. CASE u = w /\ j = i
    BY <1>5, <1>6, <1>7, <2>1
  <2>2. CASE j # i /\ Has(u, j)
    BY <1>6, <1>7, <2>2 DEF Apart, HasInv
  <2> QED BY <1>7, <2>1, <2>2
<1>11. WantsInv'
  BY <1>1, <1>7, Named DEF Apart, WantsInv
<1>12. TargetInv'
  <2> SUFFICES ASSUME NEW t \in Tools, NEW j \in Ids, Targets(call'[t], j)
               PROVE  /\ \A u \in Workers : ~Has(u, j)' /\ ~Wants(call'[u], j)
                      /\ ~Freed(call'[t], j) =>
                           /\ files'[j].kind = "task" => files'[j].owner \in crashed'
                           /\ \A c \in Callers \ {t} : Writes(call'[c], j) => call'[c].saw.owner \in crashed'
    BY DEF TargetInv
  <2>1. call'[t] = call[t] /\ Targets(call[t], j) /\ j # i
    BY <1>1, <1>2, <1>5, Named
  <2> QED BY <1>6, <1>7, <2>1 DEF Apart, TargetInv
<1>13. OneUnassigns'
  BY <1>1, Named DEF Apart, OneUnassigns
<1> QED BY <1>8, <1>9, <1>10, <1>11, <1>12, <1>13 DEF Apart

\* What is to be written is what the file holds now, but for the patch.
LEMMA MergeKeeps ==
  ASSUME TypeInv, Apart, NEW c \in Callers, ReadToMerge(c)
  PROVE  Apart'
<1> DEFINE r == call[c]
           i == r.id
           f == Read(files[i])
<1>1. /\ r.pc = "merge" /\ CallOK(c, r) /\ r \in Calls /\ i \in Ids /\ r.op \in UpdatingOps
      /\ r.todo # <<>> /\ Head(r.todo) = r.todo[1] /\ r.todo[1].patch \in Patches
      /\ UNCHANGED <<files, mine, crashed, uses>>
  <2>1. r.pc = "merge" /\ CallOK(c, r) /\ r \in Calls /\ UNCHANGED <<files, mine, crashed, uses>>
    BY CallFacts DEF ReadToMerge, At
  <2>2. r.op \in UpdatingOps
    BY <2>1 DEF CallOK, PointOK, Updating
  <2>3. i \in Ids
    BY <2>1, <2>2 DEF CallOK, UpdatingOps
  <2> QED BY <2>1, <2>2, <2>3, ReadToMergeOK
<1>2. f \in File /\ (f.kind = "task" => f = files[i] /\ files[i].kind = "task")
  BY <1>1, FileFacts, TypeOfAbsent DEF Read
<1>3. crashed \subseteq Callers
  BY DEF TypeInv, StateInv
<1>4. \A j \in Ids : Unborn(j) => files'[j].kind # "task"
  BY <1>1 DEF Apart, FreshInv
<1>5. ~Freed(r, i)
  BY <1>1 DEF Freed
<1>6. CASE f.kind # "task"
  <2> DEFINE v == Goto(c, "unlock")
  <2>1. /\ v.op = r.op /\ v.id = r.id /\ v.todo = r.todo /\ v.seen = r.seen /\ v.saw = r.saw /\ v.pc = "unlock"
    BY <1>1 DEF Goto, Calls
  <2>2. Set(c, v)
    BY <1>6 DEF ReadToMerge
  <2> HIDE DEF v, f
  <2>3. CASE r.op = "claim"
    <3>1. c \in Workers /\ Wants(r, i) /\ r.pc \in Holding
      BY <1>1, <2>3 DEF CallOK, WorkerOps, Wants, Holding
    <3>2. files[i].kind # "task"
      BY <1>6 DEF Read, f
    <3> QED BY <1>1, <2>1, <2>2, <2>3, <3>1, <3>2, ClaimKeeps
  <2>4. CASE r.op # "claim"
    <3>1. Modest(r, v) /\ \A j \in Ids : Refers(v, j) => Refers(r, j)
      BY <1>1, <1>5, <2>1, <2>4, MovedIsModest
    <3> QED BY <1>1, <1>3, <2>1, <2>2, <3>1, MovedQuiet, QuietKeepsApart
  <2> QED BY <2>3, <2>4
<1>7. CASE f.kind = "task"
  <2> DEFINE saw == Merge(f, Head(r.todo).patch)
             v == [Goto(c, "truncate") EXCEPT !.saw = saw]
  <2>1. saw.owner = IF "owner" \in DOMAIN r.todo[1].patch THEN r.todo[1].patch["owner"] ELSE files[i].owner
    BY <1>1, <1>2, <1>7, Merged
  <2> HIDE DEF saw
  <2>2. v.op = r.op /\ v.id = i /\ v.todo = r.todo /\ v.seen = r.seen /\ v.saw = saw /\ v.pc = "truncate"
    BY <1>1 DEF Goto, Calls
  <2>3. Set(c, v)
    BY <1>7 DEF ReadToMerge, saw
  <2>4. call'[c] = v /\ \A d \in Callers \ {c} : call'[d] = call[d]
    BY <2>3 DEF Set, TypeInv, CallsInv
  <2> HIDE DEF v, f, i
  <2>5. \A j \in Ids : /\ ~Making(v, j) /\ (Writes(v, j) => j = i) /\ (Wants(v, j) => Wants(r, j))
                       /\ (Claimed(v, j) => Claimed(r, j)) /\ (Refers(v, j) => Refers(r, j))
                       /\ (Targets(v, j) => Targets(r, j)) /\ (Freed(r, j) => Freed(v, j))
    BY <1>1, <2>2 DEF i, Making, Writes, Wants, Claimed, Refers, Targets, Freed, UpdatingOps
  <2>6. r.op \in {"complete", "delete", "block"} => saw.owner = files[i].owner
    <3>1. 1 \in DOMAIN r.todo
      BY <1>1 DEF Calls
    <3>2. r.op \in {"complete", "delete", "block"} => "owner" \notin DOMAIN r.todo[1].patch
      BY <1>1, <3>1 DEF CallOK, TodoOK
    <3> QED BY <2>1, <3>2
  <2>7. r.op = "claim" => c \in Workers /\ Wants(r, i) /\ Wants(v, i)
    BY <1>1, <2>2 DEF CallOK, WorkerOps, Wants, i
  <2>8. r.op = "unassign" => c \in Tools /\ Targets(r, i)
    <3>1. SUFFICES ASSUME r.op = "unassign" PROVE c \in Tools /\ Targets(r, i)
      OBVIOUS
    <3>2. r.todo[1].id = i /\ 1 \in DOMAIN r.todo /\ c \in Tools
      BY <1>1, <3>1 DEF CallOK, TodoOK, Updating, Calls, ToolOps, i
    <3> QED BY <1>1, <3>1, <3>2 DEF Targets
  <2>9. r.op = "claim" => saw.owner \in {c, files[i].owner}
    <3>1. SUFFICES ASSUME r.op = "claim" PROVE saw.owner \in {c, files[i].owner}
      OBVIOUS
    <3>2. r.todo \in {<<Own(c, r), Start(r)>>, <<Start(r)>>}
      BY <1>1, <3>1 DEF CallOK, ClaimOK
    <3>3. \A a, b : <<a, b>>[1] = a /\ <<b>>[1] = b
      OBVIOUS
    <3>4. r.todo[1].patch \in {Patch("owner", c), Patch("status", "in_progress")}
      BY <3>2, <3>3 DEF Own, Start, Update
    <3>5. Patch("owner", c)["owner"] = c /\ "owner" \notin DOMAIN Patch("status", "in_progress")
      BY DEF Patch
    <3> QED BY <2>1, <3>4, <3>5
  <2>10. /\ SameMaking /\ SameWants /\ SameHas /\ SameTargets /\ Emptied
    BY <1>1, <2>4, <2>5 DEF SameMaking, SameWants, SameHas, SameMine, SameTargets, Emptied
  <2>11. SameRefers /\ SameUnassigns
    BY <2>2, <2>4, <2>5 DEF SameRefers, SameUnassigns
  <2>12. ASSUME NEW w \in Workers, NEW j \in Ids, Has(w, j)' PROVE Has(w, j)
    BY <2>10, <2>12, Named DEF Has, SameHas, SameMine
  <2>13. ASSUME NEW d \in Callers, NEW j \in Ids, Writes(call'[d], j)
         PROVE  (d = c /\ j = i) \/ (d # c /\ Writes(call[d], j) /\ call'[d] = call[d])
    BY <2>4, <2>5, <2>13
  <2>14. WriteInv'
    <3> SUFFICES ASSUME NEW d \in Callers, NEW j \in Ids, Writes(call'[d], j)
                 PROVE  /\ call'[d].pc = "write" => files'[j].kind # "task"
                        /\ files'[j].kind = "task" /\ ~Wants(call'[d], j) /\ call'[d].op # "unassign" =>
                             call'[d].saw.owner = files'[j].owner
      BY DEF WriteInv
    <3>1. CASE d = c /\ j = i
      BY <1>1, <2>2, <2>4, <2>6, <2>7, <3>1 DEF UpdatingOps
    <3>2. CASE d # c /\ Writes(call[d], j) /\ call'[d] = call[d]
      BY <1>1, <3>2 DEF Apart, WriteInv
    <3> QED BY <2>13, <3>1, <3>2
  <2>15. HasInv'
    <3> SUFFICES ASSUME NEW w \in Workers, NEW j \in Ids, Has(w, j)'
                 PROVE  /\ files'[j].kind = "task" => files'[j].owner = w
                        /\ \A d \in Callers : Writes(call'[d], j) => call'[d].saw.owner = w
                        /\ \A u \in Workers \ {w} : mine'[u] # j /\ ~Wants(call'[u], j)
      BY DEF HasInv
    <3>1. Has(w, j)
      BY <2>12
    <3>2. ASSUME NEW u \in Workers \ {w} PROVE mine'[u] # j /\ ~Wants(call'[u], j)
      <4>1. mine[u] # j /\ ~Wants(call[u], j)
        BY <3>1 DEF Apart, HasInv
      <4> QED BY <1>1, <2>4, <2>5, <4>1, Named
    <3>3. ASSUME NEW d \in Callers, Writes(call'[d], j) PROVE call'[d].saw.owner = w
      <4>1. CASE d = c /\ j = i
        <5>1. files[i].owner = w
          BY <1>2, <1>7, <3>1, <4>1 DEF Apart, HasInv, i
        <5>2. r.op # "unassign"
          BY <2>8, <3>1, <4>1 DEF Apart, TargetInv
        <5>3. r.op = "claim" => c = w
          BY <2>7, <3>1, <4>1 DEF Apart, HasInv
        <5> QED BY <1>1, <2>2, <2>4, <2>6, <2>9, <4>1, <5>1, <5>2, <5>3 DEF UpdatingOps
      <4>2. CASE d # c /\ Writes(call[d], j) /\ call'[d] = call[d]
        BY <3>1, <4>2 DEF Apart, HasInv
      <4> QED BY <2>13, <3>3, <4>1, <4>2
    <3>4. files[j].kind = "task" => files[j].owner = w
      BY <3>1 DEF Apart, HasInv
    <3> QED BY <1>1, <3>2, <3>3, <3>4
  <2>16. TargetInv'
    <3> SUFFICES ASSUME NEW t \in Tools, NEW j \in Ids, Targets(call'[t], j)
                 PROVE  /\ \A w \in Workers : ~Has(w, j)' /\ ~Wants(call'[w], j)
                        /\ ~Freed(call'[t], j) =>
                             /\ files'[j].kind = "task" => files'[j].owner \in crashed'
                             /\ \A d \in Callers \ {t} : Writes(call'[d], j) => call'[d].saw.owner \in crashed'
      BY DEF TargetInv
    <3>1. Targets(call[t], j) /\ (Freed(call[t], j) => Freed(call'[t], j))
      BY <2>10, Named DEF SameTargets
    <3>2. /\ \A w \in Workers : ~Has(w, j) /\ ~Wants(call[w], j)
          /\ ~Freed(call[t], j) =>
               /\ files[j].kind = "task" => files[j].owner \in crashed
               /\ \A d \in Callers \ {t} : Writes(call[d], j) => call[d].saw.owner \in crashed
      BY <3>1 DEF Apart, TargetInv
    <3>3. \A w \in Workers : ~Has(w, j)' /\ ~Wants(call'[w], j)
      BY <2>4, <2>5, <2>12, <3>2, Named
    <3>4. ASSUME ~Freed(call'[t], j), NEW d \in Callers \ {t}, Writes(call'[d], j)
          PROVE  call'[d].saw.owner \in crashed
      <4>1. CASE d = c /\ j = i
        <5>1. files[i].owner \in crashed
          BY <1>2, <1>7, <3>1, <3>2, <3>4, <4>1 DEF i
        <5>2. r.op # "claim"
          BY <2>7, <3>2, <4>1
        <5>3. r.op # "unassign"
          BY <2>8, <3>1, <4>1 DEF Apart, OneUnassigns, Targets
        <5> QED BY <1>1, <2>2, <2>4, <2>6, <4>1, <5>1, <5>2, <5>3 DEF UpdatingOps
      <4>2. CASE d # c /\ Writes(call[d], j) /\ call'[d] = call[d]
        BY <3>1, <3>2, <3>4, <4>2
      <4> QED BY <2>13, <3>4, <4>1, <4>2
    <3> QED BY <1>1, <3>1, <3>2, <3>3, <3>4
  <2>17. FreshInv'
    BY <1>4, <2>10, <2>11, KeepsFresh DEF SameHas
  <2> QED BY <2>10, <2>11, <2>14, <2>15, <2>16, <2>17, KeepsWants, KeepsOne DEF Apart
<1> QED BY <1>6, <1>7

\* A new task: there was nothing of its number.
LEMMA BornKeeps ==
  ASSUME TypeInv, Apart, NEW c \in Callers, Write(c), call[c].op = "create"
  PROVE  Apart'
<1> DEFINE r == call[c]
           i == r.id
           v == Goto(c, "unlock")
<1>1. r \in Calls /\ r.pc = "write" /\ Set(c, v) /\ UNCHANGED <<mine, crashed, uses>>
  BY CallFacts DEF Write, At
<1>2. v.op = r.op /\ v.id = r.id /\ v.todo = r.todo /\ v.seen = r.seen /\ v.saw = r.saw /\ v.pc = "unlock"
  BY <1>1 DEF Goto, Calls
<1>3. call'[c] = v /\ \A d \in Callers \ {c} : call'[d] = call[d]
  BY <1>1 DEF Set, TypeInv, CallsInv
<1> HIDE DEF v
<1>4. \A j \in Ids \ {i} : files'[j] = files[j]
  BY DEF Write, TypeInv, StateInv
<1>5. \A j \in Ids : /\ ~Making(v, j) /\ ~Writes(v, j) /\ ~Wants(v, j) /\ ~Claimed(v, j) /\ ~Targets(v, j)
                     /\ Refers(v, j) => Refers(r, j)
  BY <1>2 DEF Making, Writes, Wants, Claimed, Targets, Refers
<1>6. i \in Ids => Making(r, i)
  BY <1>1 DEF Making
<1>7. i \in Ids => /\ uses[i] # 0 /\ \A w \in Workers : mine[w] # i
                   /\ \A d \in Callers : ~Refers(call[d], i)
  BY <1>6 DEF Apart, FreshInv, Unborn
<1>8. ASSUME NEW d \in Callers, NEW j \in Ids
      PROVE  /\ Writes(call'[d], j) => Writes(call[d], j) /\ call'[d] = call[d] /\ j # i
             /\ Wants(call'[d], j) => Wants(call[d], j) /\ call'[d] = call[d] /\ j # i
             /\ Claimed(call'[d], j) => Claimed(call[d], j) /\ j # i
             /\ Targets(call'[d], j) => Targets(call[d], j) /\ call'[d] = call[d] /\ j # i
  <2>1. ~Refers(call[d], j) => ~Writes(call[d], j) /\ ~Wants(call[d], j) /\ ~Claimed(call[d], j) /\ ~Targets(call[d], j)
    BY DEF Refers, Writes, Wants, Claimed, Targets
  <2> QED BY <1>3, <1>5, <1>7, <2>1
<1>9. FreshInv'
  <2>1. SameMaking /\ SameRefers /\ SameMine
    BY <1>1, <1>3, <1>5 DEF SameMaking, SameRefers, SameMine
  <2>2. \A d \in Callers, j \in Ids : Making(call'[d], j) => uses'[j] # 0
    BY <2>1 DEF SameMaking, Apart, FreshInv
  <2>3. ASSUME NEW j \in Ids, Unborn(j)'
        PROVE  /\ files'[j].kind # "task"
               /\ \A w \in Workers : mine'[w] # j
               /\ \A d \in Callers : ~Refers(call'[d], j)
    <3>1. j # i
      <4> SUFFICES ASSUME j = i PROVE FALSE
        OBVIOUS
      <4>1. PICK d \in Callers : Making(call'[d], i)
        BY <1>1, <1>7, <2>3 DEF Unborn
      <4>2. d # c /\ Making(call[d], i)
        BY <1>3, <1>5, <4>1
      <4>3. Holds(lock, c, r) /\ Holds(lock, d, call[d])
        BY CallFacts
      <4> QED BY <1>1, <4>2, <4>3 DEF Making, Holds
    <3>2. Unborn(j)
      BY <2>1, <2>3 DEF Unborn, SameMaking
    <3>3. files[j].kind # "task" /\ (\A w \in Workers : mine[w] # j) /\ \A d \in Callers : ~Refers(call[d], j)
      BY <3>2 DEF Apart, FreshInv
    <3> QED BY <1>1, <1>3, <1>4, <1>5, <3>1, <3>3
  <2> QED BY <2>2, <2>3 DEF FreshInv
<1>10. \A w \in Workers, j \in Ids : Has(w, j)' => Has(w, j) /\ j # i
  BY <1>1, <1>7, <1>8, Named DEF Has
<1>11. WriteInv'
  BY <1>4, <1>8 DEF Apart, WriteInv
<1>12. HasInv'
  <2> SUFFICES ASSUME NEW w \in Workers, NEW j \in Ids, Has(w, j)'
               PROVE  /\ files'[j].kind = "task" => files'[j].owner = w
                      /\ \A d \in Callers : Writes(call'[d], j) => call'[d].saw.owner = w
                      /\ \A u \in Workers \ {w} : mine'[u] # j /\ ~Wants(call'[u], j)
    BY DEF HasInv
  <2>1. Has(w, j) /\ j # i
    BY <1>10
  <2> QED BY <1>1, <1>4, <1>8, <2>1, Named DEF Apart, HasInv
<1>13. WantsInv'
  BY <1>3, <1>4, <1>8, Named DEF Apart, WantsInv
<1>14. TargetInv'
  <2> SUFFICES ASSUME NEW t \in Tools, NEW j \in Ids, Targets(call'[t], j)
               PROVE  /\ \A w \in Workers : ~Has(w, j)' /\ ~Wants(call'[w], j)
                      /\ ~Freed(call'[t], j) =>
                           /\ files'[j].kind = "task" => files'[j].owner \in crashed'
                           /\ \A d \in Callers \ {t} : Writes(call'[d], j) => call'[d].saw.owner \in crashed'
    BY DEF TargetInv
  <2>1. Targets(call[t], j) /\ call'[t] = call[t] /\ j # i
    BY <1>8, Named
  <2> QED BY <1>1, <1>4, <1>8, <1>10, <2>1, Named DEF Apart, TargetInv
<1>15. OneUnassigns'
  BY <1>2, <1>3, Named DEF Apart, OneUnassigns
<1> QED BY <1>9, <1>11, <1>12, <1>13, <1>14, <1>15 DEF Apart

\* A file is written: by one that does not claim it, what it held before, or, by
\* an unassignment, nobody as its owner.
LEMMA WriteKeeps ==
  ASSUME TypeInv, Apart, NEW c \in Callers, Write(c), call[c].op # "create"
  PROVE  Apart'
<1> DEFINE r == call[c]
           i == r.id
           v == Goto(c, "unlock")
<1>1. r.pc = "write" /\ CallOK(c, r) /\ r \in Calls /\ Set(c, v) /\ UNCHANGED <<mine, crashed, uses>>
  BY CallFacts DEF Write, At
<1>2. v.op = r.op /\ v.id = r.id /\ v.todo = r.todo /\ v.seen = r.seen /\ v.saw = r.saw /\ v.pc = "unlock"
  BY <1>1 DEF Goto, Calls
<1>3. call'[c] = v /\ \A d \in Callers \ {c} : call'[d] = call[d]
  BY <1>1 DEF Set, TypeInv, CallsInv
<1> HIDE DEF v
<1>4. r.op \in UpdatingOps /\ i \in Ids /\ r.pc \in Holding
  <2>1. r.op \in UpdatingOps
    BY <1>1 DEF CallOK, PointOK
  <2> QED BY <1>1, <2>1 DEF CallOK, UpdatingOps, Holding
<1>5. (files'[i] = files[i] \/ files'[i] = r.saw) /\ \A j \in Ids \ {i} : files'[j] = files[j]
  BY <1>4 DEF Write, TypeInv, StateInv
<1>6. files[i].kind # "task" /\ Writes(r, i) /\ Refers(r, i)
  BY <1>1, <1>4 DEF Apart, WriteInv, Writes, Refers
<1>7. CASE r.op = "claim"
  <2>1. c \in Workers /\ Wants(r, i)
    BY <1>1, <1>7 DEF CallOK, ClaimOK, WorkerOps, Wants
  <2>2. r.saw.owner = c
    <3>1. CASE Len(r.todo) = 2
      BY <1>1, <1>7, <3>1 DEF CallOK, ClaimOK
    <3>2. CASE Len(r.todo) # 2
      <4>1. \A a, b : Len(<<a, b>>) = 2 /\ Len(<<b>>) = 1
        OBVIOUS
      <4>2. r.todo # <<>> /\ Len(r.todo) = 1
        BY <1>1, <1>7, <3>2, <4>1 DEF CallOK, ClaimOK
      <4>3. Claimed(r, i)
        BY <1>7, <4>2 DEF Claimed
      <4> QED BY <1>4, <1>6, <2>1, <4>3 DEF Apart, HasInv, Has
    <3> QED BY <3>1, <3>2
  <2>3. files'[i].kind = "task" => files'[i].owner = c
    BY <1>5, <1>6, <2>2
  <2> QED BY <1>1, <1>2, <1>4, <1>5, <1>7, <2>1, <2>3, ClaimKeeps
<1>8. CASE r.op # "claim"
  <2>1. Modest(r, v) /\ \A j \in Ids : Refers(v, j) => Refers(r, j)
    <3>1. \A j \in Ids : /\ ~Making(v, j) /\ ~Writes(v, j) /\ ~Wants(v, j) /\ ~Claimed(v, j)
                         /\ Targets(v, j) => Targets(r, j)
                         /\ ~Freed(r, j) /\ (Refers(v, j) => Refers(r, j))
      BY <1>1, <1>2, <1>8 DEF Making, Writes, Wants, Claimed, Targets, Freed, Refers
    <3> QED BY <1>2, <3>1 DEF Modest
  <2>2. \A j \in Ids : ~Writes(v, j) /\ ~Wants(v, j) /\ ~Claimed(v, j)
    BY <1>2, <1>8 DEF Writes, Wants, Claimed
  <2>3. SameMaking /\ SameMine /\ SameRefers
    BY <1>1, <1>3, <2>1 DEF SameMaking, SameMine, SameRefers, Modest
  <2>4. ASSUME NEW d \in Callers, NEW j \in Ids, Writes(call'[d], j)
        PROVE  Writes(call[d], j) /\ call'[d] = call[d] /\ j # i
    <3>1. Writes(call[d], j) /\ call'[d] = call[d] /\ d # c
      BY <1>3, <2>2, <2>4
    <3>2. call[d].op \notin {"create", "reset"} /\ call[d].pc \in Holding /\ call[d].id = j
      <4>1. call[d].pc \in {"truncate", "write"} /\ call[d].op # "create" /\ call[d].id = j
        BY <3>1 DEF Writes
      <4> QED BY <4>1, CallFacts DEF CallOK, PointOK, Holding, UpdatingOps
    <3>3. r.op \notin {"create", "reset"}
      BY <1>4 DEF UpdatingOps
    <3> QED BY <1>4, <3>1, <3>2, <3>3, LockedAlone
  <2>5. ASSUME NEW w \in Workers, NEW j \in Ids
        PROVE  /\ Has(w, j)' => Has(w, j)
               /\ Wants(call'[w], j) => Wants(call[w], j) /\ call'[w] = call[w]
    BY <1>1, <1>3, <2>2, Named DEF Has
  <2>6. FreshInv'
    <3>1. \A j \in Ids : Unborn(j) => files'[j].kind # "task"
      BY <1>5, <1>6 DEF Apart, FreshInv
    <3> QED BY <2>3, <3>1, KeepsFresh
  <2>7. WriteInv'
    BY <1>5, <2>4 DEF Apart, WriteInv
  <2>8. HasInv'
    <3> SUFFICES ASSUME NEW w \in Workers, NEW j \in Ids, Has(w, j)'
                 PROVE  /\ files'[j].kind = "task" => files'[j].owner = w
                        /\ \A d \in Callers : Writes(call'[d], j) => call'[d].saw.owner = w
                        /\ \A u \in Workers \ {w} : mine'[u] # j /\ ~Wants(call'[u], j)
      BY DEF HasInv
    <3>1. /\ files[j].kind = "task" => files[j].owner = w
          /\ \A d \in Callers : Writes(call[d], j) => call[d].saw.owner = w
          /\ \A u \in Workers \ {w} : mine[u] # j /\ ~Wants(call[u], j)
      BY <2>5 DEF Apart, HasInv
    <3>2. files'[j].kind = "task" => files'[j].owner = w
      BY <1>5, <1>6, <3>1
    <3> QED BY <1>1, <2>4, <2>5, <3>1, <3>2
  <2>9. WantsInv'
    <3> SUFFICES ASSUME NEW w \in Workers, NEW j \in Ids, Wants(call'[w], j), ~Claimed(call'[w], j),
                        files'[j].kind = "task"
                 PROVE  files'[j].owner \in {Nobody, w}
      BY DEF WantsInv
    <3>1. Wants(call[w], j) /\ ~Claimed(call[w], j)
      BY <2>5
    <3>2. j # i
      <4> SUFFICES ASSUME j = i PROVE FALSE
        OBVIOUS
      <4>1. call[w].pc \in Holding
        BY <3>1, WantsUnlocked
      <4>2. call[w].op = "claim" /\ call[w].id = i
        BY <3>1 DEF Wants
      <4> QED BY <1>4, <1>8, <4>1, <4>2, LockedAlone, Named DEF UpdatingOps
    <3> QED BY <1>5, <3>1, <3>2 DEF Apart, WantsInv
  <2>10. TargetInv'
    <3> SUFFICES ASSUME NEW t \in Tools, NEW j \in Ids, Targets(call'[t], j)
                 PROVE  /\ \A w \in Workers : ~Has(w, j)' /\ ~Wants(call'[w], j)
                        /\ ~Freed(call'[t], j) =>
                             /\ files'[j].kind = "task" => files'[j].owner \in crashed'
                             /\ \A d \in Callers \ {t} : Writes(call'[d], j) => call'[d].saw.owner \in crashed'
      BY DEF TargetInv
    <3>1. Targets(call[t], j) /\ (Freed(call[t], j) => Freed(call'[t], j))
      BY <1>3, <2>1, Named DEF Modest
    <3>2. /\ \A w \in Workers : ~Has(w, j) /\ ~Wants(call[w], j)
          /\ ~Freed(call[t], j) =>
               /\ files[j].kind = "task" => files[j].owner \in crashed
               /\ \A d \in Callers \ {t} : Writes(call[d], j) => call[d].saw.owner \in crashed
      BY <3>1 DEF Apart, TargetInv
    <3>3. ASSUME ~Freed(call'[t], j), files'[j].kind = "task" PROVE files'[j].owner \in crashed'
      <4>1. CASE j # i
        BY <1>1, <1>5, <3>1, <3>2, <3>3, <4>1
      <4>2. CASE j = i
        <5>1. t # c
          BY <1>2, <1>3, <3>3, <4>2 DEF Freed
        <5>2. ~Freed(call[t], j)
          BY <3>1, <3>3
        <5>3. r.saw.owner \in crashed
          BY <1>6, <3>2, <4>2, <5>1, <5>2
        <5> QED BY <1>1, <1>5, <1>6, <3>3, <4>2, <5>3
      <4> QED BY <4>1, <4>2
    <3> QED BY <1>1, <2>4, <2>5, <3>1, <3>2, <3>3
  <2>11. OneUnassigns'
    BY <1>2, <1>3, Named DEF Apart, OneUnassigns
  <2> QED BY <2>6, <2>7, <2>8, <2>9, <2>10, <2>11 DEF Apart
<1> QED BY <1>7, <1>8

-----------------------------------------------------------------------------
(* The invariant.                                                          *)

LEMMA ApartInit == Init => Apart
<1> SUFFICES ASSUME Init PROVE Apart
  OBVIOUS
<1>1. call = [c \in Callers |-> NoCall] /\ mine = [w \in Workers |-> 0]
  BY DEF Init
<1>2. \A i \in Ids : uses[i] = 0 => files[i] = Absent
  BY DEF Init
<1> HIDE DEF Init
<1>3. /\ NoCall.op = "none" /\ NoCall.todo = <<>> /\ \A i \in Ids : ~Refers(NoCall, i)
  BY NoCallIsBlank DEF NoCall
<1>4. \A c \in Callers : call[c] = NoCall
  BY <1>1
<1>5. \A c \in Callers, i \in Ids : /\ ~Making(call[c], i) /\ ~Writes(call[c], i) /\ ~Wants(call[c], i)
                                    /\ ~Claimed(call[c], i) /\ ~Targets(call[c], i) /\ ~Refers(call[c], i)
  <2>1. \A i \in Ids : ~Writes(NoCall, i)
    BY DEF NoCall, Writes
  <2> QED BY <1>3, <1>4, <2>1 DEF Making, Wants, Claimed, Targets
<1>6. \A w \in Workers, i \in Ids : mine[w] # i /\ ~Has(w, i)
  BY <1>1, <1>5, Named DEF Has
<1>7. FreshInv
  BY <1>2, <1>5, <1>6, TypeOfAbsent DEF FreshInv, Unborn
<1>8. OneUnassigns
  BY <1>3, <1>4, Named DEF OneUnassigns
<1> QED BY <1>5, <1>6, <1>7, <1>8, Named DEF Apart, WriteInv, HasInv, WantsInv, TargetInv

LEMMA ApartNext == TypeInv /\ Apart /\ ~raced' /\ NumberInv' /\ [Next]_vars => Apart'
<1> SUFFICES ASSUME TypeInv, Apart, ~raced', NumberInv', [Next]_vars PROVE Apart'
  OBVIOUS
<1>1. Quiet => Apart'
  BY QuietKeepsApart DEF TypeInv, StateInv
<1>2. ~raced' /\ \A i \in Ids : uses'[i] <= 1
  BY DEF NumberInv
<1>3. ASSUME NEW w \in Workers, WorkerStep(w) PROVE Apart'
  BY <1>1, <1>3, PollQuiet, RereadKeeps, DecideQuiet, CompleteQuiet DEF WorkerStep
<1>4. ASSUME NEW t \in Tools, Call(t) PROVE Apart'
  BY <1>1, <1>2, <1>4, CallQuiet, BlockQuiet, UnassignKeeps DEF Call
<1>5. ASSUME NEW t \in Tools, ToolStep(t) \/ AcquireList(t) PROVE Apart'
  BY <1>1, <1>5, ToolStepQuiet, ListedQuiet, AcquireListQuiet DEF ToolStep
<1>6. ASSUME NEW c \in Callers, FileStep(c) PROVE Apart'
  <2>1. CASE ReadOne(c)
    BY <1>1, <2>1, ReadOneQuiet, ReadOneKeeps
  <2>2. CASE Missing(c)
    BY <1>1, <2>2, EndQuiet DEF Missing
  <2>3. CASE Truncate(c)
    BY <1>1, <1>2, <2>3, TruncateQuiet, CreatedKeeps
  <2>4. CASE Write(c)
    BY <2>4, BornKeeps, WriteKeeps
  <2>5. CASE Precheck(c) \/ Unlock(c)
    BY <1>1, <2>5, PrecheckQuiet, UnlockQuiet
  <2>6. CASE ReadToMerge(c)
    BY <2>6, MergeKeeps
  <2> QED BY <1>6, <2>1, <2>2, <2>3, <2>4, <2>5, <2>6 DEF FileStep
<1>7. ASSUME NEW c \in Callers, Acquire(c) \/ GiveUp(c) \/ Crash(c) PROVE Apart'
  <2>1. CASE GiveUp(c)
    BY <1>1, <2>1, EndQuiet DEF GiveUp
  <2> QED BY <1>1, <1>7, <2>1, AcquireQuiet, CrashQuiet
<1>8. CASE UNCHANGED vars
  <2>1. SameMaking /\ SameWants /\ SameTargets /\ SameRefers /\ Emptied /\ SameUnassigns
    BY <1>8 DEF vars, SameMaking, SameWants, SameTargets, SameRefers, Emptied, SameUnassigns
  <2>2. SameWrites /\ SameHas
    BY <1>8 DEF vars, SameWrites, SameHas, SameMine
  <2> QED BY <1>1, <2>1, <2>2 DEF Quiet
<1> QED BY <1>3, <1>4, <1>5, <1>6, <1>7, <1>8 DEF Next

LEMMA InvInit == Init => Inv
  BY NumberedInit, ApartInit DEF Inv

LEMMA InvNext == Inv /\ [Next]_vars => Inv'
<1> SUFFICES ASSUME Inv, [Next]_vars PROVE Inv'
  OBVIOUS
<1>1. Numbered'
  BY NumberedNext DEF Inv
<1>2. ASSUME ~raced' PROVE Apart'
  <2>1. TypeInv /\ ~raced
    BY <1>2, RacedStays DEF Inv, Numbered
  <2> QED BY <1>1, <1>2, <2>1, ApartNext DEF Inv, Numbered
<1> QED BY <1>1, <1>2 DEF Inv

\* No two workers that went through claimTask() (src/src/utils/tasks.ts:541) work on
\* the same task, whoever crashed and was unassigned in between.
THEOREM WorkersApart == Spec => []OneWorker
<1>1. Inv => OneWorker
  <2> SUFFICES ASSUME Inv, ~raced, NEW v \in Workers, NEW w \in Workers, v # w, mine[v] # 0
               PROVE  mine[v] # mine[w]
    BY DEF OneWorker
  <2>1. HasInv /\ mine[v] \in Ids
    BY DEF Inv, Numbered, Apart, TypeInv, StateInv
  <2>2. Has(v, mine[v])
    BY DEF Has
  <2> QED BY <2>1, <2>2 DEF HasInv
<1> QED BY <1>1, InvInit, InvNext, PTL DEF Spec

-----------------------------------------------------------------------------
(* What is completed stays so.                                             *)

\* Only a worker completes, with one update; what a creation writes is not completed.
StatusOK(r) ==
  /\ r.op = "complete" => Len(r.todo) = 1 /\ r.todo[1].patch = Patch("status", "completed")
  /\ r.op # "complete" =>
       \A n \in DOMAIN r.todo : "status" \in DOMAIN r.todo[n].patch => r.todo[n].patch["status"] # "completed"
  /\ r.op \in {"delete", "block"} => \A n \in DOMAIN r.todo : "status" \notin DOMAIN r.todo[n].patch
  /\ r.pc \in {"truncate", "write"} => r.saw.kind = "task" /\ (r.op = "create" => r.saw.status # "completed")

\* Neither is the task completed, nor is anybody going to write that it is.
Undone(i) ==
  /\ ~IsCompleted(files[i])
  /\ \A c \in Callers : Writes(call[c], i) => call[c].saw.status # "completed"

\* A worker completes the task it works on.
OwnInv == \A w \in Workers : call[w].op = "complete" => mine[w] = call[w].id

\* A file that is gone, or of a task that was not yet made, remembers nothing.
GoneInv ==
  /\ \A i \in Ids : files[i].kind = "absent" => files[i].status # "completed"
  /\ \A i \in Ids : Unborn(i) => ~IsCompleted(files[i])

\* Who claims a task, or is going to free it, does not find it completed.
UndoneInv ==
  /\ \A w \in Workers, i \in Ids : Wants(call[w], i) => Undone(i)
  /\ \A t \in Tools, i \in Ids : Targets(call[t], i) => Undone(i)

\* What is written agrees with the file, unless it completes the task.
AgreeInv ==
  \A c \in Callers, i \in Ids : Writes(call[c], i) =>
    /\ IsCompleted(files[i]) => call[c].saw.status = "completed"
    /\ files[i].kind = "task" /\ call[c].saw.status = "completed" =>
         IsCompleted(files[i]) \/ call[c].op = "complete"

StatusInv == \A c \in Callers : StatusOK(call[c])

-----------------------------------------------------------------------------
(* Who completes a task, and what the other calls write.                   *)

Settled == StatusInv /\ OwnInv

LEMMA SettledCall ==
  ASSUME TypeInv, Settled, NEW c \in Callers, NEW v, Set(c, v), StatusOK(v),
         v.op = "complete" => c \in Workers /\ mine'[c] = v.id,
         \A w \in Workers \ {c} : mine'[w] = mine[w]
  PROVE  Settled'
<1>1. call'[c] = v /\ \A d \in Callers \ {c} : call'[d] = call[d]
  BY DEF TypeInv, CallsInv, Set
<1>2. \A d \in Callers : StatusOK(call'[d])
  BY <1>1 DEF Settled, StatusInv
<1>3. \A w \in Workers : call'[w].op = "complete" => mine'[w] = call'[w].id
  BY <1>1, Named DEF Settled, OwnInv
<1> QED BY <1>2, <1>3 DEF Settled, StatusInv, OwnInv, StatusOK

\* A call that only moves on.
LEMMA SettledMoved ==
  ASSUME TypeInv, Settled, NEW c \in Callers, NEW v, Set(c, v), v.op = call[c].op, v.todo = call[c].todo,
         v.op = "complete" => v.id = call[c].id,
         v.pc \in {"truncate", "write"} => call[c].pc \in {"truncate", "write"} /\ v.saw = call[c].saw,
         mine' = mine
  PROVE  Settled'
<1>1. StatusOK(call[c])
  BY DEF Settled, StatusInv
<1>2. StatusOK(v)
  BY <1>1 DEF StatusOK
<1>3. v.op = "complete" => c \in Workers /\ mine'[c] = v.id
  BY CallFacts DEF CallOK, WorkerOps, Settled, OwnInv
<1> QED BY <1>2, <1>3, SettledCall

\* A call that has no updates to make.
LEMMA SettledEmpty ==
  ASSUME TypeInv, Settled, NEW c \in Callers, NEW v, Set(c, v), v.todo = <<>>, v.op # "complete",
         v.pc \in {"truncate", "write"} => v.saw.kind = "task" /\ v.saw.status # "completed",
         \A w \in Workers \ {c} : mine'[w] = mine[w]
  PROVE  Settled'
<1>1. StatusOK(v)
  BY DEF StatusOK
<1> QED BY <1>1, SettledCall

LEMMA SettledEnd ==
  ASSUME TypeInv, Settled, NEW c \in Callers, Set(c, NoCall), \A w \in Workers \ {c} : mine'[w] = mine[w]
  PROVE  Settled'
<1>1. NoCall.todo = <<>> /\ NoCall.op = "none" /\ NoCall.pc = "idle"
  BY DEF NoCall
<1> QED BY <1>1, SettledEmpty

\* One that has made an update.
LEMMA SettledGoesOn ==
  ASSUME TypeInv, Settled, NEW c \in Callers, call[c].pc \in {"precheck", "unlock"},
         Set(c, Continue(call[c], Rest(call[c]))), mine' = Returned(c, Rest(call[c]))
  PROVE  Settled'
<1> DEFINE r == call[c]
           todo == Rest(r)
           v == Continue(r, todo)
<1>1. CallOK(c, r) /\ r \in Calls /\ r.todo \in Seq(Updates) /\ StatusOK(r)
  BY CallFacts DEF Settled, StatusInv
<1>2. \A w \in Workers \ {c} : mine'[w] = mine[w]
  BY DEF Returned, Started, TypeInv, StateInv
<1>3. CASE todo = <<>>
  BY <1>2, <1>3, SettledEnd DEF Continue
<1>4. CASE todo # <<>>
  <2>1. r.op \notin {"create", "reset"} /\ r.pc \in Updating
    BY <1>1, <1>4 DEF CallOK, TodoOK, Rest, Updating
  <2>2. \A n \in DOMAIN todo : n + 1 \in DOMAIN r.todo /\ todo[n] = r.todo[n + 1]
    BY <1>1, <2>1, RestOfTodo
  <2>3. r.op # "complete"
    <3>1. ASSUME Len(r.todo) = 1 PROVE Tail(r.todo) = <<>>
      <4>1. r.todo # <<>>
        BY <1>4 DEF Rest
      <4>2. Tail(r.todo) \in Seq(Updates) /\ Len(Tail(r.todo)) = 0
        BY <1>1, <3>1, <4>1
      <4> QED BY <4>2, EmptySeq
    <3> QED BY <1>1, <1>4, <3>1 DEF StatusOK, Rest
  <2>4. v.op = r.op /\ v.todo = todo /\ v.pc = "precheck"
    BY <1>1, <1>4 DEF Continue, Calls
  <2> HIDE DEF v, todo
  <2>5. \A n \in DOMAIN v.todo : \E m \in DOMAIN r.todo : v.todo[n] = r.todo[m]
    BY <2>2, <2>4
  <2>6. StatusOK(v)
    BY <1>1, <2>1, <2>3, <2>4, <2>5 DEF StatusOK
  <2>7. Set(c, v)
    BY DEF v, todo
  <2> QED BY <1>2, <2>3, <2>4, <2>6, <2>7, SettledCall
<1> QED BY <1>3, <1>4

LEMMA SettledWorker == ASSUME TypeInv, Settled, NEW w \in Workers, WorkerStep(w) PROVE Settled'
<1> DEFINE r == call[w]
<1>1. CallOK(w, r) /\ r \in Calls /\ w \in Callers
  BY CallFacts, Named
<1>2. CASE Poll(w)
  <2>1. PICK i \in Ids : Set(w, [NoCall EXCEPT !.op = "claim", !.pc = "precheck", !.id = i])
    BY <1>2 DEF Poll, Available
  <2> DEFINE v == [NoCall EXCEPT !.op = "claim", !.pc = "precheck", !.id = i]
  <2>2. v.op = "claim" /\ v.todo = <<>> /\ v.pc = "precheck"
    BY DEF NoCall
  <2>3. Set(w, v) /\ mine' = mine
    BY <1>2, <2>1 DEF Poll
  <2> HIDE DEF v
  <2> QED BY <1>1, <2>2, <2>3, SettledEmpty
<1>3. CASE Reread(w)
  <2>1. PICK v : /\ Set(w, v)
                 /\ \/ v = [Goto(w, "blockers") EXCEPT !.saw = files[r.id], !.rest = Names \cap files[r.id].blockedBy]
                    \/ v = Goto(w, "unlock")
    BY <1>3 DEF Reread
  <2>2. v.op = r.op /\ v.todo = r.todo /\ v.id = r.id /\ v.pc \in {"blockers", "unlock"}
    BY <1>1, <2>1 DEF Goto, Calls
  <2> QED BY <1>1, <1>3, <2>1, <2>2, SettledMoved DEF Reread
<1>4. CASE Decide(w)
  <2> DEFINE v == [Goto(w, "merge") EXCEPT !.seen = NoCall.seen, !.todo = <<Own(w, r), Start(r)>>]
             u == Goto(w, "unlock")
  <2>1. r.op = "claim"
    BY <1>1, <1>4 DEF Decide, At, CallOK, PointOK, Updating
  <2>2. v.op = "claim" /\ v.todo = <<Own(w, r), Start(r)>> /\ v.pc = "merge"
    BY <1>1, <2>1 DEF Goto, Calls
  <2>3. u.op = r.op /\ u.id = r.id /\ u.todo = r.todo /\ u.pc = "unlock"
    BY <1>1 DEF Goto, Calls
  <2>4. Set(w, v) \/ Set(w, u)
    BY <1>4 DEF Decide, Own, Start
  <2> HIDE DEF v, u
  <2>5. StatusOK(v)
    <3>1. \A a, b : \A n \in DOMAIN <<a, b>> : <<a, b>>[n] \in {a, b}
      OBVIOUS
    <3>2. "status" \notin DOMAIN Own(w, r).patch /\ Start(r).patch["status"] # "completed"
      BY DEF Own, Start, Update, Patch
    <3>3. \A n \in DOMAIN v.todo : v.todo[n] \in {Own(w, r), Start(r)}
      BY <2>2, <3>1
    <3> QED BY <2>2, <3>2, <3>3 DEF StatusOK
  <2>6. mine' = mine
    BY <1>4 DEF Decide
  <2>7. CASE Set(w, v)
    BY <1>1, <2>2, <2>5, <2>6, <2>7, SettledCall
  <2>8. CASE Set(w, u)
    BY <1>1, <2>3, <2>6, <2>8, SettledMoved
  <2> QED BY <2>4, <2>7, <2>8
<1>5. CASE Complete(w)
  <2> DEFINE z == [NoCall EXCEPT !.op = "complete"]
             todo == <<Update(mine[w], Patch("status", "completed"))>>
             v == Continue(z, todo)
  <2>1. todo # <<>> /\ Head(todo).id = mine[w] /\ Len(todo) = 1 /\ todo[1].patch = Patch("status", "completed")
    BY DEF Update
  <2>2. v.op = "complete" /\ v.id = mine[w] /\ v.todo = todo /\ v.pc = "precheck"
    <3>1. NoCall \in Calls
      BY TypeOfNoCall
    <3> HIDE DEF NoCall, todo
    <3>2. v = [z EXCEPT !.pc = "precheck", !.id = Head(todo).id, !.todo = todo, !.saw = Absent, !.rest = {}, !.seen = NoCall.seen]
      BY <2>1 DEF Continue
    <3> QED BY <2>1, <3>1, <3>2 DEF Calls
  <2>3. \/ Set(w, v) /\ mine' = mine
        \/ call' = call /\ mine' = [mine EXCEPT ![w] = 0] /\ r.op = "none"
    <3>1. r.op = "none"
      BY <1>1, <1>5 DEF Complete, At, CallOK, PointOK, Updating
    <3> QED BY <1>5, <3>1 DEF Complete
  <2> HIDE DEF v, todo
  <2>4. CASE Set(w, v) /\ mine' = mine
    <3>1. StatusOK(v)
      BY <2>1, <2>2 DEF StatusOK
    <3> QED BY <1>1, <2>2, <2>4, <3>1, SettledCall
  <2>5. CASE call' = call /\ mine' = [mine EXCEPT ![w] = 0] /\ r.op = "none"
    <3>1. \A x \in Workers : call[x].op = "complete" => mine'[x] = mine[x]
      BY <2>5 DEF TypeInv, StateInv
    <3> QED BY <2>5, <3>1 DEF Settled, StatusInv, OwnInv, StatusOK
  <2> QED BY <2>3, <2>4, <2>5
<1> QED BY <1>2, <1>3, <1>4, <1>5 DEF WorkerStep

LEMMA SettledCalls == ASSUME TypeInv, Settled, NEW t \in Tools, Call(t) PROVE Settled'
<1>1. PICK op, r :
        /\ op \in ToolOps /\ Begin(t, op, r)
        /\ \/ r = [NoCall EXCEPT !.pc = "lockList"]
           \/ \E i \in Ids : r = [NoCall EXCEPT !.pc = "readMark", !.id = i, !.high = i]
           \/ \E i \in Ids, j \in Ids : r = [NoCall EXCEPT !.pc = "list", !.id = i, !.to = j, !.rest = {i, j}]
           \/ \E w \in Workers : r = [Listing(NoCall, "list") EXCEPT !.saw.owner = w]
  <2> DEFINE Some(op, r) ==
        /\ op \in ToolOps /\ Begin(t, op, r)
        /\ \/ r = [NoCall EXCEPT !.pc = "lockList"]
           \/ \E i \in Ids : r = [NoCall EXCEPT !.pc = "readMark", !.id = i, !.high = i]
           \/ \E i \in Ids, j \in Ids : r = [NoCall EXCEPT !.pc = "list", !.id = i, !.to = j, !.rest = {i, j}]
           \/ \E w \in Workers : r = [Listing(NoCall, "list") EXCEPT !.saw.owner = w]
  <2>1. CASE Create(t) \/ Reset(t)
    <3>1. Some("create", [NoCall EXCEPT !.pc = "lockList"]) \/ Some("reset", [NoCall EXCEPT !.pc = "lockList"])
      BY <2>1 DEF Create, Reset, ToolOps
    <3> QED BY <3>1
  <2>2. ASSUME NEW i \in Ids, Delete(t, i) PROVE \E op, r : Some(op, r)
    <3>1. Some("delete", [NoCall EXCEPT !.pc = "readMark", !.id = i, !.high = i])
      BY <2>2 DEF Delete, ToolOps
    <3> QED BY <3>1
  <2>3. ASSUME NEW i \in Ids, NEW j \in Ids, Block(t, i, j) PROVE \E op, r : Some(op, r)
    <3>1. Some("block", [NoCall EXCEPT !.pc = "list", !.id = i, !.to = j, !.rest = {i, j}])
      BY <2>3 DEF Block, ToolOps
    <3> QED BY <3>1
  <2>4. ASSUME NEW w \in Workers, Unassign(t, w) PROVE \E op, r : Some(op, r)
    <3>1. Some("unassign", [Listing(NoCall, "list") EXCEPT !.saw.owner = w])
      BY <2>4 DEF Unassign, ToolOps
    <3> QED BY <3>1
  <2> QED BY <2>1, <2>2, <2>3, <2>4 DEF Call
<1>2. NoCall \in Calls /\ NoCall.todo = <<>>
  BY TypeOfNoCall DEF NoCall
<1> HIDE DEF NoCall
<1>3. r.todo = <<>> /\ r.pc \in {"lockList", "readMark", "list"}
  BY <1>1, <1>2 DEF Calls, Listing
<1> DEFINE v == [r EXCEPT !.op = op]
<1>4. v.op = op /\ v.pc = r.pc /\ v.todo = r.todo
  BY <1>1, <1>2 DEF Calls, Listing
<1>5. Set(t, v) /\ mine' = mine
  BY <1>1 DEF Begin
<1> HIDE DEF v
<1> QED BY <1>1, <1>3, <1>4, <1>5, Named, SettledEmpty DEF ToolOps

LEMMA SettledTool ==
  ASSUME TypeInv, Settled, NEW t \in Tools, ToolStep(t) \/ AcquireList(t)
  PROVE  Settled'
<1> DEFINE r == call[t]
<1>1. t \in Callers /\ r \in Calls /\ CallOK(t, r) /\ mine' = mine
  <2>1. mine' = mine
    BY DEF ToolStep, AcquireList, FindNames, FindMark, ReadMark, EmptyMark, WriteMark, Wipe, Unlink, Listed
  <2> QED BY <2>1, Named, CallFacts
<1>2. CASE AcquireList(t)
  <2> DEFINE v == Goto(t, IF r.op = "create" THEN "find" ELSE "findNames")
  <2>1. v.op = r.op /\ v.id = r.id /\ v.todo = r.todo /\ v.pc \in {"find", "findNames"}
    BY <1>1 DEF Goto, Calls
  <2>2. Set(t, v)
    BY <1>2 DEF AcquireList
  <2> HIDE DEF v
  <2> QED BY <1>1, <2>1, <2>2, SettledMoved
<1>3. CASE Listed(t)
  <2> DEFINE todo == Follows(r)
             v == Continue(r, todo)
  <2>1. /\ Set(t, v) /\ r.op \in {"delete", "block", "unassign"}
        /\ r.op \in {"delete", "block"} => \A n \in DOMAIN todo : {"owner", "status"} \cap DOMAIN todo[n].patch = {}
        /\ r.op = "unassign" => \A n \in DOMAIN todo : todo[n].patch["status"] # "completed"
    BY <1>3, FollowsOK
  <2>2. CASE todo = <<>>
    BY <1>1, <2>1, <2>2, SettledEnd DEF Continue
  <2>3. CASE todo # <<>>
    <3> HIDE DEF todo
    <3>1. v.op = r.op /\ v.todo = todo /\ v.pc = "precheck"
      BY <1>1, <2>3 DEF Continue, Calls
    <3> HIDE DEF v
    <3>2. StatusOK(v)
      BY <2>1, <3>1 DEF StatusOK
    <3> QED BY <1>1, <2>1, <3>1, <3>2, SettledCall
  <2> QED BY <2>2, <2>3
<1>4. CASE ToolStep(t) /\ ~Listed(t)
  <2>1. r.pc \in {"find", "findNames", "findMark", "readMark", "emptyMark", "writeMark", "wipe", "unlink"}
    BY <1>4 DEF ToolStep, FindNames, FindMark, ReadMark, EmptyMark, WriteMark, Wipe, Unlink, At
  <2>2. r.todo = <<>> /\ r.op \in {"create", "reset", "delete"}
    BY <2>1, ToolFacts
  <2>3. PICK v : /\ Set(t, v)
                 /\ \/ \E high : v = Found(t, high)
                    \/ \E high : \E pc \in {"findMark", "findNames"} : v = [r EXCEPT !.pc = pc, !.high = high]
                    \/ \E pc \in {"emptyMark", "writeMark", "unlink", "unlock"} : v = Goto(t, pc)
                    \/ v = Marked(t)
                    \/ \E i \in r.rest : v = [r EXCEPT !.rest = @ \ {i}]
                    \/ v \in {NoCall, Listing(r, "list")}
    <3>1. CASE FindNames(t) \/ FindMark(t)
      BY <3>1 DEF FindNames, FindMark
    <3>2. CASE ReadMark(t) \/ EmptyMark(t) \/ WriteMark(t)
      BY <3>2 DEF ReadMark, EmptyMark, WriteMark
    <3>3. CASE Wipe(t)
      BY <3>3 DEF Wipe
    <3>4. CASE Unlink(t)
      BY <3>4 DEF Unlink
    <3> QED BY <1>4, <3>1, <3>2, <3>3, <3>4 DEF ToolStep
  <2>4. /\ v.todo = <<>> /\ v.op # "complete"
        /\ v.pc \in {"truncate", "write"} => v.saw = NewTask
    <3>1. CASE \E high : v = Found(t, high)
      BY <1>1, <2>2, <3>1 DEF Found, Calls
    <3>2. CASE \/ \E high : \E pc \in {"findMark", "findNames"} : v = [r EXCEPT !.pc = pc, !.high = high]
               \/ \E pc \in {"emptyMark", "writeMark", "unlink", "unlock"} : v = Goto(t, pc)
               \/ v = Marked(t)
               \/ \E i \in r.rest : v = [r EXCEPT !.rest = @ \ {i}]
      BY <1>1, <2>1, <2>2, <3>2 DEF Marked, Goto, Calls
    <3>3. CASE v = Listing(r, "list")
      <4> HIDE DEF NoCall
      <4> QED BY <1>1, <2>2, <3>3 DEF Listing, Calls
    <3>4. CASE v = NoCall
      BY <3>4 DEF NoCall
    <3> QED BY <2>3, <3>1, <3>2, <3>3, <3>4
  <2>5. NewTask.kind = "task" /\ NewTask.status # "completed"
    BY DEF NewTask, Absent
  <2> QED BY <1>1, <2>3, <2>4, <2>5, SettledEmpty
<1> QED BY <1>2, <1>3, <1>4

LEMMA SettledFile ==
  ASSUME TypeInv, Settled, NEW c \in Callers, FileStep(c) \/ Acquire(c) \/ GiveUp(c) \/ Crash(c)
  PROVE  Settled'
<1> DEFINE r == call[c]
<1>1. r \in Calls /\ CallOK(c, r)
  BY CallFacts
<1>2. \A pc : Goto(c, pc).op = r.op /\ Goto(c, pc).id = r.id /\ Goto(c, pc).todo = r.todo /\ Goto(c, pc).saw = r.saw
              /\ Goto(c, pc).pc = pc
  BY <1>1 DEF Goto, Calls
<1>3. CASE ReadOne(c)
  <2>1. PICK i : Set(c, [r EXCEPT !.rest = @ \ {i}, !.seen[i] = Read(files[i])])
    BY <1>3 DEF ReadOne
  <2> DEFINE v == [r EXCEPT !.rest = @ \ {i}, !.seen[i] = Read(files[i])]
  <2>2. v.op = r.op /\ v.id = r.id /\ v.todo = r.todo /\ v.pc = r.pc /\ v.saw = r.saw
    BY <1>1 DEF Calls
  <2>3. Set(c, v) /\ mine' = mine
    BY <1>3, <2>1 DEF ReadOne
  <2> HIDE DEF v
  <2> QED BY <2>2, <2>3, SettledMoved
<1>4. CASE Precheck(c) \/ Unlock(c)
  <2>1. r.pc \in {"precheck", "unlock"}
    BY <1>4 DEF Precheck, Unlock, At
  <2>2. \/ Set(c, Goto(c, "lock")) /\ mine' = mine
        \/ Set(c, Continue(r, Rest(r))) /\ mine' = Returned(c, Rest(r))
    BY <1>4 DEF Precheck, Unlock, Rest
  <2>3. CASE Set(c, Goto(c, "lock")) /\ mine' = mine
    BY <1>2, <2>3, SettledMoved
  <2>4. CASE Set(c, Continue(r, Rest(r))) /\ mine' = Returned(c, Rest(r))
    BY <2>1, <2>4, SettledGoesOn
  <2> QED BY <2>2, <2>3, <2>4
<1>5. CASE Missing(c) \/ GiveUp(c) \/ Crash(c)
  <2>1. Set(c, NoCall)
    BY <1>5 DEF Missing, GiveUp, Crash
  <2>2. \A w \in Workers \ {c} : mine'[w] = mine[w]
    BY <1>5 DEF Missing, GiveUp, Crash, TypeInv, StateInv
  <2> QED BY <2>1, <2>2, SettledEnd
<1>6. CASE ReadToMerge(c)
  <2> DEFINE f == Read(files[r.id])
             saw == Merge(f, Head(r.todo).patch)
             v == [Goto(c, "truncate") EXCEPT !.saw = saw]
  <2>1. /\ r.op \notin {"create", "reset", "none"} /\ Head(r.todo).patch \in Patches /\ r.id \in Ids
        /\ mine' = mine /\ StatusOK(r)
    <3>1. r.op \notin {"create", "reset", "none"} /\ Head(r.todo).patch \in Patches
      BY <1>6, ReadToMergeOK
    <3>2. r.id \in Ids
      BY <1>1, <1>6, <3>1 DEF ReadToMerge, At, CallOK, Calls, WorkerOps, ToolOps
    <3> QED BY <1>6, <3>1, <3>2 DEF ReadToMerge, Settled, StatusInv
  <2>2. CASE f.kind = "task"
    <3>1. saw.kind = "task"
      BY <2>1, <2>2, FileFacts, Merged
    <3> HIDE DEF saw
    <3>2. v.op = r.op /\ v.id = r.id /\ v.todo = r.todo /\ v.saw = saw
      BY <1>1 DEF Goto, Calls
    <3>3. Set(c, v)
      BY <1>6, <2>2 DEF ReadToMerge, saw
    <3> HIDE DEF v
    <3>4. StatusOK(v)
      BY <2>1, <3>1, <3>2 DEF StatusOK
    <3>5. v.op = "complete" => c \in Workers /\ mine'[c] = v.id
      BY <1>1, <2>1, <3>2 DEF CallOK, WorkerOps, Settled, OwnInv
    <3> QED BY <2>1, <3>3, <3>4, <3>5, SettledCall
  <2>3. CASE f.kind # "task"
    <3>1. Set(c, Goto(c, "unlock"))
      BY <1>6, <2>3 DEF ReadToMerge
    <3> QED BY <1>2, <2>1, <3>1, SettledMoved
  <2> QED BY <2>2, <2>3
<1>7. CASE Truncate(c) \/ Write(c)
  <2>1. /\ r.pc \in {"truncate", "write"} /\ mine' = mine
        /\ \E pc \in {"write", "unlock"} : Set(c, Goto(c, pc))
    BY <1>7 DEF Truncate, Write, At
  <2> QED BY <1>2, <2>1, SettledMoved
<1>8. CASE Acquire(c)
  <2>1. mine' = mine /\ \E pc \in {"reread", "merge"} : Set(c, Goto(c, pc))
    BY <1>8 DEF Acquire
  <2> QED BY <1>2, <2>1, SettledMoved
<1> QED BY <1>3, <1>4, <1>5, <1>6, <1>7, <1>8 DEF FileStep

LEMMA SettledNext == TypeInv /\ Settled /\ [Next]_vars => Settled'
<1> SUFFICES ASSUME TypeInv, Settled, [Next]_vars PROVE Settled'
  OBVIOUS
<1>1. CASE UNCHANGED vars
  BY <1>1 DEF vars, Settled, StatusInv, StatusOK, OwnInv
<1> QED BY <1>1, SettledWorker, SettledCalls, SettledTool, SettledFile DEF Next

-----------------------------------------------------------------------------
(* A task that is completed.                                               *)

DoneInv == GoneInv /\ UndoneInv /\ AgreeInv

\* Files only lose what they hold, not that their task is completed.
Fallen ==
  \A i \in Ids : /\ files'[i].kind = "task" => files'[i] = files[i]
                 /\ IsCompleted(files'[i]) => IsCompleted(files[i])
                 /\ IsCompleted(files[i]) /\ files'[i].kind # "absent" => IsCompleted(files'[i])
                 /\ files'[i].kind = "absent" => files'[i].status # "completed"

Born == \A i \in Ids : Unborn(i)' => Unborn(i)

LEMMA KeepsGone == ASSUME GoneInv, Fallen, Born PROVE GoneInv'
  BY DEF GoneInv, Fallen, Born, IsCompleted

LEMMA KeepsUndone == ASSUME SameWrites, Fallen, NEW i \in Ids, Undone(i) PROVE Undone(i)'
<1>1. ~IsCompleted(files'[i])
  BY DEF Undone, Fallen
<1>2. \A c \in Callers : Writes(call'[c], i) => call'[c].saw.status # "completed"
  BY DEF Undone, SameWrites
<1> QED BY <1>1, <1>2 DEF Undone, IsCompleted

LEMMA KeepsWanted ==
  ASSUME UndoneInv, SameWrites, SameWants, Fallen, NEW w \in Workers, NEW i \in Ids, Wants(call'[w], i)
  PROVE  Undone(i)'
<1>1. Open(w, i) => Undone(i)
  BY DEF Open, Undone, IsCompleted
<1>2. Undone(i)
  BY <1>1, Named DEF SameWants, UndoneInv
<1> QED BY <1>2, KeepsUndone

LEMMA KeepsAgree == ASSUME AgreeInv, SameWrites, Fallen PROVE AgreeInv'
<1> SUFFICES ASSUME NEW c \in Callers, NEW i \in Ids, Writes(call'[c], i)
             PROVE  /\ IsCompleted(files'[i]) => call'[c].saw.status = "completed"
                    /\ files'[i].kind = "task" /\ call'[c].saw.status = "completed" =>
                         IsCompleted(files'[i]) \/ call'[c].op = "complete"
  BY DEF AgreeInv
<1>1. Writes(call[c], i) /\ call'[c].op = call[c].op /\ call'[c].saw = call[c].saw
  BY DEF SameWrites
<1>2. /\ IsCompleted(files[i]) => call[c].saw.status = "completed"
      /\ files[i].kind = "task" /\ call[c].saw.status = "completed" =>
           IsCompleted(files[i]) \/ call[c].op = "complete"
  BY <1>1 DEF AgreeInv
<1> QED BY <1>1, <1>2 DEF Fallen

LEMMA KeepsDone ==
  ASSUME DoneInv, SameWrites, SameWants, SameTargets, Fallen, Born
  PROVE  DoneInv'
<1>1. \A w \in Workers, i \in Ids : Wants(call'[w], i) => Undone(i)'
  BY KeepsWanted DEF DoneInv
<1>2. \A t \in Tools, i \in Ids : Targets(call'[t], i) => Undone(i)'
  BY KeepsUndone, Named DEF DoneInv, UndoneInv, SameTargets
<1>3. UndoneInv'
  BY <1>1, <1>2 DEF UndoneInv
<1> QED BY <1>3, KeepsGone, KeepsAgree DEF DoneInv

LEMMA FallenNext ==
  ASSUME TypeInv, GoneInv, [Next]_vars, \A c \in Callers : ~Write(c)
  PROVE  Fallen
<1>1. files \in [Ids -> File] /\ \A i \in Ids : files[i].kind = "absent" => files[i].status # "completed"
  BY DEF TypeInv, StateInv, GoneInv
<1>2. CASE files' = files
  BY <1>1, <1>2 DEF Fallen
<1>3. ASSUME NEW c \in Callers, Truncate(c) PROVE Fallen
  <2>1. \A i \in Ids : \/ files'[i] = files[i]
                       \/ files'[i].kind = "torn" /\ files'[i].status = files[i].status
    <3>1. \A i \in Ids : /\ [files[i] EXCEPT !.kind = "torn"].kind = "torn"
                         /\ [files[i] EXCEPT !.kind = "torn"].status = files[i].status
      BY <1>1 DEF File
    <3> QED BY <1>1, <1>3, <3>1 DEF Truncate
  <2> QED BY <1>1, <2>1 DEF Fallen, IsCompleted
<1>4. ASSUME NEW t \in Tools, Wipe(t) \/ Unlink(t) PROVE Fallen
  <2>1. \A i \in Ids : files'[i] = files[i] \/ files'[i] = Absent
    BY <1>1, <1>4 DEF Wipe, Unlink
  <2>2. Absent.kind = "absent" /\ Absent.status = "pending"
    BY DEF Absent
  <2> QED BY <1>1, <2>1, <2>2 DEF Fallen, IsCompleted
<1>5. \/ files' = files \/ (\E c \in Callers : Truncate(c)) \/ (\E t \in Tools : Wipe(t) \/ Unlink(t))
  <2>1. ASSUME NEW c \in Callers, FileStep(c) \/ Acquire(c) \/ GiveUp(c) \/ Crash(c)
        PROVE  files' = files \/ Truncate(c)
    BY <2>1 DEF FileStep, ReadOne, Precheck, Missing, ReadToMerge, Unlock, Acquire, GiveUp, Crash
  <2>2. ASSUME NEW w \in Workers, WorkerStep(w) PROVE files' = files
    BY <2>2 DEF WorkerStep, Poll, Reread, Decide, Complete
  <2>3. ASSUME NEW t \in Tools, Call(t) \/ ToolStep(t) \/ AcquireList(t)
        PROVE  files' = files \/ Wipe(t) \/ Unlink(t)
    BY <2>3 DEF Call, Create, Reset, Delete, Block, Unassign, Begin, ToolStep, FindNames, FindMark, ReadMark, EmptyMark,
                WriteMark, Listed, AcquireList
  <2>4. CASE UNCHANGED vars
    BY <2>4 DEF vars
  <2> QED BY <2>1, <2>2, <2>3, <2>4 DEF Next
<1> QED BY <1>2, <1>3, <1>4, <1>5

\* An unassignment finds the task of a worker that died, which nobody is completing.
LEMMA FoundUndone ==
  ASSUME TypeInv, Apart, Settled, DoneInv, Fallen, NEW c \in Callers, ReadOne(c), call[c].op = "unassign"
  PROVE  DoneInv'
<1>1. PICK i \in call[c].rest : Set(c, [call[c] EXCEPT !.rest = @ \ {i}, !.seen[i] = Read(files[i])])
  BY DEF ReadOne
<1> DEFINE r == call[c]
           v == [r EXCEPT !.rest = @ \ {i}, !.seen[i] = Read(files[i])]
<1>2. i \in Ids /\ UNCHANGED <<files, mine, crashed, uses>> /\ r.pc = "list"
  BY CallFacts DEF ReadOne, CallOK, PointOK, Updating
<1>3. /\ v.op = r.op /\ v.pc = r.pc /\ v.id = r.id /\ v.todo = r.todo /\ v.saw = r.saw
      /\ v.seen = [r.seen EXCEPT ![i] = Read(files[i])]
  BY CallFacts DEF Calls
<1>4. call'[c] = v /\ \A d \in Callers \ {c} : call'[d] = call[d]
  BY <1>1 DEF Set, TypeInv, CallsInv
<1> HIDE DEF v
<1>5. \A j \in Ids : v.seen[j] = IF j = i THEN Read(files[i]) ELSE r.seen[j]
  BY <1>2, <1>3, CallFacts
<1>6. Read(files[i]).kind = "task" => files[i].kind = "task" /\ Read(files[i]) = files[i]
  BY TypeOfAbsent DEF Read
<1>7. c \in Tools /\ r.saw.owner \in crashed /\ crashed \subseteq Callers
  BY <1>2, CallFacts DEF CallOK, Lives, ToolOps, TypeInv, StateInv
<1>8. \A j \in Ids : (Making(v, j) <=> Making(r, j)) /\ ~Writes(v, j) /\ ~Wants(v, j)
  BY <1>2, <1>3 DEF Making, Writes, Wants
<1>9. SameWants /\ Born
  BY <1>2, <1>4, <1>8 DEF SameWants, Born, Unborn
<1>10. SameWrites
  BY <1>4, <1>8 DEF SameWrites
<1>11. ASSUME NEW t \in Tools, NEW j \in Ids, Targets(call'[t], j) PROVE Undone(j)'
  <2>1. CASE Targets(call[t], j)
    BY <1>10, <2>1, KeepsUndone DEF DoneInv, UndoneInv
  <2>2. CASE ~Targets(call[t], j)
    <3>1. j = i /\ files[i].kind = "task" /\ files[i].owner = r.saw.owner /\ files[i].status # "completed"
      <4>1. t = c
        BY <1>4, <1>11, <2>2, Named
      <4>2. v.seen[j].kind = "task" /\ v.seen[j].owner = r.saw.owner /\ v.seen[j].status # "completed"
        BY <1>2, <1>3, <1>4, <1>11, <4>1 DEF Targets
      <4>3. j = i
        BY <1>2, <1>3, <1>5, <2>2, <4>1, <4>2 DEF Targets
      <4> QED BY <1>5, <1>6, <4>1, <4>2, <4>3
    <3>2. ASSUME NEW d \in Callers, Writes(call[d], i), call[d].saw.status = "completed" PROVE FALSE
      <4>1. call[d].op = "complete"
        BY <3>1, <3>2 DEF DoneInv, AgreeInv, IsCompleted
      <4>2. d \in Workers /\ mine[d] = i
        BY <3>2, <4>1, CallFacts DEF CallOK, WorkerOps, Settled, OwnInv, Writes
      <4>3. Has(d, i)
        BY <4>2 DEF Has
      <4>4. files[i].owner = d
        BY <3>1, <4>2, <4>3 DEF Apart, HasInv
      <4> QED BY <1>7, <3>1, <4>2, <4>3, <4>4, AliveWorkers
    <3>3. Undone(i)
      BY <3>1, <3>2 DEF Undone, IsCompleted
    <3> QED BY <1>10, <3>1, <3>3, KeepsUndone
  <2> QED BY <2>1, <2>2
<1>12. UndoneInv'
  BY <1>9, <1>10, <1>11, KeepsWanted DEF DoneInv, UndoneInv
<1> QED BY <1>9, <1>10, <1>12, KeepsGone, KeepsAgree DEF DoneInv

\* What is to be written is completed when the file is, or when its task is completed by the update.
LEMMA MergedDone ==
  ASSUME TypeInv, Apart, Settled, DoneInv, Fallen, NEW c \in Callers, ReadToMerge(c)
  PROVE  DoneInv'
<1> DEFINE r == call[c]
           i == r.id
           f == Read(files[i])
           p == r.todo[1].patch
<1>1. /\ r.pc = "merge" /\ CallOK(c, r) /\ r \in Calls /\ i \in Ids /\ r.op \in UpdatingOps
      /\ r.todo # <<>> /\ Head(r.todo) = r.todo[1] /\ p \in Patches /\ 1 \in DOMAIN r.todo
      /\ UNCHANGED <<files, mine, crashed, uses>> /\ StatusOK(r)
  <2>1. r.pc = "merge" /\ CallOK(c, r) /\ r \in Calls /\ UNCHANGED <<files, mine, crashed, uses>> /\ StatusOK(r)
    BY CallFacts DEF ReadToMerge, At, Settled, StatusInv
  <2>2. r.op \in UpdatingOps
    BY <2>1 DEF CallOK, PointOK, Updating
  <2>3. i \in Ids
    BY <2>1, <2>2 DEF CallOK, UpdatingOps
  <2>4. r.todo # <<>> /\ Head(r.todo) = r.todo[1] /\ p \in Patches
    BY ReadToMergeOK
  <2>5. 1 \in DOMAIN r.todo
    BY <2>1, <2>4 DEF Calls
  <2> QED BY <2>1, <2>2, <2>3, <2>4, <2>5
<1>2. f \in File /\ (f.kind = "task" => f = files[i] /\ files[i].kind = "task")
  BY <1>1, FileFacts, TypeOfAbsent DEF Read
<1>3. PICK v : /\ Set(c, v) /\ v.op = r.op /\ v.id = i /\ v.todo = r.todo /\ v.seen = r.seen
               /\ \/ v.pc = "unlock" /\ v.saw = r.saw
                  \/ v.pc = "truncate" /\ v.saw = Merge(f, p) /\ f.kind = "task"
  <2>1. CASE f.kind # "task"
    <3> DEFINE u == Goto(c, "unlock")
    <3>1. Set(c, u)
      BY <2>1 DEF ReadToMerge
    <3>2. /\ u.op = r.op /\ u.id = i /\ u.todo = r.todo /\ u.seen = r.seen /\ u.pc = "unlock" /\ u.saw = r.saw
      BY <1>1 DEF Goto, Calls
    <3> QED BY <3>1, <3>2
  <2>2. CASE f.kind = "task"
    <3> DEFINE saw == Merge(f, p)
               u == [Goto(c, "truncate") EXCEPT !.saw = saw]
    <3>1. Set(c, u)
      BY <1>1, <2>2 DEF ReadToMerge
    <3> HIDE DEF saw
    <3>2. u.op = r.op /\ u.id = i /\ u.todo = r.todo /\ u.seen = r.seen /\ u.pc = "truncate" /\ u.saw = saw
      BY <1>1 DEF Goto, Calls
    <3> HIDE DEF u
    <3> QED BY <2>2, <3>1, <3>2 DEF saw
  <2> QED BY <2>1, <2>2
<1>4. call'[c] = v /\ \A d \in Callers \ {c} : call'[d] = call[d]
  BY <1>3 DEF Set, TypeInv, CallsInv
<1>5. \A j \in Ids : /\ ~Making(v, j) /\ (Wants(v, j) => Wants(r, j)) /\ (Targets(v, j) => Targets(r, j))
                     /\ (Writes(v, j) => j = i /\ f.kind = "task" /\ v.saw = Merge(f, p))
  BY <1>1, <1>3 DEF Making, Writes, Wants, Targets, UpdatingOps
<1>6. Born
  BY <1>1, <1>4, <1>5 DEF Born, Unborn
<1>7. ASSUME NEW d \in Callers, NEW j \in Ids, Writes(call'[d], j)
      PROVE  (d = c /\ j = i /\ f.kind = "task" /\ v.saw = Merge(f, p)) \/ (Writes(call[d], j) /\ call'[d] = call[d])
  BY <1>4, <1>5, <1>7
<1>8. f.kind = "task" => Merge(f, p).status = IF "status" \in DOMAIN p THEN p["status"] ELSE files[i].status
  <2>1. DOMAIN f = {"kind", "owner", "status", "blocks", "blockedBy"}
    BY <1>2 DEF File
  <2> HIDE DEF f, p
  <2> QED BY <1>2, <2>1 DEF Merge
<1>9. /\ r.op = "complete" => "status" \in DOMAIN p /\ p["status"] = "completed"
      /\ r.op # "complete" /\ "status" \in DOMAIN p => p["status"] # "completed"
      /\ r.op \in {"delete", "block"} => "status" \notin DOMAIN p
  BY <1>1 DEF StatusOK, Patch
<1>10. r.op = "claim" => c \in Workers /\ Wants(r, i)
  BY <1>1 DEF CallOK, WorkerOps, Wants
<1>11. r.op = "unassign" => c \in Tools /\ Targets(r, i)
  <2>1. r.op = "unassign" => r.todo[1].id = i /\ c \in Tools
    BY <1>1 DEF CallOK, TodoOK, Updating, ToolOps
  <2> QED BY <1>1, <2>1 DEF Targets
<1>12. r.op = "complete" => c \in Workers /\ Has(c, i)
  BY <1>1 DEF CallOK, WorkerOps, Settled, OwnInv, Has
<1> HIDE DEF f, p
<1>13. r.op \in {"claim", "unassign"} => Undone(i)
  BY <1>1, <1>10, <1>11 DEF DoneInv, UndoneInv
<1>14. AgreeInv'
  <2> SUFFICES ASSUME NEW d \in Callers, NEW j \in Ids, Writes(call'[d], j)
               PROVE  /\ IsCompleted(files'[j]) => call'[d].saw.status = "completed"
                      /\ files'[j].kind = "task" /\ call'[d].saw.status = "completed" =>
                           IsCompleted(files'[j]) \/ call'[d].op = "complete"
    BY DEF AgreeInv
  <2>1. CASE Writes(call[d], j) /\ call'[d] = call[d]
    BY <1>1, <2>1 DEF DoneInv, AgreeInv
  <2>2. CASE d = c /\ j = i /\ f.kind = "task" /\ v.saw = Merge(f, p)
    <3>1. files[i].kind = "task" /\ v.saw.status = IF "status" \in DOMAIN p THEN p["status"] ELSE files[i].status
      BY <1>2, <1>8, <2>2
    <3>2. CASE r.op = "complete"
      BY <1>3, <1>4, <1>9, <2>2, <3>1, <3>2
    <3>3. CASE r.op \in {"claim", "unassign"}
      <4>1. files[i].status # "completed"
        BY <1>13, <3>1, <3>3 DEF Undone, IsCompleted
      <4> QED BY <1>1, <1>4, <1>9, <2>2, <3>1, <3>3, <4>1 DEF IsCompleted
    <3>4. CASE r.op \in {"delete", "block"}
      BY <1>1, <1>4, <1>9, <2>2, <3>1, <3>4 DEF IsCompleted
    <3> QED BY <1>1, <3>2, <3>3, <3>4 DEF UpdatingOps
  <2> QED BY <1>7, <2>1, <2>2
<1>15. ASSUME NEW j \in Ids, Undone(j), r.op = "complete" => j # i PROVE Undone(j)'
  <2>1. ~IsCompleted(files'[j])
    BY <1>1, <1>15 DEF Undone
  <2>2. ASSUME NEW d \in Callers, Writes(call'[d], j) PROVE call'[d].saw.status # "completed"
    <3>1. CASE Writes(call[d], j) /\ call'[d] = call[d]
      BY <1>15, <3>1 DEF Undone
    <3>2. CASE d = c /\ j = i /\ f.kind = "task" /\ v.saw = Merge(f, p)
      <4>1. files[i].kind = "task" /\ v.saw.status = IF "status" \in DOMAIN p THEN p["status"] ELSE files[i].status
        BY <1>2, <1>8, <3>2
      <4>2. files[i].status # "completed"
        BY <1>15, <3>2, <4>1 DEF Undone, IsCompleted
      <4> QED BY <1>4, <1>9, <1>15, <3>2, <4>1, <4>2
    <3> QED BY <1>7, <2>2, <3>1, <3>2
  <2> QED BY <2>1, <2>2 DEF Undone, IsCompleted
<1>16. ASSUME NEW w \in Workers, NEW j \in Ids, Wants(call'[w], j) PROVE Undone(j)'
  <2>1. Wants(call[w], j)
    BY <1>4, <1>5, <1>16, Named
  <2>2. r.op = "complete" => j # i
    <3>1. r.op = "complete" /\ j = i => w # c
      BY <2>1 DEF Wants
    <3> QED BY <1>12, <2>1, <3>1 DEF Apart, HasInv
  <2> QED BY <1>15, <2>1, <2>2 DEF DoneInv, UndoneInv
<1>17. ASSUME NEW t \in Tools, NEW j \in Ids, Targets(call'[t], j) PROVE Undone(j)'
  <2>1. Targets(call[t], j)
    BY <1>4, <1>5, <1>17, Named
  <2>2. r.op = "complete" => j # i
    BY <1>12, <2>1 DEF Apart, TargetInv
  <2> QED BY <1>15, <2>1, <2>2 DEF DoneInv, UndoneInv
<1>18. UndoneInv'
  BY <1>16, <1>17 DEF UndoneInv
<1> QED BY <1>6, <1>14, <1>18, KeepsGone DEF DoneInv

\* What is written: by a creation nobody knows of it, otherwise it agrees with the file.
LEMMA WrittenDone ==
  ASSUME TypeInv, Apart, Settled, DoneInv, NEW c \in Callers, Write(c)
  PROVE  /\ DoneInv'
         /\ \A i \in Ids : IsCompleted(files[i]) /\ files'[i].kind # "absent" => IsCompleted(files'[i])
<1> DEFINE r == call[c]
           i == r.id
           v == Goto(c, "unlock")
<1>1. /\ r.pc = "write" /\ CallOK(c, r) /\ r \in Calls /\ Set(c, v) /\ UNCHANGED <<mine, crashed, uses>>
      /\ StatusOK(r) /\ r.saw.kind = "task"
  <2>1. r.pc = "write" /\ CallOK(c, r) /\ r \in Calls /\ Set(c, v) /\ UNCHANGED <<mine, crashed, uses>> /\ StatusOK(r)
    BY CallFacts DEF Write, At, Settled, StatusInv
  <2> QED BY <2>1 DEF StatusOK
<1>2. v.op = r.op /\ v.id = r.id /\ v.todo = r.todo /\ v.seen = r.seen /\ v.saw = r.saw /\ v.pc = "unlock"
  BY <1>1 DEF Goto, Calls
<1>3. call'[c] = v /\ \A d \in Callers \ {c} : call'[d] = call[d]
  BY <1>1 DEF Set, TypeInv, CallsInv
<1> HIDE DEF v
<1>4. /\ \A j \in Ids \ {i} : files'[j] = files[j]
      /\ i \in Ids => files'[i] = IF files[i].kind = "absent" THEN files[i] ELSE r.saw
  BY DEF Write, TypeInv, StateInv
<1>5. \A j \in Ids : /\ ~Making(v, j) /\ ~Writes(v, j) /\ (Wants(v, j) => Wants(r, j))
                     /\ (Targets(v, j) => Targets(r, j))
  BY <1>1, <1>2 DEF Making, Writes, Wants, Targets
<1>6. Born
  BY <1>1, <1>3, <1>5 DEF Born, Unborn
<1>7. ASSUME NEW d \in Callers, NEW j \in Ids, Writes(call'[d], j)
      PROVE  Writes(call[d], j) /\ call'[d] = call[d] /\ d # c
  BY <1>3, <1>5, <1>7
<1>8. \A d \in Callers, j \in Ids : Refers(call[d], j) \/ ~(Writes(call[d], j) \/ Wants(call[d], j) \/ Targets(call[d], j))
  BY DEF Refers, Writes, Wants, Targets
<1>9. r.op = "create" /\ i \in Ids => Unborn(i) /\ \A d \in Callers : ~Refers(call[d], i)
  <2>1. r.op = "create" => Making(r, i)
    BY <1>1 DEF Making
  <2> QED BY <2>1 DEF Apart, FreshInv, Unborn
<1>10. r.op # "create" => i \in Ids /\ Writes(r, i) /\ Refers(r, i) /\ r.op # "reset" /\ r.pc \in Holding
  <2>1. r.op # "create" => r.op \in UpdatingOps
    BY <1>1 DEF CallOK, PointOK
  <2> QED BY <1>1, <2>1 DEF CallOK, UpdatingOps, Writes, Refers, Holding
<1>11. ASSUME NEW d \in Callers, NEW j \in Ids, Writes(call'[d], j) PROVE j # i
  <2>1. CASE r.op = "create"
    BY <1>7, <1>8, <1>9, <1>11, <2>1
  <2>2. CASE r.op # "create"
    <3>1. Writes(call[d], j) /\ d # c
      BY <1>7, <1>11
    <3>2. call[d].op \notin {"create", "reset"} /\ call[d].pc \in Holding /\ call[d].id = j
      BY <3>1, CallFacts DEF Writes, CallOK, PointOK, Holding, UpdatingOps
    <3> QED BY <1>10, <2>2, <3>1, <3>2, LockedAlone
  <2> QED BY <2>1, <2>2
<1>12. ASSUME NEW j \in Ids, Undone(j), r.op = "create" => j # i PROVE Undone(j)'
  <2>1. ~IsCompleted(files'[j])
    <3>1. CASE j # i
      BY <1>4, <1>12, <3>1 DEF Undone
    <3>2. CASE j = i
      <4>1. r.saw.status # "completed"
        BY <1>10, <1>12, <3>2 DEF Undone
      <4> QED BY <1>4, <3>2, <4>1 DEF IsCompleted
    <3> QED BY <3>1, <3>2
  <2>2. \A d \in Callers : Writes(call'[d], j) => call'[d].saw.status # "completed"
    BY <1>7, <1>12 DEF Undone
  <2> QED BY <2>1, <2>2 DEF Undone, IsCompleted
<1>13. AgreeInv'
  BY <1>4, <1>7, <1>11 DEF DoneInv, AgreeInv, IsCompleted
<1>14. ASSUME NEW w \in Workers, NEW j \in Ids, Wants(call'[w], j) PROVE Undone(j)'
  <2>1. Wants(call[w], j)
    BY <1>3, <1>5, <1>14, Named
  <2> QED BY <1>8, <1>9, <1>12, <2>1, Named DEF DoneInv, UndoneInv
<1>15. ASSUME NEW t \in Tools, NEW j \in Ids, Targets(call'[t], j) PROVE Undone(j)'
  <2>1. Targets(call[t], j)
    BY <1>3, <1>5, <1>15, Named
  <2> QED BY <1>8, <1>9, <1>12, <2>1, Named DEF DoneInv, UndoneInv
<1>16. GoneInv'
  <2>1. ASSUME NEW j \in Ids, files'[j].kind = "absent" PROVE files'[j].status # "completed"
    BY <1>1, <1>4, <2>1 DEF DoneInv, GoneInv
  <2>2. ASSUME NEW j \in Ids, Unborn(j)' PROVE ~IsCompleted(files'[j])
    <3>1. Unborn(j) /\ ~IsCompleted(files[j])
      BY <1>6, <2>2 DEF Born, DoneInv, GoneInv
    <3>2. CASE j # i
      BY <1>4, <3>1, <3>2
    <3>3. CASE j = i
      <4>1. r.op = "create"
        BY <1>10, <3>1, <3>3 DEF Apart, FreshInv
      <4>2. r.saw.status # "completed"
        BY <1>1, <4>1 DEF StatusOK
      <4> QED BY <1>4, <3>3, <4>2 DEF IsCompleted
    <3> QED BY <3>2, <3>3
  <2> QED BY <2>1, <2>2 DEF GoneInv, IsCompleted
<1>17. UndoneInv'
  BY <1>14, <1>15 DEF UndoneInv
<1>18. ASSUME NEW j \in Ids, IsCompleted(files[j]), files'[j].kind # "absent" PROVE IsCompleted(files'[j])
  <2>1. CASE j # i
    BY <1>4, <1>18, <2>1
  <2>2. CASE j = i
    <3>1. r.op # "create"
      BY <1>9, <1>18, <2>2 DEF DoneInv, GoneInv
    <3>2. r.saw.status = "completed"
      BY <1>10, <1>18, <2>2, <3>1 DEF DoneInv, AgreeInv
    <3> QED BY <1>1, <1>4, <1>18, <2>2, <3>2 DEF IsCompleted
  <2> QED BY <2>1, <2>2
<1> QED BY <1>13, <1>16, <1>17, <1>18 DEF DoneInv

LEMMA DoneStep ==
  ASSUME TypeInv, Apart, Settled, DoneInv, ~raced', NumberInv', [Next]_vars
  PROVE  /\ DoneInv'
         /\ \A i \in Ids : IsCompleted(files[i]) /\ files'[i].kind # "absent" => IsCompleted(files'[i])
<1>1. CASE \E c \in Callers : Write(c)
  BY <1>1, WrittenDone
<1>2. CASE \A c \in Callers : ~Write(c)
  <2>1. Fallen
    BY <1>2, FallenNext DEF DoneInv
  <2>2. Quiet => DoneInv'
    <3>1. Quiet => SameWrites /\ SameWants /\ SameTargets /\ Born
      BY DEF Quiet, SameMaking, Born, Unborn
    <3> QED BY <2>1, <3>1, KeepsDone
  <2>3. \A i \in Ids : uses'[i] <= 1
    BY DEF NumberInv
  <2>4. ASSUME NEW w \in Workers, WorkerStep(w) PROVE DoneInv'
    BY <2>2, <2>4, PollQuiet, RereadKeeps, DecideQuiet, CompleteQuiet DEF WorkerStep
  <2>5. ASSUME NEW t \in Tools, Call(t) PROVE DoneInv'
    <3>1. ASSUME NEW w \in Workers, Unassign(t, w) PROVE DoneInv'
      <4>1. SameMaking /\ SameWrites /\ SameWants /\ SameTargets
        BY <3>1, UnassignSame
      <4>2. Born
        BY <4>1 DEF SameMaking, Born, Unborn
      <4> QED BY <2>1, <4>1, <4>2, KeepsDone
    <3> QED BY <2>2, <2>5, <3>1, CallQuiet, BlockQuiet DEF Call
  <2>6. ASSUME NEW t \in Tools, ToolStep(t) \/ AcquireList(t) PROVE DoneInv'
    BY <2>2, <2>6, ToolStepQuiet, ListedQuiet, AcquireListQuiet DEF ToolStep
  <2>7. ASSUME NEW c \in Callers, FileStep(c) PROVE DoneInv'
    <3>1. CASE ReadOne(c)
      BY <2>1, <2>2, <3>1, ReadOneQuiet, FoundUndone
    <3>2. CASE Missing(c)
      BY <2>2, <3>2, EndQuiet DEF Missing
    <3>3. CASE Truncate(c)
      <4>1. CASE call[c].op = "create"
        <5>1. SameWrites /\ SameWants /\ SameTargets /\ Born
          BY <2>3, <3>3, <4>1, CreatedSame DEF Born
        <5> QED BY <2>1, <5>1, KeepsDone
      <4> QED BY <2>2, <3>3, <4>1, TruncateQuiet
    <3>4. CASE Precheck(c) \/ Unlock(c)
      BY <2>2, <3>4, PrecheckQuiet, UnlockQuiet
    <3>5. CASE ReadToMerge(c)
      BY <2>1, <3>5, MergedDone
    <3> QED BY <1>2, <2>7, <3>1, <3>2, <3>3, <3>4, <3>5 DEF FileStep
  <2>8. ASSUME NEW c \in Callers, Acquire(c) \/ GiveUp(c) \/ Crash(c) PROVE DoneInv'
    <3>1. CASE GiveUp(c)
      BY <2>2, <3>1, EndQuiet DEF GiveUp
    <3> QED BY <2>2, <2>8, <3>1, AcquireQuiet, CrashQuiet
  <2>9. ASSUME UNCHANGED vars PROVE DoneInv'
    <3>1. SameMaking /\ SameWants /\ SameTargets /\ SameRefers /\ Emptied /\ SameUnassigns
      BY <2>9 DEF vars, SameMaking, SameWants, SameTargets, SameRefers, Emptied, SameUnassigns
    <3>2. SameWrites /\ SameHas
      BY <2>9 DEF vars, SameWrites, SameHas, SameMine
    <3> QED BY <2>2, <3>1, <3>2 DEF Quiet
  <2>10. DoneInv'
    BY <2>4, <2>5, <2>6, <2>7, <2>8, <2>9 DEF Next
  <2>11. \A i \in Ids : IsCompleted(files[i]) /\ files'[i].kind # "absent" => IsCompleted(files'[i])
    BY <2>1 DEF Fallen
  <2> QED BY <2>10, <2>11
<1> QED BY <1>1, <1>2

LEMMA DoneInit == Init => Settled /\ DoneInv
<1> SUFFICES ASSUME Init PROVE Settled /\ DoneInv
  OBVIOUS
<1>1. call = [c \in Callers |-> NoCall]
  BY DEF Init
<1>2. ASSUME NEW i \in Ids
      PROVE  (uses[i] = 0 => files[i] = Absent) /\ (files[i].kind = "absent" => files[i] = Absent)
  <2>1. setup.tasks \in Seq(File) /\ \A n \in DOMAIN setup.tasks : setup.tasks[n].kind # "absent"
    BY SetupsAssumption DEF Init
  <2>2. i \in Nat /\ i >= 1
    BY CallersAssumption DEF Ids
  <2>3. i <= Len(setup.tasks) => i \in DOMAIN setup.tasks
    BY <2>1, <2>2
  <2>4. /\ files[i] = IF i <= Len(setup.tasks) THEN setup.tasks[i] ELSE Absent
        /\ uses[i] = IF i <= Len(setup.tasks) THEN 1 ELSE 0
    BY DEF Init
  <2> QED BY <2>1, <2>3, <2>4
<1> HIDE DEF Init
<1>3. NoCall.op = "none" /\ NoCall.todo = <<>> /\ NoCall.pc = "idle"
  BY DEF NoCall
<1>4. \A c \in Callers : call[c] = NoCall
  BY <1>1
<1>5. \A c \in Callers, i \in Ids : /\ ~Making(call[c], i) /\ ~Writes(call[c], i) /\ ~Wants(call[c], i)
                                    /\ ~Targets(call[c], i)
  BY <1>3, <1>4 DEF Making, Writes, Wants, Targets
<1>6. Settled
  BY <1>3, <1>4, Named DEF Settled, StatusInv, StatusOK, OwnInv
<1>7. Absent.kind = "absent" /\ Absent.status = "pending"
  BY DEF Absent
<1>8. GoneInv
  BY <1>2, <1>5, <1>7 DEF GoneInv, Unborn, IsCompleted
<1> QED BY <1>5, <1>6, <1>8, Named DEF DoneInv, UndoneInv, AgreeInv

Lasting == Inv /\ Settled /\ (~raced => DoneInv)

LEMMA LastingNext ==
  Lasting /\ [Next]_vars =>
    /\ Lasting'
    /\ raced \/ \A i \in Ids : IsCompleted(files[i]) /\ files'[i].kind # "absent" => IsCompleted(files'[i])
<1> SUFFICES ASSUME Lasting, [Next]_vars
             PROVE  /\ Lasting'
                    /\ raced \/ \A i \in Ids : IsCompleted(files[i]) /\ files'[i].kind # "absent" => IsCompleted(files'[i])
  OBVIOUS
<1>1. Inv' /\ TypeInv /\ Settled'
  BY InvNext, SettledNext DEF Lasting, Inv, Numbered
<1>2. ASSUME ~raced'
      PROVE  /\ DoneInv'
             /\ \A i \in Ids : IsCompleted(files[i]) /\ files'[i].kind # "absent" => IsCompleted(files'[i])
  <2>1. ~raced
    BY <1>1, <1>2, RacedStays
  <2> QED BY <1>1, <1>2, <2>1, DoneStep DEF Lasting, Inv, Numbered
<1>3. ~raced /\ raced' => \A i \in Ids : files'[i] = files[i]
  <2>1. (\E t \in Tools : Call(t)) \/ raced' = raced
    BY DEF Next, vars, WorkerStep, Poll, Reread, Decide, Complete, ToolStep, FindNames, FindMark, ReadMark,
           EmptyMark, WriteMark, Wipe, Unlink, Listed, AcquireList, FileStep, ReadOne, Precheck, Missing,
           ReadToMerge, Truncate, Write, Unlock, Acquire, GiveUp, Crash
  <2>2. \A t \in Tools : Call(t) => files' = files
    BY DEF Call, Create, Reset, Delete, Block, Unassign, Begin
  <2> QED BY <2>1, <2>2
<1> QED BY <1>1, <1>2, <1>3 DEF Lasting, IsCompleted

\* A task that was completed is not found otherwise by anybody who updates it for
\* another reason: updateTask() reads it again under its lock and unassignTeammateTasks()
\* leaves it out (src/src/utils/tasks.ts:370 and 818).
THEOREM CompletedRemains == Spec => CompletedStays
<1>1. Init => Lasting
  BY InvInit, DoneInit DEF Lasting
<1>2. Lasting /\ [Next]_vars =>
        [raced \/ \A i \in Ids : IsCompleted(files[i]) /\ files'[i].kind # "absent" => IsCompleted(files'[i])]_vars
  BY LastingNext
<1>3. Lasting /\ [Next]_vars => Lasting'
  BY LastingNext
<1> QED BY <1>1, <1>2, <1>3, PTL DEF Spec, CompletedStays
=============================================================================
