------------------------ MODULE TurnLifecycleProofs ------------------------
(***************************************************************************)
(* Theorems about TurnLifecycle, for every set of commands and any number  *)
(* of executions: who owns the guard, and what becomes of the commands.    *)
(***************************************************************************)
EXTENDS TurnLifecycle, SelectionProofs, SequenceTheorems, TLAPS

\* The part of the type invariant that the ownership of the guard needs.
ControlTypeOK ==
  /\ GuardTypeOK
  /\ pc \in [Execs -> {"none", "processing", "querying", "draining", "over"}]
  /\ gen \in [Execs -> Nat]

\* A generation that an execution was given is never ahead of the guard's.
GensPast == \A e \in Execs : gen[e] <= generation

OwnerInv == ControlTypeOK /\ GensPast /\ GuardOwned /\ OneOwner

\* What the guard and the executions look at does not change.
ControlUnchanged == UNCHANGED <<status, generation, pc, gen>>

\* The invariant only speaks of the control variables.
LEMMA ControlStutter == OwnerInv /\ ControlUnchanged => OwnerInv'
BY DEF OwnerInv, ControlUnchanged, ControlTypeOK, GuardTypeOK, GensPast, GuardOwned,
       OneOwner, Querying

\* At the start nobody owns the guard, and it is idle.
LEMMA OwnerInit == Init => OwnerInv
BY DEF Init, GuardInit, OwnerInv, ControlTypeOK, GuardTypeOK, GensPast, GuardOwned,
       OneOwner, Querying, Execs

\* The head of executeUserInput() reserves the guard for the execution it
\* begins; a reservation or a query of somebody else keeps its owner.
LEMMA ExecuteOwner ==
  ASSUME OwnerInv, NEW e \in Fresh, NEW s, Execute(e, s)
  PROVE  OwnerInv'
<1> USE DEF OwnerInv, ControlTypeOK, GuardTypeOK
<1>1. e \in Execs /\ pc[e] = "none"
  BY DEF Fresh
<1>2. /\ pc' = [pc EXCEPT ![e] = "processing"]
      /\ status' = IF status = "idle" THEN "dispatching" ELSE status
      /\ generation' = generation /\ gen' = gen
  BY DEF Execute, Reserve
<1>3. ControlTypeOK' /\ GensPast'
  BY <1>1, <1>2 DEF GensPast
<1>4. GuardOwned'
  BY <1>1, <1>2 DEF GuardOwned, Querying
<1>5. OneOwner'
  BY <1>1, <1>2 DEF OneOwner, Querying
<1>6. QED
  BY <1>3, <1>4, <1>5

\* An execution that had no query ends and drops a reservation; a query in
\* progress keeps the guard.
LEMMA CancelReservationOwner ==
  ASSUME OwnerInv, NEW e \in Execs, pc[e] = "processing",
         pc' = [pc EXCEPT ![e] = "over"], CancelReservation, gen' = gen
  PROVE  OwnerInv'
<1> USE DEF OwnerInv, ControlTypeOK, GuardTypeOK
<1>1. /\ status' = IF status = "dispatching" THEN "idle" ELSE status
      /\ generation' = generation
  BY DEF CancelReservation
<1>2. ControlTypeOK' /\ GensPast'
  BY <1>1 DEF GensPast
<1>3. GuardOwned'
  BY <1>1 DEF GuardOwned, Querying
<1>4. OneOwner'
  BY <1>1 DEF OneOwner, Querying
<1>5. QED
  BY <1>2, <1>3, <1>4

\* A new query gets a generation that no other execution has.
LEMMA BeginQueryOwner ==
  ASSUME OwnerInv, NEW e \in Execs, ~Querying(e), NEW s, BeginQuery(e, s)
  PROVE  OwnerInv'
<1> USE DEF OwnerInv, ControlTypeOK, GuardTypeOK
<1>1. /\ status' = "running" /\ generation' = generation + 1
      /\ gen' = [gen EXCEPT ![e] = generation + 1]
      /\ pc' = [pc EXCEPT ![e] = "querying"]
  BY DEF BeginQuery, Start
<1>2. ControlTypeOK'
  BY <1>1
<1>3. GensPast'
  BY <1>1 DEF GensPast
<1>4. GuardOwned'
  BY <1>1 DEF GuardOwned, Querying
<1>5. OneOwner'
  <2>1. \A f \in Execs : f # e => gen'[f] = gen[f] /\ gen[f] < gen'[e]
    BY <1>1 DEF GensPast
  <2>2. \A f \in Execs : f # e => (Querying(f)' <=> Querying(f))
    BY <1>1 DEF Querying
  <2>3. QED
    BY <1>1, <2>1, <2>2 DEF OneOwner
<1>6. QED
  BY <1>2, <1>3, <1>4, <1>5

\* A turn without a query takes the guard and gives it back at once.
LEMMA LocalTurnOwner ==
  ASSUME OwnerInv, NEW e \in Execs, LocalTurn(e)
  PROVE  OwnerInv'
<1> USE DEF OwnerInv, ControlTypeOK, GuardTypeOK
<1>1. /\ status' = "idle" /\ generation' = generation + 1 /\ gen' = gen
      /\ pc' = [pc EXCEPT ![e] = "over"] /\ pc[e] = "processing"
  BY DEF LocalTurn
<1>2. ControlTypeOK' /\ GensPast'
  BY <1>1 DEF GensPast
<1>3. GuardOwned'
  BY <1>1 DEF GuardOwned
<1>4. OneOwner'
  BY <1>1 DEF OneOwner, Querying
<1>5. QED
  BY <1>2, <1>3, <1>4

\* The end of a query releases the guard only if the query owns it; whoever
\* else owns it goes on owning it.
LEMMA EndQueryOwner ==
  ASSUME OwnerInv, NEW e \in Execs, EndQuery(e)
  PROVE  OwnerInv'
<1> USE DEF OwnerInv, ControlTypeOK, GuardTypeOK
<1>1. /\ generation' = generation /\ gen' = gen
      /\ pc' = [pc EXCEPT ![e] = "over"] /\ pc[e] = "querying"
  BY DEF EndQuery, End, CancelReservation
<1>2. status' \in {status, "idle"}
  BY DEF EndQuery, End, CancelReservation
<1>3. status' = "running" => gen[e] # generation
  BY DEF EndQuery, End, CancelReservation, IsCurrent
<1>4. ControlTypeOK' /\ GensPast'
  BY <1>1, <1>2 DEF GensPast
<1>5. GuardOwned'
  <2>1. CASE status' = "running"
    <3>1. status = "running"
      BY <1>2, <2>1
    <3>2. PICK f \in Execs : Querying(f) /\ gen[f] = generation
      BY <3>1 DEF GuardOwned
    <3>3. f # e
      BY <1>3, <2>1, <3>2
    <3>4. QED
      BY <1>1, <2>1, <3>2, <3>3 DEF GuardOwned, Querying
  <2>2. CASE status' = "dispatching"
    BY <1>1, <1>2, <2>2 DEF GuardOwned, Querying
  <2>3. QED
    BY <1>2, <2>1, <2>2 DEF GuardOwned
<1>6. OneOwner'
  BY <1>1 DEF OneOwner, Querying
<1>7. QED
  BY <1>4, <1>5, <1>6

\* The drain of the queue keeps a query a query.
LEMMA DrainOwner ==
  ASSUME OwnerInv, NEW e \in Execs, DrainSnapshot(e) \/ DrainRemove(e)
  PROVE  OwnerInv'
<1> USE DEF OwnerInv, ControlTypeOK, GuardTypeOK
<1>1. /\ status' = status /\ generation' = generation /\ gen' = gen
      /\ Querying(e)
      /\ \/ pc' = [pc EXCEPT ![e] = "draining"]
         \/ pc' = [pc EXCEPT ![e] = "querying"]
  BY DEF DrainSnapshot, DrainRemove, guardVars, Querying
<1>2. ControlTypeOK' /\ GensPast'
  BY <1>1 DEF GensPast
<1>3. \A f \in Execs : /\ Querying(f)' <=> Querying(f)
                       /\ pc'[f] = "processing" <=> pc[f] = "processing"
  BY <1>1 DEF Querying
<1>4. GuardOwned' /\ OneOwner'
  BY <1>1, <1>3 DEF GuardOwned, OneOwner
<1>5. QED
  BY <1>2, <1>4

\* onCancel() leaves the guard idle.
LEMMA CancelTurnOwner ==
  ASSUME OwnerInv, CancelTurn
  PROVE  OwnerInv'
<1> USE DEF OwnerInv, ControlTypeOK, GuardTypeOK
<1>1. pc' = pc /\ gen' = gen
  BY DEF CancelTurn, execVars
<1>2. /\ status' = "idle"
      /\ generation' = generation \/ generation' = generation + 1
  BY DEF CancelTurn, ForceEnd, IsActive, guardVars
<1>3. ControlTypeOK' /\ GensPast'
  BY <1>1, <1>2 DEF GensPast
<1>4. GuardOwned'
  BY <1>2 DEF GuardOwned
<1>5. OneOwner'
  BY <1>1 DEF OneOwner, Querying
<1>6. QED
  BY <1>3, <1>4, <1>5

\* The steps of an execution keep the owners.
LEMMA ExecStepOwner ==
  ASSUME OwnerInv, NEW e \in Execs, ExecStep(e)
  PROVE  OwnerInv'
<1>1. CASE ProcessFails(e)
  BY <1>1, CancelReservationOwner DEF ProcessFails
<1>2. CASE NoMessages(e)
  BY <1>2, CancelReservationOwner DEF NoMessages
<1>3. CASE LoseRace(e)
  BY <1>3, CancelReservationOwner DEF LoseRace
<1>4. CASE StartQuery(e)
  BY <1>4, BeginQueryOwner DEF StartQuery, Querying
<1>5. CASE LocalTurn(e)
  BY <1>5, LocalTurnOwner
<1>6. CASE DrainSnapshot(e) \/ DrainRemove(e)
  BY <1>6, DrainOwner
<1>7. CASE EndQuery(e)
  BY <1>7, EndQueryOwner
<1>8. QED
  BY <1>1, <1>2, <1>3, <1>4, <1>5, <1>6, <1>7 DEF ExecStep, Processed

\* Every step does.
LEMMA OwnerNext == OwnerInv /\ [Next]_vars => OwnerInv'
<1> SUFFICES ASSUME OwnerInv, [Next]_vars PROVE OwnerInv'
  OBVIOUS
<1>1. ASSUME NEW c \in Commands, Submit(c) PROVE OwnerInv'
  <2>1. CASE IsActive
    BY <1>1, <2>1, ControlStutter DEF Submit, guardVars, execVars, ControlUnchanged
  <2>2. CASE ~IsActive
    BY <1>1, <2>2, ExecuteOwner DEF Submit
  <2>3. QED
    BY <2>1, <2>2
<1>2. ASSUME NEW c \in Commands, Notify(c) PROVE OwnerInv'
  BY <1>2, ControlStutter DEF Notify, guardVars, execVars, ControlUnchanged
<1>3. ASSUME NEW c \in Commands, Incoming(c) PROVE OwnerInv'
  <2>1. PICK e \in Fresh : BeginQuery(e, <<c>>)
    BY <1>3 DEF Incoming
  <2>2. e \in Execs /\ ~Querying(e)
    BY DEF Fresh, Querying
  <2>3. QED
    BY <2>1, <2>2, BeginQueryOwner
<1>4. CASE NowInterrupt
  BY <1>4, ControlStutter DEF NowInterrupt, guardVars, execVars, ControlUnchanged
<1>5. CASE ProcessQueue
  BY <1>5, ExecuteOwner DEF ProcessQueue
<1>6. ASSUME NEW e \in Execs, ExecStep(e) PROVE OwnerInv'
  BY <1>6, ExecStepOwner
<1>7. CASE AgentDrain
  BY <1>7, ControlStutter DEF AgentDrain, guardVars, execVars, ControlUnchanged
<1>8. CASE CancelTurn
  BY <1>8, CancelTurnOwner
<1>9. CASE PopAllEditable
  BY <1>9, ControlStutter DEF PopAllEditable, guardVars, execVars, ControlUnchanged
<1>10. CASE KillAgents
  BY <1>10, ControlStutter DEF KillAgents, guardVars, execVars, ControlUnchanged
<1>11. CASE UNCHANGED vars
  BY <1>11, ControlStutter DEF vars, guardVars, execVars, ControlUnchanged
<1>12. QED
  BY <1>1, <1>2, <1>3, <1>4, <1>5, <1>6, <1>7, <1>8, <1>9, <1>10, <1>11 DEF Next, Idle

\* The invariant that carries the theorems below: the control variables have
\* their types, no generation is ahead of the guard's, an active guard has an
\* owner, and no two queries have the same generation.
THEOREM OwnerInvariant == Spec => []OwnerInv
<1>1. Init => OwnerInv
  BY OwnerInit
<1>2. OwnerInv /\ [Next]_vars => OwnerInv'
  BY OwnerNext
<1>3. QED
  BY <1>1, <1>2, PTL DEF Spec

\* An active guard always has somebody who will release it: a reservation an
\* execution that still processes its input, a running guard a query that
\* holds the current generation.
THEOREM GuardAlwaysOwned == Spec => []GuardOwned
<1>1. OwnerInv => GuardOwned
  BY DEF OwnerInv
<1>2. QED
  BY <1>1, OwnerInvariant, PTL

\* No two queries take each other for the owner of the guard, however often
\* the user cancels and new turns overtake old ones.
THEOREM OneOwnerAlways == Spec => []OneOwner
<1>1. OwnerInv => OneOwner
  BY DEF OwnerInv
<1>2. QED
  BY <1>1, OwnerInvariant, PTL

\* Only its own end takes a query to "over".
LEMMA OverByEndQuery ==
  ASSUME ControlTypeOK, [Next]_vars, NEW e \in Execs, Querying(e), pc'[e] = "over"
  PROVE  EndQuery(e)
<1> USE DEF ControlTypeOK
<1>1. pc[e] \in {"querying", "draining"} /\ pc' # pc
  BY DEF Querying
<1>2. \A f \in Fresh : f \in Execs /\ f # e
  BY <1>1 DEF Fresh
<1>3. ASSUME NEW f \in Fresh, NEW s, Execute(f, s) \/ BeginQuery(f, s) PROVE FALSE
  BY <1>1, <1>2, <1>3 DEF Execute, BeginQuery
<1>4. ASSUME NEW c \in Commands, Submit(c) PROVE FALSE
  BY <1>1, <1>3, <1>4 DEF Submit, execVars
<1>5. ASSUME NEW c \in Commands, Notify(c) PROVE FALSE
  BY <1>1, <1>5 DEF Notify, execVars
<1>6. ASSUME NEW c \in Commands, Incoming(c) PROVE FALSE
  BY <1>3, <1>6 DEF Incoming
<1>7. ~ProcessQueue
  BY <1>3 DEF ProcessQueue
<1>8. ~NowInterrupt /\ ~AgentDrain /\ ~CancelTurn /\ ~PopAllEditable /\ ~KillAgents
  BY <1>1 DEF NowInterrupt, AgentDrain, CancelTurn, PopAllEditable, KillAgents, execVars
<1>9. ~UNCHANGED vars
  BY <1>1 DEF vars, execVars
<1>10. ASSUME NEW f \in Execs, Processed(f) PROVE FALSE
  <2>1. pc[f] = "processing" /\ \E x \in {"querying", "over"} : pc' = [pc EXCEPT ![f] = x]
    BY <1>10 DEF Processed, ProcessFails, NoMessages, LoseRace, StartQuery, LocalTurn,
                 BeginQuery
  <2>2. QED
    BY <1>1, <2>1
<1>11. ASSUME NEW f \in Execs, DrainSnapshot(f) \/ DrainRemove(f) PROVE FALSE
  <2>1. \E x \in {"querying", "draining"} : pc' = [pc EXCEPT ![f] = x]
    BY <1>11 DEF DrainSnapshot, DrainRemove
  <2>2. QED
    BY <1>1, <2>1
<1>12. PICK f \in Execs : EndQuery(f)
  BY <1>4, <1>5, <1>6, <1>7, <1>8, <1>9, <1>10, <1>11 DEF Next, ExecStep, Idle
<1>13. f = e
  BY <1>1, <1>12 DEF EndQuery
<1>14. QED
  BY <1>12, <1>13

\* A query that has been overtaken ends without ending the query that runs
\* now and without touching its controller.
THEOREM StaleEndIsHarmless == Spec => StaleEndHarmless
<1>1. ASSUME OwnerInv, [Next]_vars, NEW e \in Execs,
             Querying(e), pc'[e] = "over", gen[e] # generation
      PROVE  /\ status = "running" => status' = "running"
             /\ controller' = controller
  <2>1. EndQuery(e)
    BY <1>1, OverByEndQuery DEF OwnerInv
  <2>2. QED
    BY <1>1, <2>1 DEF EndQuery, IsCurrent, End, CancelReservation
<1>2. OwnerInv /\ [Next]_vars =>
        [\A e \in Execs :
           Querying(e) /\ pc'[e] = "over" /\ gen[e] # generation
           => /\ status = "running" => status' = "running"
              /\ controller' = controller]_vars
  BY <1>1
<1>3. QED
  BY <1>2, OwnerInvariant, PTL DEF Spec, StaleEndHarmless

-----------------------------------------------------------------------------
(* Sequences of commands: what is in them, and what is before what           *)

\* Nothing is in s twice.
Distinct(s) == \A x \in ToSet(s) : ~Before(s, x, x)

\* A sequence in which nothing is before itself has no element twice.
LEMMA DistinctIs ==
  ASSUME NEW T, NEW s \in Seq(T), Distinct(s)
  PROVE  \A m, n \in DOMAIN s : s[m] = s[n] => m = n
<1>1. DOMAIN s = 1..Len(s) /\ Len(s) \in Nat
  OBVIOUS
<1>2. ASSUME NEW m \in DOMAIN s, NEW n \in DOMAIN s, s[m] = s[n], m # n PROVE FALSE
  <2>1. m < n \/ n < m
    BY <1>1, <1>2
  <2>2. Before(s, s[m], s[m]) /\ s[m] \in ToSet(s)
    BY <1>2, <2>1 DEF Before, ToSet
  <2> QED BY <2>2 DEF Distinct
<1> QED BY <1>2

\* What is before something is an element.
LEMMA InSequence ==
  ASSUME NEW T, NEW s \in Seq(T)
  PROVE  /\ ToSet(s) \subseteq T /\ DOMAIN s = 1..Len(s) /\ Len(s) \in Nat
         /\ \A x : x \in ToSet(s) <=> \E n \in DOMAIN s : s[n] = x
         /\ \A x, y : Before(s, x, y) => x \in ToSet(s) /\ y \in ToSet(s)
BY DEF ToSet, Before

\* What is appended is behind all others.
LEMMA Appended ==
  ASSUME NEW T, NEW s \in Seq(T), NEW x \in T
  PROVE  /\ Append(s, x) \in Seq(T) /\ ToSet(Append(s, x)) = ToSet(s) \cup {x}
         /\ \A y, z : Before(Append(s, x), y, z) => Before(s, y, z) \/ (y \in ToSet(s) /\ z = x)
<1> DEFINE r == Append(s, x)
<1>1. /\ r \in Seq(T) /\ Len(r) = Len(s) + 1 /\ r[Len(s) + 1] = x /\ Len(s) \in Nat
      /\ \A n \in 1..Len(s) : r[n] = s[n]
      /\ DOMAIN s = 1..Len(s) /\ DOMAIN r = 1..(Len(s) + 1)
  OBVIOUS
<1> HIDE DEF r
<1>2. \A n \in DOMAIN r : n \in DOMAIN s \/ n = Len(s) + 1
  BY <1>1
<1>3. ToSet(r) = ToSet(s) \cup {x}
  <2>1. ToSet(r) \subseteq ToSet(s) \cup {x}
    BY <1>1, <1>2 DEF ToSet
  <2>2. ToSet(s) \cup {x} \subseteq ToSet(r)
    <3>1. x \in ToSet(r)
      BY <1>1 DEF ToSet
    <3>2. \A n \in DOMAIN s : n \in DOMAIN r
      BY <1>1
    <3>3. ToSet(s) \subseteq ToSet(r)
      BY <1>1, <3>2 DEF ToSet
    <3> QED BY <3>1, <3>3
  <2> QED BY <2>1, <2>2
<1>4. ASSUME NEW y, NEW z, Before(r, y, z)
      PROVE  Before(s, y, z) \/ (y \in ToSet(s) /\ z = x)
  <2>1. PICK m, n \in DOMAIN r : m < n /\ r[m] = y /\ r[n] = z
    BY <1>4 DEF Before
  <2>2. m \in DOMAIN s /\ s[m] = y
    BY <1>1, <2>1
  <2>3. CASE n \in DOMAIN s
    BY <1>1, <2>1, <2>2, <2>3 DEF Before
  <2>4. CASE n = Len(s) + 1
    BY <1>1, <2>1, <2>2, <2>4 DEF ToSet
  <2> QED BY <1>2, <2>3, <2>4
<1> QED BY <1>1, <1>3, <1>4 DEF r

\* What is joined on is behind all others, and in its order.
LEMMA Joined ==
  ASSUME NEW T, NEW s \in Seq(T), NEW t \in Seq(T)
  PROVE  /\ s \o t \in Seq(T) /\ ToSet(s \o t) = ToSet(s) \cup ToSet(t)
         /\ \A y, z : Before(s \o t, y, z) =>
              \/ Before(s, y, z)
              \/ Before(t, y, z)
              \/ y \in ToSet(s) /\ z \in ToSet(t)
<1> DEFINE r == s \o t
<1>1. /\ r \in Seq(T) /\ Len(r) = Len(s) + Len(t) /\ Len(s) \in Nat /\ Len(t) \in Nat
      /\ \A n \in 1..Len(s) : r[n] = s[n]
      /\ \A n \in 1..Len(t) : r[Len(s) + n] = t[n]
      /\ DOMAIN s = 1..Len(s) /\ DOMAIN t = 1..Len(t) /\ DOMAIN r = 1..(Len(s) + Len(t))
  OBVIOUS
<1> HIDE DEF r
<1>2. ASSUME NEW n \in DOMAIN r
      PROVE  \/ n \in DOMAIN s /\ r[n] = s[n]
             \/ n - Len(s) \in DOMAIN t /\ r[n] = t[n - Len(s)] /\ n > Len(s)
  <2>1. CASE n <= Len(s)
    BY <1>1, <2>1
  <2>2. CASE n > Len(s)
    <3>1. n - Len(s) \in 1..Len(t) /\ Len(s) + (n - Len(s)) = n
      BY <1>1, <2>2
    <3> QED BY <1>1, <2>2, <3>1
  <2> QED BY <1>1, <2>1, <2>2
<1>3. ToSet(r) = ToSet(s) \cup ToSet(t)
  <2>1. ToSet(r) \subseteq ToSet(s) \cup ToSet(t)
    BY <1>2 DEF ToSet
  <2>2. ToSet(s) \subseteq ToSet(r)
    <3>1. \A n \in DOMAIN s : n \in DOMAIN r
      BY <1>1
    <3> QED BY <1>1, <3>1 DEF ToSet
  <2>3. ToSet(t) \subseteq ToSet(r)
    <3>1. \A n \in DOMAIN t : Len(s) + n \in DOMAIN r
      BY <1>1
    <3> QED BY <1>1, <3>1 DEF ToSet
  <2> QED BY <2>1, <2>2, <2>3
<1>4. ASSUME NEW y, NEW z, Before(r, y, z)
      PROVE  \/ Before(s, y, z)
             \/ Before(t, y, z)
             \/ y \in ToSet(s) /\ z \in ToSet(t)
  <2>1. PICK m, n \in DOMAIN r : m < n /\ r[m] = y /\ r[n] = z
    BY <1>4 DEF Before
  <2>2. CASE m \in DOMAIN s /\ n \in DOMAIN s
    BY <1>1, <2>1, <2>2 DEF Before
  <2>3. CASE m \in DOMAIN s /\ n \notin DOMAIN s
    BY <1>1, <1>2, <2>1, <2>3 DEF ToSet
  <2>4. CASE m \notin DOMAIN s
    <3>1. /\ m - Len(s) \in DOMAIN t /\ r[m] = t[m - Len(s)]
          /\ n - Len(s) \in DOMAIN t /\ r[n] = t[n - Len(s)]
          /\ m - Len(s) < n - Len(s)
      BY <1>1, <1>2, <2>1, <2>4
    <3> QED BY <2>1, <3>1 DEF Before
  <2> QED BY <2>2, <2>3, <2>4
<1>5. /\ r \in Seq(T) /\ ToSet(r) = ToSet(s) \cup ToSet(t)
      /\ \A y, z : Before(r, y, z) =>
           \/ Before(s, y, z)
           \/ Before(t, y, z)
           \/ y \in ToSet(s) /\ z \in ToSet(t)
  BY <1>1, <1>3, <1>4
<1> QED BY <1>5, Zenon DEF r

\* What is selected is in the order it was in.
LEMMA Filtered ==
  ASSUME NEW T, NEW s \in Seq(T), NEW S, NEW r, r = Selected(s, S)
  PROVE  /\ r \in Seq(T) /\ ToSet(r) = ToSet(s) \cap S
         /\ \A x, y : Before(r, x, y) => Before(s, x, y)
<1>1. r \in Seq(T)
  BY SelectedElements
<1>2. DOMAIN r = 1..Len(r) /\ DOMAIN s = 1..Len(s)
  BY <1>1
<1>3. \A a \in 1..Len(r) : r[a] \in S /\ \E i \in 1..Len(s) : s[i] = r[a]
  BY SelectedElements
<1>4. \A i \in 1..Len(s) : s[i] \in S => \E a \in 1..Len(r) : r[a] = s[i]
  BY SelectedElements
<1>5. ToSet(r) = ToSet(s) \cap S
  <2>1. ToSet(r) \subseteq ToSet(s) \cap S
    BY <1>2, <1>3 DEF ToSet
  <2>2. ToSet(s) \cap S \subseteq ToSet(r)
    BY <1>2, <1>4 DEF ToSet
  <2> QED BY <2>1, <2>2
<1>6. ASSUME NEW x, NEW y, Before(r, x, y) PROVE Before(s, x, y)
  <2>1. PICK m, n \in 1..Len(r) : m < n /\ r[m] = x /\ r[n] = y
    BY <1>2, <1>6 DEF Before
  <2>2. PICK i, j \in 1..Len(s) : i < j /\ s[i] = r[m] /\ s[j] = r[n]
    BY <2>1, SelectedOrder
  <2> QED BY <1>2, <2>1, <2>2 DEF Before
<1> QED BY <1>1, <1>5, <1>6

\* So is what is left over.
LEMMA FilteredOut ==
  ASSUME NEW T, NEW s \in Seq(T), NEW S, NEW r, r = Rejected(s, S)
  PROVE  /\ r \in Seq(T) /\ ToSet(r) = ToSet(s) \ S
         /\ \A x, y : Before(r, x, y) => Before(s, x, y)
<1> DEFINE X == {s[i] : i \in DOMAIN s} \ S
<1>1. r = Selected(s, X)
  BY DEF Rejected
<1>2. ToSet(s) \cap X = ToSet(s) \ S
  BY DEF ToSet
<1> HIDE DEF X
<1> QED BY <1>1, <1>2, Filtered

\* The ids of a sequence of commands.
LEMMA IdsOfSequence ==
  ASSUME NEW s \in Seq(QueuedType), NEW r, r = IdsOf(s)
  PROVE  /\ r \in Seq(Nat) /\ ToSet(r) = Ids(s) /\ Ids(s) = {x.id : x \in ToSet(s)}
         /\ \A i, j : Before(r, i, j) => \E x, y \in ToSet(s) : x.id = i /\ y.id = j /\ Before(s, x, y)
<1>1. /\ DOMAIN r = DOMAIN s /\ \A n \in DOMAIN s : r[n] = s[n].id
      /\ DOMAIN s = 1..Len(s) /\ Len(s) \in Nat
      /\ \A n \in DOMAIN s : s[n] \in QueuedType /\ s[n].id \in Nat
  <2>1. /\ DOMAIN r = DOMAIN s /\ \A n \in DOMAIN s : r[n] = s[n].id
    BY DEF IdsOf
  <2>2. DOMAIN s = 1..Len(s) /\ Len(s) \in Nat /\ \A n \in DOMAIN s : s[n] \in QueuedType
    OBVIOUS
  <2>3. \A x \in QueuedType : x.id \in Nat
    BY DEF QueuedType
  <2> QED BY <2>1, <2>2, <2>3
<1>2. r \in Seq(Nat)
  <2>1. r = [n \in 1..Len(s) |-> s[n].id]
    BY <1>1 DEF IdsOf
  <2> QED BY <1>1, <2>1
<1>3. ToSet(r) = Ids(s) /\ Ids(s) = {x.id : x \in ToSet(s)}
  BY <1>1 DEF ToSet, Ids
<1>4. ASSUME NEW i, NEW j, Before(r, i, j)
      PROVE  \E x, y \in ToSet(s) : x.id = i /\ y.id = j /\ Before(s, x, y)
  <2>1. PICK m, n \in DOMAIN r : m < n /\ r[m] = i /\ r[n] = j
    BY <1>4 DEF Before
  <2>2. /\ s[m].id = i /\ s[n].id = j /\ Before(s, s[m], s[n])
        /\ s[m] \in ToSet(s) /\ s[n] \in ToSet(s)
    BY <1>1, <2>1 DEF Before, ToSet
  <2> QED BY <2>2
<1> QED BY <1>2, <1>3, <1>4

-----------------------------------------------------------------------------
(* The operations on the queue                                               *)

\* remove() takes one command out, and keeps the order of the others.
LEMMA WithoutIs ==
  ASSUME NEW q \in Seq(QueuedType), NEW s, NEW r, r = Without(q, s)
  PROVE  /\ r \in Seq(QueuedType) /\ ToSet(r) = ToSet(q) \ ToSet(s)
         /\ \A x, y : Before(r, x, y) => Before(q, x, y)
<1>1. r = Rejected(q, ToSet(s))
  BY DEF Without
<1> QED BY <1>1, FilteredOut

\* A batch has its commands in the order of the queue, and nothing that is like
\* one of them stays before it.
LEMMA BatchIs ==
  ASSUME NEW q \in Seq(QueuedType), NEW n \in Peek(q), NEW b, b = Batch(q, n)
  PROVE  /\ b \in Seq(QueuedType) /\ ToSet(b) \subseteq ToSet(q)
         /\ \A x, y : Before(b, x, y) => Before(q, x, y)
         /\ \A c, d \in ToSet(q) : Alike(c, d) /\ d \in ToSet(b) /\ c \notin ToSet(b) => Before(q, d, c)
<1>1. /\ n \in DOMAIN q /\ q[n].main /\ q[n] \in ToSet(q) /\ q[n] \in QueuedType
      /\ \A m \in DOMAIN q : q[m].main => \/ q[n].prio < q[m].prio
                                          \/ q[n].prio = q[m].prio /\ n <= m
  BY DEF Peek, IsMainThread, ToSet
<1>2. CASE Alone(q[n])
  <2>1. b = <<q[n]>>
    BY <1>1, <1>2 DEF Batch, IsMainThread
  <2>2. b \in Seq(QueuedType) /\ ToSet(b) = {q[n]} /\ \A x, y : ~Before(b, x, y)
    BY <1>1, <2>1 DEF ToSet, Before
  <2>3. ASSUME NEW c \in ToSet(q), NEW d \in ToSet(q), Alike(c, d), d \in ToSet(b), c \notin ToSet(b)
        PROVE  Before(q, d, c)
    <3>1. d = q[n] /\ c # q[n] /\ c.main /\ c.prio = d.prio
      BY <2>2, <2>3 DEF Alike
    <3>2. PICK m \in DOMAIN q : q[m] = c
      BY InSequence
    <3>3. q[n].prio \in 0..2
      BY <1>1 DEF QueuedType
    <3>4. n <= m /\ n # m
      BY <1>1, <3>1, <3>2, <3>3
    <3>5. DOMAIN q = 1..Len(q) /\ Len(q) \in Nat
      OBVIOUS
    <3>6. n < m
      BY <1>1, <3>2, <3>4, <3>5
    <3> QED BY <1>1, <3>1, <3>2, <3>6 DEF Before
  <2> QED BY <1>1, <2>2, <2>3
<1>3. CASE ~Alone(q[n])
  <2> DEFINE S == {c \in ToSet(q) : InBatch(c, q[n].mode)}
  <2>1. b = Selected(q, S)
    BY <1>3 DEF Batch
  <2>2. S \subseteq ToSet(q) /\ ToSet(q) \cap S = S
    OBVIOUS
  <2> HIDE DEF S
  <2>3. /\ b \in Seq(QueuedType) /\ ToSet(b) = S
        /\ \A x, y : Before(b, x, y) => Before(q, x, y)
    <3>1. /\ b \in Seq(QueuedType) /\ ToSet(b) = ToSet(q) \cap S
          /\ \A x, y : Before(b, x, y) => Before(q, x, y)
      BY <2>1, Filtered
    <3> QED BY <2>2, <3>1
  <2>4. ASSUME NEW c \in ToSet(q), NEW d \in ToSet(q), Alike(c, d), d \in S
        PROVE  c \in S
    BY <2>4 DEF S, InBatch, Alike, IsMainThread, ProcessorSlash
  <2> QED BY <2>2, <2>3, <2>4
<1> QED BY <1>2, <1>3

\* A command that is not hidden is back in the queue, as a new object.
LEMMA RequeuedIs ==
  ASSUME NEW s \in Seq(QueuedType), NEW r, r = Requeued(s)
  PROVE  /\ r \in Seq(QueuedType)
         /\ \A x \in ToSet(s) : ~x.meta => \E y \in ToSet(r) : y.id = x.id
<1> DEFINE S == {c \in ToSet(s) : ~c.meta}
           kept == Selected(s, S)
           again(c) == [id |-> c.id, mode |-> "prompt", prio |-> 1,
                        slash |-> c.slash /\ c.skip, skip |-> FALSE,
                        meta |-> FALSE, main |-> TRUE, copy |-> c.copy + 1]
<1>1. r = [n \in DOMAIN kept |-> again(kept[n])]
  BY DEF Requeued
<1>2. \A c \in QueuedType : again(c) \in QueuedType /\ again(c).id = c.id
  BY DEF QueuedType
<1>3. \A x \in ToSet(s) : ~x.meta => x \in S
  OBVIOUS
<1>4. kept = Selected(s, S) /\ ToSet(s) \cap S = S
  OBVIOUS
<1> HIDE DEF S, again, kept
<1>5. kept \in Seq(QueuedType) /\ ToSet(kept) = S
  <2>1. kept \in Seq(QueuedType) /\ ToSet(kept) = ToSet(s) \cap S
    BY <1>4, Filtered
  <2> QED BY <1>4, <2>1
<1>6. DOMAIN kept = 1..Len(kept) /\ Len(kept) \in Nat /\ \A n \in 1..Len(kept) : kept[n] \in QueuedType
  BY <1>5
<1>7. r \in Seq(QueuedType)
  <2>1. r = [n \in 1..Len(kept) |-> again(kept[n])]
    BY <1>1, <1>6
  <2>2. \A n \in 1..Len(kept) : again(kept[n]) \in QueuedType
    BY <1>2, <1>6
  <2> QED BY <1>6, <2>1, <2>2
<1>8. ASSUME NEW x \in ToSet(s), ~x.meta PROVE \E y \in ToSet(r) : y.id = x.id
  <2>1. x \in ToSet(kept)
    BY <1>3, <1>5, <1>8
  <2>2. PICK n \in DOMAIN kept : kept[n] = x
    BY <2>1 DEF ToSet
  <2>3. n \in DOMAIN r /\ r[n] = again(x) /\ x \in QueuedType
    BY <1>1, <1>6, <2>2
  <2>4. again(x) \in ToSet(r)
    BY <2>3 DEF ToSet
  <2> QED BY <1>2, <2>3, <2>4
<1> QED BY <1>7, <1>8

-----------------------------------------------------------------------------
(* Types                                                                     *)

ExecTypeOK ==
  /\ pc \in [Execs -> {"none", "processing", "querying", "draining", "over"}]
  /\ cmds \in [Execs -> Seq(QueuedType)]
  /\ gen \in [Execs -> Nat]
  /\ snap \in [Execs -> Seq(QueuedType)]
  /\ direct \subseteq Execs
  /\ controller \in Execs \cup {0}
  /\ aborted \subseteq Execs

HistoryTypeOK ==
  /\ submitted \subseteq Commands
  /\ arrived \in Seq(Nat) /\ delivered \in Seq(Nat)
  /\ settled \subseteq Nat

\* The type invariant by its parts.
LEMMA TypeParts ==
  TypeOK <=> /\ GuardTypeOK /\ queue \in Seq(QueuedType) /\ ExecTypeOK /\ HistoryTypeOK
             /\ cancels \in 0..MaxCancels /\ pops \in 0..MaxPops
BY DEF TypeOK, ExecTypeOK, HistoryTypeOK

\* What the assumptions say of commands and bounds.
LEMMA CommandIs ==
  /\ Commands \subseteq QueuedType
  /\ \A c \in QueuedType : c.id \in Nat
  /\ \A c, d \in Commands : c.id = d.id => c = d
  /\ MaxExecs \in Nat /\ MaxCancels \in Nat /\ MaxPops \in Nat
BY CommandAssumption, BoundAssumption DEF CommandType, QueuedType

\* A sequence of one element.
LEMMA SequenceOfOne ==
  ASSUME NEW T, NEW x \in T
  PROVE  <<x>> \in Seq(T) /\ ToSet(<<x>>) = {x} /\ DOMAIN <<x>> = {1} /\ \A y, z : ~Before(<<x>>, y, z)
BY DEF ToSet, Before

\* The variables have their types at the start.
LEMMA TypeInit == Init => TypeOK
BY BoundAssumption DEF Init, TypeOK, GuardInit, GuardTypeOK, Execs

\* The guard's own operations keep its type.
LEMMA GuardTypes ==
  ASSUME GuardTypeOK,
         Reserve \/ CancelReservation \/ Start \/ ForceEnd \/ UNCHANGED guardVars \/ (\E g : End(g))
         \/ (status' = "idle" /\ generation' = generation + 1)
  PROVE  GuardTypeOK'
BY DEF GuardTypeOK, Reserve, CancelReservation, Start, ForceEnd, End, guardVars

\* executeUserInput() keeps the types of what an execution has.
LEMMA ExecuteTypes ==
  ASSUME TypeOK, NEW e \in Fresh, NEW s \in Seq(QueuedType), Execute(e, s), aborted' = aborted
  PROVE  GuardTypeOK' /\ ExecTypeOK'
<1>1. e \in Execs
  BY DEF Fresh
<1>2. GuardTypeOK'
  BY GuardTypes DEF Execute, TypeOK
<1> QED BY <1>1, <1>2 DEF Execute, TypeOK, ExecTypeOK

\* So does the start of a query.
LEMMA BeginQueryTypes ==
  ASSUME TypeOK, NEW e \in Execs, NEW s \in Seq(QueuedType), BeginQuery(e, s)
  PROVE  /\ GuardTypeOK' /\ delivered' \in Seq(Nat) /\ gen' \in [Execs -> Nat]
         /\ pc' \in [Execs -> {"none", "processing", "querying", "draining", "over"}]
<1>1. GuardTypeOK'
  BY GuardTypes DEF BeginQuery, TypeOK
<1>2. IdsOf(s) \in Seq(Nat)
  BY IdsOfSequence
<1>3. delivered' \in Seq(Nat)
  BY <1>2, Joined DEF BeginQuery, TypeOK
<1> QED BY <1>1, <1>3 DEF BeginQuery, TypeOK, GuardTypeOK

\* So does the end of the processing of input.
LEMMA ProcessedTypes ==
  ASSUME TypeOK, NEW e \in Execs, Processed(e)
  PROVE  TypeOK'
<1> USE DEF TypeOK
<1>0. cmds[e] \in Seq(QueuedType) /\ Ids(cmds[e]) \subseteq Nat /\ IdsOf(cmds[e]) \in Seq(Nat)
  <2>1. cmds[e] \in Seq(QueuedType)
    OBVIOUS
  <2>2. IdsOf(cmds[e]) \in Seq(Nat) /\ Ids(cmds[e]) = ToSet(IdsOf(cmds[e]))
    BY <2>1, IdsOfSequence
  <2> QED BY <2>1, <2>2, InSequence
<1>1. CASE ProcessFails(e)
  <2>1. GuardTypeOK'
    BY <1>1, GuardTypes DEF ProcessFails
  <2> QED BY <1>0, <1>1, <2>1, TypeParts DEF ProcessFails, ExecTypeOK, HistoryTypeOK, boundVars
<1>2. CASE NoMessages(e)
  <2>1. GuardTypeOK'
    BY <1>2, GuardTypes DEF NoMessages
  <2> QED BY <1>0, <1>2, <2>1 DEF NoMessages, boundVars
<1>3. CASE LoseRace(e)
  <2>1. GuardTypeOK'
    BY <1>3, GuardTypes DEF LoseRace
  <2>2. queue' \in Seq(QueuedType)
    <3>1. Requeued(cmds[e]) \in Seq(QueuedType)
      BY <1>0, RequeuedIs
    <3>2. queue' = queue \o Requeued(cmds[e])
      BY <1>3 DEF LoseRace
    <3> QED BY <3>1, <3>2, Joined
  <2>3. settled' \subseteq Nat
    <3>1. {cmds[e][n].id : n \in {n \in DOMAIN cmds[e] : cmds[e][n].meta}} \subseteq Nat
      BY <1>0 DEF Ids
    <3> QED BY <1>3, <3>1 DEF LoseRace
  <2> QED BY <1>3, <2>1, <2>2, <2>3 DEF LoseRace, boundVars
<1>4. CASE StartQuery(e)
  <2>1. /\ GuardTypeOK' /\ delivered' \in Seq(Nat) /\ gen' \in [Execs -> Nat]
        /\ pc' \in [Execs -> {"none", "processing", "querying", "draining", "over"}]
    BY <1>0, <1>4, BeginQueryTypes DEF StartQuery
  <2> QED BY <1>4, <2>1 DEF StartQuery, boundVars
<1>5. CASE LocalTurn(e)
  <2>1. GuardTypeOK'
    BY <1>5, GuardTypes DEF LocalTurn
  <2>2. delivered' \in Seq(Nat)
    BY <1>0, <1>5, Joined DEF LocalTurn
  <2> QED BY <1>5, <2>1, <2>2 DEF LocalTurn, boundVars
<1> QED BY <1>1, <1>2, <1>3, <1>4, <1>5 DEF Processed

\* What a drain consumes is a part of what it saw.
LEMMA ConsumedIs ==
  ASSUME TypeOK, NEW e \in Execs, NEW r, r = Consumed(e)
  PROVE  /\ r \in Seq(QueuedType) /\ ToSet(r) = {c \in ToSet(snap[e]) : c.mode # "bash"}
         /\ \A x, y : Before(r, x, y) => Before(snap[e], x, y)
<1> DEFINE S == {c \in ToSet(snap[e]) : c.mode # "bash"}
<1>1. r = Selected(snap[e], S) /\ ToSet(snap[e]) \cap S = S /\ snap[e] \in Seq(QueuedType)
  BY DEF Consumed, TypeOK
<1> HIDE DEF S
<1>2. /\ r \in Seq(QueuedType) /\ ToSet(r) = ToSet(snap[e]) \cap S
      /\ \A x, y : Before(r, x, y) => Before(snap[e], x, y)
  BY <1>1, Filtered
<1> QED BY <1>1, <1>2 DEF S

\* The other steps of an execution keep the types.
LEMMA QueryTypes ==
  ASSUME TypeOK, NEW e \in Execs, DrainSnapshot(e) \/ DrainRemove(e) \/ EndQuery(e)
  PROVE  TypeOK'
<1> USE DEF TypeOK
<1>1. CASE DrainSnapshot(e)
  <2>1. PICK sleepRan \in BOOLEAN :
          snap' = [snap EXCEPT ![e] = Selected(queue, {c \in ToSet(queue) : Drains(c, sleepRan)})]
    BY <1>1 DEF DrainSnapshot
  <2>2. Selected(queue, {c \in ToSet(queue) : Drains(c, sleepRan)}) \in Seq(QueuedType)
    BY Filtered
  <2>3. snap' \in [Execs -> Seq(QueuedType)]
    BY <2>1, <2>2
  <2> QED BY <1>1, <2>3 DEF DrainSnapshot, guardVars, historyVars, boundVars, GuardTypeOK
<1>2. CASE DrainRemove(e)
  <2>1. Consumed(e) \in Seq(QueuedType)
    BY ConsumedIs
  <2>2. IdsOf(Consumed(e)) \in Seq(Nat)
    BY <2>1, IdsOfSequence
  <2>3. delivered' \in Seq(Nat)
    BY <1>2, <2>2, Joined DEF DrainRemove
  <2>4. queue' \in Seq(QueuedType)
    BY <1>2, WithoutIs DEF DrainRemove
  <2>5. <<>> \in Seq(QueuedType)
    OBVIOUS
  <2>6. /\ snap' \in [Execs -> Seq(QueuedType)]
        /\ pc' \in [Execs -> {"none", "processing", "querying", "draining", "over"}]
    BY <1>2, <2>5 DEF DrainRemove
  <2> QED BY <1>2, <2>3, <2>4, <2>6 DEF DrainRemove, guardVars, boundVars, GuardTypeOK
<1>3. CASE EndQuery(e)
  <2>1. GuardTypeOK'
    BY <1>3, GuardTypes DEF EndQuery
  <2> QED BY <1>3, <2>1 DEF EndQuery, historyVars, boundVars
<1> QED BY <1>1, <1>2, <1>3

\* So do the steps of the queue, of the user and of others.
LEMMA QueueStepTypes ==
  ASSUME TypeOK, \/ \E c \in Commands : Submit(c) \/ Notify(c) \/ Incoming(c)
                 \/ NowInterrupt \/ ProcessQueue \/ AgentDrain
                 \/ CancelTurn \/ PopAllEditable \/ KillAgents
  PROVE  TypeOK'
<1> USE DEF TypeOK
<1>1. ASSUME NEW c \in Commands, Submit(c) \/ Notify(c),
             queue' = Append(queue, c), arrived' = Append(arrived, c.id)
      PROVE  queue' \in Seq(QueuedType) /\ arrived' \in Seq(Nat)
  BY <1>1, CommandIs, Appended
<1>2. ASSUME NEW c \in Commands, Submit(c) PROVE TypeOK'
  <2>1. CASE IsActive
    <3>1. queue' \in Seq(QueuedType) /\ arrived' \in Seq(Nat)
      BY <1>1, <1>2, <2>1 DEF Submit
    <3>2. aborted' \subseteq Execs
      BY <1>2, <2>1 DEF Submit, MayInterrupt
    <3> QED BY <1>2, <2>1, <3>1, <3>2 DEF Submit, guardVars, execVars, boundVars, GuardTypeOK
  <2>2. CASE ~IsActive
    <3>1. <<c>> \in Seq(QueuedType)
      BY CommandIs, SequenceOfOne
    <3>2. GuardTypeOK' /\ ExecTypeOK'
      BY <1>2, <2>2, <3>1, ExecuteTypes DEF Submit
    <3>3. queue' \in Seq(QueuedType) /\ HistoryTypeOK'
          /\ cancels' \in 0..MaxCancels /\ pops' \in 0..MaxPops
      BY <1>2, <2>2 DEF Submit, HistoryTypeOK, boundVars
    <3> QED BY <3>2, <3>3, TypeParts DEF ExecTypeOK, HistoryTypeOK
  <2> QED BY <2>1, <2>2
<1>3. ASSUME NEW c \in Commands, Notify(c) PROVE TypeOK'
  <2>1. queue' \in Seq(QueuedType) /\ arrived' \in Seq(Nat)
    BY <1>1, <1>3 DEF Notify
  <2> QED BY <1>3, <2>1 DEF Notify, guardVars, execVars, boundVars, GuardTypeOK
<1>4. ASSUME NEW c \in Commands, Incoming(c) PROVE TypeOK'
  <2>1. PICK e \in Fresh : /\ BeginQuery(e, <<c>>) /\ cmds' = [cmds EXCEPT ![e] = <<c>>]
                           /\ direct' = direct \cup {e} /\ controller' = e
    BY <1>4 DEF Incoming
  <2>2. e \in Execs /\ <<c>> \in Seq(QueuedType)
    BY CommandIs, SequenceOfOne DEF Fresh
  <2>3. /\ GuardTypeOK' /\ delivered' \in Seq(Nat) /\ gen' \in [Execs -> Nat]
        /\ pc' \in [Execs -> {"none", "processing", "querying", "draining", "over"}]
    BY <2>1, <2>2, BeginQueryTypes
  <2>4. cmds' \in [Execs -> Seq(QueuedType)] /\ direct' \subseteq Execs /\ controller' \in Execs \cup {0}
    BY <2>1, <2>2
  <2> QED BY <1>4, <2>3, <2>4 DEF Incoming, boundVars
<1>5. CASE NowInterrupt
  BY <1>5 DEF NowInterrupt, guardVars, execVars, historyVars, boundVars, GuardTypeOK
<1>6. CASE ProcessQueue
  <2>1. PICK n \in Peek(queue), e \in Fresh : /\ Execute(e, Batch(queue, n))
                                              /\ queue' = Without(queue, Batch(queue, n))
    BY <1>6 DEF ProcessQueue
  <2>2. Batch(queue, n) \in Seq(QueuedType)
    BY BatchIs
  <2>3. GuardTypeOK' /\ ExecTypeOK'
    BY <1>6, <2>1, <2>2, ExecuteTypes DEF ProcessQueue
  <2>4. queue' \in Seq(QueuedType)
    BY <2>1, WithoutIs
  <2> QED BY <1>6, <2>3, <2>4 DEF ProcessQueue, ExecTypeOK, historyVars, boundVars
<1>7. CASE AgentDrain
  <2>1. PICK n \in DOMAIN queue : /\ queue' = Without(queue, <<queue[n]>>)
                                  /\ settled' = settled \cup {queue[n].id}
    BY <1>7 DEF AgentDrain
  <2>2. queue[n].id \in Nat
    BY CommandIs
  <2>3. queue' \in Seq(QueuedType)
    BY <2>1, WithoutIs
  <2> QED BY <1>7, <2>1, <2>2, <2>3 DEF AgentDrain, guardVars, execVars, boundVars, GuardTypeOK
<1>8. CASE CancelTurn
  <2>1. GuardTypeOK'
    BY <1>8, GuardTypes DEF CancelTurn
  <2>2. cancels' \in 0..MaxCancels
    BY <1>8, CommandIs DEF CancelTurn
  <2> QED BY <1>8, <2>1, <2>2 DEF CancelTurn, CanCancelTurn, execVars, historyVars
<1>9. CASE PopAllEditable
  <2> DEFINE popped == {c \in ToSet(queue) : Editable(c)}
  <2>1. queue' = Rejected(queue, popped) /\ settled' = settled \cup {c.id : c \in popped}
    BY <1>9 DEF PopAllEditable
  <2>2. popped \subseteq QueuedType
    BY InSequence
  <2> HIDE DEF popped
  <2>3. queue' \in Seq(QueuedType) /\ settled' \subseteq Nat
    BY <2>1, <2>2, CommandIs, FilteredOut
  <2>4. pops' \in 0..MaxPops
    BY <1>9, CommandIs DEF PopAllEditable
  <2> QED BY <1>9, <2>3, <2>4 DEF PopAllEditable, guardVars, execVars, GuardTypeOK
<1>10. CASE KillAgents
  <2>1. AgentsStopped \in QueuedType /\ AgentsStopped.id = 0
    BY CommandIs DEF AgentsStopped, QueuedType
  <2>2. queue' \in Seq(QueuedType)
    BY <1>10, <2>1 DEF KillAgents
  <2>3. arrived' \in Seq(Nat)
    BY <1>10, <2>1 DEF KillAgents
  <2>4. Ids(queue) \subseteq Nat
    BY CommandIs DEF Ids
  <2>5. pops' \in 0..MaxPops
    BY <1>10, CommandIs DEF KillAgents
  <2> QED BY <1>10, <2>2, <2>3, <2>4, <2>5 DEF KillAgents, guardVars, execVars, GuardTypeOK
<1> QED BY <1>2, <1>3, <1>4, <1>5, <1>6, <1>7, <1>8, <1>9, <1>10

\* Every step keeps the types.
LEMMA TypeNext == TypeOK /\ [Next]_vars => TypeOK'
<1> SUFFICES ASSUME TypeOK, [Next]_vars PROVE TypeOK'
  OBVIOUS
<1>1. CASE UNCHANGED vars
  BY <1>1 DEF vars, TypeOK, guardVars, execVars, historyVars, boundVars, GuardTypeOK
<1>2. CASE \E e \in Execs : ExecStep(e)
  BY <1>2, ProcessedTypes, QueryTypes DEF ExecStep
<1>3. CASE \/ \E c \in Commands : Submit(c) \/ Notify(c) \/ Incoming(c)
           \/ NowInterrupt \/ ProcessQueue \/ AgentDrain
           \/ CancelTurn \/ PopAllEditable \/ KillAgents
  BY <1>3, QueueStepTypes
<1> QED BY <1>1, <1>2, <1>3 DEF Next, Idle

-----------------------------------------------------------------------------
(* Where the commands are                                                    *)

\* The ids of what waits, is being processed, has entered the conversation or was settled.
Places == Ids(queue) \cup settled \cup ToSet(delivered) \cup UNION {Held(e) : e \in Execs}

\* Nothing is lost when the commands of the user are in their places.
LEMMA PlacesAre ==
  /\ NothingLost <=> \A c \in submitted : ~c.meta => c.id \in Places
  /\ NothingLost' <=> \A c \in submitted' : ~c.meta => c.id \in Places'
<1>1. ASSUME NEW i PROVE (\E n \in DOMAIN delivered : delivered[n] = i) <=> i \in ToSet(delivered)
  BY DEF ToSet
<1>2. ASSUME NEW i PROVE (\E n \in DOMAIN delivered' : delivered'[n] = i) <=> i \in ToSet(delivered)'
  BY DEF ToSet
<1>3. NothingLost <=> \A c \in submitted : ~c.meta => c.id \in Places
  BY <1>1 DEF NothingLost, Places
<1>4. NothingLost' <=> \A c \in submitted' : ~c.meta => c.id \in Places'
  BY <1>2 DEF NothingLost, Places
<1> QED BY <1>3, <1>4

\* What an execution holds only changes with the execution.
LEMMA HeldGoesOn ==
  ASSUME TypeOK, NEW e \in Execs, NEW x,
         pc' = [pc EXCEPT ![e] = x], \A f \in Execs : f # e => cmds'[f] = cmds[f]
  PROVE  \A f \in Execs : f # e => Held(f)' = Held(f)
BY DEF TypeOK, Held, Ids

\* A step that takes what e held elsewhere, and leaves the rest where it is.
LEMMA PlacesGoOn ==
  ASSUME TypeOK, NEW e \in Execs, NEW x,
         pc' = [pc EXCEPT ![e] = x], \A f \in Execs : f # e => cmds'[f] = cmds[f],
         Ids(queue) \subseteq Places', settled \subseteq settled', ToSet(delivered) \subseteq ToSet(delivered)',
         Held(e) \subseteq Places'
  PROVE  Places \subseteq Places'
<1>1. \A f \in Execs : Held(f) \subseteq Places'
  <2> SUFFICES ASSUME NEW f \in Execs, f # e PROVE Held(f) \subseteq Places'
    OBVIOUS
  <2>1. Held(f)' = Held(f)
    BY HeldGoesOn
  <2>2. Held(f)' \subseteq Places'
    BY DEF Places
  <2> QED BY <2>1, <2>2
<1>2. settled \subseteq Places' /\ ToSet(delivered) \subseteq Places'
  BY DEF Places
<1> QED BY <1>1, <1>2 DEF Places

\* So does one that leaves the executions alone.
LEMMA PlacesOutside ==
  ASSUME TypeOK, pc' = pc, cmds' = cmds, Ids(queue) \subseteq Places',
         settled \subseteq settled', delivered' = delivered
  PROVE  Places \subseteq Places'
<1>1. \A f \in Execs : Held(f)' = Held(f)
  BY DEF Held, Ids
<1>2. \A f \in Execs : Held(f) \subseteq Places'
  BY <1>1 DEF Places
<1>3. settled \subseteq Places' /\ ToSet(delivered) \subseteq Places'
  BY DEF Places
<1> QED BY <1>2, <1>3 DEF Places

\* The ids of the queue are those of its elements.
LEMMA QueueIds ==
  ASSUME TypeOK
  PROVE  Ids(queue) = {c.id : c \in ToSet(queue)}
BY IdsOfSequence DEF TypeOK

\* What enters the conversation does so behind all that is there.
LEMMA DeliveredMore ==
  ASSUME TypeOK, NEW s \in Seq(QueuedType), delivered' = delivered \o IdsOf(s)
  PROVE  /\ ToSet(delivered)' = ToSet(delivered) \cup Ids(s)
         /\ \A i, j : Before(delivered', i, j) =>
              \/ Before(delivered, i, j)
              \/ i \in ToSet(delivered) /\ j \in Ids(s)
              \/ \E x, y \in ToSet(s) : x.id = i /\ y.id = j /\ Before(s, x, y)
<1>1. /\ IdsOf(s) \in Seq(Nat) /\ ToSet(IdsOf(s)) = Ids(s) /\ delivered \in Seq(Nat)
      /\ \A i, j : Before(IdsOf(s), i, j) => \E x, y \in ToSet(s) : x.id = i /\ y.id = j /\ Before(s, x, y)
  BY IdsOfSequence DEF TypeOK
<1>2. /\ ToSet(delivered)' = ToSet(delivered) \cup ToSet(IdsOf(s))
      /\ \A i, j : Before(delivered', i, j) =>
           \/ Before(delivered, i, j)
           \/ Before(IdsOf(s), i, j)
           \/ i \in ToSet(delivered) /\ j \in ToSet(IdsOf(s))
  BY <1>1, Joined
<1> QED BY <1>1, <1>2

\* The end of the processing of input loses no command.
LEMMA ProcessedPlaces ==
  ASSUME TypeOK, TypeOK', NEW e \in Execs, Processed(e)
  PROVE  Places \subseteq Places' /\ submitted' = submitted
<1>0. /\ cmds[e] \in Seq(QueuedType) /\ Ids(cmds[e]) = {c.id : c \in ToSet(cmds[e])}
      /\ pc[e] = "processing" /\ Held(e) = Ids(cmds[e])
  BY IdsOfSequence DEF TypeOK, Held, Processed, ProcessFails, NoMessages, LoseRace, StartQuery, LocalTurn
<1>1. CASE ProcessFails(e) \/ NoMessages(e)
  <2>1. /\ pc' = [pc EXCEPT ![e] = "over"] /\ settled' = settled \cup Ids(cmds[e])
        /\ cmds' = cmds /\ queue' = queue /\ delivered' = delivered /\ submitted' = submitted
    BY <1>1 DEF ProcessFails, NoMessages
  <2>2. Ids(queue) \subseteq Places' /\ Held(e) \subseteq Places'
    BY <1>0, <2>1 DEF Places
  <2> QED BY <2>1, <2>2, PlacesGoOn
<1>2. CASE LoseRace(e)
  <2>1. /\ pc' = [pc EXCEPT ![e] = "over"] /\ queue' = queue \o Requeued(cmds[e])
        /\ settled' = settled \cup {cmds[e][n].id : n \in {n \in DOMAIN cmds[e] : cmds[e][n].meta}}
        /\ cmds' = cmds /\ delivered' = delivered /\ submitted' = submitted
    BY <1>2 DEF LoseRace
  <2>2. /\ Requeued(cmds[e]) \in Seq(QueuedType)
        /\ \A x \in ToSet(cmds[e]) : ~x.meta => \E y \in ToSet(Requeued(cmds[e])) : y.id = x.id
    BY <1>0, RequeuedIs
  <2>3. ToSet(queue') = ToSet(queue) \cup ToSet(Requeued(cmds[e]))
    <3>1. queue \in Seq(QueuedType)
      BY DEF TypeOK
    <3>2. ToSet(queue \o Requeued(cmds[e])) = ToSet(queue) \cup ToSet(Requeued(cmds[e]))
      BY <2>2, <3>1, Joined
    <3> QED BY <2>1, <3>2
  <2>4. Ids(queue') = {c.id : c \in ToSet(queue')} /\ Ids(queue) = {c.id : c \in ToSet(queue)}
    BY IdsOfSequence DEF TypeOK
  <2>5. Ids(queue) \subseteq Places'
    BY <2>3, <2>4 DEF Places
  <2>6. ASSUME NEW x \in ToSet(cmds[e]) PROVE x.id \in Places'
    <3>1. CASE x.meta
      <4>1. PICK n \in DOMAIN cmds[e] : cmds[e][n] = x
        BY DEF ToSet
      <4>2. x.id \in settled'
        BY <2>1, <3>1, <4>1
      <4> QED BY <4>2 DEF Places
    <3>2. CASE ~x.meta
      <4>1. PICK y \in ToSet(Requeued(cmds[e])) : y.id = x.id
        BY <2>2, <3>2
      <4>2. x.id \in Ids(queue')
        BY <2>3, <2>4, <4>1
      <4> QED BY <4>2 DEF Places
    <3> QED BY <3>1, <3>2
  <2>7. Held(e) \subseteq Places'
    BY <1>0, <2>6
  <2> QED BY <2>1, <2>5, <2>7, PlacesGoOn
<1>3. CASE StartQuery(e) \/ LocalTurn(e)
  <2>1. /\ \E x : pc' = [pc EXCEPT ![e] = x]
        /\ delivered' = delivered \o IdsOf(cmds[e])
        /\ cmds' = cmds /\ queue' = queue /\ settled' = settled /\ submitted' = submitted
    BY <1>3 DEF StartQuery, BeginQuery, LocalTurn
  <2>2. ToSet(delivered)' = ToSet(delivered) \cup Ids(cmds[e])
    BY <1>0, <2>1, DeliveredMore
  <2>3. Ids(queue) \subseteq Places' /\ Held(e) \subseteq Places'
    BY <1>0, <2>1, <2>2 DEF Places
  <2> QED BY <2>1, <2>2, <2>3, PlacesGoOn
<1> QED BY <1>1, <1>2, <1>3 DEF Processed

\* Nor does a step of the query.
LEMMA QueryPlaces ==
  ASSUME TypeOK, TypeOK', NEW e \in Execs, DrainSnapshot(e) \/ DrainRemove(e) \/ EndQuery(e)
  PROVE  Places \subseteq Places' /\ submitted' = submitted
<1>1. Held(e) = {}
  BY DEF DrainSnapshot, DrainRemove, EndQuery, Held
<1>2. CASE DrainSnapshot(e) \/ EndQuery(e)
  <2>1. /\ \E x : pc' = [pc EXCEPT ![e] = x]
        /\ cmds' = cmds /\ queue' = queue /\ settled' = settled /\ delivered' = delivered
        /\ submitted' = submitted
    BY <1>2 DEF DrainSnapshot, EndQuery, historyVars
  <2>2. Ids(queue) \subseteq Places'
    BY <2>1 DEF Places
  <2> QED BY <1>1, <2>1, <2>2, PlacesGoOn
<1>3. CASE DrainRemove(e)
  <2>1. /\ \E x : pc' = [pc EXCEPT ![e] = x]
        /\ delivered' = delivered \o IdsOf(Consumed(e)) /\ queue' = Without(queue, Consumed(e))
        /\ cmds' = cmds /\ settled' = settled /\ submitted' = submitted
    BY <1>3 DEF DrainRemove
  <2>2. /\ Consumed(e) \in Seq(QueuedType) /\ Ids(Consumed(e)) = {c.id : c \in ToSet(Consumed(e))}
    BY ConsumedIs, IdsOfSequence
  <2>3. ToSet(delivered)' = ToSet(delivered) \cup Ids(Consumed(e))
    BY <2>1, <2>2, DeliveredMore
  <2>4. /\ ToSet(queue') = ToSet(queue) \ ToSet(Consumed(e))
    BY <2>1, WithoutIs DEF TypeOK
  <2>5. Ids(queue') = {c.id : c \in ToSet(queue')} /\ Ids(queue) = {c.id : c \in ToSet(queue)}
    BY IdsOfSequence DEF TypeOK
  <2>6. Ids(queue) \subseteq Ids(queue') \cup ToSet(delivered')
    BY <2>2, <2>3, <2>4, <2>5
  <2>7. Ids(queue) \subseteq Places'
    BY <2>6 DEF Places
  <2> QED BY <1>1, <2>1, <2>3, <2>7, PlacesGoOn
<1> QED BY <1>2, <1>3

\* The head of executeUserInput(): the execution holds what it is given.
LEMMA ExecutePlaces ==
  ASSUME TypeOK, NEW e \in Fresh, NEW s \in Seq(QueuedType), Execute(e, s),
         Ids(queue) \subseteq Ids(queue)' \cup Ids(s), settled' = settled, delivered' = delivered
  PROVE  Places \subseteq Places' /\ Ids(s) \subseteq Places'
<1>1. e \in Execs /\ Held(e) = {}
  BY DEF Fresh, Held
<1>2. pc' = [pc EXCEPT ![e] = "processing"] /\ cmds' = [cmds EXCEPT ![e] = s]
  BY DEF Execute
<1>3. Held(e)' = Ids(s)
  BY <1>1, <1>2 DEF Held, Ids, TypeOK
<1>4. Ids(s) \subseteq Places'
  BY <1>1, <1>3 DEF Places
<1>5. Ids(queue) \subseteq Places'
  BY <1>4 DEF Places
<1>6. \A f \in Execs : f # e => cmds'[f] = cmds[f]
  BY <1>2 DEF TypeOK
<1> QED BY <1>1, <1>2, <1>4, <1>5, <1>6, PlacesGoOn

\* Nor does a step of the queue, of the user or of others.
LEMMA QueueStepPlaces ==
  ASSUME TypeOK, TypeOK', NothingLost,
         \/ \E c \in Commands : Submit(c) \/ Notify(c) \/ Incoming(c)
         \/ NowInterrupt \/ ProcessQueue \/ AgentDrain
         \/ CancelTurn \/ PopAllEditable \/ KillAgents
  PROVE  NothingLost'
<1>0. /\ \A c \in submitted : ~c.meta => c.id \in Places
      /\ (\A c \in submitted' : ~c.meta => c.id \in Places') => NothingLost'
      /\ Ids(queue) = {c.id : c \in ToSet(queue)} /\ Ids(queue') = {c.id : c \in ToSet(queue')}
      /\ queue \in Seq(QueuedType) /\ delivered \in Seq(Nat)
  <2>1. \A c \in submitted : ~c.meta => c.id \in Places
    BY PlacesAre
  <2>2. NothingLost' <=> \A c \in submitted' : ~c.meta => c.id \in Places'
    BY PlacesAre
  <2>3. Ids(queue) = {c.id : c \in ToSet(queue)} /\ Ids(queue') = {c.id : c \in ToSet(queue')}
    BY IdsOfSequence DEF TypeOK
  <2> QED BY <2>1, <2>2, <2>3 DEF TypeOK
<1>1. ASSUME NEW c \in Commands, submitted' = submitted \cup {c}, queue' = Append(queue, c),
             pc' = pc, cmds' = cmds, settled' = settled, delivered' = delivered
      PROVE  NothingLost'
  <2>1. ToSet(queue') = ToSet(queue) \cup {c}
    <3>1. c \in QueuedType
      BY CommandIs
    <3>2. ToSet(Append(queue, c)) = ToSet(queue) \cup {c}
      BY <1>0, <3>1, Appended
    <3> QED BY <1>1, <3>2
  <2>2. Ids(queue) \subseteq Places' /\ c.id \in Places'
    BY <1>0, <2>1 DEF Places
  <2> QED BY <1>0, <1>1, <2>2, PlacesOutside
<1>2. ASSUME NEW c \in Commands, Submit(c) PROVE NothingLost'
  <2>1. CASE IsActive
    BY <1>1, <1>2, <2>1 DEF Submit, execVars
  <2>2. CASE ~IsActive
    <3>1. PICK e \in Fresh : Execute(e, <<c>>)
      BY <1>2, <2>2 DEF Submit
    <3>2. <<c>> \in Seq(QueuedType) /\ ToSet(<<c>>) = {c} /\ Ids(<<c>>) = {x.id : x \in ToSet(<<c>>)}
      <4>1. <<c>> \in Seq(QueuedType) /\ ToSet(<<c>>) = {c}
        BY CommandIs, SequenceOfOne
      <4> QED BY <4>1, IdsOfSequence
    <3>3. queue' = queue /\ settled' = settled /\ delivered' = delivered /\ submitted' = submitted \cup {c}
      BY <1>2, <2>2 DEF Submit
    <3>4. Places \subseteq Places' /\ Ids(<<c>>) \subseteq Places'
      BY <3>1, <3>2, <3>3, ExecutePlaces
    <3> QED BY <1>0, <3>2, <3>3, <3>4
  <2> QED BY <2>1, <2>2
<1>3. ASSUME NEW c \in Commands, Notify(c) PROVE NothingLost'
  BY <1>1, <1>3 DEF Notify, execVars
<1>4. ASSUME NEW c \in Commands, Incoming(c) PROVE NothingLost'
  <2>1. PICK e \in Fresh : BeginQuery(e, <<c>>) /\ cmds' = [cmds EXCEPT ![e] = <<c>>]
    BY <1>4 DEF Incoming
  <2>2. <<c>> \in Seq(QueuedType) /\ ToSet(<<c>>) = {c} /\ Ids(<<c>>) = {x.id : x \in ToSet(<<c>>)}
    <3>1. <<c>> \in Seq(QueuedType) /\ ToSet(<<c>>) = {c}
      BY CommandIs, SequenceOfOne
    <3> QED BY <3>1, IdsOfSequence
  <2>3. ToSet(delivered)' = ToSet(delivered) \cup Ids(<<c>>)
    BY <2>1, <2>2, DeliveredMore DEF BeginQuery
  <2>4. queue' = queue /\ settled' = settled /\ submitted' = submitted \cup {c}
    BY <1>4 DEF Incoming
  <2>5. Ids(queue) \subseteq Places' /\ Ids(<<c>>) \subseteq Places'
    BY <2>3, <2>4 DEF Places
  <2>6. e \in Execs /\ Held(e) = {} /\ \A f \in Execs : f # e => cmds'[f] = cmds[f]
    BY <2>1 DEF Fresh, Held, TypeOK
  <2>7. pc' = [pc EXCEPT ![e] = "querying"]
    BY <2>1 DEF BeginQuery
  <2>8. Places \subseteq Places'
    BY <2>3, <2>4, <2>5, <2>6, <2>7, PlacesGoOn
  <2> QED BY <1>0, <2>2, <2>4, <2>5, <2>8
<1>5. CASE NowInterrupt \/ CancelTurn
  <2>1. /\ pc' = pc /\ cmds' = cmds /\ queue' = queue /\ settled' = settled /\ delivered' = delivered
        /\ submitted' = submitted
    BY <1>5 DEF NowInterrupt, CancelTurn, execVars, historyVars
  <2>2. Ids(queue) \subseteq Places'
    BY <2>1 DEF Places
  <2> QED BY <1>0, <2>1, <2>2, PlacesOutside
<1>6. CASE ProcessQueue
  <2>1. PICK n \in Peek(queue), e \in Fresh : /\ Execute(e, Batch(queue, n))
                                              /\ queue' = Without(queue, Batch(queue, n))
    BY <1>6 DEF ProcessQueue
  <2>2. Batch(queue, n) \in Seq(QueuedType) /\ Ids(Batch(queue, n)) = {c.id : c \in ToSet(Batch(queue, n))}
    BY <1>0, BatchIs, IdsOfSequence
  <2>3. ToSet(queue') = ToSet(queue) \ ToSet(Batch(queue, n))
    BY <1>0, <2>1, WithoutIs
  <2>4. Ids(queue) \subseteq Ids(queue)' \cup Ids(Batch(queue, n))
    BY <1>0, <2>2, <2>3
  <2>5. settled' = settled /\ delivered' = delivered /\ submitted' = submitted
    BY <1>6 DEF ProcessQueue, historyVars
  <2>6. Places \subseteq Places'
    BY <2>1, <2>2, <2>4, <2>5, ExecutePlaces
  <2> QED BY <1>0, <2>5, <2>6
<1>7. CASE AgentDrain
  <2>1. PICK n \in DOMAIN queue : /\ queue' = Without(queue, <<queue[n]>>)
                                  /\ settled' = settled \cup {queue[n].id}
    BY <1>7 DEF AgentDrain
  <2>2. ToSet(queue') = ToSet(queue) \ {queue[n]}
    <3>1. ToSet(<<queue[n]>>) = {queue[n]}
      BY SequenceOfOne
    <3> QED BY <1>0, <2>1, <3>1, WithoutIs
  <2>3. Ids(queue) \subseteq Ids(queue') \cup {queue[n].id}
    BY <1>0, <2>2
  <2>4. Ids(queue) \subseteq Places'
    BY <2>1, <2>3 DEF Places
  <2>5. pc' = pc /\ cmds' = cmds /\ delivered' = delivered /\ submitted' = submitted
    BY <1>7 DEF AgentDrain, execVars
  <2> QED BY <1>0, <2>1, <2>4, <2>5, PlacesOutside
<1>8. CASE PopAllEditable
  <2> DEFINE popped == {c \in ToSet(queue) : Editable(c)}
  <2>1. queue' = Rejected(queue, popped) /\ settled' = settled \cup {c.id : c \in popped}
    BY <1>8 DEF PopAllEditable
  <2> HIDE DEF popped
  <2>2. ToSet(queue') = ToSet(queue) \ popped
    BY <1>0, <2>1, FilteredOut
  <2>3. Ids(queue) \subseteq Ids(queue') \cup settled'
    BY <1>0, <2>1, <2>2
  <2>4. Ids(queue) \subseteq Places'
    BY <2>1, <2>3 DEF Places
  <2>5. pc' = pc /\ cmds' = cmds /\ delivered' = delivered /\ submitted' = submitted
    BY <1>8 DEF PopAllEditable, execVars
  <2> QED BY <1>0, <2>1, <2>4, <2>5, PlacesOutside
<1>9. CASE KillAgents
  <2>1. /\ pc' = pc /\ cmds' = cmds /\ settled' = settled \cup Ids(queue) /\ delivered' = delivered
        /\ submitted' = submitted
    BY <1>9 DEF KillAgents, execVars
  <2>2. Ids(queue) \subseteq Places'
    BY <2>1 DEF Places
  <2> QED BY <1>0, <2>1, <2>2, PlacesOutside
<1> QED BY <1>2, <1>3, <1>4, <1>5, <1>6, <1>7, <1>8, <1>9

\* No step loses a command.
LEMMA NothingLostNext == TypeOK /\ TypeOK' /\ NothingLost /\ [Next]_vars => NothingLost'
<1> SUFFICES ASSUME TypeOK, TypeOK', NothingLost, [Next]_vars PROVE NothingLost'
  OBVIOUS
<1>1. CASE UNCHANGED vars
  BY <1>1 DEF vars, execVars, historyVars, NothingLost, Held, Ids
<1>2. ASSUME NEW e \in Execs, ExecStep(e) PROVE NothingLost'
  <2>1. Places \subseteq Places' /\ submitted' = submitted
    BY <1>2, ProcessedPlaces, QueryPlaces DEF ExecStep
  <2>2. NothingLost' <=> \A c \in submitted' : ~c.meta => c.id \in Places'
    BY PlacesAre
  <2>3. \A c \in submitted : ~c.meta => c.id \in Places
    BY PlacesAre
  <2> QED BY <2>1, <2>2, <2>3
<1>3. CASE \/ \E c \in Commands : Submit(c) \/ Notify(c) \/ Incoming(c)
           \/ NowInterrupt \/ ProcessQueue \/ AgentDrain
           \/ CancelTurn \/ PopAllEditable \/ KillAgents
  BY <1>3, QueueStepPlaces
<1> QED BY <1>1, <1>2, <1>3 DEF Next, Idle

\* The variables have their types, however many commands and executions there are.
THEOREM TypeCorrect == Spec => []TypeOK
BY TypeInit, TypeNext, PTL DEF Spec

\* No command of the user gets lost, whoever cancels, fails, loses a race, drains or
\* clears the queue.
THEOREM LosesNothing == Spec => []NothingLost
<1>1. Init => NothingLost
  BY DEF Init, NothingLost
<1> QED BY <1>1, TypeCorrect, NothingLostNext, PTL DEF Spec

-----------------------------------------------------------------------------
(* One execution at a time                                                   *)

\* While nobody presses Escape, an execution is under way only under an active guard.
AloneInv ==
  cancels = 0 => /\ status = "idle" => \A e \in Execs : ~Live(e)
                 /\ \A e, f \in Execs : Live(e) /\ Live(f) => e = f

\* Then the guard says where the execution is.
LEMMA AloneFacts ==
  ASSUME OwnerInv, AloneInv, cancels = 0, NEW e \in Execs
  PROVE  /\ pc[e] = "processing" => status = "dispatching"
         /\ Querying(e) => status = "running" /\ gen[e] = generation
<1>1. status \in {"idle", "dispatching", "running"}
  BY DEF OwnerInv, ControlTypeOK, GuardTypeOK
<1>2. ASSUME pc[e] = "processing", status = "running" PROVE FALSE
  <2>1. PICK f \in Execs : Querying(f)
    BY <1>2 DEF OwnerInv, GuardOwned
  <2> QED BY <1>2, <2>1 DEF AloneInv, Live, Querying
<1>3. ASSUME Querying(e), status = "dispatching" PROVE FALSE
  <2>1. PICK f \in Execs : pc[f] = "processing"
    BY <1>3 DEF OwnerInv, GuardOwned
  <2> QED BY <1>3, <2>1 DEF AloneInv, Live, Querying
<1>4. ASSUME Querying(e), status = "running" PROVE gen[e] = generation
  <2>1. PICK f \in Execs : Querying(f) /\ gen[f] = generation
    BY <1>4 DEF OwnerInv, GuardOwned
  <2> QED BY <1>4, <2>1 DEF AloneInv, Live
<1> QED BY <1>1, <1>2, <1>3, <1>4 DEF AloneInv, Live

\* The counters of Escape and of emptying only grow, and by these actions only.
LEMMA CancelsGrow ==
  ASSUME TypeOK, [Next]_vars
  PROVE  /\ cancels' = 0 => cancels = 0 /\ ~CancelTurn
         /\ pops' = 0 => pops = 0 /\ ~PopAllEditable /\ ~KillAgents
<1>0. cancels \in Nat /\ pops \in Nat
  BY CommandIs DEF TypeOK
<1>1. CASE CancelTurn
  BY <1>0, <1>1 DEF CancelTurn, PopAllEditable, KillAgents
<1>2. CASE PopAllEditable \/ KillAgents
  BY <1>0, <1>2 DEF CancelTurn, PopAllEditable, KillAgents
<1>3. CASE ~CancelTurn /\ ~PopAllEditable /\ ~KillAgents
  <2>1. cancels' = cancels /\ pops' = pops
    <3>1. ASSUME NEW c \in Commands, Submit(c) \/ Notify(c) \/ Incoming(c) PROVE boundVars' = boundVars
      BY <3>1 DEF Submit, Notify, Incoming
    <3>2. ASSUME NEW e \in Execs, ExecStep(e) PROVE boundVars' = boundVars
      BY <3>2 DEF ExecStep, Processed, ProcessFails, NoMessages, LoseRace, StartQuery, LocalTurn,
                  DrainSnapshot, DrainRemove, EndQuery
    <3>3. CASE NowInterrupt \/ ProcessQueue \/ AgentDrain
      BY <3>3 DEF NowInterrupt, ProcessQueue, AgentDrain, boundVars
    <3>4. CASE UNCHANGED vars
      BY <3>4 DEF vars, boundVars
    <3> QED BY <1>3, <3>1, <3>2, <3>3, <3>4 DEF Next, Idle, boundVars
  <2> QED BY <1>3, <2>1
<1> QED BY <1>1, <1>2, <1>3

\* Every step keeps executions alone.
LEMMA AloneNext ==
  ASSUME TypeOK, OwnerInv, AloneInv, [Next]_vars
  PROVE  AloneInv'
<1> SUFFICES ASSUME cancels' = 0
             PROVE  /\ status' = "idle" => \A e \in Execs : ~Live(e)'
                    /\ \A e, f \in Execs : Live(e)' /\ Live(f)' => e = f
  BY DEF AloneInv
<1>0. /\ cancels = 0 /\ ~CancelTurn
      /\ \A e, f \in Execs : Live(e) /\ Live(f) => e = f
      /\ status = "idle" => \A e \in Execs : ~Live(e)
      /\ status \in {"idle", "dispatching", "running"}
      /\ pc \in [Execs -> {"none", "processing", "querying", "draining", "over"}]
  BY CancelsGrow DEF AloneInv, TypeOK, GuardTypeOK
<1>1. ASSUME status' = status, pc' = pc
      PROVE  /\ status' = "idle" => \A e \in Execs : ~Live(e)'
             /\ \A e, f \in Execs : Live(e)' /\ Live(f)' => e = f
  BY <1>0, <1>1 DEF Live, Querying
\* One begins: the guard was idle, and is active now.
<1>2. ASSUME NEW e \in Fresh, ~IsActive, status' # "idle",
             \/ pc' = [pc EXCEPT ![e] = "processing"]
             \/ pc' = [pc EXCEPT ![e] = "querying"]
      PROVE  /\ status' = "idle" => \A f \in Execs : ~Live(f)'
             /\ \A f, g \in Execs : Live(f)' /\ Live(g)' => f = g
  <2>1. \A f \in Execs : ~Live(f)
    BY <1>0, <1>2 DEF IsActive
  <2>2. \A f \in Execs : f # e => ~Live(f)'
    BY <1>0, <1>2, <2>1 DEF Fresh, Live, Querying
  <2> QED BY <1>2, <2>2
\* The one that is under way is over, or goes on under an active guard.
<1>3. ASSUME NEW e \in Execs, Live(e), NEW x,
             pc' = [pc EXCEPT ![e] = x], x = "over" \/ status' # "idle"
      PROVE  /\ status' = "idle" => \A f \in Execs : ~Live(f)'
             /\ \A f, g \in Execs : Live(f)' /\ Live(g)' => f = g
  <2>1. \A f \in Execs : f # e => ~Live(f) /\ ~Live(f)'
    BY <1>0, <1>3 DEF Live, Querying
  <2>2. x = "over" => ~Live(e)'
    BY <1>0, <1>3 DEF Live, Querying
  <2> QED BY <1>3, <2>1, <2>2
<1>4. ASSUME NEW e \in Fresh, NEW s, Execute(e, s), ~IsActive
      PROVE  /\ status' = "idle" => \A f \in Execs : ~Live(f)'
             /\ \A f, g \in Execs : Live(f)' /\ Live(g)' => f = g
  <2>1. status' # "idle" /\ pc' = [pc EXCEPT ![e] = "processing"]
    BY <1>4 DEF Execute, Reserve, IsActive
  <2> QED BY <1>2, <1>4, <2>1
<1>5. ASSUME NEW c \in Commands, Submit(c)
      PROVE  /\ status' = "idle" => \A f \in Execs : ~Live(f)'
             /\ \A f, g \in Execs : Live(f)' /\ Live(g)' => f = g
  BY <1>1, <1>4, <1>5 DEF Submit, guardVars, execVars
<1>6. ASSUME NEW c \in Commands, Notify(c)
      PROVE  /\ status' = "idle" => \A f \in Execs : ~Live(f)'
             /\ \A f, g \in Execs : Live(f)' /\ Live(g)' => f = g
  BY <1>1, <1>6 DEF Notify, guardVars, execVars
<1>7. ASSUME NEW c \in Commands, Incoming(c)
      PROVE  /\ status' = "idle" => \A f \in Execs : ~Live(f)'
             /\ \A f, g \in Execs : Live(f)' /\ Live(g)' => f = g
  <2>1. PICK e \in Fresh : BeginQuery(e, <<c>>)
    BY <1>7 DEF Incoming
  <2>2. ~IsActive /\ status' # "idle" /\ pc' = [pc EXCEPT ![e] = "querying"]
    BY <1>7, <2>1 DEF Incoming, BeginQuery, Start
  <2> QED BY <1>2, <2>2
<1>8. CASE ProcessQueue
  BY <1>4, <1>8 DEF ProcessQueue
<1>9. CASE NowInterrupt \/ AgentDrain \/ PopAllEditable \/ KillAgents \/ UNCHANGED vars
  BY <1>1, <1>9 DEF NowInterrupt, AgentDrain, PopAllEditable, KillAgents, vars, guardVars, execVars
<1>10. ASSUME NEW e \in Execs, ExecStep(e)
      PROVE  /\ status' = "idle" => \A f \in Execs : ~Live(f)'
             /\ \A f, g \in Execs : Live(f)' /\ Live(g)' => f = g
  <2>1. Live(e)
    BY <1>10 DEF ExecStep, Processed, ProcessFails, NoMessages, LoseRace, StartQuery, LocalTurn,
                 DrainSnapshot, DrainRemove, EndQuery, Live, Querying
  <2>2. CASE ProcessFails(e) \/ NoMessages(e) \/ LoseRace(e) \/ LocalTurn(e) \/ EndQuery(e)
    <3>1. pc' = [pc EXCEPT ![e] = "over"]
      BY <2>2 DEF ProcessFails, NoMessages, LoseRace, LocalTurn, EndQuery
    <3> QED BY <1>3, <2>1, <3>1
  <2>3. CASE StartQuery(e)
    <3>1. pc' = [pc EXCEPT ![e] = "querying"] /\ status' # "idle"
      BY <2>3 DEF StartQuery, BeginQuery, Start
    <3> QED BY <1>3, <2>1, <3>1
  <2>4. CASE DrainSnapshot(e) \/ DrainRemove(e)
    <3>1. (\E x : pc' = [pc EXCEPT ![e] = x]) /\ status' = status /\ status # "idle"
      BY <1>0, <2>1, <2>4 DEF DrainSnapshot, DrainRemove, guardVars
    <3> QED BY <1>3, <2>1, <3>1
  <2> QED BY <1>10, <2>2, <2>3, <2>4 DEF ExecStep, Processed
<1> QED BY <1>0, <1>5, <1>6, <1>7, <1>8, <1>9, <1>10 DEF Next, Idle

-----------------------------------------------------------------------------
(* Delivered once, and in order                                              *)

\* Nobody has pressed Escape, and nobody has emptied the queue.
Calm == cancels = 0 /\ pops = 0

\* A command is in one place: in the queue, with the execution that processes it, or
\* in the conversation; a query that drains has taken nothing out of the queue yet.
OnceInv ==
  Calm =>
    /\ ToSet(queue) \subseteq submitted /\ Distinct(queue)
    /\ \A e \in Execs : pc[e] = "processing" =>
         /\ ToSet(cmds[e]) \subseteq submitted \ ToSet(queue) /\ Distinct(cmds[e])
         /\ \A c \in ToSet(cmds[e]) : c.id \notin ToSet(delivered)
    /\ \A e \in Execs : pc[e] = "draining" =>
         /\ ToSet(snap[e]) \subseteq ToSet(queue) /\ Distinct(snap[e])
         /\ \A c \in ToSet(snap[e]) : c.main
    /\ Distinct(delivered)
    /\ \A i \in ToSet(delivered) : \E c \in submitted : c.id = i
    /\ \A c \in ToSet(queue) : c.id \notin ToSet(delivered)

\* d was queued behind c, and is like it.
Ahead(c, d) == Alike(c, d) /\ Before(arrived, c.id, d.id)

\* d has nowhere got before c.
Follows(c, d) ==
  /\ ~Before(queue, d, c)
  /\ \A e \in Execs : pc[e] = "processing" =>
       /\ ~Before(cmds[e], d, c)
       /\ d \in ToSet(cmds[e]) => c \notin ToSet(queue)
  /\ \A e \in Execs : pc[e] = "draining" =>
       /\ ~Before(snap[e], d, c)
       /\ d \in ToSet(snap[e]) /\ c \in ToSet(queue) => c \in ToSet(snap[e])
  /\ d.id \in ToSet(delivered) =>
       /\ c \notin ToSet(queue)
       /\ \A e \in Execs : pc[e] = "processing" => c \notin ToSet(cmds[e])
  /\ ~Before(delivered, d.id, c.id)

\* Nothing has overtaken what it is like.
OrderInv ==
  Calm =>
    /\ \A i \in ToSet(arrived) : \E c \in submitted : c.id = i
    /\ \A c, d \in submitted : Ahead(c, d) => Follows(c, d)

\* Both together.
PlaceInv == OnceInv /\ OrderInv

\* The types of the sequences, and what "before" says of their elements.
LEMMA Elements ==
  ASSUME TypeOK
  PROVE  /\ queue \in Seq(QueuedType) /\ arrived \in Seq(Nat) /\ delivered \in Seq(Nat)
         /\ \A e \in Execs : cmds[e] \in Seq(QueuedType) /\ snap[e] \in Seq(QueuedType)
         /\ \A x, y : Before(queue, x, y) => x \in ToSet(queue) /\ y \in ToSet(queue)
         /\ \A x, y : Before(arrived, x, y) => x \in ToSet(arrived) /\ y \in ToSet(arrived)
         /\ \A x, y : Before(delivered, x, y) => x \in ToSet(delivered) /\ y \in ToSet(delivered)
<1>1. /\ queue \in Seq(QueuedType) /\ arrived \in Seq(Nat) /\ delivered \in Seq(Nat)
      /\ \A e \in Execs : cmds[e] \in Seq(QueuedType) /\ snap[e] \in Seq(QueuedType)
  BY DEF TypeOK
<1>2. \A x, y : Before(queue, x, y) => x \in ToSet(queue) /\ y \in ToSet(queue)
  BY <1>1, InSequence
<1>3. \A x, y : Before(arrived, x, y) => x \in ToSet(arrived) /\ y \in ToSet(arrived)
  BY <1>1, InSequence
<1>4. \A x, y : Before(delivered, x, y) => x \in ToSet(delivered) /\ y \in ToSet(delivered)
  BY <1>1, InSequence
<1> QED BY <1>1, <1>2, <1>3, <1>4

\* The same for what an execution has.
LEMMA ElementsOf ==
  ASSUME TypeOK, NEW e \in Execs, NEW x, NEW y
  PROVE  /\ Before(cmds[e], x, y) => x \in ToSet(cmds[e]) /\ y \in ToSet(cmds[e])
         /\ Before(snap[e], x, y) => x \in ToSet(snap[e]) /\ y \in ToSet(snap[e])
<1>1. cmds[e] \in Seq(QueuedType) /\ snap[e] \in Seq(QueuedType)
  BY DEF TypeOK
<1> QED BY <1>1, InSequence

\* A new command is nowhere yet.
LEMMA NewIsNowhere ==
  ASSUME TypeOK, PlaceInv, Calm, NEW c \in Commands, c \notin submitted
  PROVE  /\ c \notin ToSet(queue) /\ c.id \notin ToSet(delivered) /\ c.id \notin ToSet(arrived)
         /\ \A e \in Execs : pc[e] = "processing" => c \notin ToSet(cmds[e])
         /\ \A e \in Execs : pc[e] = "draining" => c \notin ToSet(snap[e])
<1>1. submitted \subseteq Commands /\ \A x, y \in Commands : x.id = y.id => x = y
  BY CommandIs DEF TypeOK
<1>2. \A x \in submitted : x.id # c.id
  BY <1>1
<1> QED BY <1>2 DEF PlaceInv, OnceInv, OrderInv

\* When nothing new arrives, only the old pairs matter.
LEMMA OrderKept ==
  ASSUME TypeOK, PlaceInv, Calm, NEW new \in SUBSET Commands, new \cap submitted = {},
         submitted' = submitted \cup new, arrived' = arrived,
         \A x, y \in submitted : Ahead(x, y) /\ Follows(x, y) => Follows(x, y)'
  PROVE  OrderInv'
<1> SUFFICES ASSUME Calm'
             PROVE  /\ \A i \in ToSet(arrived)' : \E x \in submitted' : x.id = i
                    /\ \A x, y \in submitted' : Ahead(x, y)' => Follows(x, y)'
  BY DEF OrderInv
<1>1. \A i \in ToSet(arrived)' : \E x \in submitted' : x.id = i
  BY DEF PlaceInv, OrderInv
<1>2. ASSUME NEW x \in submitted', NEW y \in submitted', Ahead(x, y)' PROVE Follows(x, y)'
  <2>1. Ahead(x, y)
    BY <1>2 DEF Ahead
  <2>2. x.id \in ToSet(arrived) /\ y.id \in ToSet(arrived)
    BY <2>1, Elements DEF Ahead
  <2>3. x \in submitted /\ y \in submitted
    BY <2>2, NewIsNowhere
  <2> QED BY <2>1, <2>3 DEF PlaceInv, OrderInv
<1> QED BY <1>1, <1>2

\* Nothing moves; executions may end.
LEMMA NothingMoves ==
  ASSUME TypeOK, PlaceInv, Calm, queue' = queue, cmds' = cmds, snap' = snap, delivered' = delivered,
         arrived' = arrived, submitted' = submitted,
         \A e \in Execs : pc'[e] \in {"processing", "draining"} => pc'[e] = pc[e]
  PROVE  PlaceInv'
<1>1. OnceInv'
  BY DEF PlaceInv, OnceInv
<1>2. ASSUME NEW x \in submitted, NEW y \in submitted, Ahead(x, y), Follows(x, y) PROVE Follows(x, y)'
  BY <1>2 DEF Follows
<1>3. \A i \in ToSet(arrived)' : \E x \in submitted' : x.id = i
  BY DEF PlaceInv, OrderInv
<1>4. \A x, y \in submitted' : Ahead(x, y)' => Follows(x, y)'
  BY <1>2 DEF PlaceInv, OrderInv, Ahead
<1> QED BY <1>1, <1>3, <1>4 DEF PlaceInv, OrderInv

\* A command is queued.
LEMMA QueuedPlace ==
  ASSUME TypeOK, PlaceInv, Calm, NEW c \in Commands, c \notin submitted,
         submitted' = submitted \cup {c}, queue' = Append(queue, c), arrived' = Append(arrived, c.id),
         pc' = pc, cmds' = cmds, snap' = snap, delivered' = delivered
  PROVE  PlaceInv'
<1>0. /\ c \notin ToSet(queue) /\ c.id \notin ToSet(delivered) /\ c.id \notin ToSet(arrived)
      /\ \A e \in Execs : pc[e] = "processing" => c \notin ToSet(cmds[e])
      /\ \A e \in Execs : pc[e] = "draining" => c \notin ToSet(snap[e])
  BY NewIsNowhere
<1>1. c \in QueuedType /\ c.id \in Nat /\ submitted \subseteq Commands
      /\ \A x, y \in Commands : x.id = y.id => x = y
  BY CommandIs DEF TypeOK
<1>2. /\ ToSet(queue)' = ToSet(queue) \cup {c}
      /\ \A x, y : Before(queue, x, y)' => Before(queue, x, y) \/ (x \in ToSet(queue) /\ y = c)
  BY <1>1, Elements, Appended
<1>3. /\ ToSet(arrived)' = ToSet(arrived) \cup {c.id}
      /\ \A x, y : Before(arrived, x, y)' => Before(arrived, x, y) \/ (x \in ToSet(arrived) /\ y = c.id)
  <2>1. arrived \in Seq(Nat) /\ c.id \in Nat
    BY <1>1, Elements
  <2> DEFINE T == Nat
  <2>2. arrived \in Seq(T) /\ c.id \in T
    BY <2>1
  <2> HIDE DEF T
  <2>3. /\ ToSet(Append(arrived, c.id)) = ToSet(arrived) \cup {c.id}
        /\ \A x, y : Before(Append(arrived, c.id), x, y) =>
                     Before(arrived, x, y) \/ (x \in ToSet(arrived) /\ y = c.id)
    BY <2>2, Appended
  <2> QED BY <2>3
<1>4. OnceInv'
  <2>1. ToSet(queue)' \subseteq submitted' /\ Distinct(queue)'
    <3>1. Distinct(queue)'
      BY <1>0, <1>2, Elements DEF PlaceInv, OnceInv, Distinct
    <3> QED BY <1>2, <3>1 DEF PlaceInv, OnceInv
  <2>2. \A e \in Execs : pc'[e] = "processing" =>
         /\ ToSet(cmds[e])' \subseteq submitted' \ ToSet(queue)' /\ Distinct(cmds[e])'
         /\ \A x \in ToSet(cmds[e])' : x.id \notin ToSet(delivered)'
    BY <1>0, <1>2 DEF PlaceInv, OnceInv
  <2>3. \A e \in Execs : pc'[e] = "draining" =>
         /\ ToSet(snap[e])' \subseteq ToSet(queue)' /\ Distinct(snap[e])'
         /\ \A x \in ToSet(snap[e])' : x.main
    BY <1>2 DEF PlaceInv, OnceInv
  <2>4. /\ Distinct(delivered)' /\ \A i \in ToSet(delivered)' : \E x \in submitted' : x.id = i
        /\ \A x \in ToSet(queue)' : x.id \notin ToSet(delivered)'
    BY <1>0, <1>2 DEF PlaceInv, OnceInv
  <2> QED BY <2>1, <2>2, <2>3, <2>4 DEF OnceInv
<1>5. \A i \in ToSet(arrived)' : \E x \in submitted' : x.id = i
  BY <1>3 DEF PlaceInv, OrderInv
<1>6. ASSUME NEW x \in submitted', NEW y \in submitted', Ahead(x, y)' PROVE Follows(x, y)'
  <2>1. Alike(x, y) /\ (Before(arrived, x.id, y.id) \/ (x.id \in ToSet(arrived) /\ y.id = c.id))
    BY <1>3, <1>6 DEF Ahead
  <2>2. x.id \in ToSet(arrived) /\ x # c /\ x \in submitted
    BY <1>0, <2>1, Elements
  <2>3. CASE y.id = c.id
    <3>1. y = c
      BY <1>1, <2>3
    <3>2. ~Before(queue, y, x)'
      BY <1>0, <1>2, <2>2, <3>1, Elements
    <3>3. ASSUME NEW e \in Execs, pc[e] = "processing"
          PROVE  ~Before(cmds[e], y, x) /\ y \notin ToSet(cmds[e])
      <4>1. y \notin ToSet(cmds[e])
        BY <1>0, <3>1, <3>3
      <4> QED BY <4>1, ElementsOf
    <3>4. ASSUME NEW e \in Execs, pc[e] = "draining"
          PROVE  ~Before(snap[e], y, x) /\ y \notin ToSet(snap[e])
      <4>1. y \notin ToSet(snap[e])
        BY <1>0, <3>1, <3>4
      <4> QED BY <4>1, ElementsOf
    <3>5. y.id \notin ToSet(delivered)' /\ ~Before(delivered, y.id, x.id)'
      BY <1>0, <3>1, Elements
    <3> QED BY <3>2, <3>3, <3>4, <3>5 DEF Follows
  <2>4. CASE Before(arrived, x.id, y.id)
    <3>1. y.id \in ToSet(arrived) /\ y # c /\ y \in submitted
      BY <1>0, <2>4, Elements
    <3>2. Follows(x, y)
      BY <2>1, <2>2, <2>4, <3>1 DEF PlaceInv, OrderInv, Ahead
    <3> QED BY <1>2, <2>2, <3>1, <3>2 DEF Follows
  <2> QED BY <2>1, <2>3, <2>4
<1> QED BY <1>4, <1>5, <1>6 DEF PlaceInv, OrderInv

\* Something leaves the queue for good.
LEMMA LeavesQueue ==
  ASSUME TypeOK, PlaceInv, Calm, NEW x \in ToSet(queue), ~x.main,
         ToSet(queue)' = ToSet(queue) \ {x}, \A y, z : Before(queue, y, z)' => Before(queue, y, z),
         pc' = pc, cmds' = cmds, snap' = snap, delivered' = delivered,
         arrived' = arrived, submitted' = submitted
  PROVE  PlaceInv'
<1>1. OnceInv'
  <2>1. ToSet(queue)' \subseteq submitted' /\ Distinct(queue)'
    BY DEF PlaceInv, OnceInv, Distinct
  <2>2. \A e \in Execs : pc'[e] = "draining" =>
         /\ ToSet(snap[e])' \subseteq ToSet(queue)' /\ Distinct(snap[e])'
         /\ \A y \in ToSet(snap[e])' : y.main
    BY DEF PlaceInv, OnceInv
  <2>3. \A e \in Execs : pc'[e] = "processing" =>
         /\ ToSet(cmds[e])' \subseteq submitted' \ ToSet(queue)' /\ Distinct(cmds[e])'
         /\ \A y \in ToSet(cmds[e])' : y.id \notin ToSet(delivered)'
    BY DEF PlaceInv, OnceInv
  <2>4. /\ Distinct(delivered)' /\ \A i \in ToSet(delivered)' : \E y \in submitted' : y.id = i
        /\ \A y \in ToSet(queue)' : y.id \notin ToSet(delivered)'
    BY DEF PlaceInv, OnceInv
  <2> QED BY <2>1, <2>2, <2>3, <2>4 DEF OnceInv
<1>2. ASSUME NEW y \in submitted, NEW z \in submitted, Ahead(y, z), Follows(y, z) PROVE Follows(y, z)'
  BY <1>2 DEF Follows
<1>3. \A i \in ToSet(arrived)' : \E y \in submitted' : y.id = i
  BY DEF PlaceInv, OrderInv
<1>4. \A y, z \in submitted' : Ahead(y, z)' => Follows(y, z)'
  BY <1>2 DEF PlaceInv, OrderInv, Ahead
<1> QED BY <1>1, <1>3, <1>4 DEF PlaceInv, OrderInv

\* Only e is under way, if anybody is, and what it has is s.
OnlyProcesses(e, s) ==
  /\ \A f \in Execs : f # e => pc'[f] \notin {"processing", "draining"}
  /\ pc'[e] = "processing" /\ cmds'[e] = s

\* An execution begins, with a command that is new or with those of a batch.
LEMMA BeginsPlace ==
  ASSUME TypeOK, PlaceInv, Calm, NEW e \in Execs, NEW s \in Seq(QueuedType), OnlyProcesses(e, s),
         NEW new \in SUBSET Commands, new \cap submitted = {},
         submitted' = submitted \cup new, arrived' = arrived, delivered' = delivered,
         ToSet(queue)' = ToSet(queue) \ ToSet(s), \A x, y : Before(queue, x, y)' => Before(queue, x, y),
         ToSet(s) \subseteq submitted', \A x \in ToSet(s) : ~Before(s, x, x) /\ x.id \notin ToSet(delivered),
         \A x, y \in submitted : Ahead(x, y) /\ Follows(x, y) =>
           /\ ~Before(s, y, x)
           /\ y \in ToSet(s) => x \notin ToSet(queue)'
           /\ y.id \in ToSet(delivered) => x \notin ToSet(s)
  PROVE  PlaceInv'
<1>0. /\ ToSet(cmds[e])' = ToSet(s) /\ \A x, y : Before(cmds[e], x, y)' <=> Before(s, x, y)
      /\ \A f \in Execs : /\ pc'[f] # "draining"
                          /\ pc'[f] = "processing" => f = e
  BY DEF OnlyProcesses
<1>1. OnceInv'
  <2>1. ToSet(queue)' \subseteq submitted' /\ Distinct(queue)'
    BY DEF PlaceInv, OnceInv, Distinct
  <2>2. /\ ToSet(cmds[e])' \subseteq submitted' \ ToSet(queue)' /\ Distinct(cmds[e])'
        /\ \A y \in ToSet(cmds[e])' : y.id \notin ToSet(delivered)'
    BY <1>0 DEF Distinct
  <2>3. /\ Distinct(delivered)' /\ \A i \in ToSet(delivered)' : \E y \in submitted' : y.id = i
        /\ \A y \in ToSet(queue)' : y.id \notin ToSet(delivered)'
    BY DEF PlaceInv, OnceInv
  <2> QED BY <1>0, <2>1, <2>2, <2>3 DEF OnceInv
<1>2. ASSUME NEW x \in submitted, NEW y \in submitted, Ahead(x, y), Follows(x, y) PROVE Follows(x, y)'
  <2>1. /\ ~Before(s, y, x)
        /\ y \in ToSet(s) => x \notin ToSet(queue)'
        /\ y.id \in ToSet(delivered) => x \notin ToSet(s)
    BY <1>2
  <2>2. ~Before(queue, y, x)' /\ ~Before(delivered, y.id, x.id)'
    BY <1>2 DEF Follows
  <2>3. y.id \in ToSet(delivered)' => x \notin ToSet(queue)'
    BY <1>2 DEF Follows
  <2> QED BY <1>0, <2>1, <2>2, <2>3 DEF Follows
<1>3. OrderInv'
  BY <1>2, OrderKept
<1> QED BY <1>1, <1>3 DEF PlaceInv

\* The commands of s enter the conversation; then nobody processes input or drains.
LEMMA EntersPlace ==
  ASSUME TypeOK, PlaceInv, Calm, NEW s \in Seq(QueuedType),
         \A f \in Execs : pc'[f] \notin {"processing", "draining"},
         NEW new \in SUBSET Commands, new \cap submitted = {},
         submitted' = submitted \cup new, arrived' = arrived,
         delivered' = delivered \o IdsOf(s),
         ToSet(queue)' = ToSet(queue) \ ToSet(s), \A x, y : Before(queue, x, y)' => Before(queue, x, y),
         ToSet(s) \subseteq submitted', \A x \in ToSet(s) : ~Before(s, x, x) /\ x.id \notin ToSet(delivered),
         \A x, y \in submitted : Ahead(x, y) /\ Follows(x, y) =>
           /\ ~Before(s, y, x)
           /\ y \in ToSet(s) => x \notin ToSet(queue)'
           /\ y.id \in ToSet(delivered) => x \notin ToSet(s)
  PROVE  PlaceInv'
<1>0. \A x, y \in submitted' : x.id = y.id => x = y
  BY CommandIs DEF TypeOK
<1>1. /\ ToSet(delivered)' = ToSet(delivered) \cup {x.id : x \in ToSet(s)}
      /\ \A i, j : Before(delivered', i, j) =>
           \/ Before(delivered, i, j)
           \/ i \in ToSet(delivered) /\ j \in {x.id : x \in ToSet(s)}
           \/ \E x, y \in ToSet(s) : x.id = i /\ y.id = j /\ Before(s, x, y)
  <2>1. Ids(s) = {x.id : x \in ToSet(s)}
    BY IdsOfSequence
  <2>2. /\ ToSet(delivered)' = ToSet(delivered) \cup Ids(s)
        /\ \A i, j : Before(delivered', i, j) =>
             \/ Before(delivered, i, j)
             \/ i \in ToSet(delivered) /\ j \in Ids(s)
             \/ \E x, y \in ToSet(s) : x.id = i /\ y.id = j /\ Before(s, x, y)
    BY DeliveredMore
  <2> QED BY <2>1, <2>2
<1>2. OnceInv'
  <2>1. ToSet(queue)' \subseteq submitted' /\ Distinct(queue)'
    BY DEF PlaceInv, OnceInv, Distinct
  <2>2. Distinct(delivered)'
    <3> SUFFICES ASSUME NEW i, Before(delivered', i, i) PROVE FALSE
      BY DEF Distinct
    <3>1. ~Before(delivered, i, i)
      BY Elements DEF PlaceInv, OnceInv, Distinct
    <3>2. ~(i \in ToSet(delivered) /\ i \in {x.id : x \in ToSet(s)})
      OBVIOUS
    <3>3. PICK x, y \in ToSet(s) : x.id = i /\ y.id = i /\ Before(s, x, y)
      BY <1>1, <3>1, <3>2
    <3>4. x = y
      BY <1>0, <3>3
    <3> QED BY <3>3, <3>4
  <2>3. \A i \in ToSet(delivered)' : \E y \in submitted' : y.id = i
    BY <1>1 DEF PlaceInv, OnceInv
  <2>4. ASSUME NEW y \in ToSet(queue)' PROVE y.id \notin ToSet(delivered)'
    <3>1. y \in ToSet(queue) /\ y \notin ToSet(s) /\ y \in submitted'
      BY <2>1
    <3>2. y.id \notin ToSet(delivered)
      BY <3>1 DEF PlaceInv, OnceInv
    <3> QED BY <1>0, <1>1, <3>1, <3>2
  <2> QED BY <2>1, <2>2, <2>3, <2>4 DEF OnceInv
<1>3. ASSUME NEW x \in submitted, NEW y \in submitted, Ahead(x, y), Follows(x, y) PROVE Follows(x, y)'
  <2>1. /\ ~Before(s, y, x)
        /\ y \in ToSet(s) => x \notin ToSet(queue)'
        /\ y.id \in ToSet(delivered) => x \notin ToSet(s)
    BY <1>3
  <2>2. x \in submitted' /\ y \in submitted'
    OBVIOUS
  <2>3. ~Before(queue, y, x)'
    BY <1>3 DEF Follows
  <2>4. y.id \in ToSet(delivered)' => x \notin ToSet(queue)'
    <3>1. CASE y.id \in ToSet(delivered)
      BY <1>3, <3>1 DEF Follows
    <3>2. CASE \E z \in ToSet(s) : z.id = y.id
      BY <1>0, <2>1, <2>2, <3>2
    <3> QED BY <1>1, <3>1, <3>2
  <2>5. ~Before(delivered', y.id, x.id)
    <3> SUFFICES ASSUME Before(delivered', y.id, x.id) PROVE FALSE
      OBVIOUS
    <3>1. ~Before(delivered, y.id, x.id)
      BY <1>3 DEF Follows
    <3>2. CASE y.id \in ToSet(delivered) /\ x.id \in {z.id : z \in ToSet(s)}
      BY <1>0, <2>1, <2>2, <3>2
    <3>3. CASE \E v, w \in ToSet(s) : v.id = y.id /\ w.id = x.id /\ Before(s, v, w)
      BY <1>0, <2>1, <2>2, <3>3
    <3> QED BY <1>1, <3>1, <3>2, <3>3
  <2> QED BY <2>3, <2>4, <2>5 DEF Follows
<1>4. OrderInv'
  BY <1>3, OrderKept
<1> QED BY <1>2, <1>4 DEF PlaceInv

\* A query looks at the queue.
LEMMA SnapshotPlace ==
  ASSUME TypeOK, PlaceInv, Calm, NEW e \in Execs, DrainSnapshot(e), \A f \in Execs : Live(f) => f = e
  PROVE  PlaceInv'
<1>1. PICK sleepRan \in BOOLEAN :
        snap' = [snap EXCEPT ![e] = Selected(queue, {c \in ToSet(queue) : Drains(c, sleepRan)})]
  BY DEF DrainSnapshot
<1> DEFINE S == {c \in ToSet(queue) : Drains(c, sleepRan)}
           r == Selected(queue, S)
<1>2. /\ ToSet(queue) \cap S = S /\ S \subseteq ToSet(queue) /\ \A c \in S : c.main
      /\ r = Selected(queue, S)
      /\ \A c, d \in ToSet(queue) : Alike(c, d) /\ d \in S => c \in S
  BY DEF Drains, IsMainThread, IsSlashCommand, Alike
<1>3. snap'[e] = r
  BY <1>1 DEF TypeOK
<1> HIDE DEF S, r
<1>4. ToSet(r) = S /\ \A x, y : Before(r, x, y) => Before(queue, x, y)
  <2>1. ToSet(r) = ToSet(queue) \cap S /\ \A x, y : Before(r, x, y) => Before(queue, x, y)
    BY <1>2, Elements, Filtered
  <2> QED BY <1>2, <2>1
<1>5. /\ ToSet(snap[e])' = S /\ \A x, y : Before(snap[e], x, y)' => Before(queue, x, y)
  BY <1>3, <1>4
<1>6. /\ queue' = queue /\ cmds' = cmds /\ delivered' = delivered /\ arrived' = arrived
      /\ submitted' = submitted
      /\ \A f \in Execs : /\ pc'[f] # "processing"
                          /\ pc'[f] = "draining" => f = e
  <2>1. ASSUME NEW f \in Execs, f # e PROVE pc'[f] \notin {"processing", "draining"}
    <3>1. pc'[f] = pc[f] /\ ~Live(f)
      BY <2>1 DEF DrainSnapshot, TypeOK
    <3> QED BY <3>1 DEF Live, Querying
  <2>2. pc'[e] = "draining"
    BY DEF DrainSnapshot, TypeOK
  <2> QED BY <2>1, <2>2 DEF DrainSnapshot, historyVars
<1>7. OnceInv'
  <2>1. ToSet(queue)' \subseteq submitted' /\ Distinct(queue)'
    BY <1>6 DEF PlaceInv, OnceInv, Distinct
  <2>2. Distinct(snap[e])'
    BY <1>2, <1>5 DEF PlaceInv, OnceInv, Distinct
  <2>3. /\ Distinct(delivered)' /\ \A i \in ToSet(delivered)' : \E y \in submitted' : y.id = i
        /\ \A y \in ToSet(queue)' : y.id \notin ToSet(delivered)'
    BY <1>6 DEF PlaceInv, OnceInv
  <2> QED BY <1>2, <1>5, <1>6, <2>1, <2>2, <2>3 DEF OnceInv
<1>8. ASSUME NEW x \in submitted, NEW y \in submitted, Ahead(x, y), Follows(x, y) PROVE Follows(x, y)'
  <2>1. ~Before(queue, y, x)' /\ ~Before(delivered, y.id, x.id)'
        /\ (y.id \in ToSet(delivered)' => x \notin ToSet(queue)')
    BY <1>6, <1>8 DEF Follows
  <2>2. ~Before(snap[e], y, x)'
    BY <1>5, <1>8 DEF Follows
  <2>3. y \in ToSet(snap[e])' /\ x \in ToSet(queue)' => x \in ToSet(snap[e])'
    BY <1>2, <1>5, <1>6, <1>8 DEF Ahead
  <2> QED BY <1>6, <2>1, <2>2, <2>3 DEF Follows
<1>9. \A i \in ToSet(arrived)' : \E y \in submitted' : y.id = i
  BY <1>6 DEF PlaceInv, OrderInv
<1>10. \A x, y \in submitted' : Ahead(x, y)' => Follows(x, y)'
  BY <1>6, <1>8 DEF PlaceInv, OrderInv, Ahead
<1> QED BY <1>7, <1>9, <1>10 DEF PlaceInv, OrderInv

\* It takes out of the queue what it has looked at.
LEMMA RemovePlace ==
  ASSUME TypeOK, PlaceInv, Calm, NEW e \in Execs, DrainRemove(e), \A f \in Execs : Live(f) => f = e
  PROVE  PlaceInv'
<1> DEFINE s == Consumed(e)
<1>1. /\ delivered' = delivered \o IdsOf(s) /\ queue' = Without(queue, s)
      /\ arrived' = arrived /\ submitted' = submitted /\ pc[e] = "draining"
  BY DEF DrainRemove
<1>2. \A f \in Execs : pc'[f] \notin {"processing", "draining"}
  <2>1. ASSUME NEW f \in Execs, f # e PROVE pc'[f] \notin {"processing", "draining"}
    <3>1. pc'[f] = pc[f] /\ ~Live(f)
      BY <2>1 DEF DrainRemove, TypeOK
    <3> QED BY <3>1 DEF Live, Querying
  <2>2. pc'[e] = "querying"
    BY DEF DrainRemove, TypeOK
  <2> QED BY <2>1, <2>2
<1>3. /\ s \in Seq(QueuedType) /\ ToSet(s) = {c \in ToSet(snap[e]) : c.mode # "bash"}
      /\ \A x, y : Before(s, x, y) => Before(snap[e], x, y)
  BY ConsumedIs
<1> HIDE DEF s
<1>4. ToSet(queue)' = ToSet(queue) \ ToSet(s) /\ \A x, y : Before(queue, x, y)' => Before(queue, x, y)
  BY <1>1, Elements, WithoutIs
<1>5. ToSet(snap[e]) \subseteq ToSet(queue) /\ Distinct(snap[e]) /\ ToSet(queue) \subseteq submitted
  BY <1>1 DEF PlaceInv, OnceInv
<1>6. \A x \in ToSet(s) : ~Before(s, x, x) /\ x.id \notin ToSet(delivered)
  BY <1>3, <1>5 DEF PlaceInv, OnceInv, Distinct
<1>7. ASSUME NEW x \in submitted, NEW y \in submitted, Ahead(x, y), Follows(x, y)
      PROVE  /\ ~Before(s, y, x)
             /\ y \in ToSet(s) => x \notin ToSet(queue)'
             /\ y.id \in ToSet(delivered) => x \notin ToSet(s)
  <2>1. ~Before(s, y, x)
    BY <1>1, <1>3, <1>7 DEF Follows
  <2>2. ASSUME y \in ToSet(s), x \in ToSet(queue)' PROVE FALSE
    <3>1. x \in ToSet(queue) /\ x \notin ToSet(s) /\ y \in ToSet(snap[e])
      BY <1>3, <1>4, <2>2
    <3>2. x \in ToSet(snap[e])
      BY <1>1, <1>7, <3>1 DEF Follows
    <3>3. x.mode = y.mode
      BY <1>7 DEF Ahead, Alike
    <3> QED BY <1>3, <2>2, <3>1, <3>2, <3>3
  <2>3. y.id \in ToSet(delivered) => x \notin ToSet(s)
    BY <1>3, <1>5, <1>7 DEF Follows
  <2> QED BY <2>1, <2>2, <2>3
<1> QED
  <2> DEFINE new == {}
  <2>1. /\ new \in SUBSET Commands /\ new \cap submitted = {} /\ submitted' = submitted \cup new
        /\ ToSet(s) \subseteq submitted'
    BY <1>1, <1>3, <1>5
  <2> HIDE DEF new
  <2> QED BY <1>1, <1>2, <1>3, <1>4, <1>6, <1>7, <2>1, EntersPlace

\* What an execution was given enters the conversation.
LEMMA DeliverPlace ==
  ASSUME TypeOK, PlaceInv, Calm, NEW e \in Execs, pc[e] = "processing", NEW x \in {"querying", "over"},
         pc' = [pc EXCEPT ![e] = x], delivered' = delivered \o IdsOf(cmds[e]), queue' = queue,
         arrived' = arrived, submitted' = submitted, \A f \in Execs : Live(f) => f = e
  PROVE  PlaceInv'
<1>1. \A f \in Execs : pc'[f] \notin {"processing", "draining"}
  <2>1. ASSUME NEW f \in Execs, f # e PROVE pc'[f] \notin {"processing", "draining"}
    <3>1. pc'[f] = pc[f] /\ ~Live(f)
      BY <2>1 DEF TypeOK
    <3> QED BY <3>1 DEF Live, Querying
  <2>2. pc'[e] = x
    BY DEF TypeOK
  <2> QED BY <2>1, <2>2
<1>2. /\ cmds[e] \in Seq(QueuedType) /\ ToSet(cmds[e]) \subseteq submitted \ ToSet(queue)
      /\ \A y \in ToSet(cmds[e]) : ~Before(cmds[e], y, y) /\ y.id \notin ToSet(delivered)
  BY DEF TypeOK, PlaceInv, OnceInv, Distinct
<1>3. ToSet(queue)' = ToSet(queue) \ ToSet(cmds[e]) /\ \A y, z : Before(queue, y, z)' => Before(queue, y, z)
  BY <1>2
<1>4. ASSUME NEW y \in submitted, NEW z \in submitted, Ahead(y, z), Follows(y, z)
      PROVE  /\ ~Before(cmds[e], z, y)
             /\ z \in ToSet(cmds[e]) => y \notin ToSet(queue)'
             /\ z.id \in ToSet(delivered) => y \notin ToSet(cmds[e])
  BY <1>4 DEF Follows
<1> QED
  <2> DEFINE new == {}
  <2>1. /\ new \in SUBSET Commands /\ new \cap submitted = {} /\ submitted' = submitted \cup new
        /\ ToSet(cmds[e]) \subseteq submitted'
    BY <1>2
  <2> HIDE DEF new
  <2> QED BY <1>1, <1>2, <1>3, <1>4, <2>1, EntersPlace

\* A new execution: the guard was idle, so nobody is under way.
LEMMA ExecutePlace ==
  ASSUME TypeOK, AloneInv, PlaceInv, Calm, NEW e \in Fresh, NEW s \in Seq(QueuedType), Execute(e, s), ~IsActive,
         NEW new \in SUBSET Commands, new \cap submitted = {},
         submitted' = submitted \cup new, arrived' = arrived, delivered' = delivered,
         ToSet(queue)' = ToSet(queue) \ ToSet(s), \A x, y : Before(queue, x, y)' => Before(queue, x, y),
         ToSet(s) \subseteq submitted', \A x \in ToSet(s) : ~Before(s, x, x) /\ x.id \notin ToSet(delivered),
         \A x, y \in submitted : Ahead(x, y) /\ Follows(x, y) =>
           /\ ~Before(s, y, x)
           /\ y \in ToSet(s) => x \notin ToSet(queue)'
           /\ y.id \in ToSet(delivered) => x \notin ToSet(s)
  PROVE  PlaceInv'
<1>1. e \in Execs /\ \A f \in Execs : ~Live(f)
  BY DEF Fresh, AloneInv, Calm, IsActive
<1>2. OnlyProcesses(e, s)
  BY <1>1 DEF Execute, OnlyProcesses, TypeOK, Live, Querying
<1> QED BY <1>1, <1>2, BeginsPlace

\* A command of the user is executed at once, or waits behind all others.
LEMMA SubmitPlace ==
  ASSUME TypeOK, AloneInv, PlaceInv, Calm, NEW c \in Commands, Submit(c)
  PROVE  PlaceInv'
<1>1. CASE IsActive
  BY <1>1, QueuedPlace DEF Submit, execVars
<1>2. CASE ~IsActive
  <2>1. PICK e \in Fresh : Execute(e, <<c>>)
    BY <1>2 DEF Submit
  <2>2. /\ c \notin submitted /\ submitted' = submitted \cup {c} /\ queue' = queue
        /\ arrived' = arrived /\ delivered' = delivered
    BY <1>2 DEF Submit
  <2>3. /\ <<c>> \in Seq(QueuedType) /\ ToSet(<<c>>) = {c}
        /\ \A y, z : ~Before(<<c>>, y, z)
    BY CommandIs, SequenceOfOne
  <2>4. c \notin ToSet(queue) /\ c.id \notin ToSet(delivered)
    BY <2>2, NewIsNowhere
  <2> DEFINE s == <<c>>
             new == {c}
  <2>5. /\ s \in Seq(QueuedType) /\ ToSet(s) = {c} /\ \A y, z : ~Before(s, y, z)
        /\ Execute(e, s) /\ new \in SUBSET Commands /\ new \cap submitted = {} /\ submitted' = submitted \cup new
    BY <2>1, <2>2, <2>3
  <2> HIDE DEF s, new
  <2>6. /\ ToSet(queue)' = ToSet(queue) \ ToSet(s) /\ \A y, z : Before(queue, y, z)' => Before(queue, y, z)
        /\ ToSet(s) \subseteq submitted' /\ \A x \in ToSet(s) : ~Before(s, x, x) /\ x.id \notin ToSet(delivered)
    BY <2>2, <2>4, <2>5
  <2>7. \A x, y \in submitted : Ahead(x, y) /\ Follows(x, y) =>
          /\ ~Before(s, y, x)
          /\ y \in ToSet(s) => x \notin ToSet(queue)'
          /\ y.id \in ToSet(delivered) => x \notin ToSet(s)
    BY <2>2, <2>5
  <2> QED BY <1>2, <2>2, <2>5, <2>6, <2>7, ExecutePlace
<1> QED BY <1>1, <1>2

\* The queue is processed from its head: a batch of commands that are alike, or one.
LEMMA ProcessQueuePlace ==
  ASSUME TypeOK, AloneInv, PlaceInv, Calm, ProcessQueue
  PROVE  PlaceInv'
<1>1. PICK n \in Peek(queue), e \in Fresh : /\ Execute(e, Batch(queue, n))
                                            /\ queue' = Without(queue, Batch(queue, n))
  BY DEF ProcessQueue
<1> DEFINE s == Batch(queue, n)
<1>2. /\ s \in Seq(QueuedType) /\ ToSet(s) \subseteq ToSet(queue)
      /\ \A x, y : Before(s, x, y) => Before(queue, x, y)
      /\ \A x, y \in ToSet(queue) : Alike(x, y) /\ y \in ToSet(s) /\ x \notin ToSet(s) => Before(queue, y, x)
  BY Elements, BatchIs
<1>3. /\ Execute(e, s) /\ queue' = Without(queue, s) /\ ~IsActive
      /\ submitted' = submitted /\ arrived' = arrived /\ delivered' = delivered
  BY <1>1 DEF ProcessQueue, historyVars
<1> HIDE DEF s
<1>4. ToSet(queue)' = ToSet(queue) \ ToSet(s) /\ \A x, y : Before(queue, x, y)' => Before(queue, x, y)
  BY <1>3, Elements, WithoutIs
<1>5. ToSet(s) \subseteq submitted' /\ \A x \in ToSet(s) : ~Before(s, x, x) /\ x.id \notin ToSet(delivered)
  BY <1>2, <1>3 DEF PlaceInv, OnceInv, Distinct
<1>6. ASSUME NEW x \in submitted, NEW y \in submitted, Ahead(x, y), Follows(x, y)
      PROVE  /\ ~Before(s, y, x)
             /\ y \in ToSet(s) => x \notin ToSet(queue)'
             /\ y.id \in ToSet(delivered) => x \notin ToSet(s)
  BY <1>2, <1>4, <1>6 DEF Ahead, Follows
<1> DEFINE new == {}
<1>7. new \in SUBSET Commands /\ new \cap submitted = {} /\ submitted' = submitted \cup new
  BY <1>3
<1> HIDE DEF new
<1> QED BY <1>2, <1>3, <1>4, <1>5, <1>6, <1>7, ExecutePlace

\* A message of a teammate is submitted or waits.
LEMMA IncomingPlace ==
  ASSUME TypeOK, AloneInv, PlaceInv, Calm, NEW c \in Commands, Incoming(c)
  PROVE  PlaceInv'
<1>1. PICK e \in Fresh : BeginQuery(e, <<c>>)
  BY DEF Incoming
<1>2. /\ c \notin submitted /\ submitted' = submitted \cup {c} /\ queue' = queue
      /\ arrived' = arrived /\ delivered' = delivered \o IdsOf(<<c>>) /\ ~IsActive
      /\ e \in Execs /\ pc' = [pc EXCEPT ![e] = "querying"]
  BY <1>1 DEF Incoming, BeginQuery, Fresh
<1>3. /\ <<c>> \in Seq(QueuedType) /\ ToSet(<<c>>) = {c}
      /\ \A y, z : ~Before(<<c>>, y, z)
  BY CommandIs, SequenceOfOne
<1>4. c \notin ToSet(queue) /\ c.id \notin ToSet(delivered)
  BY <1>2, NewIsNowhere
<1> DEFINE s == <<c>>
           new == {c}
<1>5. /\ s \in Seq(QueuedType) /\ ToSet(s) = {c} /\ \A y, z : ~Before(s, y, z)
      /\ delivered' = delivered \o IdsOf(s)
      /\ new \in SUBSET Commands /\ new \cap submitted = {} /\ submitted' = submitted \cup new
  BY <1>2, <1>3
<1> HIDE DEF s, new
<1>6. \A f \in Execs : pc'[f] \notin {"processing", "draining"}
  <2>1. \A f \in Execs : ~Live(f)
    BY <1>2 DEF AloneInv, Calm, IsActive
  <2> QED BY <1>2, <2>1 DEF TypeOK, Live, Querying
<1>7. /\ ToSet(queue)' = ToSet(queue) \ ToSet(s) /\ \A y, z : Before(queue, y, z)' => Before(queue, y, z)
      /\ ToSet(s) \subseteq submitted' /\ \A x \in ToSet(s) : ~Before(s, x, x) /\ x.id \notin ToSet(delivered)
  BY <1>2, <1>4, <1>5
<1>8. \A x, y \in submitted : Ahead(x, y) /\ Follows(x, y) =>
        /\ ~Before(s, y, x)
        /\ y \in ToSet(s) => x \notin ToSet(queue)'
        /\ y.id \in ToSet(delivered) => x \notin ToSet(s)
  BY <1>2, <1>5
<1> QED BY <1>2, <1>5, <1>6, <1>7, <1>8, EntersPlace

\* The steps of an execution keep each command in one place.
LEMMA ExecStepPlace ==
  ASSUME TypeOK, OwnerInv, AloneInv, PlaceInv, Calm, NEW e \in Execs, ExecStep(e)
  PROVE  PlaceInv'
<1>1. Live(e) /\ \A f \in Execs : Live(f) => f = e
  <2>1. Live(e)
    BY DEF ExecStep, Processed, ProcessFails, NoMessages, LoseRace, StartQuery, LocalTurn,
           DrainSnapshot, DrainRemove, EndQuery, Live, Querying
  <2> QED BY <2>1 DEF AloneInv, Calm
<1>2. ~LoseRace(e)
  BY AloneFacts DEF LoseRace, CanStart, Calm
<1>3. CASE ProcessFails(e) \/ NoMessages(e) \/ EndQuery(e)
  <2>1. /\ queue' = queue /\ cmds' = cmds /\ snap' = snap /\ delivered' = delivered
        /\ arrived' = arrived /\ submitted' = submitted /\ pc' = [pc EXCEPT ![e] = "over"]
    BY <1>3 DEF ProcessFails, NoMessages, EndQuery, historyVars
  <2>2. \A f \in Execs : pc'[f] \in {"processing", "draining"} => pc'[f] = pc[f]
    BY <2>1 DEF TypeOK
  <2> QED BY <2>1, <2>2, NothingMoves
<1>4. CASE StartQuery(e) \/ LocalTurn(e)
  <2>1. /\ pc[e] = "processing" /\ delivered' = delivered \o IdsOf(cmds[e]) /\ queue' = queue
        /\ arrived' = arrived /\ submitted' = submitted
        /\ \E x \in {"querying", "over"} : pc' = [pc EXCEPT ![e] = x]
    BY <1>4 DEF StartQuery, LocalTurn, BeginQuery
  <2> QED BY <1>1, <2>1, DeliverPlace
<1>5. CASE DrainSnapshot(e)
  BY <1>1, <1>5, SnapshotPlace
<1>6. CASE DrainRemove(e)
  BY <1>1, <1>6, RemovePlace
<1> QED BY <1>2, <1>3, <1>4, <1>5, <1>6 DEF ExecStep, Processed

\* Every step does, and none lets a command overtake one that is like it.
LEMMA PlaceNext ==
  ASSUME TypeOK, OwnerInv, AloneInv, PlaceInv, [Next]_vars
  PROVE  PlaceInv'
<1> SUFFICES ASSUME Calm' PROVE PlaceInv'
  BY DEF PlaceInv, OnceInv, OrderInv
<1>1. Calm /\ ~CancelTurn /\ ~PopAllEditable /\ ~KillAgents
  BY CancelsGrow DEF Calm
<1>2. ASSUME NEW c \in Commands, Submit(c) \/ Notify(c) \/ Incoming(c) PROVE PlaceInv'
  <2>1. CASE Submit(c)
    BY <1>1, <2>1, SubmitPlace
  <2>2. CASE Notify(c)
    BY <1>1, <2>2, QueuedPlace DEF Notify, execVars
  <2>3. CASE Incoming(c)
    BY <1>1, <2>3, IncomingPlace
  <2> QED BY <1>2, <2>1, <2>2, <2>3
<1>3. CASE ProcessQueue
  BY <1>1, <1>3, ProcessQueuePlace
<1>4. ASSUME NEW e \in Execs, ExecStep(e) PROVE PlaceInv'
  BY <1>1, <1>4, ExecStepPlace
<1>5. CASE NowInterrupt \/ UNCHANGED vars
  <2>1. /\ queue' = queue /\ cmds' = cmds /\ snap' = snap /\ delivered' = delivered
        /\ arrived' = arrived /\ submitted' = submitted /\ pc' = pc
    BY <1>5 DEF NowInterrupt, vars, execVars, historyVars
  <2> QED BY <1>1, <2>1, NothingMoves
<1>6. CASE AgentDrain
  <2>1. PICK n \in DOMAIN queue : ~IsMainThread(queue[n]) /\ queue' = Without(queue, <<queue[n]>>)
    BY <1>6 DEF AgentDrain
  <2> DEFINE x == queue[n]
  <2>2. x \in ToSet(queue) /\ ~x.main /\ queue' = Without(queue, <<x>>) /\ x \in QueuedType
    BY <2>1, Elements DEF IsMainThread, ToSet
  <2> HIDE DEF x
  <2>3. ToSet(<<x>>) = {x}
    BY <2>2, SequenceOfOne
  <2>4. ToSet(queue)' = ToSet(queue) \ {x} /\ \A y, z : Before(queue, y, z)' => Before(queue, y, z)
    BY <2>2, <2>3, Elements, WithoutIs
  <2>5. /\ cmds' = cmds /\ snap' = snap /\ delivered' = delivered
        /\ arrived' = arrived /\ submitted' = submitted /\ pc' = pc
    BY <1>6 DEF AgentDrain, execVars
  <2> QED BY <1>1, <2>2, <2>4, <2>5, LeavesQueue
<1> QED BY <1>1, <1>2, <1>3, <1>4, <1>5, <1>6 DEF Next, Idle

-----------------------------------------------------------------------------
(* The theorems about the commands                                           *)

\* The inductive invariant.
TurnInv == TypeOK /\ OwnerInv /\ AloneInv /\ PlaceInv

\* The invariant behind the last theorems: types, the owner of the guard, one execution
\* at a time, and each command in one place, in the order of those that are like it.
THEOREM TurnInvariant == Spec => []TurnInv
<1>1. Init => TurnInv
  <2> SUFFICES ASSUME Init PROVE TurnInv
    OBVIOUS
  <2>1. AloneInv
    BY DEF Init, AloneInv, Live, Querying
  <2>2. ToSet(queue) = {} /\ ToSet(delivered) = {} /\ ToSet(arrived) = {} /\ submitted = {}
    BY DEF Init, ToSet
  <2>3. PlaceInv
    BY <2>2 DEF Init, PlaceInv, OnceInv, OrderInv, Distinct
  <2> QED BY <2>1, <2>3, TypeInit, OwnerInit DEF TurnInv
<1>2. TurnInv /\ [Next]_vars => TurnInv'
  BY TypeNext, OwnerNext, AloneNext, PlaceNext DEF TurnInv
<1> QED BY <1>1, <1>2, PTL DEF Spec

\* As long as nobody presses Escape, one execution is under way at a time, for any number
\* of prompts, notifications and turns.
THEOREM OneByOne == Spec => []OneAtATime
<1>1. TurnInv => OneAtATime
  BY DEF TurnInv, AloneInv, OneAtATime
<1> QED BY <1>1, TurnInvariant, PTL

\* No command enters the conversation twice while nobody presses Escape or empties the
\* queue, whether the query in progress drains it or the next turn takes it.
THEOREM DeliversOnce == Spec => []DeliveredOnce
<1>1. TurnInv => DeliveredOnce
  <2> SUFFICES ASSUME TurnInv, cancels = 0, pops = 0
               PROVE  \A m, n \in DOMAIN delivered : delivered[m] = delivered[n] => m = n
    BY DEF DeliveredOnce
  <2>1. Distinct(delivered) /\ delivered \in Seq(Nat)
    BY DEF TurnInv, TypeOK, PlaceInv, OnceInv, Calm
  <2> QED BY <2>1, DistinctIs
<1> QED BY <1>1, TurnInvariant, PTL

\* Commands that are alike enter the conversation in the order in which they were queued,
\* through batches, drains and turns of their own.
THEOREM OrdersAlike == Spec => []AlikeInOrder
<1>1. TurnInv => AlikeInOrder
  BY DEF TurnInv, PlaceInv, OrderInv, AlikeInOrder, Calm, Ahead, Follows
<1> QED BY <1>1, TurnInvariant, PTL
=============================================================================
