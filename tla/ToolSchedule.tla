---------------------------- MODULE ToolSchedule ----------------------------
(***************************************************************************)
(* What the streaming tool executor promises: the calls of a response are  *)
(* readers (concurrency safe) and writers, they are taken up in the order  *)
(* of their arrival, and a writer runs alone.  A call may also end without *)
(* running, when it was cancelled or its tool does not exist.              *)
(***************************************************************************)
EXTENDS Integers

CONSTANT Calls       \* the places of the calls in the response, numbers

VARIABLES phase,     \* "absent", "waiting", "running" or "ended"
          shared     \* whether the call may run beside others

vars == <<phase, shared>>

Running == {c \in Calls : phase[c] = "running"}

Init == /\ phase = [c \in Calls |-> "absent"]
        /\ shared = [c \in Calls |-> TRUE]

\* The next call arrives; one whose tool does not exist has ended.
Arrive(c, s) ==
  /\ phase[c] = "absent"
  /\ \A d \in Calls : d < c => phase[d] # "absent"
  /\ shared' = [shared EXCEPT ![c] = s]

\* A call is taken up only when no earlier one waits.
First(c) == phase[c] = "waiting" /\ \A d \in Calls : d < c => phase[d] # "waiting"

MayRun(c) == \/ Running = {}
             \/ shared[c] /\ \A d \in Running : shared[d]

\* Calls that are taken up in one go: on arrival a call may run at once.
Take(c) == /\ First(c) /\ MayRun(c)
           /\ \/ phase' = [phase EXCEPT ![c] = "running"]
              \/ phase' = [phase EXCEPT ![c] = "ended"]
           /\ UNCHANGED shared

ArriveAndWait(c, s) == Arrive(c, s) /\ phase' = [phase EXCEPT ![c] = "waiting"]

ArriveAndGo(c, s) ==
  /\ Arrive(c, s)
  /\ \A d \in Calls : phase[d] # "waiting"
  /\ Running = {} \/ (s /\ \A d \in Running : shared[d])
  /\ \/ phase' = [phase EXCEPT ![c] = "running"]
     \/ phase' = [phase EXCEPT ![c] = "ended"]

ArriveUnknown(c) == Arrive(c, TRUE) /\ phase' = [phase EXCEPT ![c] = "ended"]

End(c) == /\ phase[c] = "running"
          /\ phase' = [phase EXCEPT ![c] = "ended"]
          /\ UNCHANGED shared

\* The response is thrown away.
Reset == /\ phase' = [c \in Calls |-> "absent"]
         /\ shared' = [c \in Calls |-> TRUE]

Next == \/ \E c \in Calls : Take(c) \/ End(c) \/ ArriveUnknown(c)
        \/ \E c \in Calls, s \in BOOLEAN : ArriveAndWait(c, s) \/ ArriveAndGo(c, s)
        \/ Reset

Spec == Init /\ [][Next]_vars
=============================================================================
