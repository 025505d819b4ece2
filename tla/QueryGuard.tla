----------------------------- MODULE QueryGuard -----------------------------
(***************************************************************************)
(* The state machine that decides whether a query may start                *)
(* (src/src/utils/QueryGuard.ts).  Its operations are synchronous; each    *)
(* operator below is one of them, as an action on the two fields, and the  *)
(* specification of a caller composes them with the caller's own steps.    *)
(***************************************************************************)
EXTENDS Integers

VARIABLES status,      \* this._status
          generation   \* this._generation

guardVars == <<status, generation>>

GuardTypeOK == /\ status \in {"idle", "dispatching", "running"}
               /\ generation \in Nat

GuardInit == status = "idle" /\ generation = 0

IsActive == status # "idle"

\* Mutated form: nothing is reserved.
ReserveNothing == UNCHANGED guardVars

\* reserve(): false, and no change, unless the guard is idle.
Reserve == /\ status' = IF status = "idle" THEN "dispatching" ELSE status
           /\ UNCHANGED generation

\* Mutated form: the reservation is never given up.
CancelNothing == UNCHANGED guardVars

\* cancelReservation(): whoever made it, and only a reservation.
CancelReservation ==
  /\ status' = IF status = "dispatching" THEN "idle" ELSE status
  /\ UNCHANGED generation

\* tryStart() succeeds unless a query is running.
CanStart == status # "running"

\* tryStart() when it succeeds; the caller's generation is generation'.
Start == /\ status' = "running"
         /\ generation' = generation + 1

\* Mutated form: the caller's generation is not compared.
IsCurrentRunning(g) == status = "running"

\* end(g) returns true: the caller still owns the guard.
IsCurrent(g) == generation = g /\ status = "running"

End(g) == /\ status' = IF IsCurrent(g) THEN "idle" ELSE status
          /\ UNCHANGED generation

\* forceEnd(): also out of a reservation, and with a new generation.
ForceEnd == IF IsActive THEN status' = "idle" /\ generation' = generation + 1
                        ELSE UNCHANGED guardVars
=============================================================================
