------------------------ MODULE WorkerStateUploader ------------------------
(***************************************************************************)
(* The uploader of the state of a worker                                   *)
(* (src/src/cli/transports/WorkerStateUploader.ts): at most one PUT is in  *)
(* flight, patches that come meanwhile are merged into one that waits, and *)
(* a PUT that fails is tried again with what waits merged into it.         *)
(*                                                                         *)
(* An action is one synchronous segment.  A patch is a function on the     *)
(* keys it sets.  The metadata are merged one level deep: each of them is  *)
(* a key of its own, those in Metadata.                                    *)
(***************************************************************************)
EXTENDS Integers, Sequences

CONSTANTS Keys, Values,
          Metadata     \* the keys inside of external_metadata

ASSUME MetadataAssumption == Metadata \subseteq Keys

Patches == UNION {[D -> Values] : D \in SUBSET Keys}
NoPatch == [k \in {} |-> k]   \* null

\* Mutated form: the metadata object is replaced as a whole.
CoalesceObjects(b, o) ==
  [k \in DOMAIN o \cup {d \in DOMAIN b : d \in Metadata => DOMAIN o \cap Metadata = {}} |->
     IF k \in DOMAIN o THEN o[k] ELSE b[k]]

\* coalescePatches(): what the later patch o sets replaces what b sets.
Coalesce(b, o) ==
  [k \in DOMAIN b \cup DOMAIN o |-> IF k \in DOMAIN o THEN o[k] ELSE b[k]]

VARIABLES
  up,      \* the uploader, and the reports it was given so far
  server,  \* what the server holds
  base,    \* what it held before the first report
  shown    \* how many reports it reflects

uploaderVars == <<up, server, base, shown>>

NewUploader ==
  [pending |-> NoPatch,    \* this.pending
   stage   |-> "none",     \* this.inflight: none, sent, taken by the server, sleeping
   current |-> NoPatch,    \* what sendWithRetry() sends
   closed  |-> FALSE,      \* this.closed
   given   |-> <<>>,       \* the reports so far
   covers  |-> 0]          \* how many of them are in what was sent

UploaderInit ==
  /\ base \in [Keys -> Values] /\ server = base
  /\ up = NewUploader /\ shown = 0

\* drain()
DrainedUploader(u) ==
  IF u.stage = "none" /\ ~u.closed /\ u.pending # NoPatch
    THEN [u EXCEPT !.current = u.pending, !.pending = NoPatch, !.stage = "sent",
                   !.covers = Len(u.given)]
    ELSE u

\* enqueue() of the patch p
Enqueued(u, p) ==
  IF u.closed THEN u
  ELSE DrainedUploader([u EXCEPT !.pending = Coalesce(@, p), !.given = Append(@, p)])

EnqueuePatch(p) ==
  /\ p # NoPatch /\ up' = Enqueued(up, p)
  /\ UNCHANGED <<server, base, shown>>

\* What the server makes of the state s and the patch p.
Updated(s, p) == [k \in Keys |-> IF k \in DOMAIN p THEN p[k] ELSE s[k]]

\* The server applies the PUT.
ServerTakes ==
  /\ up.stage = "sent"
  /\ server' = Updated(server, up.current) /\ shown' = up.covers
  /\ up' = [up EXCEPT !.stage = "taken"]
  /\ UNCHANGED base

\* Mutated form: what waits is left waiting.
SucceedOnly ==
  /\ up.stage = "taken"
  /\ up' = [up EXCEPT !.stage = "none", !.current = NoPatch]
  /\ UNCHANGED <<server, base, shown>>

\* send() succeeds: sendWithRetry() returns, and what waits is sent.
Succeed ==
  /\ up.stage = "taken"
  /\ up' = DrainedUploader([up EXCEPT !.stage = "none", !.current = NoPatch])
  /\ UNCHANGED <<server, base, shown>>

\* send() fails, before or after the server took the PUT.
Fail ==
  /\ up.stage \in {"sent", "taken"}
  /\ up' = [up EXCEPT !.stage = "sleeping"]
  /\ UNCHANGED <<server, base, shown>>

\* Mutated form: what failed goes over what came later.
AbsorbedUnder(u) ==
  IF u.pending # NoPatch
    THEN [u EXCEPT !.current = Coalesce(u.pending, @), !.pending = NoPatch,
                   !.covers = Len(u.given)]
    ELSE u

\* What waits is merged into what is tried again.
Absorbed(u) ==
  IF u.pending # NoPatch
    THEN [u EXCEPT !.current = Coalesce(@, u.pending), !.pending = NoPatch,
                   !.covers = Len(u.given)]
    ELSE u

\* The delay after a failure is over.
Retry ==
  /\ up.stage = "sleeping"
  /\ up' = IF up.closed THEN [up EXCEPT !.stage = "none", !.current = NoPatch]
           ELSE [Absorbed(up) EXCEPT !.stage = "sent"]
  /\ UNCHANGED <<server, base, shown>>

ClosedUploader(u) == [u EXCEPT !.closed = TRUE, !.pending = NoPatch]

CloseUploader ==
  /\ up' = ClosedUploader(up)
  /\ UNCHANGED <<server, base, shown>>

UploaderNext ==
  \/ \E p \in Patches : EnqueuePatch(p)
  \/ ServerTakes \/ Succeed \/ Fail \/ Retry \/ CloseUploader

UploaderSpec == UploaderInit /\ [][UploaderNext]_uploaderVars

----------------------------------------------------------------------------
Uploader ==
  [pending : Patches, stage : {"none", "sent", "taken", "sleeping"},
   current : Patches, closed : BOOLEAN, given : Seq(Patches), covers : Nat]

\* The server shows what a prefix of the reports leaves, and a longer one with
\* every PUT it takes, whatever fails, waits and is merged.
Publication == INSTANCE StatePublication WITH given <- up.given
PublishedInOrder == Publication!Spec
=============================================================================
