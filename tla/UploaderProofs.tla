---------------------------- MODULE UploaderProofs ----------------------------
(***************************************************************************)
(* The two uploaders of the transports, for any number of reports, events  *)
(* and calls, any sizes and limits, and whatever fails.                    *)
(*                                                                         *)
(* The uploader of the worker's state implements StatePublication: the     *)
(* server holds, at any time, what a prefix of the reports leaves,         *)
(* whatever fails, waits, is merged and is tried again, for any keys,      *)
(* values and workers.  The invariant: what waits says what the reports    *)
(* say that no PUT covers yet, and a PUT under way says what the reports   *)
(* say since some report the server already shows.  A second one, Told,    *)
(* says what the reports leave once all of them are shown: the state that  *)
(* was reported last, which is what makes it sound to skip a report that   *)
(* is no news.                                                             *)
(*                                                                         *)
(* The uploader of events sends one batch at a time, loses no event before *)
(* close(), lets flush() return when what it was called for has left, and  *)
(* keeps the events of awaited calls in order.  The argument follows the   *)
(* line, the batch in flight with the buffer behind it: every action       *)
(* leaves a line that is within the one it found, or within that with the  *)
(* events of one call put behind it (Moves).                               *)
(***************************************************************************)
EXTENDS CCRClient, EventUploader, SelectionProofs, SequenceTheorems, TLAPS

-----------------------------------------------------------------------------
(* The state of the worker                                                   *)

\* The patch p says what the reports m+1..n of g say.
Says(p, g, m, n) ==
  \A k \in Keys : \/ k \notin DOMAIN p /\ Publication!Silent(g, m, n, k)
                  \/ /\ k \in DOMAIN p
                     /\ \E i \in m + 1..n : Publication!SaysLast(g, m, n, k, i) /\ p[k] = g[i][k]

\* The uploader u, when the server shows n reports.
UploaderInv(u, n) ==
  /\ u \in Uploader
  /\ u.covers \in 0..Len(u.given) /\ n \in 0..u.covers
  /\ (u.stage = "none") = (u.current = NoPatch)
  /\ IF u.closed THEN u.pending = NoPatch
     ELSE Says(u.pending, u.given, u.covers, Len(u.given))
  /\ u.stage # "none" => \E m \in 0..n : Says(u.current, u.given, m, u.covers)
  /\ (u.stage = "taken" \/ (u.stage = "none" /\ ~u.closed)) => n = u.covers

-----------------------------------------------------------------------------
(* Patches                                                                   *)

\* A patch that sets nothing is the empty one.
LEMMA EmptyPatch ==
  /\ NoPatch \in Patches
  /\ DOMAIN NoPatch = {}
  /\ \A p \in Patches : DOMAIN p = {} => p = NoPatch
  /\ \A p \in Patches : p # NoPatch => \E k \in Keys : k \in DOMAIN p
<1>1. DOMAIN NoPatch = {} BY DEF NoPatch
<1>2. NoPatch \in [{} -> Values] BY DEF NoPatch
<1>3. \A p \in Patches : DOMAIN p = {} => p = NoPatch
  <2> SUFFICES ASSUME NEW p \in Patches, DOMAIN p = {} PROVE p = NoPatch OBVIOUS
  <2>1. PICK D \in SUBSET Keys : p \in [D -> Values] BY DEF Patches
  <2>2. p = [k \in {} |-> p[k]] BY <2>1
  <2> QED BY <2>2 DEF NoPatch
<1>4. \A p \in Patches : DOMAIN p \subseteq Keys BY DEF Patches
<1> QED BY <1>1, <1>2, <1>3, <1>4 DEF Patches

\* The merge of two patches is one, of the keys of both, and not empty if the
\* second is not.
LEMMA CoalescePatches ==
  ASSUME NEW b \in Patches, NEW o \in Patches
  PROVE  /\ Coalesce(b, o) \in Patches
         /\ DOMAIN Coalesce(b, o) = DOMAIN b \cup DOMAIN o
         /\ \A k \in DOMAIN b \cup DOMAIN o :
              Coalesce(b, o)[k] = IF k \in DOMAIN o THEN o[k] ELSE b[k]
         /\ o # NoPatch => Coalesce(b, o) # NoPatch
<1>1. PICK D \in SUBSET Keys : b \in [D -> Values] BY DEF Patches
<1>2. PICK E \in SUBSET Keys : o \in [E -> Values] BY DEF Patches
<1>3. Coalesce(b, o) \in [D \cup E -> Values] BY <1>1, <1>2 DEF Coalesce
<1>4. D \cup E \in SUBSET Keys OBVIOUS
<1>5. Coalesce(b, o) \in Patches BY <1>3, <1>4 DEF Patches
<1>6. DOMAIN Coalesce(b, o) = DOMAIN b \cup DOMAIN o BY DEF Coalesce
<1>7. \A k \in DOMAIN b \cup DOMAIN o :
        Coalesce(b, o)[k] = IF k \in DOMAIN o THEN o[k] ELSE b[k] BY DEF Coalesce
<1>8. ASSUME o # NoPatch PROVE Coalesce(b, o) # NoPatch
  BY <1>6, <1>8, EmptyPatch
<1> QED BY <1>5, <1>6, <1>7, <1>8

\* A merge says what two stretches of reports say that follow each other.
LEMMA SaysBoth ==
  ASSUME NEW p \in Patches, NEW q \in Patches, NEW g,
         NEW m \in Nat, NEW n \in Nat, NEW l \in Nat, m <= n, n <= l,
         Says(p, g, m, n), Says(q, g, n, l)
  PROVE  Says(Coalesce(p, q), g, m, l)
<1> DEFINE c == Coalesce(p, q)
<1> SUFFICES ASSUME NEW k \in Keys
             PROVE  \/ k \notin DOMAIN c /\ Publication!Silent(g, m, l, k)
                    \/ /\ k \in DOMAIN c
                       /\ \E i \in m + 1..l : Publication!SaysLast(g, m, l, k, i) /\ c[k] = g[i][k]
  BY DEF Says
<1>0. /\ DOMAIN c = DOMAIN p \cup DOMAIN q
      /\ k \in DOMAIN q => c[k] = q[k]
      /\ k \in DOMAIN p /\ k \notin DOMAIN q => c[k] = p[k]
  BY DEF Coalesce
<1> HIDE DEF c
<1>1. CASE k \in DOMAIN q
  <2>1. PICK i \in n + 1..l : Publication!SaysLast(g, n, l, k, i) /\ q[k] = g[i][k]
    BY <1>1 DEF Says
  <2>2. i \in m + 1..l /\ Publication!SaysLast(g, m, l, k, i)
    BY <2>1 DEF Publication!SaysLast
  <2> QED BY <1>0, <1>1, <2>1, <2>2
<1>2. CASE k \notin DOMAIN q /\ k \in DOMAIN p
  <2>1. PICK i \in m + 1..n : Publication!SaysLast(g, m, n, k, i) /\ p[k] = g[i][k]
    BY <1>2 DEF Says
  <2>2. Publication!Silent(g, n, l, k) BY <1>2 DEF Says
  <2>3. i \in m + 1..l /\ Publication!SaysLast(g, m, l, k, i)
    BY <2>1, <2>2 DEF Publication!SaysLast, Publication!Silent
  <2> QED BY <1>0, <1>2, <2>1, <2>3
<1>3. CASE k \notin DOMAIN q /\ k \notin DOMAIN p
  <2>1. Publication!Silent(g, m, n, k) /\ Publication!Silent(g, n, l, k) BY <1>3 DEF Says
  <2>2. Publication!Silent(g, m, l, k) BY <2>1 DEF Publication!Silent
  <2> QED BY <1>0, <1>3, <2>2
<1> QED BY <1>1, <1>2, <1>3

\* No report says nothing.
LEMMA SaysNothing ==
  ASSUME NEW g, NEW n \in Nat
  PROVE  Says(NoPatch, g, n, n)
BY EmptyPatch DEF Says, Publication!Silent

\* A report says what it says.
LEMMA SaysItself ==
  ASSUME NEW g \in Seq(Patches), NEW q \in Patches
  PROVE  Says(q, Append(g, q), Len(g), Len(g) + 1)
<1> DEFINE h == Append(g, q)
           n == Len(g) + 1
<1>1. h[n] = q /\ n \in Nat OBVIOUS
<1>2. \A i \in Len(g) + 1..n : i = n BY <1>1
<1> SUFFICES ASSUME NEW k \in Keys
             PROVE  \/ k \notin DOMAIN q /\ Publication!Silent(h, Len(g), n, k)
                    \/ /\ k \in DOMAIN q
                       /\ \E i \in Len(g) + 1..n : Publication!SaysLast(h, Len(g), n, k, i) /\ q[k] = h[i][k]
  BY DEF Says
<1> HIDE DEF h
<1> QED BY <1>1, <1>2 DEF Publication!Silent, Publication!SaysLast

\* What the first reports say does not change with a further one.
LEMMA FurtherReport ==
  ASSUME NEW g \in Seq(Patches), NEW q \in Patches, NEW n \in 0..Len(g), NEW m \in Nat
  PROVE  /\ \A p : Says(p, g, m, n) => Says(p, Append(g, q), m, n)
         /\ \A s, b : Publication!IsStateAfter(s, b, g, n) => Publication!IsStateAfter(s, b, Append(g, q), n)
<1> DEFINE h == Append(g, q)
<1>1. \A i \in 1..n : h[i] = g[i] OBVIOUS
<1> HIDE DEF h
<1>2. \A k : \A j \in Nat : Publication!Silent(g, j, n, k) => Publication!Silent(h, j, n, k)
  BY <1>1 DEF Publication!Silent
<1>3. ASSUME NEW k, NEW j \in Nat, NEW i \in j + 1..n, Publication!SaysLast(g, j, n, k, i)
      PROVE  Publication!SaysLast(h, j, n, k, i) /\ h[i] = g[i]
  BY <1>1, <1>2, <1>3 DEF Publication!SaysLast, Publication!Silent
<1>4. ASSUME NEW p, Says(p, g, m, n) PROVE Says(p, h, m, n)
  BY <1>2, <1>3, <1>4 DEF Says
<1>5. ASSUME NEW s, NEW b, Publication!IsStateAfter(s, b, g, n) PROVE Publication!IsStateAfter(s, b, h, n)
  <2> SUFFICES ASSUME NEW k \in Keys
               PROVE  \/ Publication!Silent(h, 0, n, k) /\ s[k] = b[k]
                      \/ \E i \in 1..n : Publication!SaysLast(h, 0, n, k, i) /\ s[k] = h[i][k]
    BY DEF Publication!IsStateAfter, Publication!Silent, Publication!SaysLast
  <2>1. \/ Publication!Silent(g, 0, n, k) /\ s[k] = b[k]
        \/ \E i \in 1..n : Publication!SaysLast(g, 0, n, k, i) /\ s[k] = g[i][k]
    BY <1>5 DEF Publication!IsStateAfter, Publication!Silent, Publication!SaysLast
  <2>2. CASE Publication!Silent(g, 0, n, k) /\ s[k] = b[k] BY <2>2, <1>2
  <2>3. ASSUME NEW i \in 1..n, Publication!SaysLast(g, 0, n, k, i), s[k] = g[i][k]
        PROVE  Publication!SaysLast(h, 0, n, k, i) /\ s[k] = h[i][k]
    <3>1. i \in 0 + 1..n OBVIOUS
    <3> QED BY <1>3, <2>3, <3>1
  <2> QED BY <2>1, <2>2, <2>3
<1> QED BY <1>4, <1>5 DEF h

\* The server that shows n reports and takes a patch that says what those
\* from an earlier one to the l-th say shows l reports.
LEMMA AfterUpdate ==
  ASSUME NEW s \in [Keys -> Values], NEW b, NEW p \in Patches, NEW g,
         NEW m \in Nat, NEW n \in Nat, NEW l \in Nat, m <= n, n <= l,
         Publication!IsStateAfter(s, b, g, n), Says(p, g, m, l)
  PROVE  /\ Publication!IsStateAfter(Updated(s, p), b, g, l)
         /\ Updated(s, p) \in [Keys -> Values]
<1> DEFINE t == Updated(s, p)
<1>0. t \in [Keys -> Values] BY DEF Updated, Patches
<1>1. \A k \in Keys : t[k] = IF k \in DOMAIN p THEN p[k] ELSE s[k] BY DEF Updated
<1> HIDE DEF t
<1>2. ASSUME NEW k \in Keys
      PROVE  \/ Publication!Silent(g, 0, l, k) /\ t[k] = b[k]
             \/ \E i \in 1..l : Publication!SaysLast(g, 0, l, k, i) /\ t[k] = g[i][k]
  <2>1. CASE k \in DOMAIN p
    <3>1. PICK i \in m + 1..l : Publication!SaysLast(g, m, l, k, i) /\ p[k] = g[i][k]
      BY <2>1 DEF Says
    <3>2. i \in 1..l /\ Publication!SaysLast(g, 0, l, k, i)
      BY <3>1 DEF Publication!SaysLast
    <3> QED BY <1>1, <2>1, <3>1, <3>2
  <2>2. CASE k \notin DOMAIN p
    <3>1. Publication!Silent(g, m, l, k) BY <2>2 DEF Says
    <3>2. CASE Publication!Silent(g, 0, n, k) /\ s[k] = b[k]
      <4>1. Publication!Silent(g, 0, l, k) BY <3>1, <3>2 DEF Publication!Silent
      <4> QED BY <1>1, <2>2, <3>2, <4>1
    <3>3. ASSUME NEW i \in 1..n, Publication!SaysLast(g, 0, n, k, i), s[k] = g[i][k]
          PROVE  i \in 1..l /\ Publication!SaysLast(g, 0, l, k, i) /\ t[k] = g[i][k]
      BY <1>1, <2>2, <3>1, <3>3 DEF Publication!SaysLast, Publication!Silent
    <3> QED BY <3>2, <3>3 DEF Publication!IsStateAfter, Publication!Silent, Publication!SaysLast
  <2> QED BY <2>1, <2>2
<1> QED BY <1>0, <1>2 DEF t, Publication!IsStateAfter, Publication!Silent, Publication!SaysLast

-----------------------------------------------------------------------------
(* The uploader                                                              *)

\* A new uploader has nothing to say.
LEMMA NewUploaderInv == UploaderInv(NewUploader, 0)
<1>1. NoPatch \in Patches BY EmptyPatch
<1>2. NewUploader \in Uploader BY <1>1 DEF NewUploader, Uploader
<1>3. Says(NoPatch, <<>>, 0, 0) BY SaysNothing
<1> QED BY <1>2, <1>3 DEF NewUploader, UploaderInv

\* drain() keeps the invariant and the reports.
LEMMA DrainedInv ==
  ASSUME NEW u, NEW n, UploaderInv(u, n)
  PROVE  /\ UploaderInv(DrainedUploader(u), n)
         /\ DrainedUploader(u).given = u.given /\ DrainedUploader(u).closed = u.closed
<1>1. CASE ~(u.stage = "none" /\ ~u.closed /\ u.pending # NoPatch)
  BY <1>1 DEF DrainedUploader
<1>2. CASE u.stage = "none" /\ ~u.closed /\ u.pending # NoPatch
  <2> DEFINE v == [u EXCEPT !.current = u.pending, !.pending = NoPatch, !.stage = "sent",
                            !.covers = Len(u.given)]
  <2>1. DrainedUploader(u) = v BY <1>2 DEF DrainedUploader
  <2>2. u \in Uploader /\ NoPatch \in Patches /\ u.covers \in 0..Len(u.given) /\ n = u.covers
    BY <1>2, EmptyPatch DEF UploaderInv
  <2>a. Len(u.given) \in Nat /\ u.pending \in Patches BY <2>2 DEF Uploader
  <2>3. v \in Uploader BY <2>2, <2>a DEF Uploader
  <2>4. /\ v.current = u.pending /\ v.pending = NoPatch /\ v.stage = "sent"
        /\ v.covers = Len(u.given) /\ v.given = u.given /\ v.closed = u.closed
    BY <2>2 DEF Uploader
  <2>5. Says(u.pending, u.given, n, Len(u.given)) BY <1>2, <2>2 DEF UploaderInv
  <2>6. Len(u.given) \in Nat BY <2>a
  <2>7. Says(NoPatch, u.given, Len(u.given), Len(u.given)) BY <2>6, SaysNothing
  <2> HIDE DEF v
  <2>8. UploaderInv(v, n)
    <3>1. n \in 0..n BY <2>2, <2>6
    <3>2. \E m \in 0..n : Says(v.current, v.given, m, v.covers) BY <2>4, <2>5, <3>1
    <3> QED BY <1>2, <2>2, <2>3, <2>4, <2>6, <2>7, <3>2 DEF UploaderInv
  <2> QED BY <2>1, <2>4, <2>8
<1> QED BY <1>1, <1>2

\* h has the reports of g, and perhaps more.
Extends(h, g) ==
  /\ h \in Seq(Patches) /\ Len(h) >= Len(g)
  /\ \A i \in 1..Len(g) : h[i] = g[i]

\* What the server shows of the reports g it shows of h, the same and more.
LEMMA ExtendedAfter ==
  ASSUME NEW g \in Seq(Patches), NEW h, Extends(h, g), NEW n \in 0..Len(g), NEW s, NEW b,
         Publication!IsStateAfter(s, b, g, n)
  PROVE  Publication!IsStateAfter(s, b, h, n)
<1>1. \A i \in 1..n : h[i] = g[i] BY DEF Extends
<1> SUFFICES ASSUME NEW k \in Keys
             PROVE  \/ Publication!Silent(h, 0, n, k) /\ s[k] = b[k]
                    \/ \E i \in 1..n : Publication!SaysLast(h, 0, n, k, i) /\ s[k] = h[i][k]
  BY DEF Publication!IsStateAfter
<1>2. \/ Publication!Silent(g, 0, n, k) /\ s[k] = b[k]
      \/ \E i \in 1..n : Publication!SaysLast(g, 0, n, k, i) /\ s[k] = g[i][k]
  BY DEF Publication!IsStateAfter
<1>3. CASE Publication!Silent(g, 0, n, k) /\ s[k] = b[k]
  BY <1>1, <1>3 DEF Publication!Silent
<1>4. ASSUME NEW i \in 1..n, Publication!SaysLast(g, 0, n, k, i), s[k] = g[i][k]
      PROVE  Publication!SaysLast(h, 0, n, k, i) /\ s[k] = h[i][k]
  BY <1>1, <1>4 DEF Publication!SaysLast, Publication!Silent
<1> QED BY <1>2, <1>3, <1>4

\* enqueue() keeps the invariant; it adds a report, or none.
LEMMA EnqueuedInv ==
  ASSUME NEW u, NEW n, UploaderInv(u, n), NEW p \in Patches, p # NoPatch
  PROVE  /\ UploaderInv(Enqueued(u, p), n)
         /\ Extends(Enqueued(u, p).given, u.given)
         /\ Enqueued(u, p).closed = u.closed
<1>0. u \in Uploader /\ u.given \in Seq(Patches) /\ u.covers \in 0..Len(u.given)
  BY DEF UploaderInv, Uploader
<1>1. CASE u.closed
  <2>1. Enqueued(u, p) = u BY <1>1 DEF Enqueued
  <2>2. Extends(u.given, u.given) BY <1>0 DEF Extends
  <2> QED BY <2>1, <2>2
<1>2. CASE ~u.closed
  <2> DEFINE v == [u EXCEPT !.pending = Coalesce(@, p), !.given = Append(@, p)]
             g == Append(u.given, p)
  <2>1. Enqueued(u, p) = DrainedUploader(v) BY <1>2 DEF Enqueued
  <2>2. u.pending \in Patches BY <1>0 DEF Uploader
  <2>3. Coalesce(u.pending, p) \in Patches BY <2>2, CoalescePatches
  <2>4. /\ g \in Seq(Patches) /\ Len(g) = Len(u.given) + 1 /\ Len(u.given) \in Nat
        /\ \A i \in 1..Len(u.given) : g[i] = u.given[i]
    BY <1>0
  <2>5. v \in Uploader BY <1>0, <2>3, <2>4 DEF Uploader
  <2>6. /\ v.pending = Coalesce(u.pending, p) /\ v.given = g
        /\ v.stage = u.stage /\ v.current = u.current /\ v.covers = u.covers
        /\ v.closed = u.closed
    BY <1>0 DEF Uploader
  <2>7. Says(u.pending, u.given, u.covers, Len(u.given)) BY <1>2 DEF UploaderInv
  <2>8. u.covers \in Nat /\ u.covers <= Len(u.given) /\ Len(u.given) \in 0..Len(u.given)
    BY <1>0, <2>4
  <2>9. Says(u.pending, g, u.covers, Len(u.given))
    BY <1>0, <2>7, <2>8, FurtherReport
  <2>10. Says(p, g, Len(u.given), Len(g)) BY <1>0, <2>4, SaysItself
  <2>11. Says(Coalesce(u.pending, p), g, u.covers, Len(g))
    BY <2>2, <2>4, <2>8, <2>9, <2>10, SaysBoth
  <2>12. u.stage # "none" => \E m \in 0..n : Says(u.current, g, m, u.covers)
    <3> SUFFICES ASSUME u.stage # "none"
                 PROVE  \E m \in 0..n : Says(u.current, g, m, u.covers)
      OBVIOUS
    <3>1. n \in Nat BY DEF UploaderInv, Uploader
    <3>2. PICK m \in 0..n : Says(u.current, u.given, m, u.covers) BY DEF UploaderInv
    <3>3. m \in Nat BY <3>1, <3>2
    <3> QED BY <1>0, <3>2, <3>3, FurtherReport
  <2> HIDE DEF v, g
  <2>13. UploaderInv(v, n)
    BY <1>2, <2>4, <2>5, <2>6, <2>8, <2>11, <2>12 DEF UploaderInv
  <2>14. UploaderInv(DrainedUploader(v), n) /\ DrainedUploader(v).given = g /\ DrainedUploader(v).closed = u.closed
    BY <2>6, <2>13, DrainedInv
  <2>15. Extends(g, u.given) BY <2>4 DEF Extends
  <2> QED BY <2>1, <2>14, <2>15
<1> QED BY <1>1, <1>2

\* What waits is merged into what is tried again.
LEMMA AbsorbedInv ==
  ASSUME NEW u, NEW n, UploaderInv(u, n), u.stage = "sleeping", ~u.closed
  PROVE  /\ UploaderInv([Absorbed(u) EXCEPT !.stage = "sent"], n)
         /\ [Absorbed(u) EXCEPT !.stage = "sent"].given = u.given
<1>0. /\ u \in Uploader /\ u.given \in Seq(Patches) /\ u.covers \in 0..Len(u.given)
      /\ u.current \in Patches /\ u.pending \in Patches /\ NoPatch \in Patches
      /\ Len(u.given) \in Nat /\ n \in 0..u.covers
  BY EmptyPatch DEF UploaderInv, Uploader
<1>1. CASE u.pending = NoPatch
  <2> DEFINE v == [u EXCEPT !.stage = "sent"]
  <2>1. [Absorbed(u) EXCEPT !.stage = "sent"] = v BY <1>1 DEF Absorbed
  <2>2. v \in Uploader BY <1>0 DEF Uploader
  <2>3. /\ v.pending = u.pending /\ v.given = u.given /\ v.stage = "sent"
        /\ v.current = u.current /\ v.covers = u.covers /\ v.closed = u.closed
    BY <1>0 DEF Uploader
  <2> HIDE DEF v
  <2>4. UploaderInv(v, n) BY <1>0, <2>2, <2>3 DEF UploaderInv
  <2> QED BY <2>1, <2>3, <2>4
<1>2. CASE u.pending # NoPatch
  <2> DEFINE v == [[u EXCEPT !.current = Coalesce(@, u.pending), !.pending = NoPatch,
                             !.covers = Len(u.given)] EXCEPT !.stage = "sent"]
  <2>1. [Absorbed(u) EXCEPT !.stage = "sent"] = v BY <1>2 DEF Absorbed
  <2>2. Coalesce(u.current, u.pending) \in Patches /\ Coalesce(u.current, u.pending) # NoPatch
    BY <1>0, <1>2, CoalescePatches
  <2>3. v \in Uploader BY <1>0, <2>2 DEF Uploader
  <2>4. /\ v.pending = NoPatch /\ v.given = u.given /\ v.stage = "sent"
        /\ v.current = Coalesce(u.current, u.pending) /\ v.covers = Len(u.given)
        /\ v.closed = u.closed
    BY <1>0 DEF Uploader
  <2>5. PICK m \in 0..n : Says(u.current, u.given, m, u.covers) BY DEF UploaderInv
  <2>6. Says(u.pending, u.given, u.covers, Len(u.given)) BY DEF UploaderInv
  <2>7. m \in Nat /\ m <= u.covers /\ u.covers \in Nat /\ u.covers <= Len(u.given)
    BY <1>0, <2>5
  <2>8. Says(Coalesce(u.current, u.pending), u.given, m, Len(u.given))
    BY <1>0, <2>5, <2>6, <2>7, SaysBoth
  <2>9. Says(NoPatch, u.given, Len(u.given), Len(u.given)) BY <1>0, SaysNothing
  <2>10. n \in 0..Len(u.given) BY <1>0
  <2> HIDE DEF v
  <2>11. UploaderInv(v, n)
    BY <1>0, <2>2, <2>3, <2>4, <2>5, <2>8, <2>9, <2>10 DEF UploaderInv
  <2> QED BY <2>1, <2>4, <2>11
<1> QED BY <1>1, <1>2

-----------------------------------------------------------------------------
(* The client                                                                *)

ClientTypeOK ==
  /\ epoch \in 1..serverEpoch /\ serverEpoch \in 1..Len(Workers)
  /\ init \in {"none", "sent", "taken", "done", "failed"}
  /\ currentState \in States \cup {"none"}
  /\ reported \in [state : States, details : Values]
  /\ hasPendingAction \in BOOLEAN /\ wiring \in Wirings

\* What the server shows.
ServerInv ==
  /\ server \in [Keys -> Values] /\ base \in [Keys -> Values]
  /\ Publication!IsStateAfter(server, base, up.given, shown)

\* Nothing is reported before the worker is initialized.
StateInv ==
  /\ UploaderInv(up, shown) /\ ServerInv /\ ClientTypeOK
  /\ init \in {"none", "sent"} => up.given = <<>>

PublicationStep == [Publication!Next]_(Publication!vars)

\* The invariant implies the type invariant the runs check.
LEMMA InvTypeOK == StateInv => TypeOK
<1>1. ASSUME UploaderInv(up, shown)
      PROVE  /\ up.pending \in Patches /\ up.current \in Patches
             /\ (up.stage = "none") = (up.current = NoPatch)
             /\ up.covers \in 0..Len(up.given) /\ shown \in 0..up.covers
  BY <1>1 DEF UploaderInv, Uploader
<1> QED BY <1>1 DEF StateInv, ServerInv, ClientTypeOK, TypeOK

\* The names of the keys, values and workers.
LEMMA Names ==
  /\ Workers \in Seq(Values) /\ Len(Workers) \in Nat \ {0}
  /\ \A i \in 1..Len(Workers) : Workers[i] \in Values
  /\ States \subseteq Values /\ {"null", "other", "dead"} \subseteq Values
  /\ {"worker_status", "requires_action_details", "pending_action", "task_summary"} \subseteq Keys
<1>1. Workers \in Seq(Values) /\ Len(Workers) > 0 BY WorkersAssumption
<1>2. Len(Workers) \in Nat /\ \A i \in 1..Len(Workers) : Workers[i] \in Values BY <1>1
<1> QED BY <1>1, <1>2, KeysAssumption

\* A worker that reported nothing is idle.
LEMMA NoReportType == NoReport \in [state : States, details : Values]
<1>1. "idle" \in States BY DEF States
<1>2. "null" \in Values BY Names
<1> QED BY <1>1, <1>2 DEF NoReport

\* What is reported is a patch that sets something.
LEMMA Reports ==
  /\ \A s, d \in Values : StatusPatch(s, d) \in Patches /\ StatusPatch(s, d) # NoPatch
  /\ \A k \in Keys, d \in Values : [x \in {k} |-> d] \in Patches /\ [x \in {k} |-> d] # NoPatch
  /\ InitPatch \in Patches
<1>1. ASSUME NEW s \in Values, NEW d \in Values
      PROVE  StatusPatch(s, d) \in Patches /\ StatusPatch(s, d) # NoPatch
  <2>1. StatusPatch(s, d) \in [{"worker_status", "requires_action_details"} -> Values]
    BY DEF StatusPatch
  <2>2. "worker_status" \in DOMAIN StatusPatch(s, d) BY DEF StatusPatch
  <2>3. {"worker_status", "requires_action_details"} \in SUBSET Keys BY Names
  <2>4. StatusPatch(s, d) \in Patches BY <2>1, <2>3 DEF Patches
  <2> QED BY <2>2, <2>4, EmptyPatch
<1>2. ASSUME NEW k \in Keys, NEW d \in Values
      PROVE  [x \in {k} |-> d] \in Patches /\ [x \in {k} |-> d] # NoPatch
  <2>1. [x \in {k} |-> d] \in [{k} -> Values] OBVIOUS
  <2>2. k \in DOMAIN [x \in {k} |-> d] OBVIOUS
  <2> QED BY <2>1, <2>2, EmptyPatch DEF Patches
<1>3. InitPatch \in [{"worker_status", "pending_action", "task_summary"} -> Values]
  BY Names DEF InitPatch, States
<1>4. {"worker_status", "pending_action", "task_summary"} \in SUBSET Keys BY Names
<1> QED BY <1>1, <1>2, <1>3, <1>4 DEF Patches

\* A step of the uploader that leaves the server alone reports, or nothing.
LEMMA UploaderStep ==
  ASSUME StateInv, UNCHANGED <<server, base, shown>>,
         UploaderInv(up', shown), Extends(up'.given, up.given)
  PROVE  UploaderInv(up, shown)' /\ ServerInv' /\ PublicationStep
<1>1. up.given \in Seq(Patches) /\ shown \in 0..Len(up.given)
  BY DEF StateInv, UploaderInv, Uploader
<1>2. ServerInv' BY <1>1, ExtendedAfter DEF StateInv, ServerInv
<1>3. Publication!Report
  <2>1. Publication!Patches = Patches BY DEF Patches, Publication!Patches
  <2> QED BY <2>1 DEF Extends, Publication!Report
<1> QED BY <1>2, <1>3 DEF PublicationStep, Publication!Next

\* A report, one after another.
LEMMA ExtendsTransitive ==
  ASSUME NEW f \in Seq(Patches), NEW g, NEW h, Extends(g, f), Extends(h, g)
  PROVE  Extends(h, f)
BY DEF Extends

LEMMA ReportedStateInv ==
  ASSUME NEW u, NEW n, UploaderInv(u, n), NEW s \in Values, NEW d \in Values
  PROVE  /\ UploaderInv(ReportedState(u, s, d), n)
         /\ Extends(ReportedState(u, s, d).given, u.given)
<1>1. Extends(u.given, u.given) BY DEF UploaderInv, Uploader, Extends
<1>2. StatusPatch(s, d) \in Patches /\ StatusPatch(s, d) # NoPatch BY Reports
<1> QED BY <1>1, <1>2, EnqueuedInv DEF ReportedState

\* Closing keeps the invariant.
LEMMA ClosedInv ==
  ASSUME NEW u, NEW n, UploaderInv(u, n)
  PROVE  /\ UploaderInv(ClosedUploader(u), n)
         /\ Extends(ClosedUploader(u).given, u.given)
         /\ ClosedUploader(u).stage = u.stage /\ ClosedUploader(u).closed
<1> DEFINE v == ClosedUploader(u)
<1>1. u \in Uploader /\ u.given \in Seq(Patches) /\ NoPatch \in Patches
  BY EmptyPatch DEF UploaderInv, Uploader
<1>2. v \in Uploader BY <1>1 DEF ClosedUploader, Uploader
<1>3. /\ v.pending = NoPatch /\ v.given = u.given /\ v.stage = u.stage
      /\ v.current = u.current /\ v.covers = u.covers /\ v.closed = TRUE
  BY <1>1 DEF ClosedUploader, Uploader
<1>4. Extends(u.given, u.given) BY <1>1 DEF Extends
<1> HIDE DEF v
<1>5. UploaderInv(v, n) BY <1>2, <1>3 DEF UploaderInv
<1> QED BY <1>3, <1>4, <1>5 DEF v

\* A new stage of the PUT, but for success, keeps the invariant.
LEMMA StageInv ==
  ASSUME NEW u, NEW n, UploaderInv(u, n), u.stage # "none"
  PROVE  /\ UploaderInv([u EXCEPT !.stage = "sleeping"], n)
         /\ [u EXCEPT !.stage = "sleeping"].given = u.given
<1> DEFINE v == [u EXCEPT !.stage = "sleeping"]
<1>1. u \in Uploader BY DEF UploaderInv
<1>2. v \in Uploader BY <1>1 DEF Uploader
<1>3. /\ v.pending = u.pending /\ v.given = u.given /\ v.stage = "sleeping"
      /\ v.current = u.current /\ v.covers = u.covers /\ v.closed = u.closed
  BY <1>1 DEF Uploader
<1> HIDE DEF v
<1>4. UploaderInv(v, n) BY <1>2, <1>3 DEF UploaderInv
<1> QED BY <1>3, <1>4 DEF v

\* A PUT that is over keeps it, once the server shows it or the client is closed.
LEMMA OverInv ==
  ASSUME NEW u, NEW n, UploaderInv(u, n), u.closed \/ u.stage = "taken"
  PROVE  /\ UploaderInv([u EXCEPT !.stage = "none", !.current = NoPatch], n)
         /\ [u EXCEPT !.stage = "none", !.current = NoPatch].given = u.given
<1> DEFINE v == [u EXCEPT !.stage = "none", !.current = NoPatch]
<1>1. u \in Uploader /\ NoPatch \in Patches BY EmptyPatch DEF UploaderInv
<1>2. v \in Uploader BY <1>1 DEF Uploader
<1>3. /\ v.pending = u.pending /\ v.given = u.given /\ v.stage = "none"
      /\ v.current = NoPatch /\ v.covers = u.covers /\ v.closed = u.closed
  BY <1>1 DEF Uploader
<1> HIDE DEF v
<1>4. UploaderInv(v, n) BY <1>2, <1>3 DEF UploaderInv
<1> QED BY <1>3, <1>4 DEF v

-----------------------------------------------------------------------------
(* The steps of the client                                                   *)

\* Initially the first worker has reported nothing.
LEMMA InitInv == ClientInit => StateInv /\ Publication!Init
<1> SUFFICES ASSUME ClientInit PROVE StateInv /\ Publication!Init OBVIOUS
<1>1. UploaderInv(up, shown) BY NewUploaderInv DEF ClientInit
<1>2. up.given = <<>> BY DEF ClientInit, NewUploader
<1>3. server = base /\ base \in [Keys -> Values]
  <2>1. Dead \in [Keys -> Values]
    BY KeysAssumption DEF Dead, States
  <2> QED BY <2>1 DEF ClientInit
<1>4. Publication!IsStateAfter(server, base, <<>>, 0)
  BY <1>3 DEF Publication!IsStateAfter, Publication!Silent
<1>5. ServerInv BY <1>2, <1>3, <1>4 DEF ServerInv, ClientInit
<1>6. ClientTypeOK
  <2>1. Len(Workers) \in Nat \ {0} BY Names
  <2>2. epoch \in 1..serverEpoch /\ serverEpoch \in 1..Len(Workers) BY <2>1 DEF ClientInit
  <2>3. reported \in [state : States, details : Values] BY NoReportType, Zenon DEF ClientInit
  <2>4. /\ init \in {"none", "sent", "taken", "done", "failed"}
        /\ currentState \in States \cup {"none"}
        /\ hasPendingAction \in BOOLEAN /\ wiring \in Wirings
    BY DEF ClientInit
  <2> QED BY <2>2, <2>3, <2>4, Zenon DEF ClientTypeOK
<1> QED BY <1>1, <1>2, <1>3, <1>5, <1>6 DEF StateInv, Publication!Init, ClientInit

\* Every step keeps the invariant, and reports, publishes or takes over.
LEMMA StepInv ==
  ASSUME ~Early, StateInv, [ClientNext]_allVars
  PROVE  StateInv' /\ PublicationStep
<1>0. /\ UploaderInv(up, shown) /\ ServerInv /\ ClientTypeOK
      /\ up \in Uploader /\ up.given \in Seq(Patches) /\ shown \in 0..Len(up.given)
      /\ Extends(up.given, up.given)
  BY DEF StateInv, UploaderInv, Uploader, Extends
<1>1. CASE Initialize
  <2>1. UNCHANGED <<up, server, base, shown>> BY <1>1 DEF Initialize, uploaderVars
  <2>2. UploaderInv(up', shown) /\ Extends(up'.given, up.given) BY <1>0, <2>1
  <2>3. UploaderInv(up, shown)' /\ ServerInv' /\ PublicationStep BY <2>1, <2>2, UploaderStep
  <2> QED BY <1>0, <1>1, <2>1, <2>3 DEF Initialize, StateInv, ClientTypeOK
<1>2. CASE InitTaken
  <2>1. up.given = <<>> /\ shown = 0 BY <1>0, <1>2 DEF StateInv, InitTaken
  <2>2. up' = up /\ shown' = shown /\ base' = server' /\ server' = Updated(server, InitPatch)
    BY <1>2, <2>1 DEF InitTaken
  <2>3. server' \in [Keys -> Values]
    <3>1. InitPatch \in Patches /\ server \in [Keys -> Values] BY <1>0, Reports DEF ServerInv
    <3> QED BY <2>2, <3>1 DEF Updated, Patches
  <2>4. ServerInv'
    BY <2>1, <2>2, <2>3 DEF ServerInv, Publication!IsStateAfter, Publication!Silent
  <2>5. Publication!Takeover BY <2>1, <2>2, <2>3 DEF Publication!Takeover
  <2>6. ClientTypeOK' /\ init' = "taken" BY <1>0, <1>2 DEF InitTaken, ClientTypeOK
  <2> QED BY <1>0, <2>2, <2>4, <2>5, <2>6 DEF StateInv, PublicationStep, Publication!Next
<1>3. CASE InitDone
  <2>1. UNCHANGED <<up, server, base, shown>> BY <1>3 DEF InitDone, uploaderVars
  <2>2. UploaderInv(up', shown) /\ Extends(up'.given, up.given) BY <1>0, <2>1
  <2>3. UploaderInv(up, shown)' /\ ServerInv' /\ PublicationStep BY <2>1, <2>2, UploaderStep
  <2> QED BY <1>0, <1>3, <2>1, <2>3 DEF InitDone, StateInv, ClientTypeOK, States
<1>4. CASE InitFails
  <2>1. UNCHANGED <<server, base, shown>> /\ up' = ClosedUploader(up) BY <1>4 DEF InitFails
  <2>2. UploaderInv(up', shown) /\ Extends(up'.given, up.given) BY <1>0, <2>1, ClosedInv
  <2>3. UploaderInv(up, shown)' /\ ServerInv' /\ PublicationStep BY <2>1, <2>2, UploaderStep
  <2> QED BY <1>0, <1>4, <2>3 DEF InitFails, StateInv, ClientTypeOK
<1>5. ASSUME NEW s \in States, NEW d \in {"null", Me, "other"}, NotifyState(s, d)
      PROVE  StateInv' /\ PublicationStep
  <2> DEFINE r == ReportedState(up, s, d)
             q == [k \in {"pending_action"} |-> d]
             t == [k \in {"task_summary"} |-> "null"]
             m == IF d # "null" \/ hasPendingAction THEN Enqueued(r, q) ELSE r
             v == IF s = "idle" THEN Enqueued(m, t) ELSE m
  <2>1. UNCHANGED <<server, base, shown>> /\ up' = v BY <1>5 DEF NotifyState
  <2>2. s \in Values /\ d \in Values /\ "null" \in Values
    <3>1. Me \in Values BY <1>0, Names DEF ClientTypeOK, Me
    <3> QED BY <3>1, Names
  <2>3. UploaderInv(r, shown) /\ Extends(r.given, up.given) BY <1>0, <2>2, ReportedStateInv
  <2>4. q \in Patches /\ q # NoPatch /\ t \in Patches /\ t # NoPatch
    BY <2>2, Names, Reports
  <2> HIDE DEF r, q, t
  <2>5. UploaderInv(m, shown) /\ Extends(m.given, up.given)
    <3>1. UploaderInv(Enqueued(r, q), shown) /\ Extends(Enqueued(r, q).given, r.given)
      BY <2>3, <2>4, EnqueuedInv
    <3>2. Extends(Enqueued(r, q).given, up.given) BY <1>0, <2>3, <3>1, ExtendsTransitive
    <3> QED BY <2>3, <3>1, <3>2
  <2> HIDE DEF m
  <2>6. UploaderInv(v, shown) /\ Extends(v.given, up.given)
    <3>1. UploaderInv(Enqueued(m, t), shown) /\ Extends(Enqueued(m, t).given, m.given)
      BY <2>4, <2>5, EnqueuedInv
    <3>2. Extends(Enqueued(m, t).given, up.given) BY <1>0, <2>5, <3>1, ExtendsTransitive
    <3> QED BY <2>5, <3>1, <3>2
  <2> HIDE DEF v
  <2>7. UploaderInv(up, shown)' /\ ServerInv' /\ PublicationStep
    BY <2>1, <2>6, UploaderStep
  <2>8. init = "done" /\ init' = init BY <1>5 DEF NotifyState, MayReport
  <2>9. ClientTypeOK' BY <1>0, <1>5, <2>2 DEF NotifyState, ClientTypeOK
  <2> QED BY <2>7, <2>8, <2>9 DEF StateInv
<1>6. CASE NotifySummary
  <2> DEFINE t == [k \in {"task_summary"} |-> Me]
  <2>1. UNCHANGED <<server, base, shown>> /\ up' = Enqueued(up, t) BY <1>6 DEF NotifySummary
  <2>2. t \in Patches /\ t # NoPatch
    <3>1. Me \in Values BY <1>0, Names DEF ClientTypeOK, Me
    <3> QED BY <3>1, Names, Reports
  <2> HIDE DEF t
  <2>3. UploaderInv(up', shown) /\ Extends(up'.given, up.given)
    BY <1>0, <2>1, <2>2, EnqueuedInv
  <2>4. UploaderInv(up, shown)' /\ ServerInv' /\ PublicationStep BY <2>1, <2>3, UploaderStep
  <2>5. init = "done" /\ init' = init BY <1>6 DEF NotifySummary, MayReport, clientVars
  <2>6. ClientTypeOK' BY <1>0, <1>6 DEF NotifySummary, ClientTypeOK, clientVars
  <2> QED BY <2>4, <2>5, <2>6 DEF StateInv
<1>7. ASSUME NEW s \in States, BridgeReports(s)
      PROVE  StateInv' /\ PublicationStep
  <2>1. UNCHANGED <<server, base, shown>> /\ up' = ReportedState(up, s, "null")
    BY <1>7 DEF BridgeReports
  <2>2. s \in Values /\ "null" \in Values BY Names
  <2>3. UploaderInv(up', shown) /\ Extends(up'.given, up.given)
    BY <1>0, <2>1, <2>2, ReportedStateInv
  <2>4. UploaderInv(up, shown)' /\ ServerInv' /\ PublicationStep BY <2>1, <2>3, UploaderStep
  <2>5. init = "done" /\ init' = init BY <1>7 DEF BridgeReports, MayReport
  <2>6. ClientTypeOK' BY <1>0, <1>7, <2>2 DEF BridgeReports, ClientTypeOK
  <2> QED BY <2>4, <2>5, <2>6 DEF StateInv
<1>8. CASE PutTaken
  <2>1. /\ up.stage = "sent" /\ server' = Updated(server, up.current) /\ shown' = up.covers
        /\ up' = [up EXCEPT !.stage = "taken"] /\ base' = base /\ UNCHANGED clientVars
    BY <1>8 DEF PutTaken, ServerTakes
  <2>2. /\ up' \in Uploader
        /\ up'.pending = up.pending /\ up'.given = up.given /\ up'.stage = "taken"
        /\ up'.current = up.current /\ up'.covers = up.covers /\ up'.closed = up.closed
    BY <1>0, <2>1 DEF Uploader
  <2>3. PICK m \in 0..shown : Says(up.current, up.given, m, up.covers)
    BY <1>0, <2>1 DEF UploaderInv
  <2>4. /\ up.covers \in 0..Len(up.given) /\ shown \in 0..up.covers /\ up.current \in Patches
        /\ Len(up.given) \in Nat
    BY <1>0 DEF UploaderInv, Uploader
  <2>5. /\ m \in Nat /\ shown \in Nat /\ up.covers \in Nat /\ m <= shown /\ shown <= up.covers
        /\ m \in 0..up.covers
    BY <2>3, <2>4
  <2>6. /\ Publication!IsStateAfter(server', base, up.given, up.covers)
        /\ server' \in [Keys -> Values]
    BY <1>0, <2>1, <2>3, <2>4, <2>5, AfterUpdate DEF ServerInv
  <2>7. ServerInv' BY <1>0, <2>1, <2>2, <2>6 DEF ServerInv
  <2>8. \E j \in 0..shown' : Says(up'.current, up'.given, j, up'.covers)
    BY <2>1, <2>2, <2>3, <2>5
  <2>9. UploaderInv(up', shown')
    BY <1>0, <2>1, <2>2, <2>4, <2>8 DEF UploaderInv
  <2>10. Publication!Publish
    BY <2>1, <2>2, <2>4, <2>5, <2>6 DEF Publication!Publish
  <2>11. ClientTypeOK' /\ init' = init BY <1>0, <2>1 DEF clientVars, ClientTypeOK
  <2> QED BY <2>2, <2>7, <2>9, <2>10, <2>11 DEF StateInv, PublicationStep, Publication!Next
<1>9. CASE PutSucceeds
  <2> DEFINE v == [up EXCEPT !.stage = "none", !.current = NoPatch]
  <2>1. UNCHANGED <<server, base, shown>> /\ up' = DrainedUploader(v) /\ up.stage = "taken"
    BY <1>9 DEF PutSucceeds, Succeed
  <2>2. UploaderInv(v, shown) /\ v.given = up.given BY <1>0, <2>1, OverInv
  <2> HIDE DEF v
  <2>3. UploaderInv(up', shown) /\ up'.given = up.given BY <2>1, <2>2, DrainedInv
  <2>4. UploaderInv(up, shown)' /\ ServerInv' /\ PublicationStep
    BY <1>0, <2>1, <2>3, UploaderStep
  <2>5. ClientTypeOK' /\ init' = init BY <1>0, <1>9 DEF PutSucceeds, clientVars, ClientTypeOK
  <2> QED BY <2>3, <2>4, <2>5 DEF StateInv
<1>10. CASE PutFails
  <2>1. UNCHANGED <<server, base, shown>> /\ up' = [up EXCEPT !.stage = "sleeping"] /\ up.stage # "none"
    BY <1>10 DEF PutFails, Fail
  <2>2. UploaderInv(up', shown) /\ up'.given = up.given BY <1>0, <2>1, StageInv
  <2>3. UploaderInv(up, shown)' /\ ServerInv' /\ PublicationStep
    BY <1>0, <2>1, <2>2, UploaderStep
  <2>4. ClientTypeOK' /\ init' = init BY <1>0, <1>10 DEF PutFails, clientVars, ClientTypeOK
  <2> QED BY <2>2, <2>3, <2>4 DEF StateInv
<1>11. CASE PutRetried
  <2>1. UNCHANGED <<server, base, shown>> /\ up.stage = "sleeping" BY <1>11 DEF PutRetried, Retry
  <2>2. UploaderInv(up', shown) /\ up'.given = up.given
    <3>1. CASE up.closed
      <4>1. up' = [up EXCEPT !.stage = "none", !.current = NoPatch]
        BY <1>11, <3>1 DEF PutRetried, Retry
      <4> QED BY <1>0, <3>1, <4>1, OverInv
    <3>2. CASE ~up.closed
      <4>1. up' = [Absorbed(up) EXCEPT !.stage = "sent"]
        BY <1>11, <3>2 DEF PutRetried, Retry
      <4> QED BY <1>0, <2>1, <3>2, <4>1, AbsorbedInv
    <3> QED BY <3>1, <3>2
  <2>3. UploaderInv(up, shown)' /\ ServerInv' /\ PublicationStep
    BY <1>0, <2>1, <2>2, UploaderStep
  <2>4. ClientTypeOK' /\ init' = init BY <1>0, <1>11 DEF PutRetried, clientVars, ClientTypeOK
  <2> QED BY <2>2, <2>3, <2>4 DEF StateInv
<1>12. CASE CloseClient
  <2>1. UNCHANGED <<server, base, shown>> /\ up' = ClosedUploader(up) BY <1>12 DEF CloseClient, CloseUploader
  <2>2. UploaderInv(up', shown) /\ Extends(up'.given, up.given) BY <1>0, <2>1, ClosedInv
  <2>3. UploaderInv(up, shown)' /\ ServerInv' /\ PublicationStep BY <2>1, <2>2, UploaderStep
  <2>4. up'.given = up.given BY <1>0, <2>1 DEF ClosedUploader, Uploader
  <2>5. ClientTypeOK' /\ init' = init BY <1>0, <1>12 DEF CloseClient, clientVars, ClientTypeOK
  <2> QED BY <2>3, <2>4, <2>5 DEF StateInv
<1>13. CASE Register
  <2>1. UNCHANGED <<up, server, base, shown, init>> BY <1>13 DEF Register, uploaderVars
  <2>2. UploaderInv(up', shown) /\ Extends(up'.given, up.given) BY <1>0, <2>1
  <2>3. UploaderInv(up, shown)' /\ ServerInv' /\ PublicationStep BY <2>1, <2>2, UploaderStep
  <2>4. ClientTypeOK' BY <1>0, <1>13, Names DEF Register, ClientTypeOK
  <2> QED BY <2>1, <2>3, <2>4 DEF StateInv
<1>14. CASE EpochMismatch
  <2> DEFINE c == ClosedUploader(up)
  <2>1. UNCHANGED <<server, base, shown>> /\ up' = [c EXCEPT !.stage = IF @ = "sent" THEN "sleeping" ELSE @]
    BY <1>14 DEF EpochMismatch
  <2>2. UploaderInv(c, shown) /\ Extends(c.given, up.given) BY <1>0, ClosedInv
  <2>3. c.given = up.given BY <1>0 DEF ClosedUploader, Uploader
  <2> HIDE DEF c
  <2>4. UploaderInv(up', shown) /\ up'.given = c.given
    <3>1. CASE c.stage = "sent"
      <4>1. up' = [c EXCEPT !.stage = "sleeping"] BY <2>1, <3>1
      <4> QED BY <2>2, <3>1, <4>1, StageInv
    <3>2. CASE c.stage # "sent"
      <4>1. c \in Uploader BY <2>2 DEF UploaderInv
      <4>2. up' = c BY <2>1, <3>2, <4>1 DEF Uploader
      <4> QED BY <2>2, <4>2
    <3> QED BY <3>1, <3>2
  <2>5. UploaderInv(up, shown)' /\ ServerInv' /\ PublicationStep
    BY <2>1, <2>2, <2>4, UploaderStep
  <2>6. ClientTypeOK' BY <1>0, <1>14 DEF EpochMismatch, ClientTypeOK
  <2>7. init' \in {"none", "sent"} => init \in {"none", "sent"} BY <1>14 DEF EpochMismatch
  <2> QED BY <2>3, <2>4, <2>5, <2>6, <2>7 DEF StateInv
<1>15. CASE NextWorker
  <2>1. /\ up' = NewUploader /\ shown' = 0 /\ base' = server /\ server' = server
        /\ up'.given = <<>>
    BY <1>15 DEF NextWorker, NewUploader
  <2>2. UploaderInv(up', shown') BY <2>1, NewUploaderInv
  <2>3. ServerInv'
    BY <1>0, <2>1 DEF ServerInv, Publication!IsStateAfter, Publication!Silent
  <2>4. Publication!Takeover BY <1>0, <2>1 DEF Publication!Takeover, ServerInv
  <2>5. ClientTypeOK'
    <3>1. epoch' \in 1..serverEpoch' /\ serverEpoch' \in 1..Len(Workers)
      BY <1>0, <1>15 DEF NextWorker, ClientTypeOK
    <3>2. (reported \in [state : States, details : Values])'
      BY <1>15, NoReportType, Zenon DEF NextWorker
    <3>3. /\ init' \in {"none", "sent", "taken", "done", "failed"}
          /\ currentState' \in States \cup {"none"}
          /\ hasPendingAction' \in BOOLEAN /\ wiring' \in Wirings
      BY <1>0, <1>15 DEF NextWorker, ClientTypeOK
    <3> QED BY <3>1, <3>2, <3>3, Zenon DEF ClientTypeOK
  <2> QED BY <2>1, <2>2, <2>3, <2>4, <2>5 DEF StateInv, PublicationStep, Publication!Next
<1>16. CASE UNCHANGED allVars
  <2>1. UNCHANGED <<up, server, base, shown>> BY <1>16 DEF allVars, uploaderVars
  <2>2. UploaderInv(up', shown) /\ Extends(up'.given, up.given) BY <1>0, <2>1
  <2>3. UploaderInv(up, shown)' /\ ServerInv' /\ PublicationStep BY <2>1, <2>2, UploaderStep
  <2> QED BY <1>0, <1>16, <2>1, <2>3 DEF allVars, clientVars, StateInv, ClientTypeOK
<1> QED
  BY <1>1, <1>2, <1>3, <1>4, <1>5, <1>6, <1>7, <1>8, <1>9, <1>10, <1>11, <1>12, <1>13,
     <1>14, <1>15, <1>16
  DEF ClientNext

-----------------------------------------------------------------------------
(* What the server shows of the worker                                       *)

\* The reports g leave the value v of the key k, d if none of them says anything.
Leaves(g, k, v, d) ==
  \/ Publication!Silent(g, 0, Len(g), k) /\ v = d
  \/ \E i \in 1..Len(g) : Publication!SaysLast(g, 0, Len(g), k, i) /\ v = g[i][k]

\* Some of the reports g says something of the key k.
Speaks(g, k) == \E i \in 1..Len(g) : k \in DOMAIN g[i]

\* The action that is waited for, as far as it is reported.
Action == IF wiring = "remoteIO" THEN reported.details ELSE "null"

Own == {"null", Me, "other"}

\* No report speaks of what a dead worker did.
SaysOwn(p) == \A k \in DOMAIN p \cap {"pending_action", "task_summary"} : p[k] \in Own
OwnReports == \A i \in 1..Len(up.given) : SaysOwn(up.given[i])

\* What initialize() puts in place of what the dead worker left.
CleanBase ==
  init \in {"taken", "done"} =>
    base["worker_status"] = "idle" /\ base["pending_action"] = "null" /\ base["task_summary"] = "null"

\* What reportState() and its caller remember is what was reported.
Remembered ==
  /\ IF init = "done" THEN currentState = reported.state ELSE reported = NoReport /\ ~hasPendingAction
  /\ reported.details # "null" => wiring = "remoteIO" /\ reported.state = "requires_action"
  /\ wiring = "remoteIO" => (hasPendingAction <=> reported.details # "null")

\* The reports so far leave what was reported last.
UpToDate ==
  ~up.closed =>
    /\ Leaves(up.given, "worker_status", reported.state, "idle")
    /\ Leaves(up.given, "pending_action", Action, "null")
    /\ Speaks(up.given, "worker_status") => \A d : Leaves(up.given, "requires_action_details", reported.details, d)
    /\ up.stage = "none" => up.pending = NoPatch

Told == OwnReports /\ CleanBase /\ Remembered /\ UpToDate

\* A further report replaces what it sets, and leaves the rest.
LEMMA LeavesMore ==
  ASSUME NEW g \in Seq(Patches), NEW p \in Patches, NEW h, h = Append(g, p), NEW k, NEW d
  PROVE  /\ k \in DOMAIN p => Leaves(h, k, p[k], d)
         /\ k \notin DOMAIN p => \A v : Leaves(g, k, v, d) => Leaves(h, k, v, d)
         /\ Speaks(h, k) => Speaks(g, k) \/ k \in DOMAIN p
<1> DEFINE n == Len(g) + 1
<1>1. /\ Len(g) \in Nat /\ Len(h) = n /\ n \in 1..n /\ h[n] = p
      /\ \A i \in 1..Len(g) : h[i] = g[i] /\ i \in 1..n
      /\ \A i \in 1..n : i = n \/ i \in 1..Len(g)
  OBVIOUS
<1>2. ASSUME k \in DOMAIN p PROVE Leaves(h, k, p[k], d)
  BY <1>1, <1>2 DEF Leaves, Publication!SaysLast, Publication!Silent
<1>3. ASSUME k \notin DOMAIN p, NEW v, Leaves(g, k, v, d) PROVE Leaves(h, k, v, d)
  <2>1. CASE Publication!Silent(g, 0, Len(g), k) /\ v = d
    BY <1>1, <1>3, <2>1 DEF Leaves, Publication!Silent
  <2>2. ASSUME NEW i \in 1..Len(g), Publication!SaysLast(g, 0, Len(g), k, i), v = g[i][k]
        PROVE  Publication!SaysLast(h, 0, n, k, i) /\ v = h[i][k]
    BY <1>1, <1>3, <2>2 DEF Publication!SaysLast, Publication!Silent
  <2> QED BY <1>1, <1>3, <2>1, <2>2 DEF Leaves
<1>4. Speaks(h, k) => Speaks(g, k) \/ k \in DOMAIN p
  BY <1>1 DEF Speaks
<1> QED BY <1>2, <1>3, <1>4

\* No report leaves everything as it was.
LEMMA LeavesNothing ==
  /\ \A k, d : Leaves(<<>>, k, d, d)
  /\ \A k : ~Speaks(<<>>, k)
BY DEF Leaves, Speaks, Publication!Silent

\* enqueue() adds the report unless the uploader is closed, and sends what can be sent.
LEMMA EnqueuedReports ==
  ASSUME NEW u \in Uploader, NEW p \in Patches, ~u.closed, NEW v, v = Enqueued(u, p),
         u.stage = "none" => u.pending = NoPatch
  PROVE  /\ v \in Uploader /\ v.given = Append(u.given, p) /\ ~v.closed
         /\ v.stage = "none" => v.pending = NoPatch
<1> DEFINE w == [u EXCEPT !.pending = Coalesce(@, p), !.given = Append(@, p)]
<1>1. u.pending \in Patches /\ u.given \in Seq(Patches)
  BY DEF Uploader
<1>2. Coalesce(u.pending, p) \in Patches /\ NoPatch \in Patches
  BY <1>1, CoalescePatches, EmptyPatch
<1>3. Append(u.given, p) \in Seq(Patches)
  BY <1>1
<1>4. w \in Uploader /\ w.given = Append(u.given, p) /\ ~w.closed /\ v = DrainedUploader(w)
  BY <1>2, <1>3 DEF Uploader, Enqueued
<1> HIDE DEF w
<1>5. CASE w.stage = "none" /\ w.pending # NoPatch
  <2>1. v = [w EXCEPT !.current = w.pending, !.pending = NoPatch, !.stage = "sent", !.covers = Len(w.given)]
    BY <1>4, <1>5 DEF DrainedUploader
  <2>2. Len(w.given) \in Nat /\ w.pending \in Patches
    BY <1>4 DEF Uploader
  <2>3. v \in Uploader /\ v.given = w.given /\ ~v.closed /\ v.stage = "sent"
    BY <1>2, <1>4, <2>1, <2>2 DEF Uploader
  <2> QED BY <1>4, <2>3
<1>6. CASE ~(w.stage = "none" /\ w.pending # NoPatch)
  BY <1>4, <1>6 DEF DrainedUploader
<1> QED BY <1>5, <1>6

\* What happens to a report on its way does not change what was reported.
LEMMA QuietTold ==
  ASSUME Told, up'.given = up.given, UNCHANGED <<base, epoch, init, currentState, reported, hasPendingAction, wiring>>,
         ~up'.closed => ~up.closed /\ (up'.stage = "none" => up'.pending = NoPatch)
  PROVE  Told'
<1>1. OwnReports' /\ CleanBase' /\ Remembered'
  BY DEF Told, OwnReports, SaysOwn, CleanBase, Remembered, Own, Me
<1>2. UpToDate'
  BY DEF Told, UpToDate, Action
<1> QED BY <1>1, <1>2 DEF Told

\* Only what was reported changes with a report.
LEMMA ReportedTold ==
  ASSUME Told, init = "done", UNCHANGED <<base, epoch, init, wiring>>, OwnReports', Remembered', UpToDate'
  PROVE  Told'
BY DEF Told, CleanBase

\* An uploader that reports: what it is given, and what it sends at once.
Reporting(u) == u \in Uploader /\ (u.stage = "none" /\ ~u.closed => u.pending = NoPatch)

LEMMA ReportingMore ==
  ASSUME NEW u, Reporting(u), ~u.closed, NEW p \in Patches, NEW v, v = Enqueued(u, p)
  PROVE  /\ Reporting(v) /\ ~v.closed /\ v.given = Append(u.given, p)
         /\ \A d : \A k \in DOMAIN p : Leaves(v.given, k, p[k], d)
         /\ \A k, c, d : k \notin DOMAIN p /\ Leaves(u.given, k, c, d) => Leaves(v.given, k, c, d)
         /\ \A k : k \notin DOMAIN p /\ Speaks(v.given, k) => Speaks(u.given, k)
<1>1. u \in Uploader /\ u.given \in Seq(Patches) /\ (u.stage = "none" => u.pending = NoPatch)
  BY DEF Reporting, Uploader
<1>2. /\ v \in Uploader /\ v.given = Append(u.given, p) /\ ~v.closed
      /\ v.stage = "none" => v.pending = NoPatch
  BY <1>1, EnqueuedReports
<1>3. /\ \A d : \A k \in DOMAIN p : Leaves(v.given, k, p[k], d)
      /\ \A k, c, d : k \notin DOMAIN p /\ Leaves(u.given, k, c, d) => Leaves(v.given, k, c, d)
      /\ \A k : k \notin DOMAIN p /\ Speaks(v.given, k) => Speaks(u.given, k)
  <2>1. ASSUME NEW k, NEW d
        PROVE  /\ k \in DOMAIN p => Leaves(v.given, k, p[k], d)
               /\ k \notin DOMAIN p => \A c : Leaves(u.given, k, c, d) => Leaves(v.given, k, c, d)
               /\ Speaks(v.given, k) => Speaks(u.given, k) \/ k \in DOMAIN p
    BY <1>1, <1>2, LeavesMore
  <2> QED BY <2>1
<1> QED BY <1>2, <1>3 DEF Reporting

LEMMA OwnMore ==
  ASSUME NEW g \in Seq(Patches), NEW p \in Patches, \A i \in 1..Len(g) : SaysOwn(g[i]), SaysOwn(p),
         NEW h, h = Append(g, p)
  PROVE  h \in Seq(Patches) /\ \A i \in 1..Len(h) : SaysOwn(h[i])
<1>1. /\ h \in Seq(Patches) /\ h[Len(g) + 1] = p
      /\ \A i \in 1..Len(h) : i = Len(g) + 1 \/ (i \in 1..Len(g) /\ h[i] = g[i])
  OBVIOUS
<1> QED BY <1>1

\* reportState() and what goes with it, of a client that is not closed.
LEMMA NotifyTold ==
  ASSUME StateInv, Told, NEW s \in States, NEW d \in {"null", Me, "other"}, NotifyState(s, d), ~Early
  PROVE  Told'
<1> DEFINE p == StatusPatch(s, d)
           q == [k \in {"pending_action"} |-> d]
           t == [k \in {"task_summary"} |-> "null"]
           r == ReportedState(up, s, d)
           m == IF d # "null" \/ hasPendingAction THEN Enqueued(r, q) ELSE r
           v == IF s = "idle" THEN Enqueued(m, t) ELSE m
<1>1. /\ up' = v /\ UNCHANGED <<server, base, shown, epoch, init, wiring>>
      /\ wiring = "remoteIO" /\ init = "done" /\ (d # "null") = (s = "requires_action")
      /\ currentState' = s /\ reported' = [state |-> s, details |-> d] /\ hasPendingAction' = (d # "null")
  BY DEF NotifyState, MayReport
<1>2. s \in Values /\ d \in Values /\ "null" \in Values /\ up \in Uploader /\ up.given \in Seq(Patches)
  <2>1. Me \in Values BY Names DEF StateInv, ClientTypeOK, Me
  <2>2. up \in Uploader BY DEF StateInv, UploaderInv
  <2> QED BY <2>1, <2>2, Names DEF Uploader
<1>3. /\ p \in Patches /\ DOMAIN p = {"worker_status", "requires_action_details"}
      /\ p["worker_status"] = s /\ p["requires_action_details"] = d
  BY <1>2, Reports DEF StatusPatch
<1>4. q \in Patches /\ DOMAIN q = {"pending_action"} /\ q["pending_action"] = d
  BY <1>2, Names, Reports
<1>5. t \in Patches /\ DOMAIN t = {"task_summary"} /\ t["task_summary"] = "null"
  BY <1>2, Names, Reports
<1>6. SaysOwn(p) /\ SaysOwn(q) /\ SaysOwn(t)
  BY <1>3, <1>4, <1>5 DEF SaysOwn, Own
<1>7. Remembered'
  BY <1>1 DEF Told, Remembered, NoReport
<1> HIDE DEF p, q, t
<1>8. CASE up.closed
  <2>1. r = up /\ m = up /\ v = up
    <3>1. r = up BY <1>8 DEF ReportedState, Enqueued
    <3>2. m = up BY <1>8, <3>1 DEF Enqueued
    <3> QED BY <1>8, <3>1, <3>2 DEF Enqueued
  <2>2. OwnReports'
    BY <1>1, <2>1 DEF Told, OwnReports, SaysOwn, Own, Me
  <2>3. UpToDate'
    BY <1>1, <1>8, <2>1 DEF UpToDate
  <2> QED BY <1>1, <1>7, <2>2, <2>3, ReportedTold
<1>9. CASE ~up.closed
  <2> DEFINE Saying(u, det) ==
               /\ Reporting(u) /\ ~u.closed /\ u.given \in Seq(Patches)
               /\ \A i \in 1..Len(u.given) : SaysOwn(u.given[i])
               /\ Leaves(u.given, "worker_status", s, "idle")
               /\ Leaves(u.given, "pending_action", det, "null")
               /\ Speaks(u.given, "worker_status") => \A c : Leaves(u.given, "requires_action_details", d, c)
  <2>1. Saying(r, reported.details)
    <3>1. Reporting(up) /\ \A i \in 1..Len(up.given) : SaysOwn(up.given[i])
      BY <1>2, <1>9 DEF Told, UpToDate, Reporting, OwnReports
    <3>2. /\ Leaves(up.given, "pending_action", reported.details, "null")
          /\ Leaves(up.given, "worker_status", reported.state, "idle")
          /\ Speaks(up.given, "worker_status") => \A c : Leaves(up.given, "requires_action_details", reported.details, c)
      BY <1>1, <1>9 DEF Told, UpToDate, Action
    <3>3. CASE IsNews(s, d)
      <4>1. r = Enqueued(up, p) /\ Reporting(r) /\ ~r.closed /\ r.given = Append(up.given, p)
        BY <1>3, <1>9, <3>1, <3>3, ReportingMore DEF ReportedState, p
      <4>2. r.given \in Seq(Patches) /\ \A i \in 1..Len(r.given) : SaysOwn(r.given[i])
        <5>1. r.given = Append(up.given, p)
          BY <4>1
        <5> QED BY <1>2, <1>3, <1>6, <3>1, <5>1, OwnMore
      <4>3. /\ Leaves(r.given, "worker_status", s, "idle")
            /\ \A c : Leaves(r.given, "requires_action_details", d, c)
            /\ Leaves(r.given, "pending_action", reported.details, "null")
        BY <1>3, <1>9, <3>1, <3>2, <4>1, ReportingMore
      <4> QED BY <4>1, <4>2, <4>3
    <3>4. CASE ~IsNews(s, d)
      <4>1. r = up /\ s = currentState /\ d = "null"
        BY <3>4 DEF ReportedState, IsNews
      <4>2. s = reported.state /\ reported.details = "null"
        BY <1>1, <4>1 DEF Told, Remembered
      <4> QED BY <1>2, <1>9, <3>1, <3>2, <4>1, <4>2
    <3> QED BY <3>3, <3>4
  <2> HIDE DEF r
  <2>2. Saying(m, d)
    <3>1. CASE d # "null" \/ hasPendingAction
      <4>1. m = Enqueued(r, q) /\ Reporting(m) /\ ~m.closed /\ m.given = Append(r.given, q)
        BY <1>4, <2>1, <3>1, ReportingMore
      <4>2. m.given \in Seq(Patches) /\ \A i \in 1..Len(m.given) : SaysOwn(m.given[i])
        <5>1. m.given = Append(r.given, q)
          BY <4>1
        <5>2. r.given \in Seq(Patches) /\ \A i \in 1..Len(r.given) : SaysOwn(r.given[i])
          BY <2>1
        <5> HIDE DEF m
        <5> QED BY <1>4, <1>6, <5>1, <5>2, OwnMore
      <4>3. /\ Leaves(m.given, "worker_status", s, "idle")
            /\ Speaks(m.given, "worker_status") => \A c : Leaves(m.given, "requires_action_details", d, c)
            /\ Leaves(m.given, "pending_action", d, "null")
        BY <1>4, <2>1, <4>1, ReportingMore
      <4> QED BY <4>1, <4>2, <4>3
    <3>2. CASE ~(d # "null" \/ hasPendingAction)
      <4>1. reported.details = d
        BY <1>1, <3>2 DEF Told, Remembered
      <4> QED BY <2>1, <3>2, <4>1
    <3> QED BY <3>1, <3>2
  <2> HIDE DEF m
  <2>3. Saying(v, d)
    <3>1. CASE s = "idle"
      <4>1. v = Enqueued(m, t) /\ Reporting(v) /\ ~v.closed /\ v.given = Append(m.given, t)
        BY <1>5, <2>2, <3>1, ReportingMore
      <4>2. v.given \in Seq(Patches) /\ \A i \in 1..Len(v.given) : SaysOwn(v.given[i])
        <5>1. v.given = Append(m.given, t)
          BY <4>1
        <5>2. m.given \in Seq(Patches) /\ \A i \in 1..Len(m.given) : SaysOwn(m.given[i])
          BY <2>2
        <5> HIDE DEF v
        <5> QED BY <1>5, <1>6, <5>1, <5>2, OwnMore
      <4>3. /\ Leaves(v.given, "worker_status", s, "idle")
            /\ Speaks(v.given, "worker_status") => \A c : Leaves(v.given, "requires_action_details", d, c)
            /\ Leaves(v.given, "pending_action", d, "null")
        BY <1>5, <2>2, <4>1, ReportingMore
      <4> QED BY <4>1, <4>2, <4>3
    <3>2. CASE s # "idle"
      BY <2>2, <3>2
    <3> QED BY <3>1, <3>2
  <2> HIDE DEF v
  <2>4. OwnReports'
    BY <1>1, <2>3 DEF OwnReports, SaysOwn, Own, Me
  <2>5. UpToDate'
    BY <1>1, <2>3 DEF UpToDate, Action, Reporting
  <2> QED BY <1>1, <1>7, <2>4, <2>5, ReportedTold
<1> QED BY <1>8, <1>9

LEMMA BridgeTold ==
  ASSUME StateInv, Told, NEW s \in States, BridgeReports(s), ~Early
  PROVE  Told'
<1> DEFINE p == StatusPatch(s, "null")
           v == ReportedState(up, s, "null")
<1>1. /\ up' = v /\ UNCHANGED <<server, base, shown, epoch, init, hasPendingAction, wiring>>
      /\ wiring = "bridge" /\ init = "done" /\ currentState' = s
      /\ reported' = [state |-> s, details |-> "null"]
  BY DEF BridgeReports, MayReport
<1>2. s \in Values /\ "null" \in Values /\ up \in Uploader /\ up.given \in Seq(Patches)
  <2>1. up \in Uploader BY DEF StateInv, UploaderInv
  <2> QED BY <2>1, Names DEF Uploader
<1>3. /\ p \in Patches /\ DOMAIN p = {"worker_status", "requires_action_details"}
      /\ p["worker_status"] = s /\ p["requires_action_details"] = "null" /\ SaysOwn(p)
  BY <1>2, Reports DEF StatusPatch, SaysOwn
<1>4. Remembered' /\ reported.details = "null"
  BY <1>1 DEF Told, Remembered, NoReport
<1> HIDE DEF p
<1>5. CASE IsNews(s, "null") /\ ~up.closed
  <2>1. Reporting(up) /\ \A i \in 1..Len(up.given) : SaysOwn(up.given[i])
    BY <1>2, <1>5 DEF Told, UpToDate, Reporting, OwnReports
  <2>2. v = Enqueued(up, p)
    BY <1>5 DEF ReportedState, p
  <2>3. /\ Reporting(v) /\ v.given = Append(up.given, p)
        /\ Leaves(v.given, "worker_status", s, "idle")
        /\ \A c : Leaves(v.given, "requires_action_details", "null", c)
        /\ \A c : Leaves(up.given, "pending_action", c, "null") => Leaves(v.given, "pending_action", c, "null")
    <3>0. Reporting(up) /\ ~up.closed /\ p \in Patches /\ v = Enqueued(up, p)
      BY <1>3, <1>5, <2>1, <2>2
    <3> HIDE DEF v
    <3>1. /\ Reporting(v) /\ v.given = Append(up.given, p)
          /\ \A e : \A k \in DOMAIN p : Leaves(v.given, k, p[k], e)
          /\ \A k, c, e : k \notin DOMAIN p /\ Leaves(up.given, k, c, e) => Leaves(v.given, k, c, e)
      BY <3>0, ReportingMore
    <3>2. /\ "worker_status" \in DOMAIN p /\ "requires_action_details" \in DOMAIN p
          /\ "pending_action" \notin DOMAIN p
      BY <1>3
    <3>3. Leaves(v.given, "worker_status", p["worker_status"], "idle")
      BY <3>1, <3>2
    <3>4. \A c : Leaves(v.given, "requires_action_details", p["requires_action_details"], c)
      BY <3>1, <3>2
    <3> QED BY <1>3, <3>1, <3>2, <3>3, <3>4
  <2> HIDE DEF v
  <2>4. OwnReports'
    <3>1. \A i \in 1..Len(v.given) : SaysOwn(v.given[i])
      BY <1>2, <1>3, <2>1, <2>3, OwnMore
    <3> QED BY <1>1, <3>1 DEF OwnReports, SaysOwn, Own, Me
  <2>5. UpToDate'
    BY <1>1, <1>5, <2>3 DEF Told, UpToDate, Action, Reporting
  <2> QED BY <1>1, <1>4, <2>4, <2>5, ReportedTold
<1>6. CASE ~(IsNews(s, "null") /\ ~up.closed)
  <2>1. v = up
    BY <1>6 DEF ReportedState, Enqueued
  <2>2. ~up.closed => s = reported.state
    BY <1>1, <1>6 DEF Told, Remembered, IsNews
  <2>3. OwnReports'
    BY <1>1, <2>1 DEF Told, OwnReports, SaysOwn, Own, Me
  <2>4. UpToDate'
    BY <1>1, <1>4, <2>1, <2>2 DEF Told, UpToDate, Action
  <2> QED BY <1>1, <1>4, <2>3, <2>4, ReportedTold
<1> QED BY <1>5, <1>6

\* Every step keeps it.
LEMMA ToldInit == ClientInit => Told
<1> SUFFICES ASSUME ClientInit PROVE Told
  OBVIOUS
<1>1. up.given = <<>> /\ up.pending = NoPatch /\ init = "none" /\ reported = NoReport /\ ~hasPendingAction
  BY DEF ClientInit, NewUploader
<1>2. OwnReports
  BY <1>1 DEF OwnReports
<1>3. CleanBase /\ Remembered
  BY <1>1 DEF CleanBase, Remembered, NoReport
<1>4. UpToDate
  BY <1>1, LeavesNothing DEF UpToDate, Action, NoReport
<1> QED BY <1>2, <1>3, <1>4 DEF Told

LEMMA ToldNext ==
  ASSUME ~Early, StateInv, Told, [ClientNext]_allVars
  PROVE  Told'
<1>0. up \in Uploader /\ (~up.closed /\ up.stage = "none" => up.pending = NoPatch) /\ NoPatch \in Patches
  BY EmptyPatch DEF StateInv, UploaderInv, Told, UpToDate
<1>1. CASE Initialize \/ Register \/ UNCHANGED allVars
  <2>1. Remembered'
    BY <1>1 DEF Initialize, Register, allVars, clientVars, Told, Remembered
  <2>2. UNCHANGED <<up, base, epoch, reported, wiring>> /\ (init' = init \/ init' = "sent")
    BY <1>1 DEF Initialize, Register, allVars, uploaderVars, clientVars
  <2> QED BY <2>1, <2>2 DEF Told, OwnReports, SaysOwn, Own, Me, CleanBase, UpToDate, Action
<1>2. CASE InitTaken
  <2>1. up.given = <<>>
    BY <1>2 DEF StateInv, InitTaken
  <2>2. /\ base' = Updated(server, InitPatch) /\ init' = "taken" /\ init = "sent"
        /\ UNCHANGED <<up, epoch, currentState, reported, hasPendingAction, wiring>>
    BY <1>2, <2>1 DEF InitTaken
  <2>3. CleanBase'
    BY <2>2, Names DEF CleanBase, Updated, InitPatch
  <2> QED BY <2>2, <2>3 DEF Told, OwnReports, SaysOwn, Own, Me, Remembered, UpToDate, Action
<1>3. CASE InitDone
  <2>1. /\ init' = "done" /\ init = "taken" /\ currentState' = "idle"
        /\ UNCHANGED <<up, base, epoch, reported, hasPendingAction, wiring>>
    BY <1>3 DEF InitDone, uploaderVars
  <2>2. Remembered'
    BY <2>1 DEF Told, Remembered, NoReport
  <2> QED BY <2>1, <2>2 DEF Told, OwnReports, SaysOwn, Own, Me, CleanBase, UpToDate, Action
<1>4. CASE InitFails \/ CloseClient
  <2>1. up' = ClosedUploader(up) /\ (init' = init \/ (init' = "failed" /\ init # "done"))
        /\ UNCHANGED <<base, epoch, currentState, reported, hasPendingAction, wiring>>
    BY <1>4 DEF InitFails, CloseClient, CloseUploader, clientVars
  <2>2. up'.closed /\ up'.given = up.given
    BY <1>0, <2>1 DEF ClosedUploader, Uploader
  <2> QED BY <2>1, <2>2 DEF Told, OwnReports, SaysOwn, Own, Me, CleanBase, Remembered, UpToDate
<1>5. ASSUME NEW s \in States, NEW d \in {"null", Me, "other"}, NotifyState(s, d) PROVE Told'
  BY <1>5, NotifyTold
<1>6. CASE NotifySummary
  <2> DEFINE t == [k \in {"task_summary"} |-> Me]
  <2>1. up' = Enqueued(up, t) /\ UNCHANGED <<base, clientVars>> /\ init = "done"
    BY <1>6 DEF NotifySummary, MayReport
  <2>2. t \in Patches /\ DOMAIN t = {"task_summary"} /\ SaysOwn(t)
    <3>1. Me \in Values BY Names DEF StateInv, ClientTypeOK, Me
    <3> QED BY <3>1, Names, Reports DEF SaysOwn, Own
  <2> HIDE DEF t
  <2>3. CASE up.closed
    <3>1. up' = up
      BY <2>1, <2>3 DEF Enqueued
    <3> QED BY <2>1, <2>3, <3>1, QuietTold DEF clientVars
  <2>4. CASE ~up.closed
    <3>1. Reporting(up) /\ up.given \in Seq(Patches)
      BY <1>0 DEF Reporting, Uploader
    <3>2. /\ Reporting(up') /\ up'.given = Append(up.given, t)
          /\ \A k, c, d : k # "task_summary" /\ Leaves(up.given, k, c, d) => Leaves(up'.given, k, c, d)
          /\ \A k : k # "task_summary" /\ Speaks(up'.given, k) => Speaks(up.given, k)
      <4>1. up' = Enqueued(up, t) /\ t \in Patches
        BY <2>1, <2>2
      <4>2. /\ Reporting(up') /\ up'.given = Append(up.given, t)
            /\ \A k, c, d : k \notin DOMAIN t /\ Leaves(up.given, k, c, d) => Leaves(up'.given, k, c, d)
            /\ \A k : k \notin DOMAIN t /\ Speaks(up'.given, k) => Speaks(up.given, k)
        BY <2>4, <3>1, <4>1, ReportingMore
      <4>3. \A k : k # "task_summary" => k \notin DOMAIN t
        BY <2>2
      <4> QED BY <4>2, <4>3
    <3>3. OwnReports'
      <4>1. \A i \in 1..Len(up'.given) : SaysOwn(up'.given[i])
        BY <2>2, <3>1, <3>2, OwnMore DEF Told, OwnReports
      <4> QED BY <2>1, <4>1 DEF OwnReports, SaysOwn, Own, Me, clientVars
    <3>4. UpToDate'
      BY <2>1, <2>4, <3>2 DEF Told, UpToDate, Action, Reporting, clientVars
    <3> QED BY <2>1, <3>3, <3>4 DEF Told, CleanBase, Remembered, clientVars
  <2> QED BY <2>3, <2>4
<1>7. ASSUME NEW s \in States, BridgeReports(s) PROVE Told'
  BY <1>7, BridgeTold
<1>8. CASE PutTaken \/ PutFails
  <2>1. /\ \E s \in {"taken", "sleeping"} : up' = [up EXCEPT !.stage = s]
        /\ UNCHANGED <<base, clientVars>>
    BY <1>8 DEF PutTaken, ServerTakes, PutFails, Fail
  <2>2. up'.given = up.given /\ up'.closed = up.closed /\ up'.stage # "none"
    BY <1>0, <2>1 DEF Uploader
  <2> QED BY <2>1, <2>2, QuietTold DEF clientVars
<1>9. CASE PutSucceeds
  <2> DEFINE v == [up EXCEPT !.stage = "none", !.current = NoPatch]
  <2>1. up' = DrainedUploader(v) /\ UNCHANGED <<base, clientVars>>
    BY <1>9 DEF PutSucceeds, Succeed
  <2>2. v \in Uploader /\ v.given = up.given /\ v.closed = up.closed
    BY <1>0 DEF Uploader
  <2> HIDE DEF v
  <2>3. up'.given = v.given /\ up'.closed = v.closed /\ (~v.closed /\ up'.stage = "none" => up'.pending = NoPatch)
    BY <2>1, <2>2 DEF DrainedUploader, Uploader
  <2> QED BY <2>1, <2>2, <2>3, QuietTold DEF clientVars
<1>10. CASE PutRetried
  <2>1. UNCHANGED <<base, clientVars>>
    BY <1>10 DEF PutRetried, Retry
  <2>2. /\ up'.given = up.given /\ up'.closed = up.closed
        /\ ~up.closed => up'.stage # "none"
    <3>1. CASE up.closed
      BY <1>0, <1>10, <3>1 DEF PutRetried, Retry, Uploader
    <3>2. CASE ~up.closed
      <4>1. up' = [Absorbed(up) EXCEPT !.stage = "sent"]
        BY <1>10, <3>2 DEF PutRetried, Retry
      <4>2. CASE up.pending # NoPatch
        BY <1>0, <3>2, <4>1, <4>2 DEF Absorbed, Uploader
      <4>3. CASE up.pending = NoPatch
        BY <1>0, <3>2, <4>1, <4>3 DEF Absorbed, Uploader
      <4> QED BY <4>2, <4>3
    <3> QED BY <3>1, <3>2
  <2> QED BY <2>1, <2>2, QuietTold DEF clientVars
<1>11. CASE EpochMismatch
  <2>1. /\ up' = [ClosedUploader(up) EXCEPT !.stage = IF @ = "sent" THEN "sleeping" ELSE @]
        /\ init' = IF init = "sent" THEN "failed" ELSE init
        /\ UNCHANGED <<base, epoch, currentState, reported, hasPendingAction, wiring>>
    BY <1>11 DEF EpochMismatch
  <2>2. up'.closed /\ up'.given = up.given
    BY <1>0, <2>1 DEF ClosedUploader, Uploader
  <2> QED BY <2>1, <2>2 DEF Told, OwnReports, SaysOwn, Own, Me, CleanBase, Remembered, UpToDate
<1>12. CASE NextWorker
  <2>1. /\ up'.given = <<>> /\ up'.pending = NoPatch /\ init' = "none" /\ reported' = NoReport
        /\ ~hasPendingAction'
    BY <1>12 DEF NextWorker, NewUploader
  <2>2. OwnReports'
    BY <2>1 DEF OwnReports
  <2>3. CleanBase' /\ Remembered'
    BY <2>1 DEF CleanBase, Remembered, NoReport
  <2>4. UpToDate'
    BY <2>1, LeavesNothing DEF UpToDate, Action, NoReport
  <2> QED BY <2>2, <2>3, <2>4 DEF Told
<1> QED
  BY <1>1, <1>2, <1>3, <1>4, <1>5, <1>6, <1>7, <1>8, <1>9, <1>10, <1>11, <1>12 DEF ClientNext

\* The server shows what the reports it knows leave.
LEMMA ShownLeaves ==
  ASSUME NEW g, NEW s, NEW b, NEW k \in Keys, NEW v, NEW d,
         Publication!IsStateAfter(s, b, g, Len(g)), Leaves(g, k, v, d), Len(g) \in Nat,
         Speaks(g, k) \/ b[k] = d
  PROVE  s[k] = v
<1>1. CASE Publication!Silent(g, 0, Len(g), k)
  BY <1>1 DEF Leaves, Speaks, Publication!IsStateAfter, Publication!Silent, Publication!SaysLast
<1>2. CASE ~Publication!Silent(g, 0, Len(g), k)
  <2>1. PICK i \in 1..Len(g) : Publication!SaysLast(g, 0, Len(g), k, i) /\ v = g[i][k]
    BY <1>2 DEF Leaves
  <2>2. PICK j \in 1..Len(g) : Publication!SaysLast(g, 0, Len(g), k, j) /\ s[k] = g[j][k]
    BY <1>2 DEF Publication!IsStateAfter
  <2>3. i = j
    BY <2>1, <2>2 DEF Publication!SaysLast, Publication!Silent
  <2> QED BY <2>1, <2>2, <2>3
<1> QED BY <1>1, <1>2

LEMMA ToldAgrees == StateInv /\ Told => StatusAgrees
<1> SUFFICES ASSUME StateInv, Told, Settled
             PROVE  /\ server["worker_status"] = reported.state
                    /\ server["pending_action"] = Action
                    /\ (\E i \in DOMAIN up.given : "worker_status" \in DOMAIN up.given[i]) =>
                         server["requires_action_details"] = reported.details
  BY DEF StatusAgrees, Action
<1>1. /\ up \in Uploader /\ up.given \in Seq(Patches) /\ Len(up.given) \in Nat
      /\ shown = up.covers /\ up.covers \in 0..Len(up.given)
      /\ Says(NoPatch, up.given, up.covers, Len(up.given))
  BY DEF Settled, StateInv, UploaderInv, Uploader, Told, UpToDate
<1>2. Publication!IsStateAfter(server, base, up.given, Len(up.given))
  <2>1. \A k \in Keys : Publication!Silent(up.given, up.covers, Len(up.given), k)
    BY <1>1, EmptyPatch DEF Says
  <2>2. Publication!IsStateAfter(server, base, up.given, up.covers)
    BY <1>1 DEF StateInv, ServerInv
  <2>3. ASSUME NEW k \in Keys
        PROVE  \/ Publication!Silent(up.given, 0, Len(up.given), k) /\ server[k] = base[k]
               \/ \E i \in 1..Len(up.given) :
                    Publication!SaysLast(up.given, 0, Len(up.given), k, i) /\ server[k] = up.given[i][k]
    BY <1>1, <2>1, <2>2 DEF Publication!IsStateAfter, Publication!Silent, Publication!SaysLast
  <2> QED BY <2>3 DEF Publication!IsStateAfter
<1>3. base["worker_status"] = "idle" /\ base["pending_action"] = "null"
  BY DEF Settled, Told, CleanBase
<1>4. /\ Leaves(up.given, "worker_status", reported.state, "idle")
      /\ Leaves(up.given, "pending_action", Action, "null")
      /\ Speaks(up.given, "worker_status") => \A d : Leaves(up.given, "requires_action_details", reported.details, d)
  BY DEF Settled, Told, UpToDate
<1>5. server["worker_status"] = reported.state
  BY <1>1, <1>2, <1>3, <1>4, Names, ShownLeaves
<1>6. server["pending_action"] = Action
  BY <1>1, <1>2, <1>3, <1>4, Names, ShownLeaves
<1>7. Speaks(up.given, "worker_status") => server["requires_action_details"] = reported.details
  BY <1>1, <1>2, <1>3, <1>4, Names, ShownLeaves
<1> QED BY <1>5, <1>6, <1>7 DEF Speaks

\* What a dead worker did is overwritten by initialize(), and no report brings it back.
LEMMA ToldOwn == StateInv /\ Told => NothingOfTheDead
<1> SUFFICES ASSUME StateInv, Told, init = "done", epoch = serverEpoch,
                    NEW k \in {"pending_action", "task_summary"}
             PROVE  server[k] \in Own
  BY DEF NothingOfTheDead, Own
<1>1. base[k] \in Own
  BY DEF Told, CleanBase, Own
<1>2. k \in Keys
  BY Names
<1>3. shown \in 0..Len(up.given) /\ Len(up.given) \in Nat
  BY DEF StateInv, UploaderInv, Uploader
<1>4. CASE Publication!Silent(up.given, 0, shown, k) /\ server[k] = base[k]
  BY <1>1, <1>4
<1>5. ASSUME NEW i \in 1..shown, Publication!SaysLast(up.given, 0, shown, k, i), server[k] = up.given[i][k]
      PROVE  server[k] \in Own
  <2>1. i \in 1..Len(up.given) /\ k \in DOMAIN up.given[i]
    BY <1>3, <1>5 DEF Publication!SaysLast
  <2> QED BY <1>5, <2>1 DEF Told, OwnReports, SaysOwn
<1> QED BY <1>2, <1>4, <1>5 DEF StateInv, ServerInv, Publication!IsStateAfter

-----------------------------------------------------------------------------
(* Theorems                                                                  *)

\* The invariant holds of every behaviour in which reports wait for
\* initialize(): those of the worker in a process of its own.
THEOREM Invariance == ASSUME ~Early PROVE ClientSpec => []StateInv
<1>1. StateInv /\ [ClientNext]_allVars => StateInv' BY StepInv
<1>2. ClientInit => StateInv BY InitInv
<1> QED BY <1>1, <1>2, PTL DEF ClientSpec

\* The variables have their types, for any workers and any number of reports.
THEOREM TypeCorrect == ASSUME ~Early PROVE ClientSpec => []TypeOK
<1>1. ClientSpec => []StateInv BY Invariance
<1> QED BY <1>1, InvTypeOK, PTL

\* The client and its uploader implement StatePublication: the server shows
\* what a prefix of the reports leaves, and never an earlier one again,
\* whatever coalescePatches() merges and sendWithRetry() tries again.
THEOREM Implements == ASSUME ~Early PROVE ClientSpec => PublishedInOrder
<1>1. ClientInit => Publication!Init BY InitInv
<1>2. StateInv /\ [ClientNext]_allVars => [Publication!Next]_(Publication!vars)
  BY StepInv DEF PublicationStep
<1>3. ClientSpec => []StateInv BY Invariance
<1> QED BY <1>1, <1>2, <1>3, PTL DEF ClientSpec, PublishedInOrder, Publication!Spec

\* Both invariants hold of every behaviour in which reports wait for initialize().
THEOREM Publishes == ASSUME ~Early PROVE ClientSpec => [](StateInv /\ Told)
<1>1. ClientInit => StateInv /\ Told
  BY InitInv, ToldInit
<1>2. StateInv /\ Told /\ [ClientNext]_allVars => (StateInv /\ Told)'
  BY StepInv, ToldNext
<1> QED BY <1>1, <1>2, PTL DEF ClientSpec

\* When nothing is on its way the server shows the state, the details and the
\* action that reportState() and notifySessionStateChanged() were called with
\* last: skipping what is no news, merging and retrying lose and revive nothing.
THEOREM Agrees == ASSUME ~Early PROVE ClientSpec => []StatusAgrees
<1>1. ClientSpec => [](StateInv /\ Told) BY Publishes
<1> QED BY <1>1, ToldAgrees, PTL

\* Once initialize() is done the server never shows the action or the summary of
\* a worker that died, although its PUTs were under way.
THEOREM Cleans == ASSUME ~Early PROVE ClientSpec => []NothingOfTheDead
<1>1. ClientSpec => [](StateInv /\ Told) BY Publishes
<1> QED BY <1>1, ToldOwn, PTL

-----------------------------------------------------------------------------
(* The events                                                                *)

\* No drain() is under way, or the one that set the flag.
Single == \/ ~draining /\ loops = <<>>
          \/ draining /\ \E l : loops = <<l>>
SingleInv == draining \in BOOLEAN /\ Single

LEMMA SingleInit == Init => SingleInv
  BY DEF Init, SingleInv, Single

\* One loop goes on, or is over, when there is no other.
LEMMA LoopHeadSingle ==
  ASSUME NEW p, NEW failures, NEW F, LoopHead(<<>>, p, failures, F)
  PROVE  SingleInv'
<1>1. \A l : Append(<<>>, l) = <<l>>
  OBVIOUS
<1>2. CASE \E q, G : Exit(<<>>, q, G)
  BY <1>2 DEF Exit, SingleInv, Single
<1>3. CASE \E l : loops' = Append(<<>>, l) /\ draining' = TRUE
  BY <1>1, <1>3 DEF SingleInv, Single
<1> QED BY <1>2, <1>3 DEF LoopHead

LEMMA DrainSingle ==
  ASSUME SingleInv, NEW p, NEW F, Drain(p, F)
  PROVE  SingleInv'
<1>1. CASE CanDrain
  BY <1>1, LoopHeadSingle DEF Drain, CanDrain, SingleInv, Single
<1>2. CASE ~CanDrain
  BY <1>2 DEF Drain, SingleInv, Single
<1> QED BY <1>1, <1>2

\* The loop that goes on is the only one.
LEMMA NoOthers ==
  ASSUME SingleInv, NEW n \in DOMAIN loops
  PROVE  draining /\ Others(n) = <<>>
<1>1. loops # <<>>
  OBVIOUS
<1>2. PICK l : loops = <<l>> /\ draining
  BY <1>1 DEF SingleInv, Single
<1>3. n = 1
  BY <1>2
<1> QED BY <1>2, <1>3 DEF Others, RemoveAt

LEMMA SingleNext == SingleInv /\ [Next]_vars => SingleInv'
<1> SUFFICES ASSUME SingleInv, [Next]_vars PROVE SingleInv' OBVIOUS
<1>1. CASE UNCHANGED <<draining, loops>>
  BY <1>1 DEF SingleInv, Single
<1>2. ASSUME NEW c, NEW s, NEW full, Admit(c, s, full) PROVE SingleInv'
  BY <1>1, <1>2, DrainSingle DEF Admit, drainVars
<1>3. ASSUME NEW n \in Sizes, Enqueue(n) PROVE SingleInv'
  BY <1>2, <1>3 DEF Enqueue
<1>4. CASE EnqueueResumes
  BY <1>2, <1>4 DEF EnqueueResumes
<1>5. ASSUME NEW n \in DOMAIN loops, SendResolves(n) \/ WakeUp(n) PROVE SingleInv'
  <2>1. Others(n) = <<>>
    BY <1>5, NoOthers
  <2>2. \E failures : LoopHead(Others(n), pending, failures, flush)
    BY <1>5 DEF SendResolves, WakeUp
  <2> QED BY <2>1, <2>2, LoopHeadSingle
<1>6. ASSUME NEW n \in DOMAIN loops, SendFails(n) PROVE SingleInv'
  <2>1. draining /\ Others(n) = <<>>
    BY <1>6, NoOthers
  <2>2. CASE \E failures : LoopHead(Others(n), pending, failures, flush)
    BY <2>1, <2>2, LoopHeadSingle
  <2>3. CASE draining' = draining /\ \E l : loops' = Append(Others(n), l)
    BY <2>1, <2>3 DEF SingleInv, Single
  <2> QED BY <1>6, <2>2, <2>3 DEF SendFails
<1>7. ASSUME NEW f \in Flushes, Flush(f) PROVE SingleInv'
  BY <1>1, <1>7, DrainSingle DEF Flush
<1>8. CASE Close \/ Quiet \/ UNCHANGED vars
  BY <1>1, <1>8 DEF Close, Quiet, vars, drainVars
<1> QED BY <1>3, <1>4, <1>5, <1>6, <1>7, <1>8 DEF Next

\* Never are two batches on their way at the same time (the class comment: "At
\* most 1 POST in-flight at a time").
THEOREM OneAtMost == Spec => []OneInFlight
<1>1. SingleInv => OneInFlight
  <2> SUFFICES ASSUME SingleInv PROVE OneInFlight OBVIOUS
  <2>1. CASE ~draining /\ loops = <<>>
    BY <2>1 DEF OneInFlight
  <2>2. ASSUME NEW l, draining, loops = <<l>> PROVE OneInFlight
    <3>1. Len(<<l>>) = 1 /\ <<l>> # <<>>
      OBVIOUS
    <3> QED BY <2>2, <3>1 DEF OneInFlight
  <2> QED BY <2>1, <2>2 DEF SingleInv, Single
<1> QED BY <1>1, SingleInit, SingleNext, PTL DEF Spec

-----------------------------------------------------------------------------
(* The line: what is on its way                                              *)

\* The batch that is being sent, and what waits behind it.
Line == IF loops = <<>> THEN pending ELSE loops[1].batch \o pending

\* The pairs of events of which the first is of a call that had returned when
\* that of the second was made.
Precedence ==
  {r \in Events \X Events :
     \E d \in DOMAIN given : \E c \in before[d] : r[1] \in ToSet(given[c]) /\ r[2] \in ToSet(given[d])}

Types ==
  /\ pending \in Seq(Events) /\ sent \in Seq(Events) /\ closed \in BOOLEAN
  /\ \A n \in DOMAIN loops : /\ loops[n].batch \in Seq(Events)
                             /\ loops[n].at = "sleeping" => loops[n].batch = <<>>
  /\ flush \in [Flushes -> [state : {"none", "waiting", "returned"}, events : SUBSET Events]]
  /\ given \in Seq(Seq(Events)) /\ Numbered \in Nat

\* No event is of two calls, and none has a number that is still to come.
Distinct ==
  /\ \A c \in DOMAIN given : \A k \in DOMAIN given[c] : given[c][k] <= Numbered
  /\ \A c, d \in DOMAIN given : c # d =>
       \A k \in DOMAIN given[c], l \in DOMAIN given[d] : given[c][k] # given[d][l]
  /\ \A i \in DOMAIN Line : Line[i] <= Numbered
  /\ \A i \in DOMAIN sent : sent[i] <= Numbered

\* A call has returned, or waits in one place at most.
Callers ==
  /\ returned \subseteq DOMAIN given
  /\ before \in Seq(SUBSET DOMAIN given) /\ Len(before) = Len(given)
  /\ \A d \in DOMAIN given : before[d] \subseteq returned
  /\ woken \in Seq(DOMAIN given \ returned) /\ blocked \in Seq(DOMAIN given \ returned)
  /\ \A i, j \in DOMAIN woken : woken[i] = woken[j] => i = j
  /\ \A i, j \in DOMAIN blocked : blocked[i] = blocked[j] => i = j
  /\ \A i \in DOMAIN woken, j \in DOMAIN blocked : woken[i] # blocked[j]

\* In a line l no event stands before one that precedes it by R; when it is sent,
\* the other has been.
OrderedBy(R, l, s) ==
  /\ \A i, j \in DOMAIN l : i <= j => <<l[j], l[i]>> \notin R
  /\ \A i \in DOMAIN l, j \in DOMAIN s : <<l[i], s[j]>> \in R => \E k \in DOMAIN s : s[k] = l[i]
  /\ \A j, k \in DOMAIN s : <<s[k], s[j]>> \in R => \E i \in DOMAIN s : i < j /\ s[i] = s[k]
Ordered == OrderedBy(Precedence, Line, sent)

\* An event that is at the server, given up, or in the line.
Safe(e) == e \in ToSet(sent) \/ e \in dropped \/ e \in ToSet(Line)

Kept ==
  ~closed => /\ \A c \in returned : \A e \in ToSet(given[c]) : Good(e) => Safe(e)
             /\ \A f \in Flushes : \A e \in flush[f].events : Good(e) =>
                  /\ flush[f].state = "waiting" => Safe(e)
                  /\ flush[f].state = "returned" => e \in ToSet(sent) \/ e \in dropped

Inv == SingleInv /\ Types /\ Distinct /\ Callers /\ Ordered /\ Kept
-----------------------------------------------------------------------------
(* Sequences                                                                 *)

LEMMA InConcat ==
  ASSUME NEW T, NEW s \in Seq(T), NEW t \in Seq(T)
  PROVE  /\ s \o t \in Seq(T) /\ Len(s \o t) = Len(s) + Len(t) /\ Len(s) \in Nat /\ Len(t) \in Nat
         /\ \A i \in DOMAIN s : i \in DOMAIN (s \o t) /\ (s \o t)[i] = s[i]
         /\ \A i \in DOMAIN t : Len(s) + i \in DOMAIN (s \o t) /\ (s \o t)[Len(s) + i] = t[i]
         /\ \A i \in DOMAIN (s \o t) : i \in DOMAIN s \/ (i - Len(s) \in DOMAIN t /\ i > Len(s) /\ i \notin DOMAIN s)
  OBVIOUS

LEMMA ConcatElements ==
  ASSUME NEW T, NEW s \in Seq(T), NEW t \in Seq(T)
  PROVE  ToSet(s \o t) = ToSet(s) \cup ToSet(t)
<1> DEFINE u == s \o t
<1>1. /\ \A i \in DOMAIN s : i \in DOMAIN u /\ u[i] = s[i]
      /\ \A i \in DOMAIN t : Len(s) + i \in DOMAIN u /\ u[Len(s) + i] = t[i]
      /\ \A i \in DOMAIN u : i \in DOMAIN s \/ \E j \in DOMAIN t : i = Len(s) + j
  <2>1. \A i \in DOMAIN u : i \in DOMAIN s \/ (i - Len(s) \in DOMAIN t /\ i = Len(s) + (i - Len(s)))
    OBVIOUS
  <2>2. /\ \A i \in DOMAIN s : i \in DOMAIN u /\ u[i] = s[i]
        /\ \A i \in DOMAIN t : Len(s) + i \in DOMAIN u /\ u[Len(s) + i] = t[i]
    BY InConcat
  <2> HIDE DEF u
  <2> QED BY <2>1, <2>2
<1> HIDE DEF u
<1>2. ASSUME NEW i \in DOMAIN u PROVE u[i] \in ToSet(s) \cup ToSet(t)
  BY <1>1 DEF ToSet
<1>3. ASSUME NEW i \in DOMAIN s PROVE s[i] \in ToSet(u)
  BY <1>1 DEF ToSet
<1>4. ASSUME NEW i \in DOMAIN t PROVE t[i] \in ToSet(u)
  <2>1. Len(s) + i \in DOMAIN u /\ u[Len(s) + i] = t[i]
    BY <1>1
  <2> QED BY <2>1 DEF ToSet
<1> QED BY <1>2, <1>3, <1>4 DEF ToSet, u

\* The elements of t are of p, in the order they have there.
Within(t, p) ==
  \A i, j \in DOMAIN t : i <= j => \E k, l \in DOMAIN p : k <= l /\ p[k] = t[i] /\ p[l] = t[j]

\* No good element of p is missing in t.
Covers(t, p) == \A k \in DOMAIN p : Good(p[k]) => \E i \in DOMAIN t : t[i] = p[k]

\* What is left of a sequence without its first n elements.
LEMMA RestOf ==
  ASSUME NEW T, NEW p \in Seq(T), NEW n \in 0..Len(p)
  PROVE  LET r == SubSeq(p, n + 1, Len(p)) IN
         /\ r \in Seq(T) /\ Len(r) = Len(p) - n
         /\ \A i \in 1..Len(r) : r[i] = p[n + i] /\ n + i \in 1..Len(p)
  OBVIOUS

\* What is found at increasing positions of the first n elements, with the
\* elements after them, is within the sequence.
LEMMA SplitWithin ==
  ASSUME NEW T, NEW p \in Seq(T), NEW n \in 0..Len(p), NEW b \in Seq(T),
         \A i \in 1..Len(b) : \E k \in 1..n : p[k] = b[i],
         \A i, j \in 1..Len(b) : i < j => \E k, l \in 1..n : k < l /\ p[k] = b[i] /\ p[l] = b[j]
  PROVE  Within(b \o SubSeq(p, n + 1, Len(p)), p)
<1> DEFINE r == SubSeq(p, n + 1, Len(p))
           u == b \o r
<1>1. r \in Seq(T) /\ Len(r) = Len(p) - n /\ \A i \in 1..Len(r) : r[i] = p[n + i] /\ n + i \in 1..Len(p)
  BY ONLY p \in Seq(T), n \in 0..Len(p), RestOf
<1> HIDE DEF r
<1>2. /\ Len(b) \in Nat /\ Len(r) \in Nat /\ DOMAIN u = 1..(Len(b) + Len(r))
      /\ \A i \in 1..Len(b) : u[i] = b[i]
      /\ \A i \in 1..(Len(b) + Len(r)) : i \in 1..Len(b) \/ (i - Len(b) \in 1..Len(r) /\ i > Len(b) /\ u[i] = r[i - Len(b)])
  <2>1. Len(b) \in Nat /\ Len(r) \in Nat /\ u \in Seq(T) /\ Len(u) = Len(b) + Len(r)
    BY <1>1, InConcat
  <2>2. ASSUME NEW i \in 1..Len(b) PROVE u[i] = b[i]
    BY <1>1
  <2>3. ASSUME NEW i \in 1..(Len(b) + Len(r)), i \notin 1..Len(b)
        PROVE  i - Len(b) \in 1..Len(r) /\ i > Len(b) /\ u[i] = r[i - Len(b)]
    BY <1>1, <2>1, <2>3
  <2> HIDE DEF u
  <2> QED BY <2>1, <2>2, <2>3
<1> HIDE DEF u
<1> SUFFICES ASSUME NEW i \in DOMAIN u, NEW j \in DOMAIN u, i <= j
             PROVE \E k, l \in DOMAIN p : k <= l /\ p[k] = u[i] /\ p[l] = u[j]
  BY DEF Within, r, u
<1>3. DOMAIN p = 1..Len(p) /\ Len(p) \in Nat /\ \A k \in 1..n : k \in DOMAIN p
  OBVIOUS
<1>4. CASE j \in 1..Len(b)
  <2>1. i \in 1..Len(b) /\ u[i] = b[i] /\ u[j] = b[j]
    BY <1>2, <1>4
  <2>2. CASE i = j
    <3>1. PICK k \in 1..n : p[k] = b[i]
      BY <2>1
    <3>2. k \in DOMAIN p /\ k <= k /\ p[k] = u[i] /\ p[k] = u[j]
      BY <1>3, <2>1, <2>2, <3>1
    <3> QED BY <3>2
  <2>3. CASE i < j
    <3>1. PICK k \in 1..n, l \in 1..n : k < l /\ p[k] = b[i] /\ p[l] = b[j]
      BY <1>4, <2>1, <2>3
    <3>2. k <= l /\ k \in DOMAIN p /\ l \in DOMAIN p
      BY <1>3, <3>1
    <3> QED BY <2>1, <3>1, <3>2
  <2> QED BY <1>2, <2>2, <2>3
<1>5. CASE j \notin 1..Len(b)
  <2>1. j - Len(b) \in 1..Len(r) /\ u[j] = p[n + (j - Len(b))] /\ n + (j - Len(b)) \in 1..Len(p)
    BY <1>1, <1>2, <1>5
  <2>2. CASE i \in 1..Len(b)
    <3>1. PICK k \in 1..n : p[k] = b[i]
      BY <2>2
    <3>2. k <= n + (j - Len(b))
      BY <1>2, <2>1
    <3> QED BY <1>2, <1>3, <2>1, <2>2, <3>1, <3>2
  <2>3. CASE i \notin 1..Len(b)
    <3>1. u[i] = p[n + (i - Len(b))] /\ n + (i - Len(b)) \in 1..Len(p)
      BY <1>1, <1>2, <2>3
    <3>2. n + (i - Len(b)) <= n + (j - Len(b))
      BY <1>2
    <3> QED BY <1>3, <2>1, <3>1, <3>2
  <2> QED BY <2>2, <2>3
<1> QED BY <1>4, <1>5

LEMMA SplitCovers ==
  ASSUME NEW T, NEW p \in Seq(T), NEW n \in 0..Len(p), NEW b \in Seq(T),
         \A k \in 1..n : Good(p[k]) => \E i \in 1..Len(b) : b[i] = p[k]
  PROVE  Covers(b \o SubSeq(p, n + 1, Len(p)), p)
<1> DEFINE r == SubSeq(p, n + 1, Len(p))
           u == b \o r
<1>1. /\ r \in Seq(T) /\ Len(r) \in Nat
      /\ \A k \in (n + 1)..Len(p) : k - n \in 1..Len(r) /\ r[k - n] = p[k]
  OBVIOUS
<1> HIDE DEF r
<1>2. /\ \A i \in 1..Len(b) : i \in DOMAIN u /\ u[i] = b[i]
      /\ \A i \in 1..Len(r) : Len(b) + i \in DOMAIN u /\ u[Len(b) + i] = r[i]
  BY <1>1
<1> HIDE DEF u
<1> SUFFICES ASSUME NEW k \in DOMAIN p, Good(p[k]) PROVE \E i \in DOMAIN u : u[i] = p[k]
  BY DEF Covers, r, u
<1>3. CASE k \in 1..n
  BY <1>2, <1>3
<1>4. CASE k \in (n + 1)..Len(p)
  BY <1>1, <1>2, <1>4
<1> QED BY <1>3, <1>4

-----------------------------------------------------------------------------
(* What the drain loop takes is in the line as it was                        *)

LEMMA TakesWithin ==
  ASSUME SizeAssumption, NEW p \in Seq(Events), NEW t \in Takes(p)
  PROVE  /\ t.batch \in Seq(Events) /\ t.rest \in Seq(Events)
         /\ Within(t.batch \o t.rest, p) /\ Covers(t.batch \o t.rest, p)
<1>1. CASE ByteLimit
  <2>1. PICK n \in Cuts(p) : /\ t.batch = Selected(SubSeq(p, 1, n), GoodEvents)
                             /\ t.rest = SubSeq(p, n + 1, Len(p))
    BY <1>1 DEF Takes
  <2>2. n \in 1..Len(p)
    BY DEF Cuts
  <2> DEFINE q == SubSeq(p, 1, n)
             b == Selected(q, GoodEvents)
  <2>3. q \in Seq(Events) /\ Len(q) = n /\ n \in 0..Len(p) /\ \A k \in 1..n : q[k] = p[k]
    BY <2>2
  <2>4. t.rest \in Seq(Events)
    BY <2>1, <2>2
  <2> HIDE DEF q
  <2> HIDE DEF b
  <2>4a. b = Selected(q, GoodEvents)
    BY DEF b
  <2>5. /\ b \in Seq(Events)
        /\ \A a \in 1..Len(b) : b[a] \in GoodEvents /\ \E i \in 1..Len(q) : q[i] = b[a]
        /\ \A i \in 1..Len(q) : q[i] \in GoodEvents => \E a \in 1..Len(b) : b[a] = q[i]
    <3>1. b \in Seq(Events)
      BY <2>3, <2>4a, SelectedElements
    <3>2. \A a \in 1..Len(b) : b[a] \in GoodEvents /\ \E i \in 1..Len(q) : q[i] = b[a]
      BY <2>3, <2>4a, SelectedElements
    <3>3. \A i \in 1..Len(q) : q[i] \in GoodEvents => \E a \in 1..Len(b) : b[a] = q[i]
      BY <2>3, <2>4a, SelectedElements
    <3> QED BY <3>1, <3>2, <3>3
  <2>6. \A i, j \in 1..Len(b) : i < j => \E k, l \in 1..Len(q) : k < l /\ q[k] = b[i] /\ q[l] = b[j]
    <3> SUFFICES ASSUME NEW i \in 1..Len(b), NEW j \in 1..Len(b), i < j
                 PROVE  \E k, l \in 1..Len(q) : k < l /\ q[k] = b[i] /\ q[l] = b[j]
      OBVIOUS
    <3> QED BY <2>3, <2>4a, SelectedOrder
  <2>7. t.batch = b
    BY <2>1 DEF b, q
  <2>8. \A i \in 1..Len(b) : \E k \in 1..n : p[k] = b[i]
    BY <2>3, <2>5
  <2>9. \A i, j \in 1..Len(b) : i < j => \E k, l \in 1..n : k < l /\ p[k] = b[i] /\ p[l] = b[j]
    BY <2>3, <2>6
  <2>10. \A k \in 1..n : Good(p[k]) => \E i \in 1..Len(b) : b[i] = p[k]
    <3>1. \A k \in 1..n : p[k] \in Events
      BY <2>2
    <3> QED BY <2>3, <2>5, <3>1 DEF GoodEvents
  <2>11. t.batch \o t.rest = b \o SubSeq(p, n + 1, Len(p)) /\ b \in Seq(Events)
    BY <2>1, <2>5, <2>7
  <2>12. Within(b \o SubSeq(p, n + 1, Len(p)), p)
    BY <2>3, <2>8, <2>9, <2>11, SplitWithin
  <2>13. Covers(b \o SubSeq(p, n + 1, Len(p)), p)
    BY <2>3, <2>10, <2>11, SplitCovers
  <2> QED BY <2>4, <2>7, <2>11, <2>12, <2>13
<1>2. CASE ~ByteLimit
  <2> DEFINE n == IF Len(p) < MaxBatchSize THEN Len(p) ELSE MaxBatchSize
             b == SubSeq(p, 1, n)
  <2>1. t.batch = b /\ t.rest = SubSeq(p, n + 1, Len(p))
    <3>1. t = [batch |-> SubSeq(p, 1, n), rest |-> SubSeq(p, n + 1, Len(p))]
      BY <1>2, Zenon DEF Takes
    <3> HIDE DEF n
    <3> QED BY <3>1
  <2>2. n \in 0..Len(p)
    BY SizeAssumption
  <2> HIDE DEF n
  <2>3. b \in Seq(Events) /\ Len(b) = n /\ \A k \in 1..n : b[k] = p[k]
    BY <2>2
  <2>4. t.rest \in Seq(Events)
    BY <2>1, <2>2
  <2> HIDE DEF b
  <2>5. /\ \A i \in 1..Len(b) : \E k \in 1..n : p[k] = b[i]
        /\ \A i, j \in 1..Len(b) : i < j => \E k, l \in 1..n : k < l /\ p[k] = b[i] /\ p[l] = b[j]
        /\ \A k \in 1..n : Good(p[k]) => \E i \in 1..Len(b) : b[i] = p[k]
    BY <2>3
  <2>6. t.batch \o t.rest = b \o SubSeq(p, n + 1, Len(p))
    BY <2>1
  <2>7. Within(b \o SubSeq(p, n + 1, Len(p)), p)
    BY <2>2, <2>3, <2>5, SplitWithin
  <2>8. Covers(b \o SubSeq(p, n + 1, Len(p)), p)
    BY <2>2, <2>3, <2>5, SplitCovers
  <2> QED BY <2>1, <2>3, <2>4, <2>6, <2>7, <2>8
<1> QED BY <1>1, <1>2
\* What becomes of the line p and the callers of flush() in F: nothing good is lost
\* and flush() returns when nothing is left, unless the uploader is closed.
Moves(p, F) ==
  /\ pending' \in Seq(Events) /\ SingleInv'
  /\ \A n \in DOMAIN loops' : /\ loops'[n].batch \in Seq(Events)
                              /\ loops'[n].at = "sleeping" => loops'[n].batch = <<>>
  /\ Line' \in Seq(Events) /\ Within(Line', p) /\ (~closed' => Covers(Line', p))
  /\ flush' = F \/ (flush' = Notified(F) /\ (Line' = <<>> \/ closed'))

LEMMA WithinItself ==
  ASSUME NEW p \in Seq(Events)
  PROVE  Within(p, p) /\ Covers(p, p)
  BY DEF Within, Covers

LEMMA ExitMoves ==
  ASSUME NEW p \in Seq(Events), NEW q \in Seq(Events), NEW F, Exit(<<>>, q, F), Within(q, p), Covers(q, p)
  PROVE  Moves(p, F)
<1>1. loops' = <<>> /\ pending' = q /\ Line' = q /\ draining' = FALSE
  BY DEF Exit, Line
<1>2. flush' = F \/ (flush' = Notified(F) /\ q = <<>>)
  BY DEF Exit
<1>3. SingleInv'
  BY <1>1 DEF SingleInv, Single
<1>4. DOMAIN loops' = {}
  BY <1>1
<1> QED BY <1>1, <1>2, <1>3, <1>4 DEF Moves

LEMMA LoopHeadMoves ==
  ASSUME SizeAssumption, NEW p \in Seq(Events), NEW failures, NEW F, LoopHead(<<>>, p, failures, F)
  PROVE  Moves(p, F)
<1>1. CASE p = <<>> \/ closed
  BY <1>1, WithinItself, ExitMoves DEF LoopHead
<1>2. CASE ~(p = <<>> \/ closed)
  <2>1. PICK t \in Takes(p) :
           IF t.batch = <<>> THEN Exit(<<>>, t.rest, F)
           ELSE /\ loops' = Append(<<>>, [at |-> "sending", batch |-> t.batch,
                                          failures |-> failures])
                /\ pending' = t.rest
                /\ draining' = TRUE
                /\ flush' = F
    BY <1>2 DEF LoopHead
  <2>2. /\ t.batch \in Seq(Events) /\ t.rest \in Seq(Events)
        /\ Within(t.batch \o t.rest, p) /\ Covers(t.batch \o t.rest, p)
    BY TakesWithin
  <2>3. CASE t.batch = <<>>
    <3>1. t.batch \o t.rest = t.rest
      BY <2>2, <2>3
    <3> QED BY <2>1, <2>2, <2>3, <3>1, ExitMoves
  <2>4. CASE t.batch # <<>>
    <3> DEFINE l == [at |-> "sending", batch |-> t.batch, failures |-> failures]
    <3>1. loops' = <<l>> /\ pending' = t.rest /\ draining' = TRUE /\ flush' = F
      BY <2>1, <2>4
    <3>2. loops' # <<>> /\ loops'[1] = l /\ \A n \in DOMAIN loops' : loops'[n] = l
      BY <3>1
    <3>3. l.batch = t.batch /\ l.at = "sending"
      OBVIOUS
    <3>4. SingleInv'
      BY <3>1 DEF SingleInv, Single
    <3> HIDE DEF l
    <3>5. Line' = t.batch \o t.rest
      BY <3>1, <3>2, <3>3 DEF Line
    <3>6. Line' \in Seq(Events)
      BY <2>2, <3>5, InConcat
    <3> QED BY <2>2, <3>1, <3>2, <3>3, <3>4, <3>5, <3>6 DEF Moves
  <2> QED BY <2>3, <2>4
<1> QED BY <1>1, <1>2

LEMMA LineTyped ==
  ASSUME SingleInv, Types
  PROVE  /\ Line \in Seq(Events)
         /\ loops = <<>> => Line = pending
         /\ \A n \in DOMAIN loops : n = 1 /\ loops[1].batch \in Seq(Events) /\ Line = loops[1].batch \o pending
<1>1. CASE loops = <<>>
  BY <1>1 DEF Line, Types
<1>2. ASSUME NEW l, loops = <<l>>
      PROVE  /\ Line \in Seq(Events) /\ loops # <<>>
             /\ \A n \in DOMAIN loops : n = 1 /\ loops[1].batch \in Seq(Events) /\ Line = loops[1].batch \o pending
  <2>1. loops # <<>> /\ 1 \in DOMAIN loops /\ DOMAIN loops = {1}
    BY <1>2
  <2>2. loops[1].batch \in Seq(Events) /\ pending \in Seq(Events)
    BY <2>1 DEF Types
  <2>3. Line = loops[1].batch \o pending
    BY <2>1 DEF Line
  <2> QED BY <2>1, <2>2, <2>3, InConcat
<1> QED BY <1>1, <1>2 DEF SingleInv, Single

\* drain() is called with s put behind the line.
LEMMA DrainMoves ==
  ASSUME SizeAssumption, SingleInv, Types, NEW s \in Seq(Events), NEW F, Drain(pending \o s, F)
  PROVE  Moves(Line \o s, F)
<1>1. Line \in Seq(Events) /\ pending \in Seq(Events) /\ pending \o s \in Seq(Events) /\ Line \o s \in Seq(Events)
  BY LineTyped, InConcat DEF Types
<1>2. CASE CanDrain
  <2>1. loops = <<>> /\ Line = pending
    BY <1>2 DEF CanDrain, SingleInv, Single, Line
  <2> QED BY <1>1, <1>2, <2>1, LoopHeadMoves DEF Drain
<1>3. CASE ~CanDrain
  <2>1. pending' = pending \o s /\ flush' = F /\ loops' = loops /\ draining' = draining
    BY <1>3 DEF Drain
  <2>2. Line' = Line \o s
    <3>1. CASE loops = <<>>
      BY <2>1, <3>1 DEF Line
    <3>2. CASE loops # <<>>
      <4>1. loops[1].batch \in Seq(Events) /\ Line = loops[1].batch \o pending
        <5>1. \E n : n \in DOMAIN loops
          <6>1. PICK l : loops = <<l>>
            BY <3>2 DEF SingleInv, Single
          <6>2. 1 \in DOMAIN <<l>>
            OBVIOUS
          <6> QED BY <6>1, <6>2
        <5> QED BY <5>1, LineTyped
      <4>2. Line' = loops[1].batch \o (pending \o s)
        BY <2>1, <3>2 DEF Line
      <4>3. (loops[1].batch \o pending) \o s = loops[1].batch \o (pending \o s)
        <5> DEFINE b == loops[1].batch
        <5>1. b \in Seq(Events)
          BY <4>1
        <5> HIDE DEF b
        <5>2. (b \o pending) \o s = b \o (pending \o s)
          BY <1>1, <5>1, ConcatAssociative
        <5> QED BY <5>2 DEF b
      <4> QED BY <4>1, <4>2, <4>3
    <3> QED BY <3>1, <3>2
  <2>3. SingleInv'
    BY <2>1 DEF SingleInv, Single
  <2> QED BY <1>1, <2>1, <2>2, <2>3, WithinItself DEF Moves, Types
<1> QED BY <1>2, <1>3
-----------------------------------------------------------------------------
(* The order of a line                                                       *)

LEMMA WithinElement ==
  ASSUME NEW T, NEW t \in Seq(T), NEW p, Within(t, p), NEW i \in DOMAIN t
  PROVE  \E k \in DOMAIN p : p[k] = t[i]
<1>1. i <= i
  OBVIOUS
<1> QED BY <1>1 DEF Within

LEMMA OrderedWithin ==
  ASSUME NEW R, NEW p, NEW S, NEW T, NEW t \in Seq(T), OrderedBy(R, p, S), Within(t, p)
  PROVE  OrderedBy(R, t, S)
<1>1. ASSUME NEW i \in DOMAIN t, NEW j \in DOMAIN t, i <= j PROVE <<t[j], t[i]>> \notin R
  <2>1. PICK k \in DOMAIN p, l \in DOMAIN p : k <= l /\ p[k] = t[i] /\ p[l] = t[j]
    BY <1>1 DEF Within
  <2> QED BY <2>1 DEF OrderedBy
<1>2. ASSUME NEW i \in DOMAIN t, NEW j \in DOMAIN S, <<t[i], S[j]>> \in R
      PROVE  \E k \in DOMAIN S : S[k] = t[i]
  <2>1. PICK k \in DOMAIN p : p[k] = t[i]
    BY WithinElement
  <2> QED BY <1>2, <2>1 DEF OrderedBy
<1> QED BY <1>1, <1>2 DEF OrderedBy

\* A batch that reaches the server.
LEMMA OrderedSent ==
  ASSUME NEW R, NEW b \in Seq(Events), NEW p \in Seq(Events), NEW S \in Seq(Events),
         OrderedBy(R, b \o p, S)
  PROVE  OrderedBy(R, b \o p, S \o b)
<1> DEFINE l == b \o p
           s == S \o b
<1>1. /\ \A m \in DOMAIN b : m \in DOMAIN l /\ l[m] = b[m]
      /\ \A i \in DOMAIN S : i \in DOMAIN s /\ s[i] = S[i]
      /\ \A m \in DOMAIN b : Len(S) + m \in DOMAIN s /\ s[Len(S) + m] = b[m]
  BY InConcat
<1>2. ASSUME NEW j \in DOMAIN s, j \notin DOMAIN S
      PROVE  j - Len(S) \in DOMAIN b /\ s[j] = b[j - Len(S)]
  <2>1. j - Len(S) \in DOMAIN b /\ Len(S) + (j - Len(S)) = j
    BY <1>2
  <2> QED BY <1>1, <2>1
<1>3. /\ Len(S) \in Nat /\ DOMAIN s \subseteq Int /\ DOMAIN S = 1..Len(S) /\ DOMAIN l \subseteq Int
      /\ DOMAIN s \subseteq Nat \ {0}
      /\ \A i \in DOMAIN l, m \in DOMAIN b : i < m => i \in DOMAIN b
  OBVIOUS
<1> HIDE DEF l, s
<1>4. /\ \A i, j \in DOMAIN l : i <= j => <<l[j], l[i]>> \notin R
      /\ \A i \in DOMAIN l, j \in DOMAIN S : <<l[i], S[j]>> \in R => \E k \in DOMAIN S : S[k] = l[i]
      /\ \A j, k \in DOMAIN S : <<S[k], S[j]>> \in R => \E i \in DOMAIN S : i < j /\ S[i] = S[k]
  BY DEF OrderedBy, l
<1>5. ASSUME NEW i \in DOMAIN l, NEW j \in DOMAIN s, <<l[i], s[j]>> \in R
      PROVE  \E k \in DOMAIN s : s[k] = l[i]
  <2>1. CASE j \in DOMAIN S
    <3>1. PICK k \in DOMAIN S : S[k] = l[i]
      BY <1>1, <1>4, <1>5, <2>1
    <3> QED BY <1>1, <3>1
  <2>2. CASE j \notin DOMAIN S
    <3> DEFINE m == j - Len(S)
    <3>1. m \in DOMAIN b /\ m \in DOMAIN l /\ s[j] = l[m]
      BY <1>1, <1>2, <2>2
    <3>2. ~(m <= i)
      BY <1>4, <1>5, <3>1
    <3>3. i < m
      BY <1>3, <3>1, <3>2
    <3>4. i \in DOMAIN b
      BY <1>3, <3>1, <3>3
    <3>5. Len(S) + i \in DOMAIN s /\ s[Len(S) + i] = l[i]
      BY <1>1, <3>4
    <3> QED BY <3>5
  <2> QED BY <2>1, <2>2
<1>6. ASSUME NEW j \in DOMAIN s, NEW k \in DOMAIN s, <<s[k], s[j]>> \in R
      PROVE  \E i \in DOMAIN s : i < j /\ s[i] = s[k]
  <2>1. CASE k \in DOMAIN S /\ j \in DOMAIN S
    <3>1. PICK i \in DOMAIN S : i < j /\ S[i] = S[k]
      BY <1>1, <1>4, <1>6, <2>1
    <3> QED BY <1>1, <2>1, <3>1
  <2>2. CASE k \in DOMAIN S /\ j \notin DOMAIN S
    <3>1. k < j
      BY <1>3, <2>2
    <3> QED BY <3>1
  <2>3. CASE k \notin DOMAIN S /\ j \in DOMAIN S
    <3> DEFINE m == k - Len(S)
    <3>1. m \in DOMAIN l /\ s[k] = l[m] /\ s[j] = S[j]
      BY <1>1, <1>2, <2>3
    <3> HIDE DEF m
    <3>2. PICK n \in DOMAIN S : S[n] = l[m]
      BY <1>4, <1>6, <2>3, <3>1
    <3>3. PICK i \in DOMAIN S : i < j /\ S[i] = S[n]
      BY <1>4, <1>6, <2>3, <3>1, <3>2
    <3> QED BY <1>1, <3>1, <3>2, <3>3
  <2>4. CASE k \notin DOMAIN S /\ j \notin DOMAIN S
    <3> DEFINE m == k - Len(S)
               n == j - Len(S)
    <3>1. m \in DOMAIN l /\ s[k] = l[m] /\ n \in DOMAIN l /\ s[j] = l[n]
      BY <1>1, <1>2, <2>4
    <3>2. ~(n <= m)
      BY <1>4, <1>6, <3>1
    <3>3. k < j
      BY <1>3, <3>2
    <3> QED BY <3>3
  <2> QED BY <2>1, <2>2, <2>3, <2>4
<1> QED BY <1>4, <1>5, <1>6 DEF OrderedBy, l, s

\* Events behind the line that precede nothing.
LEMMA OrderedMore ==
  ASSUME NEW R, NEW p \in Seq(Events), NEW S \in Seq(Events), NEW s \in Seq(Events),
         OrderedBy(R, p, S), \A i \in DOMAIN s : \A y : <<s[i], y>> \notin R
  PROVE  OrderedBy(R, p \o s, S)
<1> DEFINE l == p \o s
<1>1. \A i \in DOMAIN p : l[i] = p[i]
  BY InConcat
<1>2. ASSUME NEW j \in DOMAIN l, j \notin DOMAIN p, NEW y PROVE <<l[j], y>> \notin R
  <2>1. j - Len(p) \in DOMAIN s /\ l[j] = s[j - Len(p)]
    BY <1>2
  <2> HIDE DEF l
  <2> QED BY <2>1
<1>3. \A i \in DOMAIN l, j \in DOMAIN p : i <= j => i \in DOMAIN p
  OBVIOUS
<1> HIDE DEF l
<1>4. ASSUME NEW i \in DOMAIN l, NEW j \in DOMAIN l, i <= j PROVE <<l[j], l[i]>> \notin R
  <2>1. CASE j \in DOMAIN p
    BY <1>1, <1>3, <1>4, <2>1 DEF OrderedBy
  <2> QED BY <1>2, <2>1
<1>5. ASSUME NEW i \in DOMAIN l, NEW j \in DOMAIN S, <<l[i], S[j]>> \in R
      PROVE  \E k \in DOMAIN S : S[k] = l[i]
  <2>1. i \in DOMAIN p
    BY <1>2, <1>5
  <2> QED BY <1>1, <1>5, <2>1 DEF OrderedBy
<1> QED BY <1>4, <1>5 DEF OrderedBy, l

\* Pairs more, of which the second is in neither.
LEMMA OrderedFresh ==
  ASSUME NEW R, NEW Q, NEW p, NEW S, OrderedBy(R, p, S),
         \A i \in DOMAIN p : \A x : <<x, p[i]>> \in Q => <<x, p[i]>> \in R,
         \A i \in DOMAIN S : \A x : <<x, S[i]>> \in Q => <<x, S[i]>> \in R
  PROVE  OrderedBy(Q, p, S)
<1>1. \A i, j \in DOMAIN p : i <= j => <<p[j], p[i]>> \notin Q
  BY DEF OrderedBy
<1>2. \A i \in DOMAIN p, j \in DOMAIN S : <<p[i], S[j]>> \in Q => \E k \in DOMAIN S : S[k] = p[i]
  BY DEF OrderedBy
<1>3. \A j, k \in DOMAIN S : <<S[k], S[j]>> \in Q => \E i \in DOMAIN S : i < j /\ S[i] = S[k]
  BY DEF OrderedBy
<1> QED BY <1>1, <1>2, <1>3 DEF OrderedBy

-----------------------------------------------------------------------------
(* What a step does to the invariant                                         *)

\* The callers of flush() in F have what they wait for.
FlushKept(F) ==
  ~closed => \A f \in Flushes : \A e \in F[f].events : Good(e) =>
               /\ F[f].state = "waiting" => Safe(e)
               /\ F[f].state = "returned" => e \in ToSet(sent) \/ e \in dropped

Promises == [Flushes -> [state : {"none", "waiting", "returned"}, events : SUBSET Events]]

LEMMA Notifies ==
  ASSUME NEW F \in Promises
  PROVE  /\ Notified(F) \in Promises
         /\ \A f \in Flushes : /\ Notified(F)[f].events = F[f].events
                               /\ Notified(F)[f].state = IF F[f].state = "waiting" THEN "returned" ELSE F[f].state
  BY DEF Notified, Promises

\* What is safe stays safe through the move.
LEMMA SafeMoves ==
  ASSUME NEW p \in Seq(Events), NEW F, Moves(p, F), ~closed', NEW e, Good(e),
         e \in ToSet(sent)' \/ e \in dropped' \/ e \in ToSet(p)
  PROVE  Safe(e)'
<1>1. CASE e \in ToSet(p)
  <2>1. PICK k \in DOMAIN p : p[k] = e
    BY <1>1 DEF ToSet
  <2>2. \E i \in DOMAIN Line' : Line'[i] = e
    BY <2>1 DEF Moves, Covers
  <2>3. e \in ToSet(Line)'
    BY <2>2 DEF ToSet
  <2> QED BY <2>3 DEF Safe
<1> QED BY <1>1 DEF Safe

LEMMA FlushMoves ==
  ASSUME NEW p \in Seq(Events), NEW F \in Promises, Moves(p, F), closed => closed', FlushKept(F),
         ~closed' => \A e : Good(e) /\ Safe(e) => e \in ToSet(sent)' \/ e \in dropped' \/ e \in ToSet(p),
         \A e : e \in ToSet(sent) \/ e \in dropped => e \in ToSet(sent)' \/ e \in dropped'
  PROVE  flush' \in Promises /\ FlushKept(flush)'
<1>1. flush' \in Promises
  BY Notifies DEF Moves
<1> SUFFICES ASSUME ~closed', NEW f \in Flushes, NEW e \in flush'[f].events, Good(e)
             PROVE  /\ flush'[f].state = "waiting" => Safe(e)'
                    /\ flush'[f].state = "returned" => e \in ToSet(sent)' \/ e \in dropped'
  BY <1>1 DEF FlushKept
<1>2. /\ F[f].state = "waiting" /\ e \in F[f].events => Safe(e)'
      /\ F[f].state = "returned" /\ e \in F[f].events => e \in ToSet(sent)' \/ e \in dropped'
  BY SafeMoves DEF FlushKept
<1>3. CASE flush' = F
  BY <1>2, <1>3
<1>4. CASE flush' = Notified(F) /\ Line' = <<>>
  <2>1. ToSet(Line)' = {}
    BY <1>4 DEF ToSet
  <2>2. F[f].state \in {"none", "waiting", "returned"}
    BY DEF Promises
  <2> QED BY <1>2, <1>4, <2>1, <2>2, Notifies DEF Safe
<1> QED BY <1>3, <1>4 DEF Moves

LEMMA Steps ==
  ASSUME SizeAssumption, Inv, UNCHANGED <<given, before, returned>>,
         NEW p \in Seq(Events), NEW F \in Promises, Moves(p, F), FlushKept(F),
         sent' \in Seq(Events), closed' \in BOOLEAN, closed => closed',
         OrderedBy(Precedence, p, sent'),
         \A i \in DOMAIN p : p[i] <= Numbered, \A i \in DOMAIN sent' : sent'[i] <= Numbered,
         ~closed' => \A e : Good(e) /\ Safe(e) => e \in ToSet(sent)' \/ e \in dropped' \/ e \in ToSet(p),
         \A e : e \in ToSet(sent) \/ e \in dropped => e \in ToSet(sent)' \/ e \in dropped'
  PROVE  SingleInv' /\ Types' /\ Distinct' /\ Ordered' /\ Kept'
<1>1. SingleInv'
  BY DEF Moves
<1>2. flush' \in Promises /\ FlushKept(flush)'
  BY FlushMoves
<1>3. Types'
  <2>1. given' \in Seq(Seq(Events)) /\ Numbered' \in Nat
    BY DEF Inv, Types, Numbered
  <2> QED BY <1>2, <2>1 DEF Moves, Types, Promises
<1>4. Distinct'
  <2>1. Numbered' = Numbered
    BY DEF Numbered
  <2>2. \A i \in DOMAIN Line' : Line'[i] <= Numbered
    <3>1. ASSUME NEW i \in DOMAIN Line' PROVE \E k \in DOMAIN p : p[k] = Line'[i]
      <4>1. Line' \in Seq(Events) /\ Within(Line', p)
        BY DEF Moves
      <4> QED BY <4>1, WithinElement
    <3> QED BY <3>1
  <2> QED BY <2>1, <2>2 DEF Inv, Distinct
<1>5. Ordered'
  <2>1. Precedence' = Precedence
    BY DEF Precedence
  <2>2. OrderedBy(Precedence, Line', sent')
    BY OrderedWithin DEF Moves
  <2> QED BY <2>1, <2>2 DEF Ordered
<1>6. Kept'
  <2>1. ASSUME ~closed', NEW c \in returned', NEW e \in ToSet(given'[c]), Good(e) PROVE Safe(e)'
    <3>1. ~closed /\ c \in returned /\ e \in ToSet(given[c])
      BY <2>1 DEF Inv, Types
    <3>2. Safe(e)
      BY <2>1, <3>1 DEF Inv, Kept
    <3> QED BY <2>1, <3>2, SafeMoves
  <2> QED BY <1>2, <2>1 DEF Kept, FlushKept
<1> QED BY <1>1, <1>3, <1>4, <1>5, <1>6
\* A call whose events precede nothing enters the buffer, waits, or finds the
\* uploader closed.
LEMMA Admits ==
  ASSUME SizeAssumption, SingleInv, Types, NEW c, NEW full, Admit(c, given'[c], full),
         UNCHANGED <<closed, serverVars>>,
         given' \in Seq(Seq(Events)), Numbered' \in Nat,
         \A d \in DOMAIN given' : \A k \in DOMAIN given'[d] : given'[d][k] <= Numbered',
         \A a, d \in DOMAIN given' : a # d =>
           \A k \in DOMAIN given'[a], l \in DOMAIN given'[d] : given'[a][k] # given'[d][l],
         \A i \in DOMAIN Line : Line[i] <= Numbered', \A i \in DOMAIN sent : sent[i] <= Numbered',
         returned \subseteq DOMAIN given', c \in DOMAIN given', c \notin returned,
         DOMAIN before' = DOMAIN given', \A d \in DOMAIN given' : before'[d] \subseteq returned,
         OrderedBy(Precedence', Line, sent), FlushKept(flush),
         ~closed => \A d \in returned : \A e \in ToSet(given'[d]) : Good(e) => Safe(e)
  PROVE  SingleInv' /\ Types' /\ Distinct' /\ Ordered' /\ Kept'
<1> DEFINE s == given'[c]
<1>1. s \in Seq(Events) /\ Line \in Seq(Events) /\ Line \o s \in Seq(Events)
  BY LineTyped, InConcat
<1> DEFINE p == IF ~closed /\ ~full THEN Line \o s ELSE Line
<1>2. Moves(p, flush)
  <2>1. CASE ~closed /\ ~full
    BY <1>1, <2>1, DrainMoves DEF Admit
  <2>2. CASE ~(~closed /\ ~full)
    <3>1. UNCHANGED drainVars
      BY <2>2 DEF Admit
    <3>2. Line' = Line /\ flush' = flush /\ SingleInv'
      BY <3>1 DEF drainVars, Line, SingleInv, Single
    <3> QED BY <1>1, <2>2, <3>1, <3>2, WithinItself DEF Moves, drainVars, Types
  <2> QED BY <2>1, <2>2
<1>3. \A i \in DOMAIN s : \A y : <<s[i], y>> \notin Precedence'
  <2> SUFFICES ASSUME NEW i \in DOMAIN s, NEW y, <<s[i], y>> \in Precedence' PROVE FALSE
    OBVIOUS
  <2>1. PICK d \in DOMAIN given' : \E a \in before'[d] : s[i] \in ToSet(given'[a])
    BY DEF Precedence
  <2>2. PICK a \in before'[d] : s[i] \in ToSet(given'[a])
    BY <2>1
  <2>3. PICK k \in DOMAIN given'[a] : given'[a][k] = s[i]
    BY <2>2 DEF ToSet
  <2>4. a \in DOMAIN given' /\ a # c
    BY <2>1, <2>2
  <2> QED BY <2>3, <2>4
<1>4. /\ p \in Seq(Events) /\ OrderedBy(Precedence', p, sent')
      /\ \A i \in DOMAIN p : p[i] <= Numbered'
      /\ ToSet(p) = IF ~closed /\ ~full THEN ToSet(Line) \cup ToSet(s) ELSE ToSet(Line)
  <2>1. sent' = sent /\ sent \in Seq(Events)
    BY DEF serverVars, Types
  <2>2. CASE ~closed /\ ~full
    <3>1. \A i \in DOMAIN (Line \o s) : (Line \o s)[i] <= Numbered'
      <4>1. ASSUME NEW i \in DOMAIN (Line \o s)
            PROVE  \/ i \in DOMAIN Line /\ (Line \o s)[i] = Line[i]
                   \/ i - Len(Line) \in DOMAIN s /\ (Line \o s)[i] = s[i - Len(Line)]
        <5> DEFINE L == Line
        <5>1. L \in Seq(Events)
          BY <1>1
        <5> HIDE DEF L, s
        <5>2. i \in DOMAIN (L \o s)
          BY DEF L
        <5>3. \/ i \in DOMAIN L /\ (L \o s)[i] = L[i]
              \/ i - Len(L) \in DOMAIN s /\ (L \o s)[i] = s[i - Len(L)]
          BY <1>1, <5>1, <5>2
        <5> QED BY <5>3 DEF L
      <4> HIDE DEF s
      <4>2. \A k \in DOMAIN s : s[k] <= Numbered'
        BY DEF s
      <4> QED BY <4>1, <4>2
    <3>2. OrderedBy(Precedence', Line \o s, sent)
      BY <1>1, <1>3, <2>1, OrderedMore
    <3>3. ToSet(Line \o s) = ToSet(Line) \cup ToSet(s)
      BY <1>1, ConcatElements
    <3> QED BY <1>1, <2>1, <2>2, <3>1, <3>2, <3>3
  <2>3. CASE ~(~closed /\ ~full)
    BY <1>1, <2>1, <2>3
  <2> QED BY <2>2, <2>3
<1>5. /\ ToSet(sent)' = ToSet(sent) /\ dropped' = dropped /\ closed' = closed /\ sent' = sent
      /\ closed \in BOOLEAN /\ sent \in Seq(Events) /\ flush \in Promises
  BY DEF serverVars, Types, Promises
<1>6. returned' = IF ~closed /\ full THEN returned ELSE returned \cup {c}
  BY <1>5 DEF Admit
<1> HIDE DEF p
<1>7. flush' \in Promises /\ FlushKept(flush)'
  <2>1. \A e : Good(e) /\ Safe(e) => e \in ToSet(sent)' \/ e \in dropped' \/ e \in ToSet(p)
    BY <1>4, <1>5 DEF Safe
  <2> QED BY <1>2, <1>4, <1>5, <2>1, FlushMoves
<1>8. Types'
  BY <1>2, <1>5, <1>7 DEF Moves, Types, Promises
<1>9. Distinct'
  <2>1. ASSUME NEW i \in DOMAIN Line' PROVE \E k \in DOMAIN p : p[k] = Line'[i]
    <3>1. Line' \in Seq(Events) /\ Within(Line', p)
      BY <1>2 DEF Moves
    <3> QED BY <3>1, WithinElement
  <2>2. \A i \in DOMAIN Line' : Line'[i] <= Numbered'
    BY <1>4, <2>1
  <2> QED BY <1>5, <2>2 DEF Distinct
<1>10. Ordered'
  <2>1. OrderedBy(Precedence', Line', sent')
    BY <1>2, <1>4, OrderedWithin DEF Moves
  <2> QED BY <2>1 DEF Ordered
<1>11. Kept'
  <2>1. ASSUME ~closed', NEW d \in returned', NEW e \in ToSet(given'[d]), Good(e) PROVE Safe(e)'
    <3>1. e \in ToSet(sent)' \/ e \in dropped' \/ e \in ToSet(p)
      <4>1. CASE d \in returned
        BY <1>4, <1>5, <2>1, <4>1 DEF Safe
      <4>2. CASE d \notin returned
        BY <1>4, <1>5, <1>6, <2>1, <4>2
      <4> QED BY <4>1, <4>2
    <3> QED BY <1>2, <1>4, <2>1, <3>1, SafeMoves
  <2> QED BY <1>7, <2>1 DEF Kept, FlushKept
<1> QED BY <1>2, <1>8, <1>9, <1>10, <1>11 DEF Moves

LEMMA KeptFlush == Inv => FlushKept(flush)
  BY DEF Inv, Kept, FlushKept

LEMMA EnqueueResumesInv == SizeAssumption /\ Inv /\ EnqueueResumes => Inv'
<1> SUFFICES ASSUME SizeAssumption, Inv, EnqueueResumes PROVE Inv'
  OBVIOUS
<1> DEFINE c == Head(woken)
<1>1. /\ given' = given /\ before' = before /\ UNCHANGED <<closed, serverVars>>
      /\ woken # <<>> /\ woken' = Tail(woken)
      /\ Admit(c, given'[c], StillFull(Len(given[c])))
  BY DEF EnqueueResumes
<1>2. /\ Numbered' = Numbered /\ Precedence' = Precedence
  BY <1>1 DEF Numbered, Precedence
<1> DEFINE W == DOMAIN given \ returned
<1>3. /\ woken \in Seq(W) /\ blocked \in Seq(W)
      /\ \A i, j \in DOMAIN woken : woken[i] = woken[j] => i = j
      /\ \A i, j \in DOMAIN blocked : blocked[i] = blocked[j] => i = j
      /\ \A i \in DOMAIN woken, j \in DOMAIN blocked : woken[i] # blocked[j]
      /\ returned \subseteq DOMAIN given
      /\ before \in Seq(SUBSET DOMAIN given) /\ Len(before) = Len(given)
      /\ DOMAIN before = DOMAIN given /\ \A d \in DOMAIN given : before[d] \subseteq returned
  BY DEF Inv, Callers, Types
<1>4. /\ c \in W /\ c = woken[1] /\ 1 \in DOMAIN woken
      /\ Len(woken') \in Nat /\ \A i \in 1..Len(woken') : i + 1 \in DOMAIN woken /\ woken'[i] = woken[i + 1]
      /\ woken' \in Seq(W)
  BY <1>1, <1>3
<1> HIDE DEF c, W
<1>5. SingleInv' /\ Types' /\ Distinct' /\ Ordered' /\ Kept'
  <2>1. Types /\ SingleInv /\ Distinct /\ Ordered /\ Kept /\ FlushKept(flush)
    BY KeptFlush DEF Inv
  <2>2. given' \in Seq(Seq(Events)) /\ Numbered' \in Nat
    BY <1>1, <1>2, <2>1 DEF Types
  <2>3. /\ \A d \in DOMAIN given' : \A k \in DOMAIN given'[d] : given'[d][k] <= Numbered'
        /\ \A a, d \in DOMAIN given' : a # d =>
             \A k \in DOMAIN given'[a], l \in DOMAIN given'[d] : given'[a][k] # given'[d][l]
        /\ \A i \in DOMAIN Line : Line[i] <= Numbered'
        /\ \A i \in DOMAIN sent : sent[i] <= Numbered'
    BY <1>1, <1>2, <2>1 DEF Distinct
  <2>4. OrderedBy(Precedence', Line, sent)
    BY <1>2, <2>1 DEF Ordered
  <2>5. ~closed => \A d \in returned : \A e \in ToSet(given'[d]) : Good(e) => Safe(e)
    BY <1>1, <2>1 DEF Kept
  <2>6. c \in DOMAIN given' /\ c \notin returned
    BY <1>1, <1>4 DEF W
  <2> QED BY <1>1, <1>3, <2>1, <2>2, <2>3, <2>4, <2>5, <2>6, Admits
<1>6. Callers'
  <2>1. \A i, j \in DOMAIN woken' : woken'[i] = woken'[j] => i = j
    <3> SUFFICES ASSUME NEW i \in DOMAIN woken', NEW j \in DOMAIN woken', woken'[i] = woken'[j] PROVE i = j
      OBVIOUS
    <3>1. /\ i \in 1..Len(woken') /\ j \in 1..Len(woken')
          /\ i + 1 \in DOMAIN woken /\ j + 1 \in DOMAIN woken /\ woken[i + 1] = woken[j + 1]
      BY <1>4
    <3>2. i + 1 = j + 1
      BY <1>3, <3>1
    <3> QED BY <3>1, <3>2
  <2>2. \A i \in DOMAIN woken' : woken'[i] # c
    BY <1>3, <1>4
  <2>3. \A i \in DOMAIN woken', j \in DOMAIN blocked : woken'[i] # blocked[j]
    BY <1>3, <1>4
  <2>4. CASE blocked' = Append(blocked, c) /\ returned' = returned
    <3>1. /\ blocked' \in Seq(W) /\ Len(blocked) \in Nat /\ DOMAIN blocked' = 1..(Len(blocked) + 1)
          /\ blocked'[Len(blocked) + 1] = c /\ \A i \in DOMAIN blocked : blocked'[i] = blocked[i]
          /\ \A i \in DOMAIN blocked' : i = Len(blocked) + 1 \/ i \in DOMAIN blocked
      BY <1>3, <1>4, <2>4
    <3>2. \A j \in DOMAIN blocked : blocked[j] # c
      BY <1>3, <1>4
    <3>3. \A i, j \in DOMAIN blocked' : blocked'[i] = blocked'[j] => i = j
      BY <1>3, <3>1, <3>2
    <3>4. \A i \in DOMAIN woken', j \in DOMAIN blocked' : woken'[i] # blocked'[j]
      BY <2>2, <2>3, <3>1
    <3> QED BY <1>1, <1>3, <1>4, <2>1, <2>4, <3>1, <3>3, <3>4 DEF Callers, W
  <2>5. CASE blocked' = blocked /\ returned' = returned \cup {c}
    <3>1. woken' \in Seq(W \ {c})
      <4>1. \A i \in 1..Len(woken') : woken'[i] \in W \ {c}
        BY <1>4, <2>2
      <4> QED BY <1>4, <4>1
    <3>2. blocked' \in Seq(W \ {c})
      <4>1. \A i \in 1..Len(blocked) : blocked[i] \in W \ {c}
        BY <1>3, <1>4
      <4> QED BY <1>3, <2>5, <4>1
    <3>3. W \ {c} = DOMAIN given' \ returned'
      BY <1>1, <2>5 DEF W
    <3>4. returned' \subseteq DOMAIN given' /\ \A d \in DOMAIN given' : before'[d] \subseteq returned'
      BY <1>1, <1>3, <1>4, <2>5 DEF W
    <3> QED BY <1>1, <1>3, <2>1, <2>3, <2>5, <3>1, <3>2, <3>3, <3>4 DEF Callers
  <2> QED BY <1>1, <2>4, <2>5 DEF Admit
<1> QED BY <1>5, <1>6 DEF Inv
LEMMA EnqueueInv == ASSUME SizeAssumption, Inv, NEW n \in Sizes, Enqueue(n) PROVE Inv'
<1> DEFINE s == [k \in 1..n |-> Numbered + k]
           c == Len(given) + 1
           W == DOMAIN given \ returned
<1>1. /\ Numbered + n <= MaxEvents /\ given' = Append(given, s) /\ before' = Append(before, returned)
      /\ UNCHANGED <<closed, woken, serverVars>> /\ Admit(c, s, Full(n))
  BY DEF Enqueue
<1>2. n \in Nat \ {0} /\ MaxEvents \in Nat /\ Numbered \in Nat /\ given \in Seq(Seq(Events))
  BY DEF SizeAssumption, Inv, Types
<1>3. s \in Seq(Events) /\ Len(s) = n /\ \A k \in 1..n : s[k] = Numbered + k
  <2>1. \A k \in 1..n : Numbered + k \in Events
    BY <1>1, <1>2 DEF Events
  <2> QED BY <1>2, <2>1
<1> HIDE DEF s
<1>4. /\ given' \in Seq(Seq(Events)) /\ Len(given) \in Nat /\ c \notin DOMAIN given
      /\ DOMAIN given' = DOMAIN given \cup {c}
      /\ given'[c] = s /\ \A d \in DOMAIN given : given'[d] = given[d]
  BY <1>1, <1>2, <1>3
<1>5. Numbered' = Numbered + n
  <2>1. given' # <<>> /\ Last(given') = s
    BY <1>1, <1>2, <1>3, <1>4 DEF Last
  <2>2. Last(s) = Numbered + n
    BY <1>2, <1>3 DEF Last
  <2> QED BY <2>1, <2>2 DEF Numbered
<1>6. /\ woken \in Seq(W) /\ blocked \in Seq(W)
      /\ \A i, j \in DOMAIN woken : woken[i] = woken[j] => i = j
      /\ \A i, j \in DOMAIN blocked : blocked[i] = blocked[j] => i = j
      /\ \A i \in DOMAIN woken, j \in DOMAIN blocked : woken[i] # blocked[j]
      /\ returned \subseteq DOMAIN given
      /\ before \in Seq(SUBSET DOMAIN given) /\ Len(before) = Len(given)
      /\ DOMAIN before = DOMAIN given /\ \A d \in DOMAIN given : before[d] \subseteq returned
  BY DEF Inv, Callers, Types
<1>7. /\ DOMAIN before' = DOMAIN given' /\ Len(before') = Len(given')
      /\ before' \in Seq(SUBSET DOMAIN given')
      /\ before'[c] = returned /\ \A d \in DOMAIN given : before'[d] = before[d]
  <2>1. before \in Seq(SUBSET DOMAIN given') /\ returned \in SUBSET DOMAIN given'
    BY <1>4, <1>6
  <2> QED BY <1>1, <1>4, <1>6, <2>1
<1>8. \A d \in DOMAIN given' : before'[d] \subseteq returned
  BY <1>4, <1>6, <1>7
<1> HIDE DEF c, W
<1>9. /\ Types /\ SingleInv /\ Distinct /\ Ordered /\ Kept /\ FlushKept(flush)
      /\ Line \in Seq(Events) /\ sent \in Seq(Events)
  BY KeptFlush, LineTyped DEF Inv, Types
<1>10. /\ \A d \in DOMAIN given' : \A k \in DOMAIN given'[d] : given'[d][k] <= Numbered'
       /\ \A i \in DOMAIN Line : Line[i] <= Numbered /\ Line[i] \in Nat
       /\ \A i \in DOMAIN sent : sent[i] <= Numbered /\ sent[i] \in Nat
       /\ \A i \in DOMAIN Line : Line[i] <= Numbered'
       /\ \A i \in DOMAIN sent : sent[i] <= Numbered'
  <2>1. ASSUME NEW d \in DOMAIN given, NEW k \in DOMAIN given[d] PROVE given[d][k] <= Numbered /\ given[d][k] \in Nat
    <3>1. given[d] \in Seq(Events)
      BY <1>2
    <3>2. given[d][k] \in Events
      BY <3>1
    <3> QED BY <1>2, <1>9, <3>2 DEF Distinct, Events
  <2>2. \A i \in DOMAIN Line : Line[i] <= Numbered /\ Line[i] \in Nat
    <3>1. \A i \in DOMAIN Line : Line[i] \in Events
      BY <1>9
    <3> QED BY <1>2, <1>9, <3>1 DEF Distinct, Events
  <2>3. \A i \in DOMAIN sent : sent[i] <= Numbered /\ sent[i] \in Nat
    <3>1. \A i \in DOMAIN sent : sent[i] \in Events
      BY <1>9
    <3> QED BY <1>2, <1>9, <3>1 DEF Distinct, Events
  <2>4. ASSUME NEW d \in DOMAIN given', NEW k \in DOMAIN given'[d] PROVE given'[d][k] <= Numbered'
    <3>1. CASE d = c
      <4>1. k \in 1..n
        BY <1>3, <1>4, <3>1 DEF c
      <4> QED BY <1>2, <1>3, <1>4, <1>5, <3>1, <4>1 DEF c
    <3>2. CASE d # c
      <4>1. d \in DOMAIN given /\ given'[d] = given[d]
        BY <1>4, <3>2 DEF c
      <4> QED BY <1>2, <1>5, <2>1, <4>1
    <3> QED BY <3>1, <3>2
  <2> QED BY <1>2, <1>5, <2>2, <2>3, <2>4
<1>11. \A a, d \in DOMAIN given' : a # d =>
         \A k \in DOMAIN given'[a], l \in DOMAIN given'[d] : given'[a][k] # given'[d][l]
  <2>1. ASSUME NEW d \in DOMAIN given, NEW k \in DOMAIN given[d], NEW l \in DOMAIN s PROVE given[d][k] # s[l]
    <3>1. given[d] \in Seq(Events) /\ given[d][k] <= Numbered
      BY <1>2, <1>9 DEF Distinct
    <3>2. given[d][k] \in Nat
      BY <3>1 DEF Events
    <3> QED BY <1>2, <1>3, <3>1, <3>2
  <2>2. \A a, d \in DOMAIN given : a # d =>
         \A k \in DOMAIN given[a], l \in DOMAIN given[d] : given[a][k] # given[d][l]
    BY <1>9 DEF Distinct
  <2>3. \A a \in DOMAIN given' : (a = c /\ given'[a] = s) \/ (a \in DOMAIN given /\ given'[a] = given[a])
    BY <1>4 DEF c
  <2> QED BY <2>1, <2>2, <2>3
<1>12. OrderedBy(Precedence', Line, sent)
  <2>1. ASSUME NEW x, NEW y, <<x, y>> \in Precedence', y \in Nat, y <= Numbered PROVE <<x, y>> \in Precedence
    <3>1. PICK d \in DOMAIN given' : \E a \in before'[d] : x \in ToSet(given'[a]) /\ y \in ToSet(given'[d])
      BY <2>1 DEF Precedence
    <3>2. PICK a \in before'[d] : x \in ToSet(given'[a]) /\ y \in ToSet(given'[d])
      BY <3>1
    <3>3. d # c
      <4> SUFFICES ASSUME y \in ToSet(s) PROVE FALSE
        BY <1>4, <3>2 DEF c
      <4>1. PICK k \in 1..n : y = s[k]
        BY <1>3 DEF ToSet
      <4> QED BY <1>2, <1>3, <2>1, <4>1
    <3>4. /\ d \in DOMAIN given /\ before'[d] = before[d] /\ given'[d] = given[d]
          /\ a \in DOMAIN given /\ given'[a] = given[a]
      BY <1>4, <1>6, <1>7, <3>2, <3>3 DEF c
    <3>5. x \in ToSet(given[a]) /\ y \in ToSet(given[d]) /\ a \in before[d]
      BY <3>2, <3>4
    <3>6. <<x, y>> \in Events \X Events
      BY <2>1 DEF Precedence
    <3> QED BY <3>4, <3>5, <3>6 DEF Precedence
  <2>2. OrderedBy(Precedence, Line, sent)
    BY <1>9 DEF Ordered
  <2>3. \A i \in DOMAIN Line : \A x : <<x, Line[i]>> \in Precedence' => <<x, Line[i]>> \in Precedence
    BY <1>10, <2>1
  <2>4. \A i \in DOMAIN sent : \A x : <<x, sent[i]>> \in Precedence' => <<x, sent[i]>> \in Precedence
    BY <1>10, <2>1
  <2> QED BY <2>2, <2>3, <2>4, OrderedFresh
<1>13. SingleInv' /\ Types' /\ Distinct' /\ Ordered' /\ Kept'
  <2>1. Numbered' \in Nat
    BY <1>2, <1>5
  <2>2. ~closed => \A d \in returned : \A e \in ToSet(given'[d]) : Good(e) => Safe(e)
    BY <1>4, <1>6, <1>9 DEF Kept
  <2>3. c \in DOMAIN given' /\ c \notin returned /\ returned \subseteq DOMAIN given' /\ Admit(c, given'[c], Full(n))
    BY <1>1, <1>4, <1>6 DEF c
  <2>4. UNCHANGED <<closed, serverVars>> /\ given' \in Seq(Seq(Events))
    BY <1>1, <1>4
  <2>5. /\ DOMAIN before' = DOMAIN given' /\ \A d \in DOMAIN given' : before'[d] \subseteq returned
        /\ \A d \in DOMAIN given' : \A k \in DOMAIN given'[d] : given'[d][k] <= Numbered'
        /\ \A i \in DOMAIN Line : Line[i] <= Numbered'
        /\ \A i \in DOMAIN sent : sent[i] <= Numbered'
    BY <1>7, <1>8, <1>10
  <2>6. Types /\ SingleInv /\ FlushKept(flush)
    BY <1>9
  <2> QED BY <1>11, <1>12, <2>1, <2>2, <2>3, <2>4, <2>5, <2>6, Admits
<1>14. Callers'
  <2>1. c \notin DOMAIN given /\ c \notin W /\ DOMAIN given' = DOMAIN given \cup {c} /\ c \notin returned
    BY <1>4, <1>6 DEF c, W
  <2>2. CASE blocked' = Append(blocked, c) /\ returned' = returned
    <3>1. DOMAIN given' \ returned' = W \cup {c}
      BY <2>1, <2>2 DEF W
    <3>2. woken' \in Seq(W \cup {c})
      BY <1>1, <1>6
    <3>3. /\ blocked' \in Seq(W \cup {c}) /\ Len(blocked) \in Nat
          /\ blocked'[Len(blocked) + 1] = c /\ \A i \in DOMAIN blocked : blocked'[i] = blocked[i]
          /\ \A i \in DOMAIN blocked' : i = Len(blocked) + 1 \/ i \in DOMAIN blocked
      BY <1>6, <2>2
    <3>4. (\A j \in DOMAIN blocked : blocked[j] # c) /\ \A j \in DOMAIN woken : woken[j] # c
      BY <1>6, <2>1
    <3>5. \A i, j \in DOMAIN blocked' : blocked'[i] = blocked'[j] => i = j
      BY <1>6, <3>3, <3>4
    <3>6. \A i \in DOMAIN woken', j \in DOMAIN blocked' : woken'[i] # blocked'[j]
      <4>1. \A i \in DOMAIN woken, j \in DOMAIN blocked' : woken[i] # blocked'[j]
        BY <1>6, <3>3, <3>4
      <4> QED BY <1>1, <4>1
    <3>7. returned' \subseteq DOMAIN given' /\ \A d \in DOMAIN given' : before'[d] \subseteq returned'
      BY <1>6, <1>8, <2>1, <2>2
    <3> QED BY <1>1, <1>6, <1>7, <3>1, <3>2, <3>3, <3>5, <3>6, <3>7 DEF Callers
  <2>3. CASE blocked' = blocked /\ returned' = returned \cup {c}
    <3>1. DOMAIN given' \ returned' = W
      BY <2>1, <2>3 DEF W
    <3>2. returned' \subseteq DOMAIN given' /\ \A d \in DOMAIN given' : before'[d] \subseteq returned'
      BY <1>6, <1>8, <2>1, <2>3
    <3> QED BY <1>1, <1>6, <1>7, <2>3, <3>1, <3>2 DEF Callers
  <2> QED BY <1>1, <2>2, <2>3 DEF Admit
<1> QED BY <1>13, <1>14 DEF Inv
\* Callers that are woken, or left where they are.
LEMMA CallersKept ==
  ASSUME Callers, UNCHANGED <<given, before, returned>>, Released \/ UNCHANGED <<blocked, woken>>
  PROVE  Callers'
<1>1. CASE UNCHANGED <<blocked, woken>>
  BY <1>1 DEF Callers
<1>2. CASE Released
  <2> DEFINE W == DOMAIN given \ returned
  <2>1. /\ woken \in Seq(W) /\ blocked \in Seq(W)
        /\ \A i, j \in DOMAIN woken : woken[i] = woken[j] => i = j
        /\ \A i, j \in DOMAIN blocked : blocked[i] = blocked[j] => i = j
        /\ \A i \in DOMAIN woken, j \in DOMAIN blocked : woken[i] # blocked[j]
    BY DEF Callers
  <2> HIDE DEF W
  <2>2. woken' = woken \o blocked /\ blocked' = <<>>
    BY <1>2 DEF Released
  <2>3. woken' \in Seq(W) /\ blocked' \in Seq(W) /\ DOMAIN blocked' = {} /\ Len(woken) \in Nat
    BY <2>1, <2>2, InConcat
  <2>4. ASSUME NEW i \in DOMAIN woken'
        PROVE  \/ i \in DOMAIN woken /\ woken'[i] = woken[i]
               \/ i - Len(woken) \in DOMAIN blocked /\ woken'[i] = blocked[i - Len(woken)]
    <3>1. i \in DOMAIN (woken \o blocked)
      BY <2>2
    <3>2. \/ i \in DOMAIN woken /\ (woken \o blocked)[i] = woken[i]
          \/ i - Len(woken) \in DOMAIN blocked /\ (woken \o blocked)[i] = blocked[i - Len(woken)]
      BY <2>1, <3>1
    <3> QED BY <2>2, <3>2
  <2>5. DOMAIN woken' \subseteq Int
    BY <2>3
  <2>6. ASSUME NEW i \in DOMAIN woken', NEW j \in DOMAIN woken', woken'[i] = woken'[j] PROVE i = j
    <3>1. CASE i \in DOMAIN woken /\ woken'[i] = woken[i]
      BY <2>1, <2>4, <2>6, <3>1
    <3>2. CASE i - Len(woken) \in DOMAIN blocked /\ woken'[i] = blocked[i - Len(woken)]
      <4>1. j - Len(woken) \in DOMAIN blocked /\ woken'[j] = blocked[j - Len(woken)]
        BY <2>1, <2>4, <2>6, <3>2
      <4>2. i - Len(woken) = j - Len(woken)
        BY <2>1, <2>6, <3>2, <4>1
      <4> QED BY <2>3, <2>5, <4>2
    <3> QED BY <2>4, <3>1, <3>2
  <2> QED BY <2>1, <2>3, <2>6 DEF Callers, W
<1> QED BY <1>1, <1>2

\* The loop that waits: its batch is in front of the line.
LEMMA WaitingLine ==
  ASSUME Inv, NEW n \in DOMAIN loops
  PROVE  /\ n = 1 /\ loops[n].batch \in Seq(Events) /\ Line = loops[n].batch \o pending /\ pending \in Seq(Events)
         /\ Others(n) = <<>> /\ draining
         /\ Line \in Seq(Events)
         /\ loops[n].at = "sleeping" => Line = pending
<1>1. /\ n = 1 /\ loops[n].batch \in Seq(Events) /\ Line = loops[n].batch \o pending
      /\ Line \in Seq(Events) /\ pending \in Seq(Events) /\ Others(n) = <<>> /\ draining
  BY LineTyped, NoOthers DEF Inv, Types
<1>2. ASSUME loops[n].at = "sleeping" PROVE Line = pending
  <2>1. loops[n].batch = <<>>
    BY <1>2 DEF Inv, Types
  <2> QED BY <1>1, <2>1
<1> QED BY <1>1, <1>2

LEMMA InvFacts ==
  ASSUME Inv
  PROVE  /\ sent \in Seq(Events) /\ closed \in BOOLEAN /\ flush \in Promises /\ FlushKept(flush)
         /\ OrderedBy(Precedence, Line, sent) /\ Callers
         /\ \A i \in DOMAIN Line : Line[i] <= Numbered
         /\ \A i \in DOMAIN sent : sent[i] <= Numbered
  BY KeptFlush DEF Inv, Types, Promises, Ordered, Distinct

\* What is behind the batch.
LEMMA BehindWithin ==
  ASSUME NEW b \in Seq(Events), NEW p \in Seq(Events)
  PROVE  Within(p, b \o p)
<1>1. /\ \A i \in DOMAIN p : Len(b) + i \in DOMAIN (b \o p) /\ (b \o p)[Len(b) + i] = p[i]
      /\ Len(b) \in Nat /\ DOMAIN p \subseteq Int
  BY InConcat
<1> DEFINE l == b \o p
<1> HIDE DEF l
<1>2. ASSUME NEW i \in DOMAIN p, NEW j \in DOMAIN p, i <= j
      PROVE  \E k, m \in DOMAIN l : k <= m /\ l[k] = p[i] /\ l[m] = p[j]
  <2>1. Len(b) + i <= Len(b) + j
    BY <1>1, <1>2
  <2> QED BY <1>1, <2>1 DEF l
<1> QED BY <1>2 DEF Within, l

\* What bounds a joined sequence bounds its second part.
LEMMA BoundedRest ==
  ASSUME NEW b \in Seq(Events), NEW p \in Seq(Events), NEW m,
         \A i \in DOMAIN (b \o p) : (b \o p)[i] <= m
  PROVE  \A i \in DOMAIN p : p[i] <= m
<1> SUFFICES ASSUME NEW i \in DOMAIN p PROVE p[i] <= m
  OBVIOUS
<1>1. Len(b) + i \in DOMAIN (b \o p) /\ (b \o p)[Len(b) + i] = p[i]
  BY InConcat
<1> QED BY <1>1

LEMMA BoundedConcat ==
  ASSUME NEW b \in Seq(Events), NEW p \in Seq(Events), NEW m,
         \A i \in DOMAIN (b \o p) : (b \o p)[i] <= m, NEW S \in Seq(Events), \A i \in DOMAIN S : S[i] <= m
  PROVE  /\ \A i \in DOMAIN p : p[i] <= m
         /\ \A i \in DOMAIN (S \o b) : (S \o b)[i] <= m
<1>1. \A i \in DOMAIN b : b[i] <= m
  BY InConcat
<1>2. \A i \in DOMAIN p : p[i] <= m
  BY BoundedRest
<1>3. ASSUME NEW i \in DOMAIN (S \o b) PROVE (S \o b)[i] <= m
  <2>1. \/ i \in DOMAIN S /\ (S \o b)[i] = S[i]
        \/ i - Len(S) \in DOMAIN b /\ (S \o b)[i] = b[i - Len(S)]
    OBVIOUS
  <2> QED BY <1>1, <2>1
<1> QED BY <1>2, <1>3

LEMMA SendResolvesInv == ASSUME SizeAssumption, Inv, NEW n \in DOMAIN loops, SendResolves(n) PROVE Inv'
<1> DEFINE b == loops[n].batch
<1>1. /\ sent' = sent \o b /\ Released /\ LoopHead(<<>>, pending, 0, flush)
      /\ UNCHANGED <<closed, given, before, returned, dropped>>
  BY WaitingLine DEF SendResolves
<1>2. b \in Seq(Events) /\ Line = b \o pending /\ pending \in Seq(Events)
  BY WaitingLine
<1> HIDE DEF b
<1>3. /\ sent \in Seq(Events) /\ closed \in BOOLEAN /\ flush \in Promises /\ FlushKept(flush)
      /\ OrderedBy(Precedence, b \o pending, sent) /\ Callers
      /\ \A i \in DOMAIN (b \o pending) : (b \o pending)[i] <= Numbered
      /\ \A i \in DOMAIN sent : sent[i] <= Numbered
  BY <1>2, InvFacts
<1>4. Moves(pending, flush)
  BY <1>1, <1>2, LoopHeadMoves
<1>5. OrderedBy(Precedence, pending, sent')
  <2>1. OrderedBy(Precedence, b \o pending, sent \o b)
    BY <1>2, <1>3, OrderedSent
  <2> QED BY <1>1, <1>2, <2>1, BehindWithin, OrderedWithin
<1>6. sent' \in Seq(Events) /\ ToSet(sent)' = ToSet(sent) \cup ToSet(b) /\ ToSet(Line) = ToSet(b) \cup ToSet(pending)
  BY <1>1, <1>2, <1>3, ConcatElements, InConcat
<1>7. (\A i \in DOMAIN pending : pending[i] <= Numbered) /\ \A i \in DOMAIN sent' : sent'[i] <= Numbered
  BY <1>1, <1>2, <1>3, BoundedConcat
<1>8. \A e : Good(e) /\ Safe(e) => e \in ToSet(sent)' \/ e \in dropped' \/ e \in ToSet(pending)
  BY <1>1, <1>6 DEF Safe
<1>9. \A e : e \in ToSet(sent) \/ e \in dropped => e \in ToSet(sent)' \/ e \in dropped'
  BY <1>1, <1>6
<1>10. SingleInv' /\ Types' /\ Distinct' /\ Ordered' /\ Kept'
  BY <1>1, <1>2, <1>3, <1>4, <1>5, <1>6, <1>7, <1>8, <1>9, Steps
<1>11. Callers'
  BY <1>1, <1>3, CallersKept
<1> QED BY <1>10, <1>11 DEF Inv

LEMMA SendFailsInv == ASSUME SizeAssumption, Inv, NEW n \in DOMAIN loops, SendFails(n) PROVE Inv'
<1> DEFINE b == loops[n].batch
           failures == loops[n].failures + 1
<1>1. /\ sent' = sent \/ sent' = sent \o b
      /\ UNCHANGED <<closed, given, before, returned>>
      /\ Others(n) = <<>>
  BY WaitingLine DEF SendFails
<1>2. b \in Seq(Events) /\ Line = b \o pending /\ pending \in Seq(Events) /\ Line \in Seq(Events)
  BY WaitingLine
<1>3. \/ dropped' = dropped \cup ToSet(b) /\ Released /\ LoopHead(<<>>, pending, 0, flush)
      \/ /\ pending' = b \o pending
         /\ \E l : loops' = Append(<<>>, l) /\ l.batch = <<>>
         /\ UNCHANGED <<draining, flush, blocked, woken, dropped>>
  BY <1>1 DEF SendFails, Requeued
<1>3a. draining
  BY WaitingLine
<1> HIDE DEF b
<1>4. /\ sent \in Seq(Events) /\ closed \in BOOLEAN /\ flush \in Promises /\ FlushKept(flush)
      /\ OrderedBy(Precedence, b \o pending, sent) /\ Callers
      /\ \A i \in DOMAIN (b \o pending) : (b \o pending)[i] <= Numbered
      /\ \A i \in DOMAIN sent : sent[i] <= Numbered
  BY <1>2, InvFacts
<1>5. /\ sent' \in Seq(Events) /\ ToSet(sent) \subseteq ToSet(sent)' /\ ToSet(Line) = ToSet(b) \cup ToSet(pending)
      /\ \A i \in DOMAIN sent' : sent'[i] <= Numbered
      /\ OrderedBy(Precedence, b \o pending, sent')
  <2>1. ToSet(Line) = ToSet(b) \cup ToSet(pending)
    BY <1>2, ConcatElements
  <2>2. CASE sent' = sent
    BY <1>4, <2>1, <2>2
  <2>3. CASE sent' = sent \o b
    <3>1. ToSet(sent \o b) = ToSet(sent) \cup ToSet(b) /\ sent \o b \in Seq(Events)
      BY <1>2, <1>4, ConcatElements, InConcat
    <3>2. \A i \in DOMAIN (sent \o b) : (sent \o b)[i] <= Numbered
      BY <1>2, <1>4, BoundedConcat
    <3>3. OrderedBy(Precedence, b \o pending, sent \o b)
      BY <1>2, <1>4, OrderedSent
    <3> QED BY <2>1, <2>3, <3>1, <3>2, <3>3
  <2> QED BY <1>1, <2>2, <2>3
<1>6. CASE dropped' = dropped \cup ToSet(b) /\ Released /\ LoopHead(<<>>, pending, 0, flush)
  <2>1. Moves(pending, flush)
    BY <1>2, <1>6, LoopHeadMoves
  <2>2. OrderedBy(Precedence, pending, sent')
    BY <1>2, <1>5, BehindWithin, OrderedWithin
  <2>3. \A i \in DOMAIN pending : pending[i] <= Numbered
    BY ONLY <1>2, <1>4, BoundedRest
  <2>4. \A e : Good(e) /\ Safe(e) => e \in ToSet(sent)' \/ e \in dropped' \/ e \in ToSet(pending)
    BY <1>5, <1>6 DEF Safe
  <2>5. \A e : e \in ToSet(sent) \/ e \in dropped => e \in ToSet(sent)' \/ e \in dropped'
    BY <1>5, <1>6
  <2>6. SingleInv' /\ Types' /\ Distinct' /\ Ordered' /\ Kept'
    BY <1>1, <1>2, <1>4, <1>5, <2>1, <2>2, <2>3, <2>4, <2>5, Steps
  <2>7. Callers'
    BY <1>1, <1>4, <1>6, CallersKept
  <2> QED BY <2>6, <2>7 DEF Inv
<1>7. CASE /\ pending' = b \o pending
           /\ \E l : loops' = Append(<<>>, l) /\ l.batch = <<>>
           /\ UNCHANGED <<draining, flush, blocked, woken, dropped>>
  <2>1. PICK l : loops' = Append(<<>>, l) /\ l.batch = <<>>
    BY <1>7
  <2>2. loops' = <<l>> /\ loops' # <<>> /\ loops'[1] = l /\ \A m \in DOMAIN loops' : loops'[m] = l
    BY <2>1
  <2>3. <<>> \o (b \o pending) = b \o pending /\ <<>> \in Seq(Events)
    BY <1>2
  <2>4. Line' = Line /\ pending' = Line
    BY <1>2, <1>7, <2>1, <2>2, <2>3 DEF Line
  <2>5. SingleInv'
    BY <1>3a, <1>7, <2>2 DEF SingleInv, Single
  <2>6. Moves(Line, flush)
    BY <1>2, <1>7, <2>1, <2>2, <2>3, <2>4, <2>5, WithinItself DEF Moves
  <2>7. \A e : Good(e) /\ Safe(e) => e \in ToSet(sent)' \/ e \in dropped' \/ e \in ToSet(Line)
    BY <1>5, <1>7 DEF Safe
  <2>8. \A e : e \in ToSet(sent) \/ e \in dropped => e \in ToSet(sent)' \/ e \in dropped'
    BY <1>5, <1>7
  <2>9. SingleInv' /\ Types' /\ Distinct' /\ Ordered' /\ Kept'
    BY <1>1, <1>2, <1>4, <1>5, <2>6, <2>7, <2>8, Steps
  <2>10. Callers'
    BY <1>1, <1>4, <1>7, CallersKept
  <2> QED BY <2>9, <2>10 DEF Inv
<1> QED BY <1>3, <1>6, <1>7
LEMMA WakeUpInv == ASSUME SizeAssumption, Inv, NEW n \in DOMAIN loops, WakeUp(n) PROVE Inv'
<1>1. /\ \E failures : LoopHead(<<>>, pending, failures, flush)
      /\ UNCHANGED <<closed, callVars, serverVars>>
      /\ Line = pending /\ pending \in Seq(Events)
  BY WaitingLine DEF WakeUp, Waiting
<1>2. Moves(Line, flush)
  BY <1>1, LoopHeadMoves
<1>3. /\ sent' = sent /\ dropped' = dropped /\ closed' = closed
      /\ UNCHANGED <<given, before, returned, blocked, woken>>
      /\ ToSet(sent)' = ToSet(sent)
  BY <1>1 DEF callVars, serverVars
<1>4. /\ sent \in Seq(Events) /\ closed \in BOOLEAN /\ flush \in Promises /\ FlushKept(flush)
      /\ OrderedBy(Precedence, Line, sent) /\ Callers /\ Line \in Seq(Events)
      /\ \A i \in DOMAIN Line : Line[i] <= Numbered
      /\ \A i \in DOMAIN sent : sent[i] <= Numbered
  BY <1>1, InvFacts
<1>5. SingleInv' /\ Types' /\ Distinct' /\ Ordered' /\ Kept'
  BY <1>2, <1>3, <1>4, Steps DEF Safe
<1>6. Callers'
  BY <1>3, <1>4, CallersKept
<1> QED BY <1>5, <1>6 DEF Inv

LEMMA UnsentIsLine == ASSUME SingleInv, Types PROVE Unsent = ToSet(Line)
<1>1. CASE loops = <<>>
  BY <1>1 DEF Unsent, InFlight, Line
<1>2. ASSUME NEW l, loops = <<l>> PROVE Unsent = ToSet(Line)
  <2>1. DOMAIN loops = {1} /\ loops # <<>>
    BY <1>2
  <2>2. loops[1].batch \in Seq(Events) /\ Line = loops[1].batch \o pending /\ pending \in Seq(Events)
    BY <2>1, LineTyped DEF Types
  <2>3. InFlight = ToSet(loops[1].batch)
    BY <2>1 DEF InFlight
  <2>4. ToSet(Line) = ToSet(loops[1].batch) \cup ToSet(pending)
    BY <2>2, ConcatElements
  <2> QED BY <2>3, <2>4 DEF Unsent
<1> QED BY <1>1, <1>2 DEF SingleInv, Single

LEMMA FlushInv == ASSUME SizeAssumption, Inv, NEW f \in Flushes, Flush(f) PROVE Inv'
<1> DEFINE state == IF NothingToFlush THEN "returned" ELSE "waiting"
           F == [flush EXCEPT ![f] = [state |-> state, events |-> Unsent]]
<1>1. /\ sent' = sent /\ dropped' = dropped /\ closed' = closed
      /\ UNCHANGED <<given, before, returned, blocked, woken>>
      /\ ToSet(sent)' = ToSet(sent)
  BY DEF Flush, callVars, serverVars
<1>2. /\ sent \in Seq(Events) /\ closed \in BOOLEAN /\ flush \in Promises /\ FlushKept(flush)
      /\ OrderedBy(Precedence, Line, sent) /\ Callers
      /\ \A i \in DOMAIN Line : Line[i] <= Numbered
      /\ \A i \in DOMAIN sent : sent[i] <= Numbered
  BY InvFacts
<1>3. SingleInv /\ Types /\ Line \in Seq(Events) /\ pending \in Seq(Events) /\ Unsent = ToSet(Line)
  BY LineTyped, UnsentIsLine DEF Inv, Types
<1>4. Unsent \subseteq Events
  BY <1>3 DEF ToSet
<1>5. /\ F \in Promises /\ F[f] = [state |-> state, events |-> Unsent]
      /\ \A g \in Flushes : g # f => F[g] = flush[g]
  BY <1>2, <1>4 DEF Promises
<1>6. NothingToFlush => Unsent = {}
  <2> SUFFICES ASSUME NothingToFlush PROVE Unsent = {}
    OBVIOUS
  <2>1. pending = <<>> /\ loops = <<>>
    BY <1>3 DEF NothingToFlush, SingleInv, Single
  <2>2. Line = <<>>
    BY <2>1 DEF Line
  <2> QED BY <1>3, <2>2 DEF ToSet
<1>7. FlushKept(F)
  <2> SUFFICES ASSUME ~closed, NEW g \in Flushes, NEW e \in F[g].events, Good(e)
               PROVE  /\ F[g].state = "waiting" => Safe(e)
                      /\ F[g].state = "returned" => e \in ToSet(sent) \/ e \in dropped
    BY DEF FlushKept
  <2>1. CASE g = f
    BY <1>3, <1>5, <1>6, <2>1 DEF Safe
  <2>2. CASE g # f
    BY <1>2, <1>5, <2>2 DEF FlushKept
  <2> QED BY <2>1, <2>2
<1>8. Moves(Line, F)
  <2>1. CASE NothingToFlush
    <3>1. flush' = F /\ UNCHANGED <<pending, draining, loops>>
      BY <2>1 DEF Flush
    <3> HIDE DEF F
    <3>2. Line' = Line /\ SingleInv'
      BY <1>3, <3>1 DEF Line, SingleInv, Single
    <3> QED BY <1>3, <3>1, <3>2, WithinItself DEF Moves, Types
  <2>2. CASE ~NothingToFlush
    <3>1. Drain(pending, F)
      BY <2>2 DEF Flush
    <3> HIDE DEF F
    <3>2. pending \o <<>> = pending /\ Line \o <<>> = Line /\ <<>> \in Seq(Events)
      BY <1>3
    <3>3. Drain(pending \o <<>>, F)
      BY <3>1, <3>2
    <3>4. Moves(Line \o <<>>, F)
      BY <1>3, <3>2, <3>3, DrainMoves
    <3> QED BY <3>2, <3>4
  <2> QED BY <2>1, <2>2
<1> HIDE DEF F
<1>9. SingleInv' /\ Types' /\ Distinct' /\ Ordered' /\ Kept'
  BY <1>1, <1>2, <1>3, <1>5, <1>7, <1>8, Steps DEF Safe
<1>10. Callers'
  BY <1>1, <1>2, CallersKept
<1> QED BY <1>9, <1>10 DEF Inv

LEMMA CloseInv == ASSUME SizeAssumption, Inv, Close PROVE Inv'
<1>1. /\ sent' = sent /\ dropped' = dropped /\ closed' = TRUE /\ pending' = <<>> /\ flush' = Notified(flush)
      /\ UNCHANGED <<given, before, returned>> /\ Released /\ loops' = loops /\ draining' = draining
      /\ ToSet(sent)' = ToSet(sent)
  BY DEF Close, serverVars
<1>2. /\ sent \in Seq(Events) /\ closed \in BOOLEAN /\ flush \in Promises /\ FlushKept(flush)
      /\ OrderedBy(Precedence, Line, sent) /\ Callers
      /\ \A i \in DOMAIN Line : Line[i] <= Numbered
      /\ \A i \in DOMAIN sent : sent[i] <= Numbered
  BY InvFacts
<1>3. SingleInv /\ Types /\ Line \in Seq(Events) /\ pending \in Seq(Events)
  BY LineTyped DEF Inv, Types
<1>4. Line' \in Seq(Events) /\ Within(Line', Line)
  <2>1. CASE loops = <<>>
    <3>1. Line' = <<>>
      BY <1>1, <2>1 DEF Line
    <3> QED BY <3>1 DEF Within
  <2>2. CASE loops # <<>>
    <3> DEFINE b == loops[1].batch
    <3>1. b \in Seq(Events) /\ Line = b \o pending
      <4>1. PICK l : loops = <<l>>
        BY <1>3, <2>2 DEF SingleInv, Single
      <4>2. 1 \in DOMAIN loops
        BY <4>1
      <4> QED BY <1>3, <4>2, LineTyped
    <3>2. Line' = b \o <<>>
      BY <1>1, <2>2 DEF Line
    <3> HIDE DEF b
    <3>3. b \o <<>> = b
      BY <3>1
    <3>4. \A i \in DOMAIN b : i \in DOMAIN (b \o pending) /\ (b \o pending)[i] = b[i]
      BY <1>3, <3>1, InConcat
    <3> QED BY <3>1, <3>2, <3>3, <3>4 DEF Within
  <2> QED BY <2>1, <2>2
<1>5. Moves(Line, flush)
  <2>1. SingleInv'
    BY <1>1, <1>3 DEF SingleInv, Single
  <2> QED BY <1>1, <1>3, <1>4, <2>1 DEF Moves, Types
<1>6. SingleInv' /\ Types' /\ Distinct' /\ Ordered' /\ Kept'
  BY <1>1, <1>2, <1>3, <1>5, Steps
<1>7. Callers'
  BY <1>1, <1>2, CallersKept
<1> QED BY <1>6, <1>7 DEF Inv

LEMMA StutterInv == ASSUME Inv, UNCHANGED vars PROVE Inv'
<1>1. UNCHANGED <<drainVars, closed, callVars, serverVars>>
  BY DEF vars
<1>2. UNCHANGED <<pending, draining, loops, flush, closed, blocked, woken, given, before, returned, sent, dropped>>
  BY <1>1 DEF drainVars, callVars, serverVars
<1>3. Line' = Line /\ Precedence' = Precedence /\ Numbered' = Numbered
  BY <1>2 DEF Line, Precedence, Numbered
<1>4. SingleInv' /\ Types' /\ Distinct'
  BY <1>2, <1>3 DEF Inv, SingleInv, Single, Types, Distinct
<1>5. Callers' /\ Ordered'
  BY <1>2, <1>3 DEF Inv, Callers, Ordered
<1>6. \A e : Safe(e)' = Safe(e)
  BY <1>2, <1>3 DEF Safe
<1>7. Kept'
  BY <1>2, <1>6 DEF Inv, Kept
<1> QED BY <1>4, <1>5, <1>7 DEF Inv

LEMMA InvNext == SizeAssumption /\ Inv /\ [Next]_vars => Inv'
  BY EnqueueInv, EnqueueResumesInv, SendResolvesInv, SendFailsInv, WakeUpInv, FlushInv, CloseInv, StutterInv
  DEF Next, Quiet

LEMMA InvInit == SizeAssumption /\ Init => Inv
<1> SUFFICES ASSUME SizeAssumption, Init PROVE Inv
  OBVIOUS
<1>1. /\ pending = <<>> /\ draining = FALSE /\ closed = FALSE /\ loops = <<>>
      /\ blocked = <<>> /\ woken = <<>> /\ given = <<>> /\ before = <<>> /\ returned = {}
      /\ flush = [f \in Flushes |-> [state |-> "none", events |-> {}]]
      /\ sent = <<>> /\ dropped = {}
  BY DEF Init
<1>2. Line = <<>> /\ Numbered = 0
  BY <1>1 DEF Line, Numbered
<1>3. Types /\ Distinct /\ Callers
  <2>1. Types
    <3>1. flush \in [Flushes -> [state : {"none", "waiting", "returned"}, events : SUBSET Events]]
      BY <1>1
    <3>2. pending \in Seq(Events) /\ sent \in Seq(Events) /\ DOMAIN loops = {} /\ given \in Seq(Seq(Events))
      BY <1>1
    <3> QED BY <1>1, <1>2, <3>1, <3>2 DEF Types
  <2>2. Distinct
    BY <1>1, <1>2 DEF Distinct
  <2>3. before \in Seq(SUBSET DOMAIN given) /\ Len(before) = Len(given) /\ DOMAIN given = {}
    BY <1>1
  <2>4. /\ woken \in Seq(DOMAIN given \ returned) /\ blocked \in Seq(DOMAIN given \ returned)
        /\ DOMAIN woken = {} /\ DOMAIN blocked = {}
    BY <1>1
  <2>5. Callers
    BY <1>1, <2>3, <2>4 DEF Callers
  <2> QED BY <2>1, <2>2, <2>5
<1>4. Ordered
  BY <1>1, <1>2 DEF Ordered, OrderedBy
<1>5. Kept
  BY <1>1 DEF Kept
<1> QED BY <1>3, <1>4, <1>5, SingleInit DEF Inv

-----------------------------------------------------------------------------
(* The theorems                                                              *)

\* The invariant of the uploader's queue, its drain and its blocked callers holds
\* whatever the events, the batch sizes and the answers of the server.
THEOREM InvHolds == Spec => []Inv
  BY InvInit, InvNext, SizeAssumption, PTL DEF Spec

\* Until close() is called, an event that enqueue() has taken and that can be
\* serialized is at the server, on its way there, or was given up after
\* maxConsecutiveFailures failures.
THEOREM LosesNothing == Spec => []NothingLost
<1>1. Inv => NothingLost
  BY UnsentIsLine DEF Inv, Kept, Safe, NothingLost
<1> QED BY <1>1, InvHolds, PTL

\* A flush() that has returned has waited for everything that was in the buffer
\* or on its way when it was called.
THEOREM FlushesAll == Spec => []FlushCovers
<1>1. Inv => FlushCovers
  BY DEF Inv, Kept, FlushCovers
<1> QED BY <1>1, InvHolds, PTL

\* The first arrival of an event has a number, and none is earlier.
LEMMA FirstArrival ==
  ASSUME Types, NEW e \in ToSet(sent)
  PROVE  /\ FirstAt(e) \in DOMAIN sent /\ sent[FirstAt(e)] = e
         /\ \A i \in DOMAIN sent : sent[i] = e => FirstAt(e) <= i
<1> DEFINE I == {i \in 1..Len(sent) : sent[i] = e}
<1>1. I # {} /\ I \in SUBSET Nat /\ DOMAIN sent = 1..Len(sent)
  <2>1. sent \in Seq(Events)
    BY DEF Types
  <2>2. PICK i \in DOMAIN sent : sent[i] = e
    BY DEF ToSet
  <2> QED BY <2>1, <2>2
<1>2. PICK m \in I : \A k \in I : m <= k
  BY <1>1, Least
<1>3. FirstAt(e) = IF I # {} THEN Min(I) ELSE 0
  BY DEF FirstAt, SelectInSeq
<1>4. Min(I) \in I /\ \A k \in I : Min(I) <= k
  BY <1>2 DEF Min
<1> QED BY <1>1, <1>3, <1>4

\* Events of calls of which the one had returned when the other was made arrive
\* in the order of the calls.
THEOREM ArrivesInOrder == Spec => []AwaitedInOrder
<1>1. Inv => AwaitedInOrder
  <2> SUFFICES ASSUME Inv, NEW d \in DOMAIN given, NEW c \in before[d],
                      NEW e \in ToSet(given[c]) \cap ToSet(sent), NEW g \in ToSet(given[d]) \cap ToSet(sent)
               PROVE  FirstAt(e) < FirstAt(g)
    BY DEF AwaitedInOrder, Arrived
  <2>1. Types /\ OrderedBy(Precedence, Line, sent) /\ DOMAIN sent \subseteq Int
    BY DEF Inv, Ordered, Types
  <2>2. e \in Events /\ g \in Events
    BY <2>1 DEF ToSet, Types
  <2>3. <<e, g>> \in Precedence
    BY <2>2 DEF Precedence
  <2>4. /\ FirstAt(e) \in DOMAIN sent /\ sent[FirstAt(e)] = e /\ FirstAt(g) \in DOMAIN sent /\ sent[FirstAt(g)] = g
        /\ \A i \in DOMAIN sent : sent[i] = e => FirstAt(e) <= i
    BY <2>1, FirstArrival
  <2>5. PICK i \in DOMAIN sent : i < FirstAt(g) /\ sent[i] = e
    BY <2>1, <2>3, <2>4 DEF OrderedBy
  <2> QED BY <2>1, <2>4, <2>5
<1> QED BY <1>1, InvHolds, PTL
=============================================================================
