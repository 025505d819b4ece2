-------------------------- MODULE StatePublication --------------------------
(***************************************************************************)
(* What the uploader of the worker's state promises to those who report    *)
(* it: the server holds, at any time, what the first so many reports leave *)
(* when they are applied one after the other, and it never goes back.      *)
(***************************************************************************)
EXTENDS Integers, Sequences

CONSTANTS Keys, Values

\* A patch gives values to some of the keys.
Patches == UNION {[D -> Values] : D \in SUBSET Keys}

VARIABLES
  given,   \* the patches reported so far
  shown,   \* how many of them the server's state reflects
  base,    \* the server's state before the first of them
  server   \* the server's state

vars == <<given, shown, base, server>>

\* None of the reports m+1..n of g gives a value to the key k.
Silent(g, m, n, k) == \A i \in m + 1..n : k \notin DOMAIN g[i]

\* Of the reports m+1..n of g the i-th is the last to give a value to k.
SaysLast(g, m, n, k, i) ==
  i \in m + 1..n /\ k \in DOMAIN g[i] /\ Silent(g, i, n, k)

\* s is the state after the first n reports g, over the state b: for each key,
\* what the last report that touches it says.
IsStateAfter(s, b, g, n) ==
  \A k \in Keys : \/ Silent(g, 0, n, k) /\ s[k] = b[k]
                  \/ \E i \in 1..n : SaysLast(g, 0, n, k, i) /\ s[k] = g[i][k]

Init ==
  /\ given = <<>> /\ shown = 0
  /\ base \in [Keys -> Values] /\ server = base

\* One or several reports.
Report ==
  /\ given' \in Seq(Patches) /\ Len(given') >= Len(given)
  /\ \A i \in 1..Len(given) : given'[i] = given[i]
  /\ UNCHANGED <<shown, base, server>>

Publish ==
  /\ shown' \in shown..Len(given)
  /\ server' \in [Keys -> Values] /\ IsStateAfter(server', base, given, shown')
  /\ UNCHANGED <<given, base>>

\* A worker that starts takes over what the server has, and may change it
\* before it reports anything.
Takeover ==
  /\ given' = <<>> /\ shown' = 0
  /\ base' \in [Keys -> Values] /\ server' = base'

Next == Report \/ Publish \/ Takeover

Spec == Init /\ [][Next]_vars
=============================================================================
