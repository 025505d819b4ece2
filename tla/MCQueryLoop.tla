----------------------------- MODULE MCQueryLoop -----------------------------
(***************************************************************************)
(* Instances of QueryLoop for TLC.                                         *)
(***************************************************************************)
EXTENDS QueryLoop

None == [queries |-> 1, requests |-> 1, texts |-> 0, uses |-> 0, truncations |-> 0,
         blocks |-> 0, stops |-> 0, attachments |-> 0, compactions |-> 0, fallbacks |-> 0,
         aborts |-> 0, capEnabled |-> FALSE]

\* Responses that break off, and the query after them: with text, or interrupted.
Broken == [None EXCEPT !.queries = 2, !.requests = 5, !.texts = 1, !.uses = 2, !.fallbacks = 1]
BrokenUp == [None EXCEPT !.queries = 2, !.requests = 5, !.aborts = 1, !.uses = 2, !.fallbacks = 1]
\* A query that is interrupted, and the next one.
Interrupted == [None EXCEPT !.queries = 2, !.requests = 5, !.texts = 1, !.uses = 2, !.aborts = 1,
                            !.attachments = 1]
\* Responses that are cut off as often as they like.
CutOff == [None EXCEPT !.requests = 20, !.uses = 1, !.truncations = 20, !.blocks = 1, !.capEnabled = TRUE]
\* Conversations that are compacted, hooks that stop the query.
Compacting == [None EXCEPT !.queries = 2, !.requests = 6, !.texts = 1, !.uses = 1, !.compactions = 2,
                           !.stops = 1, !.attachments = 1, !.truncations = 1]

EverySetup == {Broken, BrokenUp, Interrupted, CutOff, Compacting}
=============================================================================
