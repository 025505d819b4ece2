---------------------------- MODULE MCTranscript ----------------------------
(***************************************************************************)
(* Instances of Transcript for TLC.                                        *)
(***************************************************************************)
EXTENDS Transcript

ThreeMessages == 1..3
FourMessages == 1..4
TwoTimers == {"s", "t"}
OneFlusher == {"f"}

\* An attachment before the first turn, a message that is withdrawn.
Recording == [uuids |-> 1..3, notes |-> {1}, partials |-> {3}, timers |-> {"s"}, flushers |-> {}, failures |-> 0]
Reordered == [uuids |-> 1..3, notes |-> {}, partials |-> {2}, timers |-> {"s"}, flushers |-> {}, failures |-> 0]
\* Drains that overlap, flush() and an append that fails.
Writing == [uuids |-> 1..3, notes |-> {}, partials |-> {}, timers |-> {"s", "t"}, flushers |-> {"f"}, failures |-> 1]
\* A removal beside flush().
Removing == [uuids |-> 1..2, notes |-> {}, partials |-> {2}, timers |-> {"s"}, flushers |-> {"f"}, failures |-> 1]

EverySetup == {Recording, Reordered, Writing, Removing}
=============================================================================
