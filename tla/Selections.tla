----------------------------- MODULE Selections -----------------------------
(***************************************************************************)
(* filter() of an array.  Selected(s, S) is SelectSeq(s, LAMBDA x : x \in  *)
(* S), written as a recursive function of the length, which, other than    *)
(* the operator of the standard module, the prover can reason about.       *)
(***************************************************************************)
EXTENDS Integers, Sequences

\* The elements of s that are in S, in their order.
Selected(s, S) ==
  LET upTo[i \in 0..Len(s)] ==
        IF i = 0 THEN <<>>
        ELSE IF s[i] \in S THEN Append(upTo[i - 1], s[i]) ELSE upTo[i - 1]
  IN upTo[Len(s)]

\* The elements of s that are not in S.
Rejected(s, S) == Selected(s, {s[i] : i \in DOMAIN s} \ S)
=============================================================================
