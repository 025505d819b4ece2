----------------------------- MODULE ToolPairing -----------------------------
(***************************************************************************)
(* What the API is sent for the messages of a conversation: they are       *)
(* merged by normalizeMessagesForAPI() and then repaired by                *)
(* ensureToolResultPairing() (src/src/utils/messages.ts), so that every    *)
(* tool_use is answered by one tool_result of the next message.            *)
(*                                                                         *)
(* A message is one of the user, with tool_results and perhaps other       *)
(* content (text), or one of the assistant, with the id of the response it *)
(* belongs to and its tool_uses.  Those that the program made for an error *)
(* are marked.  A tool_result is that of the call (real) or one that only  *)
(* stands for it.                                                          *)
(***************************************************************************)
EXTENDS Integers, FiniteSets, SequencesExt, Selections

User(results, text) == [role |-> "user", results |-> results, text |-> text]
Assistant(rid, uses, error) ==
  [role |-> "assistant", rid |-> rid, uses |-> uses, error |-> error]
Text == User(<<>>, TRUE)
Result(id, real) == [id |-> id, real |-> real]

IsUser(m) == m.role = "user"
IsAssistant(m) == m.role = "assistant"

Uses(ms) == UNION {ms[i].uses : i \in {j \in DOMAIN ms : IsAssistant(ms[j])}}
ResultsOf(ms) == UNION {Range(ms[i].results) : i \in {j \in DOMAIN ms : IsUser(ms[j])}}

\* isSyntheticApiErrorMessage()
IsApiError(m) == IsAssistant(m) /\ m.error # "none"

\* mergeUserMessages(): the results go first.
MergeUsers(a, b) == User(a.results \o b.results, a.text \/ b.text)

\* The message of the same response that m is merged into: the walk back stops
\* at a message of the user without a result.
SameResponse(out, m) ==
  {i \in DOMAIN out :
     /\ IsAssistant(out[i]) /\ out[i].rid = m.rid
     /\ \A j \in DOMAIN out : j > i => IsAssistant(out[j]) \/ out[j].results # <<>>}

Merged(out, m) ==
  LET n == Len(out) IN
  IF IsUser(m)
  THEN IF n > 0 /\ IsUser(out[n]) THEN [out EXCEPT ![n] = MergeUsers(@, m)] ELSE Append(out, m)
  ELSE IF SameResponse(out, m) = {} THEN Append(out, m)
       ELSE [out EXCEPT ![Max(SameResponse(out, m))].uses = @ \cup m.uses]

\* normalizeMessagesForAPI()
Normalize(ms) ==
  LET upTo[n \in 0..Len(ms)] ==
        IF n = 0 THEN <<>>
        ELSE IF IsApiError(ms[n]) THEN upTo[n - 1] ELSE Merged(upTo[n - 1], ms[n])
  IN upTo[Len(ms)]

----------------------------------------------------------------------------

Placeholders(ids) == SetToSeq({Result(id, FALSE) : id \in ids})

\* Where the first result of each of these calls is.
FirstOf(results, ids) ==
  {k \in DOMAIN results : /\ results[k].id \in ids
                          /\ \A l \in 1..(k - 1) : results[l].id # results[k].id}

Kept(results, ids) ==
  LET at == Selected([k \in DOMAIN results |-> k], FirstOf(results, ids))
  IN [a \in DOMAIN at |-> results[at[a]]]

\* Mutated form: what is orphaned or there twice stays.
AnsweringAll(next, ids) ==
  LET missing == ids \ {r.id : r \in Range(next.results)}
      results == Placeholders(missing) \o next.results
  IN User(results, next.text \/ results = <<>>)

\* The message after an assistant with these tool_uses: what is missing is put
\* in, what is orphaned or there twice is taken out, and it is never empty.
Answering(next, ids) ==
  LET missing == ids \ {r.id : r \in Range(next.results)}
      results == Placeholders(missing) \o Kept(next.results, ids)
  IN User(results, next.text \/ results = <<>>)

\* One turn of the loop: out is the result so far, seen the tool_uses in it,
\* and skip the message that was dealt with along with the one before it.
Paired(ms, acc, i) ==
  LET m == ms[i]
      out == acc.out
      ids == m.uses \ acc.seen
      next == i < Len(ms) /\ IsUser(ms[i + 1])
  IN IF i = acc.skip THEN acc
     ELSE IF IsUser(m)
     THEN IF m.results = <<>> \/ (out # <<>> /\ IsAssistant(Last(out)))
          THEN [acc EXCEPT !.out = Append(out, m)]
          ELSE IF m.text \/ out = <<>> THEN [acc EXCEPT !.out = Append(out, Text)]
          ELSE acc
     ELSE [out |-> Append(out, [m EXCEPT !.uses = ids])
                     \o (IF next THEN <<Answering(ms[i + 1], ids)>>
                         ELSE IF ids # {} THEN <<User(Placeholders(ids), FALSE)>> ELSE <<>>),
           seen |-> acc.seen \cup ids,
           skip |-> IF next THEN i + 1 ELSE acc.skip]

\* ensureToolResultPairing()
Pair(ms) ==
  LET upTo[n \in 0..Len(ms)] ==
        IF n = 0 THEN [out |-> <<>>, seen |-> {}, skip |-> 0] ELSE Paired(ms, upTo[n - 1], n)
  IN upTo[Len(ms)].out

----------------------------------------------------------------------------

\* What the API accepts: no two messages of the user in a row, no tool_use
\* twice, and each answered once, by the next message, which answers no other.
WellFormed(ms) ==
  \A i \in DOMAIN ms :
    LET m == ms[i]
        asked == IF i > 1 /\ IsAssistant(ms[i - 1]) THEN ms[i - 1].uses ELSE {}
    IN IF IsUser(m)
       THEN /\ i = 1 \/ IsAssistant(ms[i - 1])
            /\ {r.id : r \in Range(m.results)} = asked
            /\ \A k, l \in DOMAIN m.results : m.results[k].id = m.results[l].id => k = l
       ELSE /\ asked = {}
            /\ m.uses # {} => i < Len(ms)
            /\ \A j \in DOMAIN ms : j # i /\ IsAssistant(ms[j]) => ms[j].uses \cap m.uses = {}
=============================================================================
