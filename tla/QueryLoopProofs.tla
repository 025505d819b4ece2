--------------------------- MODULE QueryLoopProofs ---------------------------
(***************************************************************************)
(* Proofs about the query loop: the request that the model is sent is      *)
(* accepted by the API, has the real result of each call in it, and is     *)
(* what the caller's copy of the conversation says; and a query that began *)
(* with a conversation that needs no repair sends none that does.  The     *)
(* lemmas about normalizeMessagesForAPI() and ensureToolResultPairing()    *)
(* say what one message more changes of the calls, the results and what is *)
(* told of them.  The inductive invariant, QueryInv, says of both copies   *)
(* of the conversation that they are Sound: each call in one message, each *)
(* real result told, the ids to come unused.  While a response is under    *)
(* way it adds how the copies differ: by the messages and the results of   *)
(* that response (Underway, Agrees), by nothing else that has its id       *)
(* (Own), and not at all once the response is withdrawn (LeftSame).        *)
(***************************************************************************)
EXTENDS QueryLoop, SelectionProofs, FiniteSetTheorems, TLAPS

Results == [id : Nat, real : BOOLEAN]
CallSets == {ids \in SUBSET Nat : IsFiniteSet(ids)}
Users == [role : {"user"}, results : Seq(Results), text : BOOLEAN]
\* What the program makes for an error has no calls.
Assistants ==
  {m \in [role : {"assistant"}, rid : Int, uses : CallSets,
          error : {"none", "max_output_tokens", "api_error"}] :
     m.error # "none" => m.uses = {}}
Messages == Users \cup Assistants

-----------------------------------------------------------------------------
(* Sequences and messages                                                    *)

\* The length, the domain and the elements of a sequence.
LEMMA InSequence ==
  ASSUME NEW T, NEW s \in Seq(T)
  PROVE  Len(s) \in Nat /\ DOMAIN s = 1..Len(s) /\ \A i \in 1..Len(s) : s[i] \in T
  OBVIOUS

\* One element at the end of a sequence; the elements before it stay.
LEMMA Appended ==
  ASSUME NEW T, NEW s \in Seq(T), NEW x \in T
  PROVE  /\ Append(s, x) \in Seq(T) /\ Len(Append(s, x)) = Len(s) + 1 /\ Append(s, x) # <<>>
         /\ \A i \in 1..Len(s) : Append(s, x)[i] = s[i]
         /\ Append(s, x)[Len(s) + 1] = x
         /\ \A i \in 1..(Len(s) + 1) : i \in 1..Len(s) \/ i = Len(s) + 1
  OBVIOUS

\* The elements of two sequences put together, and where they are.
LEMMA Joined ==
  ASSUME NEW T, NEW s \in Seq(T), NEW t \in Seq(T)
  PROVE  /\ s \o t \in Seq(T) /\ Len(s \o t) = Len(s) + Len(t)
         /\ \A i \in 1..Len(s) : (s \o t)[i] = s[i]
         /\ \A i \in 1..Len(t) : (s \o t)[Len(s) + i] = t[i]
         /\ \A i \in 1..(Len(s) + Len(t)) : i \in 1..Len(s) \/ i - Len(s) \in 1..Len(t)
  OBVIOUS

\* The first elements of a sequence.
LEMMA Cut ==
  ASSUME NEW T, NEW s \in Seq(T), NEW n \in 0..Len(s)
  PROVE  /\ SubSeq(s, 1, n) \in Seq(T) /\ Len(SubSeq(s, 1, n)) = n
         /\ \A i \in 1..n : SubSeq(s, 1, n)[i] = s[i]
  OBVIOUS

\* Only the empty sequence has length 0.
LEMMA Nothing ==
  ASSUME NEW T, NEW s \in Seq(T)
  PROVE  s = <<>> <=> Len(s) = 0
  OBVIOUS

\* Sequences of one length with the same elements are equal.
LEMMA Alike ==
  ASSUME NEW T, NEW s \in Seq(T), NEW t \in Seq(T), Len(s) = Len(t), \A i \in 1..Len(s) : s[i] = t[i]
  PROVE  s = t
  OBVIOUS

\* A set as a sequence: each element once.
LEMMA SetInOrder ==
  ASSUME NEW S, IsFiniteSet(S), NEW s, s = SetToSeq(S)
  PROVE  /\ s \in Seq(S) /\ \A k, l \in 1..Len(s) : s[k] = s[l] => k = l
         /\ \A x \in S : \E k \in 1..Len(s) : s[k] = x
         /\ Len(s) = Cardinality(S)
<1>1. Cardinality(S) \in Nat /\ ExistsBijection(1..Cardinality(S), S)
  BY FS_CardinalityType
<1> DEFINE n == Cardinality(S)
<1>2. PICK f : f \in Bijection(1..n, S)
  BY <1>1 DEF ExistsBijection
<1>3. f \in [1..n -> S] /\ IsInjective(f)
  BY <1>2 DEF Bijection, Injection
<1>4. s \in [1..n -> S] /\ IsInjective(s)
  BY <1>3 DEF SetToSeq
<1>5. Range(s) = S
  <2> DEFINE R == Range(s)
  <2>1. R \in SUBSET S
    BY <1>4 DEF Range
  <2>2. s \in Bijection(1..n, R)
    BY <1>4 DEF Bijection, Injection, Surjection, Range
  <2>3. Cardinality(R) = n
    BY <1>1, <2>2, FS_CountingElements DEF ExistsBijection
  <2> QED BY <2>1, <2>3, FS_Subset
<1>6. n \in Nat
  BY <1>1
<1> HIDE DEF n
<1>7. Len(s) = n /\ s \in Seq(S) /\ DOMAIN s = 1..n
  BY <1>4, <1>6
<1>8. \A k, l \in 1..n : s[k] = s[l] => k = l
  BY <1>4, <1>7 DEF IsInjective
<1>9. \A x \in S : \E k \in 1..n : s[k] = x
  BY <1>5, <1>7 DEF Range
<1> QED BY <1>7, <1>8, <1>9 DEF n

\* A message is of the user or of the assistant, never both, and is made of its fields.
LEMMA MessageIs ==
  ASSUME NEW m \in Messages
  PROVE  /\ IsUser(m) <=> m \in Users
         /\ IsAssistant(m) <=> m \in Assistants
         /\ IsUser(m) <=> ~IsAssistant(m)
         /\ IsUser(m) => m.results \in Seq(Results) /\ m.text \in BOOLEAN /\ m = User(m.results, m.text)
         /\ IsAssistant(m) => /\ m.uses \in CallSets /\ m.uses \subseteq Nat
                              /\ IsFiniteSet(m.uses) /\ m.rid \in Int
                              /\ m.error \in {"none", "max_output_tokens", "api_error"}
                              /\ m.error # "none" => m.uses = {}
                              /\ m = Assistant(m.rid, m.uses, m.error)
BY DEF Messages, Users, Assistants, IsUser, IsAssistant, User, Assistant, CallSets

\* What User() makes is a message of the user.
LEMMA UserIs ==
  ASSUME NEW rs \in Seq(Results), NEW x \in BOOLEAN
  PROVE  /\ User(rs, x) \in Messages /\ User(rs, x) \in Users /\ User(rs, x).results = rs
         /\ User(rs, x).text = x
         /\ IsUser(User(rs, x)) /\ ~IsAssistant(User(rs, x)) /\ ~IsApiError(User(rs, x))
BY DEF Messages, Users, IsUser, IsAssistant, User, IsApiError

\* What Assistant() makes is one of the assistant.
LEMMA AssistantIs ==
  ASSUME NEW rid \in Int, NEW ids \in CallSets, NEW error \in {"none", "max_output_tokens", "api_error"},
         error # "none" => ids = {}
  PROVE  LET m == Assistant(rid, ids, error) IN
         /\ m \in Messages /\ m \in Assistants /\ m.rid = rid /\ m.uses = ids /\ m.error = error
         /\ IsAssistant(m) /\ ~IsUser(m) /\ (IsApiError(m) <=> error # "none")
BY DEF Messages, Assistants, IsUser, IsAssistant, Assistant, IsApiError

\* Messages of the user are messages.
LEMMA UsersSaid ==
  ASSUME NEW t \in Seq(Users)
  PROVE  t \in Seq(Messages)
<1>1. DOMAIN t = 1..Len(t) /\ \A i \in 1..Len(t) : t[i] \in Users
  BY InSequence
<1>2. \A i \in 1..Len(t) : t[i] \in Messages
  BY <1>1 DEF Messages
<1> QED BY <1>1, <1>2

\* Messages of the assistant are messages.
LEMMA AssistantsSaid ==
  ASSUME NEW a \in Seq(Assistants)
  PROVE  a \in Seq(Messages)
<1>1. DOMAIN a = 1..Len(a) /\ \A i \in 1..Len(a) : a[i] \in Assistants
  BY InSequence
<1>2. \A i \in 1..Len(a) : a[i] \in Messages
  BY <1>1 DEF Messages
<1> QED BY <1>1, <1>2

-----------------------------------------------------------------------------
(* The calls and the results of messages                                     *)

\* The calls of a conversation are those of its assistant messages.
LEMMA UseOf ==
  ASSUME NEW ms \in Seq(Messages), NEW u
  PROVE  u \in Uses(ms) <=> \E i \in 1..Len(ms) : IsAssistant(ms[i]) /\ u \in ms[i].uses
<1>1. DOMAIN ms = 1..Len(ms)
  BY InSequence
<1> QED BY <1>1 DEF Uses

\* Its results are those of its user messages.
LEMMA ResultOf ==
  ASSUME NEW ms \in Seq(Messages), NEW r
  PROVE  r \in ResultsOf(ms) <=>
           \E i \in 1..Len(ms) : IsUser(ms[i]) /\ \E k \in 1..Len(ms[i].results) : ms[i].results[k] = r
<1>1. DOMAIN ms = 1..Len(ms) /\ \A i \in 1..Len(ms) : ms[i] \in Messages
  BY InSequence
<1>2. \A i \in 1..Len(ms) : IsUser(ms[i]) => DOMAIN ms[i].results = 1..Len(ms[i].results)
  <2> SUFFICES ASSUME NEW i \in 1..Len(ms), IsUser(ms[i]) PROVE DOMAIN ms[i].results = 1..Len(ms[i].results)
    OBVIOUS
  <2>1. ms[i].results \in Seq(Results)
    BY <1>1, MessageIs
  <2> QED BY <2>1, InSequence
<1>3. r \in ResultsOf(ms) <=> \E i \in 1..Len(ms) : IsUser(ms[i]) /\ r \in Range(ms[i].results)
  BY <1>1 DEF ResultsOf
<1> QED BY <1>2, <1>3 DEF Range

\* What the messages of a conversation are in both.
LEMMA CallsTyped ==
  ASSUME NEW ms \in Seq(Messages)
  PROVE  Uses(ms) \subseteq Nat /\ ResultsOf(ms) \subseteq Results
<1>1. ASSUME NEW u \in Uses(ms) PROVE u \in Nat
  <2>1. PICK i \in 1..Len(ms) : IsAssistant(ms[i]) /\ u \in ms[i].uses
    BY UseOf
  <2> QED BY <2>1, InSequence, MessageIs
<1>2. ASSUME NEW r \in ResultsOf(ms) PROVE r \in Results
  <2>1. PICK i \in 1..Len(ms) : IsUser(ms[i]) /\ \E k \in 1..Len(ms[i].results) : ms[i].results[k] = r
    BY ResultOf
  <2>2. ms[i].results \in Seq(Results)
    BY <2>1, InSequence, MessageIs
  <2> QED BY <2>1, <2>2, InSequence
<1> QED BY <1>1, <1>2

\* A message at the end.
LEMMA CallsAppended ==
  ASSUME NEW ms \in Seq(Messages), NEW m \in Messages
  PROVE  /\ Uses(Append(ms, m)) = Uses(ms) \cup (IF IsAssistant(m) THEN m.uses ELSE {})
         /\ ResultsOf(Append(ms, m)) =
              ResultsOf(ms) \cup (IF IsUser(m) THEN {m.results[k] : k \in 1..Len(m.results)} ELSE {})
<1> DEFINE q == Append(ms, m)
<1>1. /\ q \in Seq(Messages) /\ Len(q) = Len(ms) + 1 /\ \A i \in 1..Len(ms) : q[i] = ms[i]
      /\ q[Len(ms) + 1] = m /\ Len(ms) \in Nat
      /\ \A i \in 1..(Len(ms) + 1) : i \in 1..Len(ms) \/ i = Len(ms) + 1
  BY Appended, InSequence
<1> HIDE DEF q
<1> DEFINE n == Len(ms)
<1>2. n \in Nat /\ n + 1 \in 1..(n + 1) /\ \A i \in 1..n : i \in 1..(n + 1)
  BY <1>1
<1>3. \A u : u \in Uses(q) <=> u \in Uses(ms) \/ (IsAssistant(m) /\ u \in m.uses)
  <2> SUFFICES ASSUME NEW u PROVE u \in Uses(q) <=> u \in Uses(ms) \/ (IsAssistant(m) /\ u \in m.uses)
    OBVIOUS
  <2>1. u \in Uses(q) <=> \E i \in 1..(n + 1) : IsAssistant(q[i]) /\ u \in q[i].uses
    BY <1>1, UseOf
  <2>2. u \in Uses(ms) <=> \E i \in 1..n : IsAssistant(ms[i]) /\ u \in ms[i].uses
    BY UseOf
  <2> QED BY <1>1, <1>2, <2>1, <2>2
<1>4. \A r : r \in ResultsOf(q) <=>
               r \in ResultsOf(ms) \/ (IsUser(m) /\ \E k \in 1..Len(m.results) : m.results[k] = r)
  <2> SUFFICES ASSUME NEW r
               PROVE  r \in ResultsOf(q) <=>
                        r \in ResultsOf(ms) \/ (IsUser(m) /\ \E k \in 1..Len(m.results) : m.results[k] = r)
    OBVIOUS
  <2> DEFINE Has(x) == IsUser(x) /\ \E k \in 1..Len(x.results) : x.results[k] = r
  <2>1. r \in ResultsOf(q) <=> \E i \in 1..(n + 1) : Has(q[i])
    BY <1>1, ResultOf
  <2>2. r \in ResultsOf(ms) <=> \E i \in 1..n : Has(ms[i])
    BY ResultOf
  <2> HIDE DEF Has
  <2>3. r \in ResultsOf(q) <=> r \in ResultsOf(ms) \/ Has(m)
    BY <1>1, <1>2, <2>1, <2>2
  <2> QED BY <2>3 DEF Has
<1> QED BY <1>3, <1>4 DEF q

-----------------------------------------------------------------------------
(* One message more of what the API is sent                                  *)

\* A normalized conversation: no errors, and no two messages of the user in a row.
Normal(nm) ==
  /\ nm \in Seq(Messages)
  /\ \A i \in 1..Len(nm) : ~IsApiError(nm[i])
  /\ \A i \in 1..(Len(nm) - 1) : IsAssistant(nm[i]) \/ IsAssistant(nm[i + 1])

\* p is s but for the message at k, which is x.
Changed(p, s, k, x) ==
  /\ p \in Seq(Messages) /\ Len(p) = Len(s) /\ k \in 1..Len(s) /\ x \in Messages
  /\ p[k] = x /\ \A i \in 1..Len(s) : i # k => p[i] = s[i]

\* EXCEPT changes one message.
LEMMA ChangeIs ==
  ASSUME NEW s \in Seq(Messages), NEW k \in 1..Len(s), NEW x \in Messages
  PROVE  Changed([s EXCEPT ![k] = x], s, k, x)
<1>1. [s EXCEPT ![k] = x] \in Seq(Messages) /\ Len([s EXCEPT ![k] = x]) = Len(s)
  OBVIOUS
<1> QED BY <1>1 DEF Changed

\* A message of the user goes to the end, or into the one that is there.
LEMMA MergedUser ==
  ASSUME NEW out \in Seq(Messages), NEW m \in Users
  PROVE  \/ /\ Merged(out, m) = Append(out, m)
            /\ Len(out) = 0 \/ IsAssistant(out[Len(out)])
         \/ /\ Len(out) > 0 /\ IsUser(out[Len(out)])
            /\ Changed(Merged(out, m), out, Len(out), MergeUsers(out[Len(out)], m))
            /\ MergeUsers(out[Len(out)], m) \in Users
            /\ MergeUsers(out[Len(out)], m).results = out[Len(out)].results \o m.results
<1>1. m \in Messages /\ IsUser(m) /\ m.results \in Seq(Results) /\ m.text \in BOOLEAN
  <2>1. m \in Messages
    BY DEF Messages
  <2> QED BY <2>1, MessageIs
<1>2. Len(out) \in Nat
  OBVIOUS
<1>3. CASE Len(out) > 0 /\ IsUser(out[Len(out)])
  <2> DEFINE n == Len(out)
             a == out[n]
             x == MergeUsers(a, m)
  <2>1. n \in 1..Len(out) /\ a \in Messages
    BY <1>2, <1>3, InSequence
  <2>2. a.results \in Seq(Results) /\ a.text \in BOOLEAN
    BY <1>3, <2>1, MessageIs
  <2>3. a.results \o m.results \in Seq(Results) /\ (a.text \/ m.text) \in BOOLEAN
    BY <1>1, <2>2, Joined
  <2>4. x \in Messages /\ x \in Users /\ x.results = a.results \o m.results
    BY <2>3, UserIs DEF MergeUsers
  <2>5. Merged(out, m) = [out EXCEPT ![n] = x]
    BY <1>1, <1>3 DEF Merged
  <2>6. Changed(Merged(out, m), out, n, x)
    BY <2>1, <2>4, <2>5, ChangeIs
  <2> QED BY <1>3, <2>4, <2>6
<1>4. CASE ~(Len(out) > 0 /\ IsUser(out[Len(out)]))
  <2>1. Merged(out, m) = Append(out, m)
    BY <1>1, <1>4 DEF Merged
  <2>2. CASE Len(out) = 0
    BY <2>1, <2>2
  <2>3. CASE Len(out) # 0
    <3>1. Len(out) \in 1..Len(out) /\ Len(out) > 0
      BY <1>2, <2>3
    <3>2. IsAssistant(out[Len(out)])
      BY <1>4, <3>1, InSequence, MessageIs
    <3> QED BY <2>1, <3>2
  <2> QED BY <2>2, <2>3
<1> QED BY <1>3, <1>4

\* Max() of a set of numbers up to n that is not empty.
LEMMA Greatest ==
  ASSUME NEW n \in Nat, NEW S \in SUBSET (1..n), S # {}
  PROVE  Max(S) \in S /\ \A y \in S : Max(S) >= y
<1> DEFINE W == {n - x : x \in S}
<1>1. W \in SUBSET Nat /\ W # {}
  <2>1. ASSUME NEW x \in S PROVE n - x \in Nat
    <3>1. x \in 1..n
      OBVIOUS
    <3> QED BY <3>1
  <2> QED BY <2>1
<1>2. \A y \in S : n - y \in W
  OBVIOUS
<1>3. \A w \in W : \E x \in S : w = n - x
  OBVIOUS
<1> HIDE DEF W
<1>4. PICK w \in W : \A y \in W : w <= y
  BY <1>1, Least
<1>5. PICK x \in S : w = n - x
  BY <1>3
<1>6. ASSUME NEW y \in S PROVE x >= y
  <2>1. w <= n - y
    BY <1>2, <1>4
  <2> QED BY <1>5, <2>1
<1> QED BY <1>6 DEF Max

\* A record is made of its fields.
LEMMA RecordIs ==
  ASSUME NEW A, NEW B, NEW C, NEW D, NEW a \in [role : {A}, rid : {B}, uses : {C}, error : {D}]
  PROVE  a = [role |-> A, rid |-> B, uses |-> C, error |-> D]
OBVIOUS

\* Adding calls to a message changes that message, to the one with all the calls.
LEMMA MoreUses ==
  ASSUME NEW out \in Seq(Messages), NEW k \in 1..Len(out), NEW rid, NEW more,
         out[k] = Assistant(rid, out[k].uses, "none"),
         NEW x \in Messages, x = Assistant(rid, out[k].uses \cup more, "none"),
         NEW p, p = [out EXCEPT ![k].uses = @ \cup more]
  PROVE  Changed(p, out, k, x)
<1> DEFINE ids == out[k].uses
<1>1. out[k] = [role |-> "assistant", rid |-> rid, uses |-> ids, error |-> "none"]
  BY DEF Assistant
<1> HIDE DEF ids
<1>2. p[k] \in [role : {"assistant"}, rid : {rid}, uses : {ids \cup more}, error : {"none"}]
  BY <1>1
<1>3. p[k] = [role |-> "assistant", rid |-> rid, uses |-> ids \cup more, error |-> "none"]
  BY <1>2, RecordIs
<1>4. p[k] = x
  BY <1>3 DEF Assistant, ids
<1>5. \A i \in 1..Len(out) : i # k => p[i] = out[i]
  OBVIOUS
<1>6. p \in [1..Len(out) -> {p[i] : i \in 1..Len(out)}]
  OBVIOUS
<1>7. \A i \in 1..Len(out) : p[i] \in Messages
  BY <1>4, <1>5, InSequence
<1>8. p \in Seq(Messages) /\ Len(p) = Len(out)
  <2>1. p \in [1..Len(out) -> Messages] /\ Len(out) \in Nat
    BY <1>6, <1>7, InSequence
  <2> QED BY <2>1
<1> QED BY <1>4, <1>5, <1>8 DEF Changed

\* A message of the assistant goes to the end, or into one of its response.
LEMMA MergedAssistant ==
  ASSUME NEW out \in Seq(Messages), \A i \in 1..Len(out) : ~IsApiError(out[i]),
         NEW m \in Assistants, ~IsApiError(m)
  PROVE  \/ Merged(out, m) = Append(out, m) /\ SameResponse(out, m) = {}
         \/ \E k \in SameResponse(out, m) :
              /\ k \in 1..Len(out) /\ \A j \in SameResponse(out, m) : j <= k
              /\ IsAssistant(out[k]) /\ out[k].rid = m.rid
              /\ Changed(Merged(out, m), out, k, Assistant(m.rid, out[k].uses \cup m.uses, "none"))
              /\ Assistant(m.rid, out[k].uses \cup m.uses, "none") \in Assistants
<1>1. m \in Messages /\ IsAssistant(m) /\ ~IsUser(m)
  <2>1. m \in Messages
    BY DEF Messages
  <2> QED BY <2>1, MessageIs
<1>2. Len(out) \in Nat /\ DOMAIN out = 1..Len(out)
  BY InSequence
<1>3. CASE SameResponse(out, m) = {}
  BY <1>1, <1>3 DEF Merged
<1>4. CASE SameResponse(out, m) # {}
  <2> DEFINE S == SameResponse(out, m)
             k == Max(S)
             a == out[k]
             x == Assistant(m.rid, a.uses \cup m.uses, "none")
  <2>1. S \in SUBSET (1..Len(out))
    BY <1>2 DEF SameResponse
  <2>2. k \in S /\ \A y \in S : k >= y
    BY <1>2, <1>4, <2>1, Greatest
  <2>3. /\ k \in 1..Len(out) /\ \A j \in S : j <= k
        /\ IsAssistant(a) /\ a.rid = m.rid
    BY <2>1, <2>2 DEF SameResponse
  <2>4. a \in Messages /\ ~IsApiError(a)
    BY <2>3, InSequence
  <2>5. a = Assistant(m.rid, a.uses, "none") /\ a.uses \in CallSets /\ m.uses \in CallSets /\ m.rid \in Int
    BY <1>1, <2>3, <2>4, MessageIs DEF IsApiError
  <2>6. a.uses \cup m.uses \in CallSets
    BY <2>5, FS_Union DEF CallSets
  <2>7. x \in Messages /\ x \in Assistants
    BY <2>5, <2>6, AssistantIs
  <2>8. Merged(out, m) = [out EXCEPT ![k].uses = @ \cup m.uses]
    BY <1>1, <1>4 DEF Merged
  <2>11. Changed(Merged(out, m), out, k, x)
    BY <2>3, <2>5, <2>7, <2>8, MoreUses
  <2> HIDE DEF k, S, x
  <2>12. /\ k \in SameResponse(out, m) /\ k \in 1..Len(out) /\ \A j \in SameResponse(out, m) : j <= k
         /\ IsAssistant(out[k]) /\ out[k].rid = m.rid
         /\ Changed(Merged(out, m), out, k, x) /\ x \in Assistants
    BY <2>2, <2>3, <2>7, <2>11 DEF S
  <2>13. x = Assistant(m.rid, out[k].uses \cup m.uses, "none")
    BY DEF x
  <2> QED BY <2>12, <2>13
<1> QED BY <1>3, <1>4

Gives(m) == IF IsUser(m) THEN {m.results[k] : k \in 1..Len(m.results)} ELSE {}
Asks(m) == IF IsAssistant(m) THEN m.uses ELSE {}

\* Both, as unions over all messages.
LEMMA CallsOf ==
  ASSUME NEW ms \in Seq(Messages)
  PROVE  /\ \A u : u \in Uses(ms) <=> \E i \in 1..Len(ms) : u \in Asks(ms[i])
         /\ \A r : r \in ResultsOf(ms) <=> \E i \in 1..Len(ms) : r \in Gives(ms[i])
BY UseOf, ResultOf DEF Asks, Gives

\* One message more adds its own calls and results.
LEMMA CallsMore ==
  ASSUME NEW ms \in Seq(Messages), NEW m \in Messages
  PROVE  /\ Uses(Append(ms, m)) = Uses(ms) \cup Asks(m)
         /\ ResultsOf(Append(ms, m)) = ResultsOf(ms) \cup Gives(m)
BY CallsAppended DEF Asks, Gives

\* One message of a conversation has more results or more calls.
LEMMA CallsChanged ==
  ASSUME NEW s \in Seq(Messages), NEW k, NEW x, NEW p, Changed(p, s, k, x), NEW us, NEW rs,
         Asks(x) = Asks(s[k]) \cup us, Gives(x) = Gives(s[k]) \cup rs
  PROVE  Uses(p) = Uses(s) \cup us /\ ResultsOf(p) = ResultsOf(s) \cup rs
<1>1. /\ p \in Seq(Messages) /\ Len(p) = Len(s) /\ k \in 1..Len(s)
      /\ p[k] = x /\ \A i \in 1..Len(s) : i # k => p[i] = s[i]
  BY DEF Changed
<1>2. \A u : u \in Uses(p) <=> u \in Uses(s) \/ u \in us
  <2>1. \A u : u \in Uses(p) <=> \E i \in 1..Len(s) : u \in Asks(p[i])
    BY <1>1, CallsOf
  <2>2. \A u : u \in Uses(s) <=> \E i \in 1..Len(s) : u \in Asks(s[i])
    BY CallsOf
  <2>3. \A i \in 1..Len(s) : Asks(p[i]) = IF i = k THEN Asks(s[i]) \cup us ELSE Asks(s[i])
    BY <1>1
  <2> QED BY <1>1, <2>1, <2>2, <2>3
<1>3. \A r : r \in ResultsOf(p) <=> r \in ResultsOf(s) \/ r \in rs
  <2>1. \A r : r \in ResultsOf(p) <=> \E i \in 1..Len(s) : r \in Gives(p[i])
    BY <1>1, CallsOf
  <2>2. \A r : r \in ResultsOf(s) <=> \E i \in 1..Len(s) : r \in Gives(s[i])
    BY CallsOf
  <2>3. \A i \in 1..Len(s) : Gives(p[i]) = IF i = k THEN Gives(s[i]) \cup rs ELSE Gives(s[i])
    BY <1>1
  <2> QED BY <1>1, <2>1, <2>2, <2>3
<1> QED BY <1>2, <1>3

\* Two user messages in one have the results of both.
LEMMA GivesJoined ==
  ASSUME NEW a \in Users, NEW b \in Users, NEW x \in Users, x.results = a.results \o b.results
  PROVE  Gives(x) = Gives(a) \cup Gives(b) /\ Asks(x) = Asks(a) /\ Asks(a) = {} /\ Asks(b) = {}
<1>1. /\ IsUser(a) /\ IsUser(b) /\ IsUser(x) /\ ~IsAssistant(a) /\ ~IsAssistant(b) /\ ~IsAssistant(x)
      /\ a.results \in Seq(Results) /\ b.results \in Seq(Results)
  BY MessageIs DEF Messages
<1> DEFINE s == a.results
           t == b.results
           w == x.results
<1>2. /\ Len(w) = Len(s) + Len(t) /\ Len(s) \in Nat /\ Len(t) \in Nat
      /\ \A i \in 1..Len(s) : w[i] = s[i]
      /\ \A i \in 1..Len(t) : w[Len(s) + i] = t[i]
      /\ \A i \in 1..(Len(s) + Len(t)) : i \in 1..Len(s) \/ i - Len(s) \in 1..Len(t)
  <2>1. s \in Seq(Results) /\ t \in Seq(Results) /\ w = s \o t
    BY <1>1
  <2> HIDE DEF s, t, w
  <2> QED BY <2>1, Joined, InSequence
<1> HIDE DEF s, t, w
<1> DEFINE p == Len(s)
           q == Len(t)
<1>3. {w[i] : i \in 1..(p + q)} = {s[i] : i \in 1..p} \cup {t[i] : i \in 1..q}
  <2>1. \A i \in 1..(p + q) : w[i] \in {s[j] : j \in 1..p} \cup {t[j] : j \in 1..q}
    <3> SUFFICES ASSUME NEW i \in 1..(p + q) PROVE w[i] \in {s[j] : j \in 1..p} \cup {t[j] : j \in 1..q}
      OBVIOUS
    <3>1. CASE i \in 1..p
      BY <1>2, <3>1
    <3>2. CASE i - p \in 1..q
      <4>1. w[p + (i - p)] = t[i - p]
        BY <1>2, <3>2
      <4>2. p + (i - p) = i
        BY <1>2
      <4> QED BY <3>2, <4>1, <4>2
    <3> QED BY <1>2, <3>1, <3>2
  <2>2. \A i \in 1..p : s[i] \in {w[j] : j \in 1..(p + q)}
    <3>1. \A i \in 1..p : i \in 1..(p + q)
      BY <1>2
    <3> QED BY <1>2, <3>1
  <2>3. \A i \in 1..q : t[i] \in {w[j] : j \in 1..(p + q)}
    <3>1. \A i \in 1..q : p + i \in 1..(p + q)
      BY <1>2
    <3> QED BY <1>2, <3>1
  <2> QED BY <2>1, <2>2, <2>3
<1>4. Gives(x) = {w[i] : i \in 1..(p + q)}
  BY <1>1, <1>2 DEF Gives, w
<1>5. Gives(a) = {s[i] : i \in 1..p} /\ Gives(b) = {t[i] : i \in 1..q}
  BY <1>1 DEF Gives, s, t
<1> QED BY <1>1, <1>3, <1>4, <1>5 DEF Asks

\* A change of a message to one of the same role leaves a conversation normal.
LEMMA NormalChanged ==
  ASSUME NEW s, Normal(s), NEW k, NEW x, NEW p, Changed(p, s, k, x), ~IsApiError(x),
         IsAssistant(x) <=> IsAssistant(s[k])
  PROVE  Normal(p)
<1>1. /\ p \in Seq(Messages) /\ Len(p) = Len(s) /\ k \in 1..Len(s)
      /\ p[k] = x /\ \A i \in 1..Len(s) : i # k => p[i] = s[i]
  BY DEF Changed
<1>2. \A i \in 1..Len(s) : (IsAssistant(p[i]) <=> IsAssistant(s[i])) /\ ~IsApiError(p[i])
  BY <1>1 DEF Normal
<1>3. \A i \in 1..(Len(s) - 1) : i \in 1..Len(s) /\ i + 1 \in 1..Len(s)
  BY InSequence DEF Normal
<1> QED BY <1>1, <1>2, <1>3 DEF Normal

\* So does a message at the end that is not the second of the user in a row.
LEMMA NormalAppended ==
  ASSUME NEW s, Normal(s), NEW m \in Messages, ~IsApiError(m),
         Len(s) = 0 \/ IsAssistant(s[Len(s)]) \/ IsAssistant(m)
  PROVE  Normal(Append(s, m))
<1> DEFINE q == Append(s, m)
<1>1. /\ q \in Seq(Messages) /\ Len(q) = Len(s) + 1 /\ \A i \in 1..Len(s) : q[i] = s[i]
      /\ q[Len(s) + 1] = m /\ Len(s) \in Nat
      /\ \A i \in 1..(Len(s) + 1) : i \in 1..Len(s) \/ i = Len(s) + 1
  BY Appended, InSequence DEF Normal
<1> HIDE DEF q
<1>2. \A i \in 1..Len(q) : ~IsApiError(q[i])
  BY <1>1 DEF Normal
<1>3. ASSUME NEW i \in 1..(Len(q) - 1) PROVE IsAssistant(q[i]) \/ IsAssistant(q[i + 1])
  <2>1. i \in 1..Len(s)
    BY <1>1
  <2>2. CASE i = Len(s)
    BY <1>1, <2>1, <2>2
  <2>3. CASE i # Len(s)
    <3>1. i \in 1..(Len(s) - 1) /\ i + 1 \in 1..Len(s)
      BY <1>1, <2>1, <2>3
    <3>2. IsAssistant(s[i]) \/ IsAssistant(s[i + 1])
      BY <3>1 DEF Normal
    <3> QED BY <1>1, <2>1, <3>1, <3>2
  <2> QED BY <2>2, <2>3
<1>4. Normal(q)
  BY <1>1, <1>2, <1>3 DEF Normal
<1> QED BY <1>4 DEF q

\* mergeUserMessages() and the merge of a response keep it normal, and lose no call or result.
LEMMA NormalMerged ==
  ASSUME NEW out, Normal(out), NEW m \in Messages, ~IsApiError(m)
  PROVE  /\ Normal(Merged(out, m))
         /\ Uses(Merged(out, m)) = Uses(out) \cup Asks(m)
         /\ ResultsOf(Merged(out, m)) = ResultsOf(out) \cup Gives(m)
<1>0. out \in Seq(Messages) /\ \A i \in 1..Len(out) : ~IsApiError(out[i])
  BY DEF Normal
<1> DEFINE p == Merged(out, m)
<1>1. ASSUME p = Append(out, m), Len(out) = 0 \/ IsAssistant(out[Len(out)]) \/ IsAssistant(m)
      PROVE  Normal(p) /\ Uses(p) = Uses(out) \cup Asks(m) /\ ResultsOf(p) = ResultsOf(out) \cup Gives(m)
  <2>1. Normal(Append(out, m))
    BY <1>1, NormalAppended
  <2>2. Uses(Append(out, m)) = Uses(out) \cup Asks(m)
        /\ ResultsOf(Append(out, m)) = ResultsOf(out) \cup Gives(m)
    BY <1>0, CallsAppended DEF Asks, Gives
  <2> QED BY <1>1, <2>1, <2>2
<1>2. CASE IsUser(m)
  <2>1. m \in Users /\ ~IsAssistant(m)
    BY <1>2, MessageIs
  <2>2. CASE p = Append(out, m) /\ (Len(out) = 0 \/ IsAssistant(out[Len(out)]))
    BY <1>1, <2>2
  <2>3. CASE /\ Len(out) > 0 /\ IsUser(out[Len(out)])
             /\ Changed(p, out, Len(out), MergeUsers(out[Len(out)], m))
             /\ MergeUsers(out[Len(out)], m) \in Users
             /\ MergeUsers(out[Len(out)], m).results = out[Len(out)].results \o m.results
    <3> DEFINE a == out[Len(out)]
               x == MergeUsers(a, m)
    <3>1. a \in Users /\ Len(out) \in 1..Len(out)
      <4>1. Len(out) \in 1..Len(out)
        BY <1>0, <2>3, InSequence
      <4> QED BY <1>0, <2>3, <4>1, InSequence, MessageIs
    <3>2. x \in Users /\ x.results = a.results \o m.results /\ Changed(p, out, Len(out), x)
      BY <2>3
    <3>3. Asks(x) = Asks(a) \cup Asks(m) /\ Gives(x) = Gives(a) \cup Gives(m)
      BY <2>1, <3>1, <3>2, GivesJoined
    <3>4. ~IsApiError(x) /\ (IsAssistant(x) <=> IsAssistant(a))
      BY <3>1, <3>2, MessageIs DEF Messages, IsApiError
    <3> HIDE DEF x, p
    <3>5. Normal(p)
      BY <3>2, <3>4, NormalChanged
    <3>6. Uses(p) = Uses(out) \cup Asks(m) /\ ResultsOf(p) = ResultsOf(out) \cup Gives(m)
      BY <1>0, <3>2, <3>3, CallsChanged
    <3> QED BY <3>5, <3>6 DEF p
  <2> QED BY <1>0, <2>1, <2>2, <2>3, MergedUser
<1>3. CASE IsAssistant(m)
  <2>1. m \in Assistants /\ ~IsUser(m)
    BY <1>3, MessageIs
  <2>2. CASE p = Append(out, m)
    BY <1>1, <1>3, <2>2
  <2>3. ASSUME NEW k \in 1..Len(out), IsAssistant(out[k]), NEW x \in Assistants,
               x = Assistant(m.rid, out[k].uses \cup m.uses, "none"), Changed(p, out, k, x)
        PROVE  Normal(p) /\ Uses(p) = Uses(out) \cup Asks(m) /\ ResultsOf(p) = ResultsOf(out) \cup Gives(m)
    <3>1. x.uses = out[k].uses \cup m.uses /\ x.error = "none" /\ IsAssistant(x) /\ ~IsUser(x)
          /\ ~IsUser(out[k])
      <4>1. ~IsUser(out[k])
        BY <1>0, <2>3, InSequence, MessageIs
      <4> QED BY <2>3, <4>1 DEF Assistant, IsAssistant, IsUser
    <3>2. Asks(x) = Asks(out[k]) \cup Asks(m) /\ Gives(x) = Gives(out[k]) \cup Gives(m)
      BY <1>3, <2>1, <2>3, <3>1 DEF Asks, Gives
    <3>3. ~IsApiError(x) /\ (IsAssistant(x) <=> IsAssistant(out[k]))
      BY <2>3, <3>1 DEF IsApiError
    <3> HIDE DEF p
    <3>4. Normal(p)
      BY <2>3, <3>3, NormalChanged
    <3>5. Uses(p) = Uses(out) \cup Asks(m) /\ ResultsOf(p) = ResultsOf(out) \cup Gives(m)
      <4>1. out \in Seq(Messages) /\ Changed(p, out, k, x)
        BY <1>0, <2>3
      <4> QED BY <3>2, <4>1, CallsChanged
    <3> QED BY <3>4, <3>5
  <2>4. \/ p = Append(out, m)
        \/ \E k \in 1..Len(out) : \E x \in Assistants :
             /\ IsAssistant(out[k]) /\ x = Assistant(m.rid, out[k].uses \cup m.uses, "none")
             /\ Changed(p, out, k, x)
    BY <1>0, <2>1, MergedAssistant
  <2> QED BY <2>2, <2>3, <2>4
<1> QED BY <1>2, <1>3, MessageIs

-----------------------------------------------------------------------------
(* normalizeMessagesForAPI()                                                 *)

\* F is what Normalize defines, for the first n messages.
Normalizes(F, n, ms) ==
  F = [i \in 0..n |-> IF i = 0 THEN <<>>
                      ELSE IF IsApiError(ms[i]) THEN F[i - 1] ELSE Merged(F[i - 1], ms[i])]

\* What is defined for n messages is so for one more.
LEMMA NormalizesMore ==
  ASSUME NEW n \in Nat, NEW ms, NEW F, Normalizes(F, n, ms)
  PROVE  \E G : Normalizes(G, n + 1, ms)
<1> DEFINE last == IF IsApiError(ms[n + 1]) THEN F[n] ELSE Merged(F[n], ms[n + 1])
           G == [i \in 0..(n + 1) |-> IF i = n + 1 THEN last ELSE F[i]]
<1>1. DOMAIN F = 0..n
  BY DEF Normalizes
<1>2. \A i \in 0..(n + 1) : i = n + 1 \/ i \in 0..n
  OBVIOUS
<1>3. ASSUME NEW i \in 0..(n + 1)
      PROVE  G[i] = IF i = 0 THEN <<>>
                    ELSE IF IsApiError(ms[i]) THEN G[i - 1] ELSE Merged(G[i - 1], ms[i])
  <2>1. CASE i = n + 1
    <3>1. G[i] = last /\ i # 0 /\ G[i - 1] = F[n] /\ i - 1 = n
      BY <2>1
    <3> HIDE DEF G
    <3> QED BY <2>1, <3>1
  <2>2. CASE i \in 0..n
    <3>1. G[i] = F[i] /\ (i # 0 => i - 1 \in 0..n /\ G[i - 1] = F[i - 1])
      BY <2>2
    <3>2. F[i] = IF i = 0 THEN <<>>
                 ELSE IF IsApiError(ms[i]) THEN F[i - 1] ELSE Merged(F[i - 1], ms[i])
      BY <2>2 DEF Normalizes
    <3> HIDE DEF G
    <3> QED BY <3>1, <3>2
  <2> QED BY <1>2, <2>1, <2>2
<1>4. G = [i \in 0..(n + 1) |-> G[i]]
  OBVIOUS
<1> HIDE DEF G
<1>5. Normalizes(G, n + 1, ms)
  BY <1>3, <1>4 DEF Normalizes
<1> QED BY <1>5

\* So it is for all of them, by induction over their number.
LEMMA NormalizeIs ==
  ASSUME NEW ms \in Seq(Messages)
  PROVE  \E F : Normalizes(F, Len(ms), ms) /\ Normalize(ms) = F[Len(ms)]
<1> DEFINE N == {n \in Nat : \E F : Normalizes(F, n, ms)}
<1>1. 0 \in N
  <2>1. Normalizes([i \in 0..0 |-> <<>>], 0, ms)
    BY DEF Normalizes
  <2> QED BY <2>1
<1>2. \A n \in 0..Len(ms) : n + 1 \in 0..Len(ms) /\ n \in N => n + 1 \in N
  BY NormalizesMore
<1>3. Len(ms) \in Nat /\ Len(ms) \in 0..Len(ms)
  OBVIOUS
<1> HIDE DEF N
<1>4. 0..Len(ms) \subseteq N
  BY <1>1, <1>2, <1>3, GoesOnUpTo
<1>5. \E F : Normalizes(F, Len(ms), ms)
  BY <1>3, <1>4 DEF N
<1> DEFINE C == CHOOSE F : Normalizes(F, Len(ms), ms)
<1>6. Normalizes(C, Len(ms), ms)
  BY <1>5
<1>7. Normalize(ms) = C[Len(ms)]
  BY DEF Normalize, Normalizes
<1> HIDE DEF C
<1> QED BY <1>6, <1>7

\* One message after the other is merged; errors are left out.
LEMMA NormalizeSteps ==
  ASSUME NEW ms \in Seq(Messages), NEW F, Normalizes(F, Len(ms), ms)
  PROVE  /\ F[0] = <<>>
         /\ \A n \in 1..Len(ms) : F[n] = IF IsApiError(ms[n]) THEN F[n - 1] ELSE Merged(F[n - 1], ms[n])
<1>1. Len(ms) \in Nat /\ 0 \in 0..Len(ms) /\ \A n \in 1..Len(ms) : n \in 0..Len(ms) /\ n # 0
  OBVIOUS
<1>2. \A n \in 0..Len(ms) : F[n] = IF n = 0 THEN <<>>
                                 ELSE IF IsApiError(ms[n]) THEN F[n - 1] ELSE Merged(F[n - 1], ms[n])
  BY DEF Normalizes
<1> QED BY <1>1, <1>2

\* Nothing is sent for an empty conversation.
LEMMA NormalizeNothing == Normalize(<<>>) = <<>>
<1>1. <<>> \in Seq(Messages) /\ Len(<<>>) = 0
  OBVIOUS
<1>2. PICK F : Normalizes(F, Len(<<>>), <<>>) /\ Normalize(<<>>) = F[Len(<<>>)]
  BY <1>1, NormalizeIs
<1> QED BY <1>1, <1>2, NormalizeSteps

\* A message more is merged into what there was, unless it is an error.
LEMMA NormalizeMore ==
  ASSUME NEW ms \in Seq(Messages), NEW m \in Messages
  PROVE  Normalize(Append(ms, m)) = IF IsApiError(m) THEN Normalize(ms) ELSE Merged(Normalize(ms), m)
<1> DEFINE q == Append(ms, m)
<1>1. /\ q \in Seq(Messages) /\ Len(q) = Len(ms) + 1 /\ \A i \in 1..Len(ms) : q[i] = ms[i]
      /\ q[Len(ms) + 1] = m /\ Len(ms) \in Nat
  BY Appended, InSequence
<1> HIDE DEF q
<1>2. PICK F : Normalizes(F, Len(ms), ms) /\ Normalize(ms) = F[Len(ms)]
  BY NormalizeIs
<1>3. PICK G : Normalizes(G, Len(q), q) /\ Normalize(q) = G[Len(q)]
  BY <1>1, NormalizeIs
<1>4. /\ F[0] = <<>>
      /\ \A n \in 1..Len(ms) : F[n] = IF IsApiError(ms[n]) THEN F[n - 1] ELSE Merged(F[n - 1], ms[n])
  BY <1>2, NormalizeSteps
<1>5. /\ G[0] = <<>>
      /\ \A n \in 1..Len(q) : G[n] = IF IsApiError(q[n]) THEN G[n - 1] ELSE Merged(G[n - 1], q[n])
  BY <1>1, <1>3, NormalizeSteps
<1> DEFINE N == {n \in 0..Len(ms) : G[n] = F[n]}
<1>6. 0..Len(ms) \subseteq N
  <2>1. 0 \in N
    BY <1>1, <1>4, <1>5
  <2>2. ASSUME NEW n \in 0..Len(ms), n + 1 \in 0..Len(ms), n \in N PROVE n + 1 \in N
    <3>1. n + 1 \in 1..Len(ms) /\ n + 1 \in 1..Len(q) /\ (n + 1) - 1 = n /\ q[n + 1] = ms[n + 1]
          /\ G[n] = F[n]
      BY <1>1, <2>2
    <3>2. F[n + 1] = IF IsApiError(ms[n + 1]) THEN F[n] ELSE Merged(F[n], ms[n + 1])
      BY <1>4, <3>1
    <3>3. G[n + 1] = IF IsApiError(q[n + 1]) THEN G[n] ELSE Merged(G[n], q[n + 1])
      BY <1>5, <3>1
    <3> QED BY <2>2, <3>1, <3>2, <3>3
  <2> HIDE DEF N
  <2> QED BY <1>1, <2>1, <2>2, GoesOnUpTo
<1>7. G[Len(ms)] = F[Len(ms)] /\ Len(ms) + 1 \in 1..Len(q) /\ (Len(ms) + 1) - 1 = Len(ms)
  BY <1>1, <1>6
<1>8. G[Len(ms) + 1] = IF IsApiError(m) THEN G[Len(ms)] ELSE Merged(G[Len(ms)], m)
  BY <1>1, <1>5, <1>7
<1>9. Normalize(q) = IF IsApiError(m) THEN Normalize(ms) ELSE Merged(Normalize(ms), m)
  BY <1>1, <1>2, <1>3, <1>7, <1>8
<1> QED BY <1>9 DEF q

\* What is sent has the same calls and the same results.
LEMMA NormalizeNormal ==
  ASSUME NEW ms \in Seq(Messages)
  PROVE  Normal(Normalize(ms)) /\ Uses(Normalize(ms)) = Uses(ms) /\ ResultsOf(Normalize(ms)) = ResultsOf(ms)
<1>1. PICK F : Normalizes(F, Len(ms), ms) /\ Normalize(ms) = F[Len(ms)]
  BY NormalizeIs
<1>2. /\ F[0] = <<>>
      /\ \A n \in 1..Len(ms) : F[n] = IF IsApiError(ms[n]) THEN F[n - 1] ELSE Merged(F[n - 1], ms[n])
  BY <1>1, NormalizeSteps
<1>3. Len(ms) \in Nat /\ Len(ms) \in 0..Len(ms) /\ \A n \in 1..Len(ms) : ms[n] \in Messages
  BY InSequence
<1> DEFINE AskedUpTo(n) == UNION {Asks(ms[i]) : i \in 1..n}
           GivenUpTo(n) == UNION {Gives(ms[i]) : i \in 1..n}
           N == {n \in 0..Len(ms) : /\ Normal(F[n]) /\ Uses(F[n]) = AskedUpTo(n)
                                    /\ ResultsOf(F[n]) = GivenUpTo(n)}
<1>4. 0 \in N
  <2>1. <<>> \in Seq(Messages) /\ Len(<<>>) = 0
    OBVIOUS
  <2>2. Normal(<<>>) /\ Uses(<<>>) = {} /\ ResultsOf(<<>>) = {}
    <3>1. Normal(<<>>)
      BY <2>1 DEF Normal
    <3>2. Uses(<<>>) = {} /\ ResultsOf(<<>>) = {}
      BY DEF Uses, ResultsOf
    <3> QED BY <3>1, <3>2
  <2>3. AskedUpTo(0) = {} /\ GivenUpTo(0) = {}
    OBVIOUS
  <2> QED BY <1>2, <1>3, <2>2, <2>3
<1>5. ASSUME NEW n \in 0..Len(ms), n + 1 \in 0..Len(ms), n \in N PROVE n + 1 \in N
  <2>1. /\ n + 1 \in 1..Len(ms) /\ (n + 1) - 1 = n
        /\ Normal(F[n]) /\ Uses(F[n]) = AskedUpTo(n) /\ ResultsOf(F[n]) = GivenUpTo(n)
    BY <1>3, <1>5
  <2> DEFINE m == ms[n + 1]
  <2>2. m \in Messages
    BY <1>3, <2>1
  <2>3. F[n + 1] = IF IsApiError(m) THEN F[n] ELSE Merged(F[n], m)
    BY <1>2, <2>1
  <2>4. AskedUpTo(n + 1) = AskedUpTo(n) \cup Asks(m) /\ GivenUpTo(n + 1) = GivenUpTo(n) \cup Gives(m)
    <3>1. 1..(n + 1) = (1..n) \cup {n + 1}
      BY <2>1
    <3> QED BY <3>1
  <2> HIDE DEF m
  <2>5. IsApiError(m) => Asks(m) = {} /\ Gives(m) = {}
    BY <2>2, MessageIs DEF IsApiError, Asks, Gives
  <2>6. /\ Normal(F[n + 1]) /\ Uses(F[n + 1]) = Uses(F[n]) \cup Asks(m)
        /\ ResultsOf(F[n + 1]) = ResultsOf(F[n]) \cup Gives(m)
    <3>1. CASE IsApiError(m)
      BY <2>1, <2>3, <2>5, <3>1
    <3>2. CASE ~IsApiError(m)
      <4>1. F[n + 1] = Merged(F[n], m)
        BY <2>3, <3>2
      <4> QED BY <2>1, <2>2, <3>2, <4>1, NormalMerged
    <3> QED BY <3>1, <3>2
  <2> QED BY <1>5, <2>1, <2>4, <2>6
<1> HIDE DEF N
<1>6. 0..Len(ms) \subseteq N
  BY <1>3, <1>4, <1>5, GoesOnUpTo
<1>7. Normal(F[Len(ms)]) /\ Uses(F[Len(ms)]) = AskedUpTo(Len(ms))
      /\ ResultsOf(F[Len(ms)]) = GivenUpTo(Len(ms))
  BY <1>3, <1>6 DEF N
<1>8. Uses(ms) = AskedUpTo(Len(ms)) /\ ResultsOf(ms) = GivenUpTo(Len(ms))
  BY CallsOf
<1> QED BY <1>1, <1>7, <1>8

-----------------------------------------------------------------------------
(* The results that are behind their calls                                   *)

\* r is the first of the results that has its id.
First(results, r) ==
  \E k \in 1..Len(results) : results[k] = r /\ \A l \in 1..(k - 1) : results[l].id # r.id

\* r is what b answers to a call of a.
Tells(a, b, r) == IsAssistant(a) /\ r.id \in a.uses /\ IsUser(b) /\ First(b.results, r)

\* The results that are in the message after that of their call.
Told(nm) == {r \in ResultsOf(nm) : \E i \in 1..(Len(nm) - 1) : Tells(nm[i], nm[i + 1], r)}

\* No call is in two messages.
Unique(nm) == \A i, j \in 1..Len(nm) : i # j => Asks(nm[i]) \cap Asks(nm[j]) = {}

\* The definition, by positions.
LEMMA ToldIs ==
  ASSUME NEW nm \in Seq(Messages), NEW r
  PROVE  r \in Told(nm) <=> \E i \in 1..(Len(nm) - 1) : Tells(nm[i], nm[i + 1], r)
<1> SUFFICES ASSUME NEW i \in 1..(Len(nm) - 1), Tells(nm[i], nm[i + 1], r) PROVE r \in ResultsOf(nm)
  BY DEF Told
<1>1. i + 1 \in 1..Len(nm)
  BY InSequence
<1>2. IsUser(nm[i + 1]) /\ \E k \in 1..Len(nm[i + 1].results) : nm[i + 1].results[k] = r
  BY DEF Tells, First
<1> QED BY <1>1, <1>2, ResultOf

\* r is the first in s \o t if it is in s, or if it is only in t.
LEMMA FirstJoined ==
  ASSUME NEW s \in Seq(Results), NEW t \in Seq(Results), NEW r
  PROVE  /\ First(s, r) => First(s \o t, r)
         /\ First(s \o t, r) => First(s, r) \/ \E k \in 1..Len(t) : t[k] = r
         /\ t = <<r>> /\ (\A k \in 1..Len(s) : s[k].id # r.id) => First(s \o t, r)
<1> DEFINE w == s \o t
           p == Len(s)
           q == Len(t)
<1>1. /\ Len(w) = p + q /\ p \in Nat /\ q \in Nat
      /\ \A i \in 1..p : w[i] = s[i]
      /\ \A i \in 1..q : w[p + i] = t[i]
      /\ \A i \in 1..(p + q) : i \in 1..p \/ i - p \in 1..q
  BY Joined, InSequence
<1> HIDE DEF w, p, q
<1>2. First(s, r) => First(w, r)
  <2> SUFFICES ASSUME First(s, r) PROVE First(w, r)
    OBVIOUS
  <2>1. PICK k \in 1..p : s[k] = r /\ \A l \in 1..(k - 1) : s[l].id # r.id
    BY DEF First, p
  <2>2. k \in 1..Len(w) /\ w[k] = r
    BY <1>1, <2>1
  <2>3. ASSUME NEW l \in 1..(k - 1) PROVE w[l].id # r.id
    <3>1. l \in 1..p
      BY <1>1, <2>1
    <3> QED BY <1>1, <2>1, <3>1
  <2> QED BY <2>2, <2>3 DEF First
<1>3. First(w, r) => First(s, r) \/ \E k \in 1..q : t[k] = r
  <2> SUFFICES ASSUME First(w, r) PROVE First(s, r) \/ \E k \in 1..q : t[k] = r
    OBVIOUS
  <2>1. PICK k \in 1..(p + q) : w[k] = r /\ \A l \in 1..(k - 1) : w[l].id # r.id
    BY <1>1 DEF First
  <2>2. CASE k \in 1..p
    <3>1. ASSUME NEW l \in 1..(k - 1) PROVE s[l].id # r.id
      <4>1. l \in 1..p
        BY <1>1, <2>1, <2>2
      <4> QED BY <1>1, <2>1, <4>1
    <3> QED BY <1>1, <2>1, <2>2, <3>1 DEF First, p
  <2>3. CASE k - p \in 1..q
    <3>1. w[p + (k - p)] = t[k - p]
      BY <1>1, <2>3
    <3>2. p + (k - p) = k
      BY <1>1
    <3> QED BY <2>1, <2>3, <3>1, <3>2
  <2> QED BY <1>1, <2>1, <2>2, <2>3
<1>4. t = <<r>> /\ (\A k \in 1..p : s[k].id # r.id) => First(w, r)
  <2> SUFFICES ASSUME t = <<r>>, \A k \in 1..p : s[k].id # r.id PROVE First(w, r)
    OBVIOUS
  <2>1. q = 1 /\ t[1] = r
    BY DEF q
  <2>2. p + 1 \in 1..Len(w) /\ w[p + 1] = r /\ (p + 1) - 1 = p
    BY <1>1, <2>1
  <2>3. \A l \in 1..((p + 1) - 1) : w[l].id # r.id
    BY <1>1, <2>2
  <2> QED BY <2>2, <2>3 DEF First
<1> QED BY <1>2, <1>3, <1>4 DEF w, p, q

\* A message of the user adds to what is told only what answers a call.
LEMMA ToldUser ==
  ASSUME NEW nm, Normal(nm), NEW m \in Users
  PROVE  /\ Told(nm) \subseteq Told(Merged(nm, m))
         /\ \A r \in Told(Merged(nm, m)) : r \in Told(nm) \/ (r \in Gives(m) /\ r.id \in Uses(nm))
<1> DEFINE p == Merged(nm, m)
           n == Len(nm)
<1>1. nm \in Seq(Messages) /\ n \in Nat /\ m \in Messages /\ IsUser(m) /\ ~IsAssistant(m)
      /\ m.results \in Seq(Results)
  BY InSequence, MessageIs DEF Normal, Messages
<1>2. CASE p = Append(nm, m)
  <2>1. /\ p \in Seq(Messages) /\ Len(p) = n + 1 /\ \A i \in 1..n : p[i] = nm[i]
        /\ p[n + 1] = m
    BY <1>1, <1>2, Appended
  <2> HIDE DEF p
  <2>2. ASSUME NEW r \in Told(nm) PROVE r \in Told(p)
    <3>1. PICK i \in 1..(n - 1) : Tells(nm[i], nm[i + 1], r)
      BY <1>1, ToldIs
    <3>2. i \in 1..(Len(p) - 1) /\ i \in 1..n /\ i + 1 \in 1..n
      BY <1>1, <2>1
    <3>3. Tells(p[i], p[i + 1], r)
      BY <2>1, <3>1, <3>2
    <3> QED BY <2>1, <3>2, <3>3, ToldIs
  <2>3. ASSUME NEW r \in Told(p) PROVE r \in Told(nm) \/ (r \in Gives(m) /\ r.id \in Uses(nm))
    <3>1. PICK i \in 1..(Len(p) - 1) : Tells(p[i], p[i + 1], r)
      BY <2>1, ToldIs
    <3>2. i \in 1..n
      BY <1>1, <2>1
    <3>3. CASE i = n
      <4>1. Tells(nm[n], m, r)
        BY <2>1, <3>1, <3>2, <3>3
      <4>2. r \in Gives(m)
        BY <1>1, <4>1 DEF Tells, First, Gives
      <4>3. IsAssistant(nm[n]) /\ r.id \in nm[n].uses /\ n \in 1..n
        BY <3>2, <3>3, <4>1 DEF Tells
      <4>4. r.id \in Uses(nm)
        BY <1>1, <4>3, UseOf
      <4> QED BY <4>2, <4>4
    <3>4. CASE i # n
      <4>1. i \in 1..(n - 1) /\ i + 1 \in 1..n
        BY <1>1, <3>2, <3>4
      <4>2. Tells(nm[i], nm[i + 1], r)
        BY <2>1, <3>1, <3>2, <4>1
      <4> QED BY <1>1, <4>1, <4>2, ToldIs
    <3> QED BY <3>3, <3>4
  <2> QED BY <2>2, <2>3 DEF p
<1>3. CASE /\ n > 0 /\ IsUser(nm[n]) /\ Changed(p, nm, n, MergeUsers(nm[n], m))
           /\ MergeUsers(nm[n], m) \in Users
           /\ MergeUsers(nm[n], m).results = nm[n].results \o m.results
  <2> DEFINE x == MergeUsers(nm[n], m)
  <2>1. /\ p \in Seq(Messages) /\ Len(p) = n /\ n \in 1..n /\ p[n] = x
        /\ \A i \in 1..n : i # n => p[i] = nm[i]
        /\ x \in Users /\ x.results = nm[n].results \o m.results /\ IsUser(nm[n])
    BY <1>3 DEF Changed
  <2> HIDE DEF p, x
  <2>2. IsUser(x) /\ nm[n].results \in Seq(Results) /\ ~IsAssistant(nm[n]) /\ ~IsAssistant(x)
    BY <1>1, <2>1, InSequence, MessageIs DEF Messages
  <2>3. ASSUME NEW i \in 1..(n - 1)
        PROVE  p[i] = nm[i] /\ i \in 1..n /\ i + 1 \in 1..n
    BY <1>1, <2>1
  <2>4. ASSUME NEW r \in Told(nm) PROVE r \in Told(p)
    <3>1. PICK i \in 1..(n - 1) : Tells(nm[i], nm[i + 1], r)
      BY <1>1, ToldIs
    <3>2. Tells(p[i], p[i + 1], r)
      <4>1. CASE i + 1 = n
        <5>1. First(nm[n].results \o m.results, r)
          BY <1>1, <2>2, <3>1, <4>1, FirstJoined DEF Tells
        <5>2. p[i + 1] = x /\ p[i] = nm[i]
          BY <2>1, <2>3, <4>1
        <5> QED BY <2>1, <2>2, <3>1, <5>1, <5>2 DEF Tells
      <4>2. CASE i + 1 # n
        BY <2>1, <2>3, <3>1, <4>2
      <4> QED BY <4>1, <4>2
    <3>3. i \in 1..(Len(p) - 1)
      BY <2>1
    <3> QED BY <2>1, <3>2, <3>3, ToldIs
  <2>5. ASSUME NEW r \in Told(p) PROVE r \in Told(nm) \/ (r \in Gives(m) /\ r.id \in Uses(nm))
    <3>1. PICK i \in 1..(n - 1) : Tells(p[i], p[i + 1], r)
      BY <2>1, ToldIs
    <3>2. CASE i + 1 = n
      <4>1. Tells(nm[i], x, r)
        BY <2>1, <2>3, <3>1, <3>2
      <4>2. First(nm[n].results, r) \/ \E k \in 1..Len(m.results) : m.results[k] = r
        <5>1. First(nm[n].results \o m.results, r)
          BY <2>1, <4>1 DEF Tells
        <5> QED BY <1>1, <2>2, <5>1, FirstJoined
      <4>3. CASE First(nm[n].results, r)
        <5>1. Tells(nm[i], nm[i + 1], r)
          BY <2>1, <3>2, <4>1, <4>3 DEF Tells
        <5> QED BY <1>1, <5>1, ToldIs
      <4>4. CASE \E k \in 1..Len(m.results) : m.results[k] = r
        <5>1. r \in Gives(m)
          BY <1>1, <4>4 DEF Gives
        <5>2. IsAssistant(nm[i]) /\ r.id \in nm[i].uses /\ i \in 1..n
          BY <2>3, <4>1 DEF Tells
        <5>3. r.id \in Uses(nm)
          BY <1>1, <5>2, UseOf
        <5> QED BY <5>1, <5>3
      <4> QED BY <4>2, <4>3, <4>4
    <3>3. CASE i + 1 # n
      <4>1. Tells(nm[i], nm[i + 1], r)
        BY <2>1, <2>3, <3>1, <3>3
      <4> QED BY <1>1, <4>1, ToldIs
    <3> QED BY <3>2, <3>3
  <2> QED BY <2>4, <2>5 DEF p
<1> QED BY <1>1, <1>2, <1>3, MergedUser

\* A message of the assistant changes nothing of it, if its calls are new.
LEMMA ToldAssistant ==
  ASSUME NEW nm, Normal(nm), NEW m \in Assistants, ~IsApiError(m), \A r \in ResultsOf(nm) : r.id \notin m.uses
  PROVE  Told(Merged(nm, m)) = Told(nm)
<1> DEFINE p == Merged(nm, m)
           n == Len(nm)
<1>1. /\ nm \in Seq(Messages) /\ n \in Nat /\ m \in Messages /\ ~IsUser(m) /\ IsAssistant(m)
      /\ \A i \in 1..n : ~IsApiError(nm[i])
  BY InSequence, MessageIs DEF Normal, Messages
<1>2. CASE p = Append(nm, m)
  <2>1. /\ p \in Seq(Messages) /\ Len(p) = n + 1 /\ \A i \in 1..n : p[i] = nm[i]
        /\ p[n + 1] = m
    BY <1>1, <1>2, Appended
  <2> HIDE DEF p
  <2>2. ASSUME NEW r \in Told(nm) PROVE r \in Told(p)
    <3>1. PICK i \in 1..(n - 1) : Tells(nm[i], nm[i + 1], r)
      BY <1>1, ToldIs
    <3>2. i \in 1..(Len(p) - 1) /\ i \in 1..n /\ i + 1 \in 1..n
      BY <1>1, <2>1
    <3>3. Tells(p[i], p[i + 1], r)
      BY <2>1, <3>1, <3>2
    <3> QED BY <2>1, <3>2, <3>3, ToldIs
  <2>3. ASSUME NEW r \in Told(p) PROVE r \in Told(nm)
    <3>1. PICK i \in 1..(Len(p) - 1) : Tells(p[i], p[i + 1], r)
      BY <2>1, ToldIs
    <3>2. i \in 1..n
      BY <1>1, <2>1
    <3>3. i # n
      <4> SUFFICES ASSUME i = n PROVE FALSE
        OBVIOUS
      <4> QED BY <1>1, <2>1, <3>1 DEF Tells
    <3>4. i \in 1..(n - 1) /\ i + 1 \in 1..n
      BY <1>1, <3>2, <3>3
    <3>5. Tells(nm[i], nm[i + 1], r)
      BY <2>1, <3>1, <3>2, <3>4
    <3> QED BY <1>1, <3>4, <3>5, ToldIs
  <2> QED BY <2>2, <2>3 DEF p
<1>3. ASSUME NEW k \in 1..n, IsAssistant(nm[k]), NEW x \in Assistants,
             x = Assistant(m.rid, nm[k].uses \cup m.uses, "none"), Changed(p, nm, k, x)
      PROVE  Told(p) = Told(nm)
  <2>1. /\ p \in Seq(Messages) /\ Len(p) = n /\ p[k] = x /\ \A i \in 1..n : i # k => p[i] = nm[i]
        /\ IsAssistant(x) /\ x.uses = nm[k].uses \cup m.uses
    BY <1>3 DEF Changed, Assistant, IsAssistant
  <2> HIDE DEF p
  <2>2. ~IsUser(x) /\ ~IsUser(nm[k])
    BY <1>1, <1>3, <2>1, InSequence, MessageIs DEF Messages
  <2>3. ASSUME NEW i \in 1..(n - 1), NEW r, r \in ResultsOf(nm)
        PROVE  Tells(nm[i], nm[i + 1], r) <=> Tells(p[i], p[i + 1], r)
    <3>1. i \in 1..n /\ i + 1 \in 1..n
      BY <1>1
    <3>2. r.id \notin m.uses
      BY <2>3
    <3>3. CASE i + 1 = k
      BY <2>1, <2>2, <3>3 DEF Tells
    <3>4. CASE i = k
      <4>1. p[i + 1] = nm[i + 1] /\ p[i] = x
        BY <1>1, <2>1, <3>1, <3>4
      <4> QED BY <1>3, <2>1, <3>2, <3>4, <4>1 DEF Tells
    <3>5. CASE i + 1 # k /\ i # k
      BY <2>1, <3>1, <3>5
    <3> QED BY <3>3, <3>4, <3>5
  <2>4. ResultsOf(p) = ResultsOf(nm)
    <3>1. Gives(m) = {}
      BY <1>1 DEF Gives
    <3> QED BY <1>1, <3>1, NormalMerged DEF p
  <2> QED BY <2>1, <2>3, <2>4 DEF Told
<1>4. \/ p = Append(nm, m)
      \/ \E k \in 1..n : \E x \in Assistants :
           /\ IsAssistant(nm[k]) /\ x = Assistant(m.rid, nm[k].uses \cup m.uses, "none")
           /\ Changed(p, nm, k, x)
  BY <1>1, MergedAssistant
<1> QED BY <1>2, <1>3, <1>4

\* A message whose calls are new leaves every call in one message.
LEMMA UniqueMerged ==
  ASSUME NEW nm, Normal(nm), Unique(nm), NEW m \in Messages, ~IsApiError(m), Asks(m) \cap Uses(nm) = {}
  PROVE  Unique(Merged(nm, m))
<1> DEFINE p == Merged(nm, m)
           n == Len(nm)
<1>1. /\ nm \in Seq(Messages) /\ n \in Nat /\ \A i \in 1..n : ~IsApiError(nm[i])
      /\ \A i \in 1..n : Asks(nm[i]) \cap Asks(m) = {}
  <2>1. nm \in Seq(Messages) /\ n \in Nat /\ \A i \in 1..n : ~IsApiError(nm[i])
    BY InSequence DEF Normal
  <2>2. \A i \in 1..n : Asks(nm[i]) \subseteq Uses(nm)
    BY <2>1, CallsOf
  <2> QED BY <2>1, <2>2
<1>2. CASE p = Append(nm, m)
  <2>1. /\ p \in Seq(Messages) /\ Len(p) = n + 1 /\ p[n + 1] = m /\ \A i \in 1..n : p[i] = nm[i]
        /\ \A i \in 1..(n + 1) : i \in 1..n \/ i = n + 1
    BY <1>1, <1>2, Appended
  <2> HIDE DEF p
  <2> QED BY <1>1, <2>1 DEF Unique, p
<1>3. ASSUME NEW k, NEW x, Changed(p, nm, k, x), Asks(x) = Asks(nm[k]) \cup Asks(m)
      PROVE  Unique(p)
  <2>1. /\ Len(p) = n /\ p[k] = x /\ k \in 1..n /\ \A i \in 1..n : i # k => p[i] = nm[i]
    BY <1>3 DEF Changed
  <2> HIDE DEF p
  <2> QED BY <1>1, <1>3, <2>1 DEF Unique
<1>4. CASE m \in Users
  <2>1. CASE /\ n > 0 /\ IsUser(nm[n]) /\ Changed(p, nm, n, MergeUsers(nm[n], m))
             /\ MergeUsers(nm[n], m) \in Users
    <3>1. Asks(MergeUsers(nm[n], m)) = {} /\ Asks(nm[n]) = {} /\ Asks(m) = {}
      <4>1. ~IsAssistant(MergeUsers(nm[n], m)) /\ ~IsAssistant(m) /\ ~IsAssistant(nm[n])
        <5>1. n \in 1..n
          BY <1>1, <2>1
        <5>2. nm[n] \in Messages
          BY <1>1, <5>1, InSequence
        <5> QED BY <1>4, <2>1, <5>2, MessageIs DEF Messages
      <4> QED BY <4>1 DEF Asks
    <3> QED BY <1>3, <2>1, <3>1
  <2>2. CASE p = Append(nm, m)
    BY <1>2, <2>2 DEF p
  <2> QED BY <1>1, <1>4, <2>1, <2>2, MergedUser
<1>5. CASE m \in Assistants
  <2>1. ASSUME NEW k \in 1..n, IsAssistant(nm[k]), NEW x \in Assistants,
               x = Assistant(m.rid, nm[k].uses \cup m.uses, "none"), Changed(p, nm, k, x)
        PROVE  Unique(p)
    <3>1. Asks(x) = Asks(nm[k]) \cup Asks(m)
      BY <1>5, <2>1, MessageIs DEF Asks, Assistant, IsAssistant, Messages
    <3> QED BY <1>3, <2>1, <3>1
  <2>2. \/ p = Append(nm, m)
        \/ \E k \in 1..n : \E x \in Assistants :
             /\ IsAssistant(nm[k]) /\ x = Assistant(m.rid, nm[k].uses \cup m.uses, "none")
             /\ Changed(p, nm, k, x)
    BY <1>1, <1>5, MergedAssistant
  <2> QED BY <1>2, <2>1, <2>2 DEF p
<1> QED BY <1>4, <1>5 DEF Messages

-----------------------------------------------------------------------------
(* The group of a response: its calls and the results that follow them       *)

\* nm is s, and a message of the assistant with these calls, and these results if
\* there are any.
Group(nm, s, rid, uses, rs) ==
  \/ rs = <<>> /\ nm = Append(s, Assistant(rid, uses, "none"))
  \/ /\ Len(rs) > 0
     /\ \E x \in BOOLEAN : nm = Append(Append(s, Assistant(rid, uses, "none")), User(rs, x))

GroupTyped(s, rid, uses, rs) ==
  s \in Seq(Messages) /\ rid \in Int /\ uses \in CallSets /\ rs \in Seq(Results)

\* The first message of a response starts its group.
LEMMA GroupStart ==
  ASSUME NEW nm, Normal(nm), NEW m \in Assistants, ~IsApiError(m),
         \A i \in 1..Len(nm) : IsAssistant(nm[i]) => nm[i].rid # m.rid
  PROVE  Group(Merged(nm, m), nm, m.rid, m.uses, <<>>) /\ GroupTyped(nm, m.rid, m.uses, <<>>)
<1>1. /\ nm \in Seq(Messages) /\ m \in Messages /\ IsAssistant(m) /\ ~IsUser(m)
      /\ \A i \in 1..Len(nm) : ~IsApiError(nm[i])
  BY MessageIs DEF Normal, Messages
<1>2. m = Assistant(m.rid, m.uses, "none") /\ m.rid \in Int /\ m.uses \in CallSets
  BY <1>1, MessageIs DEF IsApiError
<1>3. Merged(nm, m) = Append(nm, m)
  BY <1>1, MergedAssistant
<1>4. <<>> \in Seq(Results)
  OBVIOUS
<1> QED BY <1>1, <1>2, <1>3, <1>4 DEF Group, GroupTyped

\* What comes of a message of the user after a sequence that ends with one.
LEMMA MergedAfterUser ==
  ASSUME NEW s \in Seq(Messages), NEW u \in Users, NEW m \in Users
  PROVE  Merged(Append(s, u), m) = Append(s, MergeUsers(u, m))
<1> DEFINE q == Append(s, u)
<1>1. u \in Messages /\ m \in Messages /\ IsUser(u) /\ ~IsAssistant(u)
  BY MessageIs DEF Messages
<1>2. /\ q \in Seq(Messages) /\ Len(q) = Len(s) + 1 /\ \A i \in 1..Len(s) : q[i] = s[i]
      /\ q[Len(s) + 1] = u /\ Len(s) \in Nat
      /\ \A i \in 1..(Len(s) + 1) : i \in 1..Len(s) \/ i = Len(s) + 1
  BY <1>1, Appended, InSequence
<1> HIDE DEF q
<1> DEFINE p == Merged(q, m)
           x == MergeUsers(u, m)
<1>3. Changed(p, q, Len(q), x)
  <2>1. Len(q) # 0 /\ ~IsAssistant(q[Len(q)]) /\ q[Len(q)] = u
    BY <1>1, <1>2
  <2> QED BY <1>2, <2>1, MergedUser
<1>4. /\ p \in Seq(Messages) /\ Len(p) = Len(s) + 1 /\ p[Len(s) + 1] = x /\ x \in Messages
      /\ \A i \in 1..Len(s) : p[i] = s[i]
  <2>1. /\ p \in Seq(Messages) /\ Len(p) = Len(q) /\ p[Len(q)] = x /\ x \in Messages
        /\ \A i \in 1..Len(q) : i # Len(q) => p[i] = q[i]
    BY <1>3 DEF Changed
  <2>2. \A i \in 1..Len(s) : i \in 1..Len(q) /\ i # Len(q)
    BY <1>2
  <2> QED BY <1>2, <2>1, <2>2
<1> HIDE DEF p, x
<1>5. LET t == Append(s, x) IN
      /\ t \in Seq(Messages) /\ Len(t) = Len(s) + 1 /\ t[Len(s) + 1] = x /\ \A i \in 1..Len(s) : t[i] = s[i]
  BY <1>4, Appended
<1>6. p = Append(s, x)
  <2>1. \A i \in 1..(Len(s) + 1) : p[i] = Append(s, x)[i]
    BY <1>2, <1>4, <1>5
  <2> QED BY <1>4, <1>5, <2>1, Alike
<1> QED BY <1>6 DEF p, x, q

\* A message of the user after one of the assistant stays a message of its own.
LEMMA MergedAfterAssistant ==
  ASSUME NEW s \in Seq(Messages), NEW a \in Assistants, NEW m \in Users
  PROVE  Merged(Append(s, a), m) = Append(Append(s, a), m)
<1>1. a \in Messages /\ IsAssistant(a) /\ ~IsUser(a) /\ Len(s) \in Nat
  BY InSequence, MessageIs DEF Messages
<1>2. /\ Append(s, a) \in Seq(Messages) /\ Len(Append(s, a)) = Len(s) + 1 /\ Append(s, a)[Len(s) + 1] = a
  BY <1>1, Appended
<1> QED BY <1>1, <1>2, MergedUser

\* A result joins the group.
LEMMA GroupResult ==
  ASSUME NEW nm, NEW s, NEW rid, NEW uses, NEW rs, GroupTyped(s, rid, uses, rs), Group(nm, s, rid, uses, rs),
         NEW r \in Results
  PROVE  LET m == User(<<r>>, FALSE) IN
         /\ Group(Merged(nm, m), s, rid, uses, Append(rs, r)) /\ GroupTyped(s, rid, uses, Append(rs, r))
<1> DEFINE a == Assistant(rid, uses, "none")
           m == User(<<r>>, FALSE)
<1>1. s \in Seq(Messages) /\ a \in Assistants /\ a \in Messages /\ rs \in Seq(Results)
      /\ Append(s, a) \in Seq(Messages)
  <2>1. s \in Seq(Messages) /\ a \in Assistants /\ a \in Messages /\ rs \in Seq(Results)
    BY AssistantIs DEF GroupTyped
  <2> QED BY <2>1, Appended
<1>2. <<r>> \in Seq(Results) /\ m \in Users /\ m.results = <<r>> /\ m.text = FALSE
  <2>1. <<r>> \in Seq(Results)
    OBVIOUS
  <2> QED BY <2>1, UserIs
<1>3. Append(rs, r) \in Seq(Results) /\ Len(Append(rs, r)) > 0 /\ rs \o <<r>> = Append(rs, r)
  BY <1>1
<1>4. GroupTyped(s, rid, uses, Append(rs, r))
  BY <1>3 DEF GroupTyped
<1>5. CASE rs = <<>> /\ nm = Append(s, a)
  <2>1. Merged(nm, m) = Append(Append(s, a), m)
    BY <1>1, <1>2, <1>5, MergedAfterAssistant
  <2>2. Append(rs, r) = <<r>>
    BY <1>5
  <2> QED BY <1>3, <1>4, <2>1, <2>2 DEF Group
<1>6. ASSUME Len(rs) > 0, NEW x \in BOOLEAN, nm = Append(Append(s, a), User(rs, x))
      PROVE  Group(Merged(nm, m), s, rid, uses, Append(rs, r))
  <2>1. User(rs, x) \in Users /\ User(rs, x).results = rs /\ User(rs, x).text = x
    BY <1>1, UserIs
  <2>2. Merged(nm, m) = Append(Append(s, a), MergeUsers(User(rs, x), m))
    BY <1>1, <1>2, <1>6, <2>1, MergedAfterUser
  <2>3. MergeUsers(User(rs, x), m) = User(Append(rs, r), x)
    BY <1>2, <1>3, <2>1 DEF MergeUsers
  <2> QED BY <1>3, <2>2, <2>3 DEF Group
<1> QED BY <1>4, <1>5, <1>6 DEF Group

\* A further message of the response joins the calls of the group, before its results.
LEMMA GroupMore ==
  ASSUME NEW nm, Normal(nm), NEW s, NEW rid, NEW uses, NEW rs,
         GroupTyped(s, rid, uses, rs), Group(nm, s, rid, uses, rs),
         NEW m \in Assistants, ~IsApiError(m), m.rid = rid
  PROVE  Group(Merged(nm, m), s, rid, uses \cup m.uses, rs) /\ GroupTyped(s, rid, uses \cup m.uses, rs)
<1> DEFINE a == Assistant(rid, uses, "none")
           b == Assistant(rid, uses \cup m.uses, "none")
           n == Len(s)
           p == Merged(nm, m)
           t == Append(s, a)
           v == Append(s, b)
<1>1. /\ s \in Seq(Messages) /\ n \in Nat /\ a \in Messages /\ IsAssistant(a) /\ ~IsUser(a)
      /\ a.uses = uses /\ a.rid = rid
      /\ rs \in Seq(Results) /\ nm \in Seq(Messages) /\ \A i \in 1..Len(nm) : ~IsApiError(nm[i])
  BY AssistantIs, InSequence DEF GroupTyped, Normal
<1>2. /\ uses \cup m.uses \in CallSets /\ b \in Messages
  <2>1. m.uses \in CallSets
    BY MessageIs DEF Messages, Assistants
  <2>2. uses \cup m.uses \in CallSets
    BY <2>1, FS_Union DEF CallSets, GroupTyped
  <2> QED BY <2>2, AssistantIs DEF GroupTyped
<1>3. GroupTyped(s, rid, uses \cup m.uses, rs)
  BY <1>2 DEF GroupTyped
<1>4. /\ t \in Seq(Messages) /\ Len(t) = n + 1 /\ \A i \in 1..n : t[i] = s[i]
      /\ t[n + 1] = a
      /\ v \in Seq(Messages) /\ Len(v) = n + 1 /\ \A i \in 1..n : v[i] = s[i]
      /\ v[n + 1] = b
      /\ \A i \in 1..(n + 1) : i \in 1..n \/ i = n + 1
  BY <1>1, <1>2, Appended
<1> HIDE DEF t, v, p, b, n, a
\* Where the group is, m is merged into it.
<1>5. ASSUME n + 1 \in 1..Len(nm), nm[n + 1] = a,
             \A j \in 1..Len(nm) : j > n + 1 => ~IsAssistant(nm[j]) /\ nm[j].results # <<>>
      PROVE  Changed(p, nm, n + 1, b)
  <2>1. DOMAIN nm = 1..Len(nm) /\ m.rid = rid
    BY <1>1, InSequence
  <2>2. n + 1 \in SameResponse(nm, m)
    BY <1>1, <1>5, <2>1 DEF SameResponse
  <2>3. \A j \in SameResponse(nm, m) : j \in 1..Len(nm) /\ IsAssistant(nm[j])
    BY <2>1 DEF SameResponse
  <2>4. PICK k \in SameResponse(nm, m) :
          /\ \A j \in SameResponse(nm, m) : j <= k
          /\ Changed(p, nm, k, Assistant(m.rid, nm[k].uses \cup m.uses, "none"))
    BY <1>1, <2>2, MergedAssistant DEF p
  <2>5. k = n + 1
    <3>1. n + 1 <= k /\ k \in 1..Len(nm) /\ IsAssistant(nm[k])
      BY <2>2, <2>3, <2>4
    <3>2. ~(k > n + 1)
      BY <1>5, <3>1
    <3> QED BY <1>1, <3>1, <3>2
  <2>6. Assistant(m.rid, nm[k].uses \cup m.uses, "none") = b
    BY <1>1, <1>5, <2>1, <2>5 DEF b
  <2> QED BY <2>4, <2>5, <2>6
<1>6. CASE rs = <<>> /\ nm = t
  <2>1. Changed(p, nm, n + 1, b)
    BY <1>1, <1>4, <1>5, <1>6
  <2>2. /\ p \in Seq(Messages) /\ Len(p) = n + 1 /\ p[n + 1] = b
        /\ \A i \in 1..(n + 1) : i # n + 1 => p[i] = nm[i]
    BY <1>4, <1>6, <2>1 DEF Changed
  <2>3. \A i \in 1..(n + 1) : p[i] = v[i]
    BY <1>1, <1>4, <1>6, <2>2
  <2>4. p = v
    BY <1>4, <2>2, <2>3, Alike
  <2> QED BY <1>3, <1>6, <2>4 DEF Group, p, v, b
<1>7. ASSUME Len(rs) > 0, NEW x \in BOOLEAN, nm = Append(t, User(rs, x))
      PROVE  Group(p, s, rid, uses \cup m.uses, rs)
  <2> DEFINE u == User(rs, x)
             w == Append(v, u)
  <2>1. u \in Messages /\ u.results = rs /\ ~IsAssistant(u)
    BY <1>1, UserIs
  <2>2. rs # <<>>
    BY <1>1, <1>7, Nothing
  <2> HIDE DEF u
  <2>3. /\ nm \in Seq(Messages) /\ Len(nm) = (n + 1) + 1 /\ \A i \in 1..(n + 1) : nm[i] = t[i]
        /\ nm[(n + 1) + 1] = u
        /\ w \in Seq(Messages) /\ Len(w) = (n + 1) + 1 /\ \A i \in 1..(n + 1) : w[i] = v[i]
        /\ w[(n + 1) + 1] = u
    BY <1>4, <1>7, <2>1, Appended DEF u
  <2> HIDE DEF w
  <2>4. Changed(p, nm, n + 1, b)
    <3>1. n + 1 \in 1..Len(nm) /\ nm[n + 1] = a
      BY <1>1, <1>4, <2>3
    <3>2. \A j \in 1..Len(nm) : j > n + 1 => j = (n + 1) + 1
      BY <1>1, <2>3
    <3> QED BY <1>5, <2>1, <2>2, <2>3, <3>1, <3>2
  <2>5. /\ p \in Seq(Messages) /\ Len(p) = (n + 1) + 1 /\ p[n + 1] = b
        /\ \A i \in 1..((n + 1) + 1) : i # n + 1 => p[i] = nm[i]
    BY <2>3, <2>4 DEF Changed
  <2>6. \A i \in 1..((n + 1) + 1) : i \in 1..n \/ i = n + 1 \/ i = (n + 1) + 1
    BY <1>1
  <2>7. /\ n + 1 # (n + 1) + 1 /\ (n + 1) + 1 \in 1..((n + 1) + 1)
        /\ \A i \in 1..n : i \in 1..(n + 1) /\ i # n + 1 /\ i \in 1..((n + 1) + 1)
    BY <1>1
  <2>8. \A i \in 1..((n + 1) + 1) : p[i] = w[i]
    <3> SUFFICES ASSUME NEW i \in 1..((n + 1) + 1) PROVE p[i] = w[i]
      OBVIOUS
    <3>1. CASE i \in 1..n
      <4>1. p[i] = nm[i] /\ nm[i] = t[i] /\ t[i] = s[i] /\ w[i] = v[i] /\ v[i] = s[i]
        BY <1>4, <2>3, <2>5, <2>7, <3>1
      <4> QED BY <4>1
    <3>2. CASE i = n + 1
      <4>1. n + 1 \in 1..(n + 1)
        BY <1>1
      <4> QED BY <1>4, <2>3, <2>5, <3>2, <4>1
    <3>3. CASE i = (n + 1) + 1
      BY <2>3, <2>5, <2>7, <3>3
    <3> QED BY <2>6, <3>1, <3>2, <3>3
  <2>9. p = w
    BY <2>3, <2>5, <2>8, Alike
  <2> QED BY <1>7, <2>9 DEF Group, w, u, v, b
<1> QED BY <1>3, <1>6, <1>7 DEF Group, t, a, p

\* The results of the group answer its calls, the first for each.
LEMMA GroupTold ==
  ASSUME NEW nm, Normal(nm), NEW s, NEW rid, NEW uses, NEW rs,
         GroupTyped(s, rid, uses, rs), Group(nm, s, rid, uses, rs),
         NEW r, r.id \in uses, First(rs, r)
  PROVE  r \in Told(nm)
<1> DEFINE a == Assistant(rid, uses, "none")
           n == Len(s)
           t == Append(s, a)
<1>1. /\ s \in Seq(Messages) /\ n \in Nat /\ a \in Messages /\ IsAssistant(a) /\ a.uses = uses
      /\ rs \in Seq(Results) /\ Len(rs) \in Nat
  BY AssistantIs, InSequence DEF GroupTyped
<1>2. t \in Seq(Messages) /\ Len(t) = n + 1 /\ t[n + 1] = a
  BY <1>1, Appended
<1>3. rs # <<>> /\ Len(rs) > 0
  BY <1>1, Nothing DEF First
<1>4. PICK x \in BOOLEAN : nm = Append(t, User(rs, x))
  BY <1>3 DEF Group
<1> DEFINE u == User(rs, x)
<1>5. u \in Messages /\ IsUser(u) /\ u.results = rs
  BY <1>1, UserIs
<1> HIDE DEF t, n, a, u
<1>6. Len(nm) = (n + 1) + 1 /\ nm[n + 1] = t[n + 1] /\ nm[(n + 1) + 1] = u
  <2>1. n + 1 \in 1..Len(t)
    BY <1>1, <1>2
  <2> QED BY <1>2, <1>4, <1>5, <2>1, Appended DEF u
<1>7. n + 1 \in 1..(Len(nm) - 1)
  BY <1>1, <1>6
<1>8. Tells(nm[n + 1], nm[(n + 1) + 1], r)
  BY <1>1, <1>2, <1>5, <1>6 DEF Tells
<1> QED BY <1>7, <1>8, ToldIs DEF Normal

\* The results of the group are in the conversation.
LEMMA GroupGives ==
  ASSUME NEW nm, Normal(nm), NEW s, NEW rid, NEW uses, NEW rs,
         GroupTyped(s, rid, uses, rs), Group(nm, s, rid, uses, rs), NEW k \in 1..Len(rs)
  PROVE  rs[k] \in ResultsOf(nm)
<1> DEFINE a == Assistant(rid, uses, "none")
           t == Append(s, a)
<1>1. a \in Messages /\ rs \in Seq(Results) /\ Len(rs) \in Nat /\ s \in Seq(Messages)
  BY AssistantIs, InSequence DEF GroupTyped
<1>2. t \in Seq(Messages)
  BY <1>1, Appended
<1>3. rs # <<>> /\ Len(rs) > 0
  BY <1>1, Nothing
<1>4. PICK x \in BOOLEAN : nm = Append(t, User(rs, x))
  BY <1>3 DEF Group
<1> DEFINE u == User(rs, x)
<1>5. u \in Messages /\ IsUser(u) /\ u.results = rs
  BY <1>1, UserIs
<1> HIDE DEF t, a, u
<1>6. ResultsOf(nm) = ResultsOf(t) \cup (IF IsUser(u) THEN {u.results[l] : l \in 1..Len(u.results)} ELSE {})
  BY <1>2, <1>4, <1>5, CallsAppended DEF u
<1> QED BY <1>5, <1>6

\* The last message of the response, of which nothing is known but its calls.
Opened(nm, rid, uses) ==
  \E s, rs : GroupTyped(s, rid, uses, rs) /\ Group(nm, s, rid, uses, rs)

\* The message of a result that is ready.
Brings(m, r) == m = User(<<r>>, FALSE)

\* Such a message gives its result and nothing else.
LEMMA BringsOne ==
  ASSUME NEW r \in Results, NEW m, Brings(m, r)
  PROVE  m \in Users /\ m \in Messages /\ ~IsApiError(m) /\ IsUser(m) /\ ~IsAssistant(m)
         /\ Gives(m) = {r} /\ Asks(m) = {}
<1> DEFINE t == <<r>>
<1>1. t \in Seq(Results) /\ (\A k \in 1..Len(t) : t[k] = r) /\ 1 \in 1..Len(t)
  OBVIOUS
<1>2. m = User(t, FALSE)
  BY DEF Brings
<1> HIDE DEF t
<1>3. m \in Users /\ m \in Messages /\ ~IsApiError(m) /\ IsUser(m) /\ ~IsAssistant(m) /\ m.results = t
  BY <1>1, <1>2, UserIs
<1>4. Gives(m) = {t[k] : k \in 1..Len(t)} /\ Asks(m) = {}
  BY <1>3 DEF Gives, Asks
<1>5. {t[k] : k \in 1..Len(t)} = {r}
  BY <1>1
<1> QED BY <1>3, <1>4, <1>5

\* The first result of a call of the last response is told.
LEMMA OpenedResult ==
  ASSUME NEW nm, Normal(nm), NEW rid, NEW uses, Opened(nm, rid, uses),
         NEW r \in Results, r.id \in uses, \A q \in ResultsOf(nm) : q.id # r.id,
         NEW m, Brings(m, r), NEW p, p = Merged(nm, m)
  PROVE  Opened(p, rid, uses) /\ Told(p) = Told(nm) \cup {r}
<1>1. PICK s, rs : GroupTyped(s, rid, uses, rs) /\ Group(nm, s, rid, uses, rs)
  BY DEF Opened
<1>3. m \in Users /\ m \in Messages /\ ~IsApiError(m) /\ IsUser(m) /\ Gives(m) = {r}
  BY BringsOne
<1>4. Group(p, s, rid, uses, Append(rs, r)) /\ GroupTyped(s, rid, uses, Append(rs, r)) /\ p = Merged(nm, m)
  BY <1>1, GroupResult DEF Brings
<1>5. Normal(p)
  BY <1>3, <1>4, NormalMerged
<1>6. First(Append(rs, r), r)
  <2>1. rs \in Seq(Results) /\ <<r>> \in Seq(Results) /\ Append(rs, r) = rs \o <<r>>
    BY <1>1 DEF GroupTyped
  <2>2. \A k \in 1..Len(rs) : rs[k].id # r.id
    BY <1>1, GroupGives
  <2> DEFINE t == <<r>>
  <2>3. t \in Seq(Results) /\ t = <<r>> /\ Append(rs, r) = rs \o t
    BY <2>1
  <2> HIDE DEF t
  <2>4. First(rs \o t, r)
    BY <2>1, <2>2, <2>3, FirstJoined
  <2> QED BY <2>3, <2>4
<1>7. r \in Told(p)
  BY <1>4, <1>5, <1>6, GroupTold
<1>9. Told(nm) \subseteq Told(p) /\ \A q \in Told(p) : q \in Told(nm) \/ q \in Gives(m)
  BY <1>3, <1>4, ToldUser
<1>10. Told(p) = Told(nm) \cup {r}
  BY <1>3, <1>7, <1>9
<1> QED BY <1>4, <1>7, <1>10 DEF Opened

\* A response of a new id becomes the last one.
LEMMA OpenedStart ==
  ASSUME NEW nm, Normal(nm), NEW m \in Assistants, ~IsApiError(m),
         \A i \in 1..Len(nm) : IsAssistant(nm[i]) => nm[i].rid # m.rid
  PROVE  Opened(Merged(nm, m), m.rid, m.uses)
BY GroupStart DEF Opened

\* It stays so when more of it comes.
LEMMA OpenedMore ==
  ASSUME NEW nm, Normal(nm), NEW rid, NEW uses, Opened(nm, rid, uses),
         NEW m \in Assistants, ~IsApiError(m), m.rid = rid
  PROVE  Opened(Merged(nm, m), rid, uses \cup m.uses)
BY GroupMore DEF Opened

-----------------------------------------------------------------------------
(* The responses that the messages belong to                                 *)

Rids(ms) == {ms[i].rid : i \in {j \in 1..Len(ms) : IsAssistant(ms[j])}}

\* Merging a message adds at most its own response.
LEMMA RidsMerged ==
  ASSUME NEW out, Normal(out), NEW m \in Messages, ~IsApiError(m)
  PROVE  Rids(Merged(out, m)) \subseteq Rids(out) \cup (IF IsAssistant(m) THEN {m.rid} ELSE {})
<1> DEFINE p == Merged(out, m)
           n == Len(out)
           more == IF IsAssistant(m) THEN {m.rid} ELSE {}
<1>1. /\ out \in Seq(Messages) /\ n \in Nat /\ \A i \in 1..n : ~IsApiError(out[i])
  BY InSequence DEF Normal
<1>2. CASE p = Append(out, m)
  <2>1. /\ p \in Seq(Messages) /\ Len(p) = n + 1 /\ p[n + 1] = m /\ \A i \in 1..n : p[i] = out[i]
        /\ \A i \in 1..(n + 1) : i \in 1..n \/ i = n + 1
    BY <1>1, <1>2, Appended
  <2> HIDE DEF p
  <2>2. ASSUME NEW i \in 1..(n + 1), IsAssistant(p[i]) PROVE p[i].rid \in Rids(out) \cup more
    <3>1. CASE i = n + 1
      <4>1. p[i] = m /\ IsAssistant(m)
        BY <2>1, <2>2, <3>1
      <4>2. p[i].rid \in more
        BY <4>1
      <4> QED BY <4>2
    <3>2. CASE i \in 1..n
      BY <2>1, <2>2, <3>2 DEF Rids
    <3> QED BY <2>1, <3>1, <3>2
  <2>3. Rids(p) \subseteq Rids(out) \cup more
    BY <2>1, <2>2 DEF Rids
  <2> QED BY <2>3 DEF p
<1>3. ASSUME NEW k \in 1..n, NEW x, Changed(p, out, k, x),
             IsAssistant(x) => IsAssistant(out[k]) /\ x.rid = out[k].rid
      PROVE  Rids(p) \subseteq Rids(out)
  <2>1. /\ Len(p) = n /\ p[k] = x /\ \A i \in 1..n : i # k => p[i] = out[i]
    BY <1>3 DEF Changed
  <2> HIDE DEF p
  <2> QED BY <1>3, <2>1 DEF Rids
<1>4. CASE m \in Users
  <2>1. CASE /\ n > 0 /\ Changed(p, out, n, MergeUsers(out[n], m)) /\ MergeUsers(out[n], m) \in Users
    <3>1. ~IsAssistant(MergeUsers(out[n], m)) /\ n \in 1..n
      BY <1>1, <2>1, MessageIs DEF Messages
    <3> QED BY <1>3, <2>1, <3>1
  <2> QED BY <1>1, <1>2, <1>4, <2>1, MergedUser
<1>5. CASE m \in Assistants
  <2>1. ASSUME NEW k \in 1..n, IsAssistant(out[k]), out[k].rid = m.rid, NEW x \in Assistants,
               x = Assistant(m.rid, out[k].uses \cup m.uses, "none"), Changed(p, out, k, x)
        PROVE  Rids(p) \subseteq Rids(out)
    <3>1. x.rid = out[k].rid
      BY <2>1 DEF Assistant
    <3> QED BY <1>3, <2>1, <3>1
  <2>2. \/ p = Append(out, m)
        \/ \E k \in 1..n : \E x \in Assistants :
             /\ IsAssistant(out[k]) /\ out[k].rid = m.rid
             /\ x = Assistant(m.rid, out[k].uses \cup m.uses, "none")
             /\ Changed(p, out, k, x)
    BY <1>1, <1>5, MergedAssistant
  <2> QED BY <1>2, <2>1, <2>2
<1> QED BY <1>4, <1>5 DEF Messages

\* What is sent has no other responses than the conversation.
LEMMA RidsNormalized ==
  ASSUME NEW ms \in Seq(Messages)
  PROVE  Rids(Normalize(ms)) \subseteq Rids(ms)
<1>1. PICK F : Normalizes(F, Len(ms), ms) /\ Normalize(ms) = F[Len(ms)]
  BY NormalizeIs
<1>2. /\ F[0] = <<>>
      /\ \A n \in 1..Len(ms) : F[n] = IF IsApiError(ms[n]) THEN F[n - 1] ELSE Merged(F[n - 1], ms[n])
  BY <1>1, NormalizeSteps
<1>3. Len(ms) \in Nat /\ Len(ms) \in 0..Len(ms) /\ \A n \in 1..Len(ms) : ms[n] \in Messages
  BY InSequence
<1> DEFINE N == {n \in 0..Len(ms) : Normal(F[n]) /\ Rids(F[n]) \subseteq Rids(ms)}
<1>4. 0 \in N
  <2>1. <<>> \in Seq(Messages) /\ Len(<<>>) = 0
    OBVIOUS
  <2>2. Normal(<<>>) /\ Rids(<<>>) \subseteq Rids(ms)
    BY <2>1 DEF Normal, Rids
  <2> QED BY <1>2, <1>3, <2>2
<1>5. ASSUME NEW n \in 0..Len(ms), n + 1 \in 0..Len(ms), n \in N PROVE n + 1 \in N
  <2> DEFINE m == ms[n + 1]
  <2>1. /\ n + 1 \in 1..Len(ms) /\ (n + 1) - 1 = n /\ Normal(F[n]) /\ Rids(F[n]) \subseteq Rids(ms)
    BY <1>3, <1>5
  <2>2. m \in Messages /\ F[n + 1] = IF IsApiError(m) THEN F[n] ELSE Merged(F[n], m)
    BY <1>2, <1>3, <2>1
  <2>3. IsAssistant(m) => m.rid \in Rids(ms)
    BY <2>1 DEF Rids
  <2> HIDE DEF m
  <2>4. Normal(F[n + 1]) /\ Rids(F[n + 1]) \subseteq Rids(ms)
    <3>1. CASE IsApiError(m)
      BY <2>1, <2>2, <3>1
    <3>2. CASE ~IsApiError(m)
      <4>1. F[n + 1] = Merged(F[n], m)
        BY <2>2, <3>2
      <4>2. Normal(Merged(F[n], m))
        BY <2>1, <2>2, <3>2, NormalMerged
      <4>3. Rids(Merged(F[n], m)) \subseteq Rids(F[n]) \cup (IF IsAssistant(m) THEN {m.rid} ELSE {})
        BY <2>1, <2>2, <3>2, RidsMerged
      <4> QED BY <2>1, <2>3, <4>1, <4>2, <4>3
    <3> QED BY <3>1, <3>2
  <2> QED BY <1>5, <2>4
<1> HIDE DEF N
<1>6. 0..Len(ms) \subseteq N
  BY <1>3, <1>4, <1>5, GoesOnUpTo
<1> QED BY <1>1, <1>3, <1>6 DEF N

-----------------------------------------------------------------------------
(* What the API accepts                                                      *)

IdsIn(results) == {results[k].id : k \in 1..Len(results)}
Once(results) == \A k, l \in 1..Len(results) : results[k].id = results[l].id => k = l
AskedBefore(ms, i) == IF i > 1 THEN Asks(ms[i - 1]) ELSE {}

\* The message at i answers the one before it, and waits for no more than the next.
Fits(ms, i) ==
  IF IsUser(ms[i])
  THEN /\ i = 1 \/ IsAssistant(ms[i - 1])
       /\ IdsIn(ms[i].results) = AskedBefore(ms, i)
       /\ Once(ms[i].results)
  ELSE AskedBefore(ms, i) = {} /\ (Asks(ms[i]) # {} => i < Len(ms))

\* What the API accepts, message by message.
LEMMA WellFormedIs ==
  ASSUME NEW ms \in Seq(Messages)
  PROVE  WellFormed(ms) <=> Unique(ms) /\ \A i \in 1..Len(ms) : Fits(ms, i)
<1> DEFINE Disjoint(i) == \A j \in 1..Len(ms) : j # i /\ IsAssistant(ms[j]) => ms[j].uses \cap ms[i].uses = {}
           asked(i) == IF i > 1 /\ IsAssistant(ms[i - 1]) THEN ms[i - 1].uses ELSE {}
           W(i) == IF IsUser(ms[i])
                   THEN /\ i = 1 \/ IsAssistant(ms[i - 1])
                        /\ {r.id : r \in Range(ms[i].results)} = asked(i)
                        /\ \A k, l \in DOMAIN ms[i].results :
                             ms[i].results[k].id = ms[i].results[l].id => k = l
                   ELSE /\ asked(i) = {} /\ ms[i].uses # {} => i < Len(ms) /\ Disjoint(i)
<1>1. DOMAIN ms = 1..Len(ms) /\ \A i \in 1..Len(ms) : ms[i] \in Messages
  BY InSequence
<1>2. WellFormed(ms) <=> \A i \in 1..Len(ms) : IF IsUser(ms[i])
                   THEN /\ i = 1 \/ IsAssistant(ms[i - 1])
                        /\ {r.id : r \in Range(ms[i].results)} = asked(i)
                        /\ \A k, l \in DOMAIN ms[i].results :
                             ms[i].results[k].id = ms[i].results[l].id => k = l
                   ELSE asked(i) = {} /\ (ms[i].uses # {} => i < Len(ms)) /\ Disjoint(i)
  BY <1>1 DEF WellFormed
<1>3. ASSUME NEW i \in 1..Len(ms), IsUser(ms[i])
      PROVE  /\ {r.id : r \in Range(ms[i].results)} = IdsIn(ms[i].results)
             /\ Once(ms[i].results) <=>
                  \A k, l \in DOMAIN ms[i].results : ms[i].results[k].id = ms[i].results[l].id => k = l
  <2>1. DOMAIN ms[i].results = 1..Len(ms[i].results)
    BY <1>1, <1>3, MessageIs, InSequence
  <2> QED BY <2>1 DEF Range, IdsIn, Once
<1>4. \A i \in 1..Len(ms) : asked(i) = AskedBefore(ms, i)
  BY DEF AskedBefore, Asks
<1>5. \A i \in 1..Len(ms) : IsUser(ms[i]) <=> ~IsAssistant(ms[i])
  BY <1>1, MessageIs
<1>6. Unique(ms) <=> \A i \in 1..Len(ms) : IsAssistant(ms[i]) => Disjoint(i)
  BY DEF Unique, Asks
<1>7. \A i \in 1..Len(ms) : IsAssistant(ms[i]) => Asks(ms[i]) = ms[i].uses
  BY DEF Asks
<1> HIDE DEF asked, Disjoint
<1> QED BY <1>2, <1>3, <1>4, <1>5, <1>6, <1>7 DEF Fits

\* A message with new calls at the end.
LEMMA UniqueAppended ==
  ASSUME NEW ms \in Seq(Messages), Unique(ms), NEW m \in Messages, Asks(m) \cap Uses(ms) = {}
  PROVE  Unique(Append(ms, m))
<1> DEFINE q == Append(ms, m)
           n == Len(ms)
<1>1. /\ n \in Nat /\ Len(q) = n + 1 /\ q[n + 1] = m /\ \A i \in 1..n : q[i] = ms[i]
      /\ \A i \in 1..(n + 1) : i \in 1..n \/ i = n + 1
  BY Appended, InSequence
<1>2. \A i \in 1..n : Asks(ms[i]) \subseteq Uses(ms)
  BY CallsOf
<1>3. \A i \in 1..n : Asks(ms[i]) \cap Asks(m) = {}
  BY <1>2
<1> HIDE DEF q
<1>4. ASSUME NEW i \in 1..(n + 1), NEW j \in 1..(n + 1), i # j PROVE Asks(q[i]) \cap Asks(q[j]) = {}
  <2>1. CASE i \in 1..n /\ j \in 1..n
    BY <1>1, <1>4, <2>1 DEF Unique
  <2>2. CASE i = n + 1
    <3>1. j \in 1..n
      BY <1>1, <1>4, <2>2
    <3> QED BY <1>1, <1>3, <2>2, <3>1
  <2>3. CASE j = n + 1
    <3>1. i \in 1..n
      BY <1>1, <1>4, <2>3
    <3> QED BY <1>1, <1>3, <2>3, <3>1
  <2> QED BY <1>1, <2>1, <2>2, <2>3
<1>5. Unique(q)
  BY <1>1, <1>4 DEF Unique
<1> QED BY <1>5 DEF q

\* What fits does so whatever comes after it.
LEMMA FitsStill ==
  ASSUME NEW ms \in Seq(Messages), NEW q \in Seq(Messages), Len(ms) < Len(q),
         \A i \in 1..Len(ms) : q[i] = ms[i], NEW i \in 1..Len(ms), Fits(ms, i)
  PROVE  Fits(q, i)
<1>1. Len(ms) \in Nat /\ Len(q) \in Nat /\ i < Len(q)
  BY InSequence
<1>2. q[i] = ms[i] /\ (i > 1 => i - 1 \in 1..Len(ms) /\ q[i - 1] = ms[i - 1])
  BY <1>1
<1>3. AskedBefore(q, i) = AskedBefore(ms, i) /\ (i = 1 \/ i > 1)
  BY <1>1, <1>2 DEF AskedBefore
<1> QED BY <1>1, <1>2, <1>3 DEF Fits

\* A message without calls can follow.
LEMMA WellFormedSaid ==
  ASSUME NEW ms \in Seq(Messages), WellFormed(ms), NEW a \in Assistants, a.uses = {}
  PROVE  WellFormed(Append(ms, a))
<1> DEFINE q == Append(ms, a)
           n == Len(ms)
<1>1. a \in Messages /\ IsAssistant(a) /\ ~IsUser(a) /\ Asks(a) = {}
  BY MessageIs DEF Messages, Asks
<1>2. /\ n \in Nat /\ q \in Seq(Messages) /\ Len(q) = n + 1 /\ q[n + 1] = a /\ \A i \in 1..n : q[i] = ms[i]
      /\ \A i \in 1..(n + 1) : i \in 1..n \/ i = n + 1
  BY <1>1, Appended, InSequence
<1>3. Unique(ms) /\ \A i \in 1..n : Fits(ms, i)
  BY WellFormedIs
<1>4. Unique(q)
  BY <1>1, <1>3, UniqueAppended
<1> HIDE DEF q, n
<1>5. \A i \in 1..n : Fits(q, i)
  BY <1>2, <1>3, FitsStill DEF n
<1>6. Fits(q, n + 1)
  <2>1. AskedBefore(q, n + 1) = {}
    <3>1. CASE n = 0
      BY <3>1 DEF AskedBefore
    <3>2. CASE n > 0
      <4>1. n \in 1..n /\ Fits(ms, n) /\ (n + 1) - 1 = n /\ n + 1 > 1 /\ ~(n < n)
        BY <1>2, <1>3, <3>2
      <4>2. Asks(ms[n]) = {}
        <5>1. ms[n] \in Messages
          BY <4>1, InSequence DEF n
        <5> QED BY <4>1, <5>1, MessageIs DEF Fits, n, Asks
      <4> QED BY <1>2, <4>1, <4>2 DEF AskedBefore
    <3> QED BY <1>2, <3>1, <3>2
  <2> QED BY <1>1, <1>2, <2>1 DEF Fits
<1>7. WellFormed(q)
  BY <1>2, <1>4, <1>5, <1>6, WellFormedIs
<1> QED BY <1>7 DEF q

\* So can one with new calls, and one that answers them.
LEMMA WellFormedAsked ==
  ASSUME NEW ms \in Seq(Messages), WellFormed(ms), NEW a \in Assistants, a.uses \cap Uses(ms) = {},
         NEW u \in Users, IdsIn(u.results) = a.uses, Once(u.results)
  PROVE  WellFormed(Append(Append(ms, a), u))
<1> DEFINE t == Append(ms, a)
           q == Append(t, u)
           n == Len(ms)
<1>1. /\ a \in Messages /\ IsAssistant(a) /\ ~IsUser(a) /\ Asks(a) = a.uses
      /\ u \in Messages /\ IsUser(u) /\ Asks(u) = {}
  BY MessageIs DEF Messages, Asks
<1>2. /\ n \in Nat /\ t \in Seq(Messages) /\ Len(t) = n + 1 /\ t[n + 1] = a /\ \A i \in 1..n : t[i] = ms[i]
  BY <1>1, Appended, InSequence
<1>3. Unique(ms) /\ \A i \in 1..n : Fits(ms, i)
  BY WellFormedIs
<1>4. Unique(t)
  BY <1>1, <1>3, UniqueAppended
<1> HIDE DEF t
<1>5. Unique(q)
  BY <1>1, <1>2, <1>4, UniqueAppended
<1>6. /\ q \in Seq(Messages) /\ Len(q) = (n + 1) + 1 /\ q[(n + 1) + 1] = u /\ q[n + 1] = a
      /\ \A i \in 1..n : q[i] = ms[i]
  <2>1. /\ q \in Seq(Messages) /\ Len(q) = (n + 1) + 1 /\ q[(n + 1) + 1] = u
        /\ \A i \in 1..(n + 1) : q[i] = t[i]
    BY <1>1, <1>2, Appended
  <2>2. n + 1 \in 1..(n + 1) /\ \A i \in 1..n : i \in 1..(n + 1)
    BY <1>2
  <2> HIDE DEF q, n
  <2> QED BY <1>2, <2>1, <2>2
<1> HIDE DEF q, n
<1>7. \A i \in 1..n : Fits(q, i)
  <2>1. n < Len(q)
    BY <1>2, <1>6
  <2> QED BY <1>3, <1>6, <2>1, FitsStill DEF n
<1>8. Fits(q, n + 1)
  <2>1. AskedBefore(q, n + 1) = {}
    <3>1. CASE n = 0
      BY <3>1 DEF AskedBefore
    <3>2. CASE n > 0
      <4>1. n \in 1..n /\ Fits(ms, n) /\ (n + 1) - 1 = n /\ n + 1 > 1 /\ ~(n < n)
        BY <1>2, <1>3, <3>2
      <4>2. Asks(ms[n]) = {}
        <5>1. ms[n] \in Messages
          BY <4>1, InSequence DEF n
        <5> QED BY <4>1, <5>1, MessageIs DEF Fits, n, Asks
      <4> QED BY <1>6, <4>1, <4>2 DEF AskedBefore
    <3> QED BY <1>2, <3>1, <3>2
  <2>2. n + 1 < Len(q)
    BY <1>2, <1>6
  <2> QED BY <1>1, <1>6, <2>1, <2>2 DEF Fits
<1>9. Fits(q, (n + 1) + 1)
  <2>1. (n + 1) + 1 > 1 /\ ((n + 1) + 1) - 1 = n + 1
    BY <1>2
  <2>2. AskedBefore(q, (n + 1) + 1) = a.uses /\ q[((n + 1) + 1) - 1] = a
    BY <1>1, <1>6, <2>1 DEF AskedBefore
  <2> QED BY <1>1, <1>6, <2>2 DEF Fits
<1>10. \A i \in 1..Len(q) : i \in 1..n \/ i = n + 1 \/ i = (n + 1) + 1
  BY <1>2, <1>6
<1>11. WellFormed(q)
  BY <1>5, <1>6, <1>7, <1>8, <1>9, <1>10, WellFormedIs
<1> QED BY <1>11 DEF q, t

-----------------------------------------------------------------------------
(* The answers that ensureToolResultPairing() makes                          *)

\* One placeholder for each call.
LEMMA PlaceholdersAre ==
  ASSUME NEW ids \in CallSets, NEW ps, ps = Placeholders(ids)
  PROVE  /\ ps \in Seq(Results) /\ Once(ps) /\ IdsIn(ps) = ids
         /\ \A k \in 1..Len(ps) : ps[k] = Result(ps[k].id, FALSE)
<1> DEFINE f == [id \in ids |-> Result(id, FALSE)]
           S == {Result(id, FALSE) : id \in ids}
<1>1. ids \subseteq Nat /\ IsFiniteSet(ids) /\ \A id \in ids : Result(id, FALSE) \in Results
  BY DEF CallSets, Results, Result
<1>2. IsFiniteSet(S) /\ S \subseteq Results
  <2>1. f \in Surjection(ids, S)
    BY DEF Surjection
  <2>2. IsFiniteSet(S)
    BY <1>1, <2>1, FS_Surjection
  <2> QED BY <1>1, <2>2
<1>3. \A r \in S : r.id \in ids /\ r = Result(r.id, FALSE)
  BY DEF Result
<1>4. \A id \in ids : Result(id, FALSE) \in S /\ Result(id, FALSE).id = id
  BY DEF Result
<1>5. ps = SetToSeq(S)
  BY DEF Placeholders
<1> HIDE DEF S
<1>6. /\ ps \in Seq(S) /\ \A k, l \in 1..Len(ps) : ps[k] = ps[l] => k = l
      /\ \A x \in S : \E k \in 1..Len(ps) : ps[k] = x
  BY <1>2, <1>5, SetInOrder
<1>7. \A k \in 1..Len(ps) : ps[k] \in S
  BY <1>6, InSequence
<1>8. ps \in Seq(Results)
  <2>1. Len(ps) \in Nat /\ DOMAIN ps = 1..Len(ps)
    BY <1>6, InSequence
  <2> QED BY <1>2, <1>6, <1>7, <2>1
<1>9. Once(ps)
  <2> SUFFICES ASSUME NEW k \in 1..Len(ps), NEW l \in 1..Len(ps), ps[k].id = ps[l].id PROVE k = l
    BY DEF Once
  <2>1. ps[k] = Result(ps[k].id, FALSE) /\ ps[l] = Result(ps[l].id, FALSE)
    BY <1>3, <1>7
  <2>2. ps[k] = ps[l]
    BY <2>1
  <2> QED BY <1>6, <2>2
<1>10. IdsIn(ps) = ids
  <2>1. \A k \in 1..Len(ps) : ps[k].id \in ids
    BY <1>3, <1>7
  <2>2. ASSUME NEW id \in ids PROVE \E k \in 1..Len(ps) : ps[k].id = id
    <3>1. PICK k \in 1..Len(ps) : ps[k] = Result(id, FALSE)
      BY <1>4, <1>6
    <3>2. ps[k].id = id
      BY <1>4, <3>1
    <3> QED BY <3>2
  <2> QED BY <2>1, <2>2 DEF IdsIn
<1>11. \A k \in 1..Len(ps) : ps[k] = Result(ps[k].id, FALSE)
  BY <1>3, <1>7
<1> QED BY <1>8, <1>9, <1>10, <1>11

\* The results as a set.
LEMMA PlaceholdersListed ==
  ASSUME NEW ids \in CallSets, NEW ps, ps = Placeholders(ids)
  PROVE  {ps[k] : k \in 1..Len(ps)} = {Result(id, FALSE) : id \in ids}
<1>1. IdsIn(ps) = ids /\ \A k \in 1..Len(ps) : ps[k] = Result(ps[k].id, FALSE)
  BY PlaceholdersAre
<1>2. ASSUME NEW k \in 1..Len(ps) PROVE ps[k] \in {Result(id, FALSE) : id \in ids}
  BY <1>1 DEF IdsIn
<1>3. ASSUME NEW id \in ids PROVE Result(id, FALSE) \in {ps[k] : k \in 1..Len(ps)}
  <2>1. PICK k \in 1..Len(ps) : ps[k].id = id
    BY <1>1 DEF IdsIn
  <2>2. ps[k] = Result(id, FALSE)
    BY <1>1, <2>1
  <2> QED BY <2>2
<1> QED BY <1>2, <1>3

\* Of the results, the first for each of these calls.
LEMMA KeptAre ==
  ASSUME NEW results \in Seq(Results), NEW ids, NEW ks, ks = Kept(results, ids)
  PROVE  /\ ks \in Seq(Results) /\ Once(ks)
         /\ {ks[a] : a \in 1..Len(ks)} = {r \in Results : r.id \in ids /\ First(results, r)}
<1> DEFINE n == Len(results)
           all == [k \in DOMAIN results |-> k]
           S == FirstOf(results, ids)
           at == Selected(all, S)
<1>1. n \in Nat /\ DOMAIN results = 1..n /\ \A k \in 1..n : results[k] \in Results
  BY InSequence
<1>2. all \in Seq(1..n) /\ Len(all) = n /\ \A k \in 1..n : all[k] = k
  BY <1>1
<1>3. \A k \in 1..n : k \in S <=> results[k].id \in ids /\ \A l \in 1..(k - 1) : results[l].id # results[k].id
  BY <1>1 DEF FirstOf
<1> HIDE DEF all, S
<1>4. /\ at \in Seq(1..n)
      /\ \A a \in 1..Len(at) : at[a] \in S
      /\ \A i \in 1..n : i \in S => \E a \in 1..Len(at) : at[a] = i
  <2>1. /\ at \in Seq(1..n)
        /\ \A a \in 1..Len(at) : at[a] \in S /\ \E i \in 1..Len(all) : all[i] = at[a]
        /\ \A i \in 1..Len(all) : all[i] \in S => \E a \in 1..Len(at) : at[a] = all[i]
    BY <1>2, SelectedElements
  <2> HIDE DEF at
  <2> QED BY <1>2, <2>1
<1>5. ASSUME NEW a \in 1..Len(at), NEW b \in 1..Len(at), a < b PROVE at[a] < at[b]
  <2>1. \E i, j \in 1..Len(all) : i < j /\ all[i] = at[a] /\ all[j] = at[b]
    BY <1>2, <1>5, SelectedOrder
  <2> HIDE DEF at
  <2> QED BY <1>2, <2>1
<1> HIDE DEF at
<1>6. ks = [a \in 1..Len(at) |-> results[at[a]]]
  <2>1. DOMAIN at = 1..Len(at)
    BY <1>4, InSequence
  <2> QED BY <2>1 DEF Kept, at, all, S
<1>7. Len(at) \in Nat /\ \A a \in 1..Len(at) : at[a] \in 1..n
  BY <1>4, InSequence
<1>8. ks \in Seq(Results) /\ Len(ks) = Len(at) /\ \A a \in 1..Len(at) : ks[a] = results[at[a]]
  BY <1>1, <1>6, <1>7
<1> HIDE DEF n
<1>9. ASSUME NEW a \in 1..Len(at), NEW b \in 1..Len(at), a < b PROVE ks[a].id # ks[b].id
  <2>1. at[a] < at[b] /\ at[a] \in 1..n /\ at[b] \in 1..n /\ at[b] \in S
    BY <1>4, <1>5, <1>7, <1>9
  <2>2. at[a] \in 1..(at[b] - 1)
    BY <1>1, <2>1
  <2>3. results[at[a]].id # results[at[b]].id
    BY <1>3, <2>1, <2>2
  <2> QED BY <1>8, <2>3
<1>10. Once(ks)
  <2> SUFFICES ASSUME NEW a \in 1..Len(at), NEW b \in 1..Len(at), ks[a].id = ks[b].id PROVE a = b
    BY <1>8 DEF Once
  <2>1. ~(a < b) /\ ~(b < a)
    BY <1>9
  <2> QED BY <1>7, <2>1
<1>11. ASSUME NEW a \in 1..Len(at) PROVE ks[a] \in Results /\ ks[a].id \in ids /\ First(results, ks[a])
  <2>1. at[a] \in S /\ at[a] \in 1..n /\ ks[a] = results[at[a]]
    BY <1>4, <1>7, <1>8
  <2>2. ks[a].id \in ids /\ \A l \in 1..(at[a] - 1) : results[l].id # ks[a].id
    BY <1>3, <2>1
  <2>3. ks[a] \in Results
    BY <1>1, <2>1
  <2> QED BY <2>1, <2>2, <2>3 DEF First, n
<1>12. ASSUME NEW r, r.id \in ids, First(results, r) PROVE \E a \in 1..Len(at) : ks[a] = r
  <2>1. PICK k \in 1..n : results[k] = r /\ \A l \in 1..(k - 1) : results[l].id # r.id
    BY <1>12 DEF First, n
  <2>2. k \in S
    BY <1>3, <1>12, <2>1
  <2>3. PICK a \in 1..Len(at) : at[a] = k
    BY <1>4, <2>2
  <2> QED BY <1>8, <2>1, <2>3
<1>13. {ks[a] : a \in 1..Len(ks)} = {r \in Results : r.id \in ids /\ First(results, r)}
  <2>1. \A x \in {ks[a] : a \in 1..Len(ks)} : x \in Results /\ x.id \in ids /\ First(results, x)
    BY <1>8, <1>11
  <2>2. \A r : r.id \in ids /\ First(results, r) => r \in {ks[a] : a \in 1..Len(ks)}
    BY <1>8, <1>12
  <2> QED BY <2>1, <2>2
<1> QED BY <1>8, <1>10, <1>13

\* A result with an id has a first one with it.
LEMMA FirstWith ==
  ASSUME NEW results \in Seq(Results), NEW k \in 1..Len(results)
  PROVE  \E r \in Results : r.id = results[k].id /\ First(results, r)
<1> DEFINE n == Len(results)
           N == {l \in 1..n : results[l].id = results[k].id}
<1>1. N \in SUBSET Nat /\ k \in N
  OBVIOUS
<1>2. PICK l \in N : \A j \in N : l <= j
  BY <1>1, Least
<1>3. l \in 1..n /\ results[l].id = results[k].id /\ results[l] \in Results
  BY <1>2, InSequence
<1>4. ASSUME NEW j \in 1..(l - 1) PROVE results[j].id # results[l].id
  <2>1. j \in 1..n /\ ~(l <= j)
    BY <1>3
  <2>2. j \notin N
    BY <1>2, <2>1
  <2> QED BY <1>3, <2>1, <2>2
<1>5. First(results, results[l])
  BY <1>3, <1>4 DEF First
<1> QED BY <1>3, <1>5

\* What is left of the next message answers each call once: with its first result or a placeholder.
LEMMA AnsweringIs ==
  ASSUME NEW next \in Users, NEW ids \in CallSets, NEW u, u = Answering(next, ids)
  PROVE  /\ u \in Users /\ IdsIn(u.results) = ids /\ Once(u.results)
         /\ Gives(u) = {r \in Results : r.id \in ids /\ First(next.results, r)}
                         \cup {Result(id, FALSE) : id \in ids \ IdsIn(next.results)}
<1>1. next.results \in Seq(Results) /\ next.text \in BOOLEAN
  BY MessageIs DEF Messages, Users, IsUser
<1> DEFINE results == next.results
           missing == ids \ IdsIn(results)
           ps == Placeholders(missing)
           ks == Kept(results, ids)
           w == ps \o ks
<1>2. missing = ids \ {r.id : r \in Range(results)}
  <2>1. DOMAIN results = 1..Len(results)
    BY <1>1, InSequence
  <2> QED BY <2>1 DEF IdsIn, Range
<1>3. missing \in CallSets /\ ids \subseteq Nat
  BY FS_Subset DEF CallSets
<1> HIDE DEF missing
<1>4. /\ ps \in Seq(Results) /\ Once(ps) /\ IdsIn(ps) = missing
      /\ {ps[k] : k \in 1..Len(ps)} = {Result(id, FALSE) : id \in missing}
  <2>1. /\ ps \in Seq(Results) /\ Once(ps) /\ IdsIn(ps) = missing
    BY <1>3, PlaceholdersAre
  <2>2. {ps[k] : k \in 1..Len(ps)} = {Result(id, FALSE) : id \in missing}
    BY <1>3, PlaceholdersListed, Zenon
  <2> QED BY <2>1, <2>2
<1>5. /\ ks \in Seq(Results) /\ Once(ks)
      /\ {ks[a] : a \in 1..Len(ks)} = {r \in Results : r.id \in ids /\ First(results, r)}
  BY <1>1, KeptAre
<1>6. u = User(w, next.text \/ w = <<>>)
  BY <1>2 DEF Answering
<1> HIDE DEF ps, ks
<1> DEFINE p == Len(ps)
           q == Len(ks)
<1>7. /\ w \in Seq(Results) /\ Len(w) = p + q /\ p \in Nat /\ q \in Nat
      /\ \A i \in 1..p : w[i] = ps[i]
      /\ \A i \in 1..q : w[p + i] = ks[i]
      /\ \A i \in 1..(p + q) : i \in 1..p \/ i - p \in 1..q
  BY <1>4, <1>5, Joined, InSequence
<1>8. (next.text \/ w = <<>>) \in BOOLEAN
  BY <1>1
<1> HIDE DEF w, p, q
<1>9. u \in Users /\ u.results = w /\ IsUser(u)
  BY <1>6, <1>7, <1>8, UserIs
<1>10. {w[i] : i \in 1..(p + q)} = {ps[k] : k \in 1..p} \cup {ks[a] : a \in 1..q}
  <2>1. \A i \in 1..(p + q) : w[i] \in {ps[k] : k \in 1..p} \cup {ks[a] : a \in 1..q}
    <3> SUFFICES ASSUME NEW i \in 1..(p + q) PROVE w[i] \in {ps[k] : k \in 1..p} \cup {ks[a] : a \in 1..q}
      OBVIOUS
    <3>1. CASE i \in 1..p
      BY <1>7, <3>1
    <3>2. CASE i - p \in 1..q
      <4>1. w[p + (i - p)] = ks[i - p] /\ p + (i - p) = i
        BY <1>7, <3>2
      <4> QED BY <3>2, <4>1
    <3> QED BY <1>7, <3>1, <3>2
  <2>2. \A i \in 1..p : i \in 1..(p + q) /\ w[i] = ps[i]
    BY <1>7
  <2>3. \A i \in 1..q : p + i \in 1..(p + q) /\ w[p + i] = ks[i]
    BY <1>7
  <2> QED BY <2>1, <2>2, <2>3
<1>11. Gives(u) = {r \in Results : r.id \in ids /\ First(results, r)}
                    \cup {Result(id, FALSE) : id \in missing}
  <2>1. Gives(u) = {w[i] : i \in 1..(p + q)}
    BY <1>7, <1>9 DEF Gives
  <2>2. Gives(u) = {ps[k] : k \in 1..p} \cup {ks[a] : a \in 1..q}
    BY <1>10, <2>1
  <2> QED BY <1>4, <1>5, <2>2, Zenon DEF p, q
<1>12. \A k \in 1..p : ps[k].id \in missing
  BY <1>4 DEF IdsIn, p
<1>13. \A a \in 1..q : ks[a].id \in ids /\ ks[a].id \in IdsIn(results)
  <2> SUFFICES ASSUME NEW a \in 1..q PROVE ks[a].id \in ids /\ ks[a].id \in IdsIn(results)
    OBVIOUS
  <2>1. ks[a].id \in ids /\ First(results, ks[a])
    BY <1>5 DEF q
  <2> QED BY <2>1 DEF First, IdsIn
<1>14. Once(w)
  <2> SUFFICES ASSUME NEW i \in 1..(p + q), NEW j \in 1..(p + q), w[i].id = w[j].id PROVE i = j
    BY <1>7 DEF Once
  <2>1. CASE i \in 1..p /\ j \in 1..p
    BY <1>4, <1>7, <2>1 DEF Once, p
  <2>2. CASE i - p \in 1..q /\ j - p \in 1..q
    <3>1. w[p + (i - p)] = ks[i - p] /\ p + (i - p) = i /\ w[p + (j - p)] = ks[j - p] /\ p + (j - p) = j
      BY <1>7, <2>2
    <3>2. i - p = j - p
      BY <1>5, <2>2, <3>1 DEF Once, q
    <3> QED BY <1>7, <3>2
  <2>3. CASE i \in 1..p /\ j - p \in 1..q
    <3>1. w[p + (j - p)] = ks[j - p] /\ p + (j - p) = j /\ w[i] = ps[i]
      BY <1>7, <2>3
    <3> QED BY <1>12, <1>13, <2>3, <3>1 DEF missing
  <2>4. CASE j \in 1..p /\ i - p \in 1..q
    <3>1. w[p + (i - p)] = ks[i - p] /\ p + (i - p) = i /\ w[j] = ps[j]
      BY <1>7, <2>4
    <3> QED BY <1>12, <1>13, <2>4, <3>1 DEF missing
  <2> QED BY <1>7, <2>1, <2>2, <2>3, <2>4
<1>15. IdsIn(w) = ids
  <2>1. IdsIn(w) = {r.id : r \in {w[i] : i \in 1..(p + q)}}
    BY <1>7 DEF IdsIn
  <2>2. {w[i] : i \in 1..(p + q)} = {r \in Results : r.id \in ids /\ First(results, r)}
                    \cup {Result(id, FALSE) : id \in missing}
    BY <1>4, <1>5, <1>10 DEF p, q
  <2>3. ASSUME NEW id \in ids PROVE \E r \in {w[i] : i \in 1..(p + q)} : r.id = id
    <3>1. CASE id \in missing
      <4>1. Result(id, FALSE) \in {w[i] : i \in 1..(p + q)}
        BY <2>2, <3>1
      <4>2. Result(id, FALSE).id = id
        BY DEF Result
      <4> QED BY <4>1, <4>2
    <3>2. CASE id \notin missing
      <4>1. PICK k \in 1..Len(results) : results[k].id = id
        BY <2>3, <3>2 DEF missing, IdsIn
      <4>2. \E r \in Results : r.id = id /\ First(results, r)
        BY <1>1, <4>1, FirstWith
      <4> QED BY <2>2, <4>2
    <3> QED BY <3>1, <3>2
  <2>4. \A r \in {w[i] : i \in 1..(p + q)} : r.id \in ids
    BY <2>2 DEF Result, missing
  <2> QED BY <2>1, <2>3, <2>4
<1> QED BY <1>9, <1>11, <1>14, <1>15 DEF missing

-----------------------------------------------------------------------------
(* ensureToolResultPairing()                                                 *)

\* F is what Pair defines, for the first n messages.
Pairs(F, n, ms) ==
  F = [i \in 0..n |-> IF i = 0 THEN [out |-> <<>>, seen |-> {}, skip |-> 0] ELSE Paired(ms, F[i - 1], i)]

\* What is defined for n messages is so for one more.
LEMMA PairsMore ==
  ASSUME NEW n \in Nat, NEW ms, NEW F, Pairs(F, n, ms)
  PROVE  \E G : Pairs(G, n + 1, ms)
<1> DEFINE last == Paired(ms, F[n], n + 1)
           G == [i \in 0..(n + 1) |-> IF i = n + 1 THEN last ELSE F[i]]
<1>1. DOMAIN F = 0..n
  BY DEF Pairs
<1>2. \A i \in 0..(n + 1) : i = n + 1 \/ i \in 0..n
  OBVIOUS
<1>3. ASSUME NEW i \in 0..(n + 1)
      PROVE  G[i] = IF i = 0 THEN [out |-> <<>>, seen |-> {}, skip |-> 0] ELSE Paired(ms, G[i - 1], i)
  <2>1. CASE i = n + 1
    <3>1. G[i] = last /\ i # 0 /\ G[i - 1] = F[n] /\ i - 1 = n
      BY <2>1
    <3> HIDE DEF G
    <3> QED BY <2>1, <3>1
  <2>2. CASE i \in 0..n
    <3>1. G[i] = F[i] /\ (i # 0 => i - 1 \in 0..n /\ G[i - 1] = F[i - 1])
      BY <2>2
    <3>2. F[i] = IF i = 0 THEN [out |-> <<>>, seen |-> {}, skip |-> 0] ELSE Paired(ms, F[i - 1], i)
      BY <2>2 DEF Pairs
    <3> HIDE DEF G
    <3> QED BY <3>1, <3>2
  <2> QED BY <1>2, <2>1, <2>2
<1>4. G = [i \in 0..(n + 1) |-> G[i]]
  OBVIOUS
<1> HIDE DEF G
<1>5. Pairs(G, n + 1, ms)
  BY <1>3, <1>4 DEF Pairs
<1> QED BY <1>5

\* So it is for all of them, by induction over their number.
LEMMA PairIs ==
  ASSUME NEW ms \in Seq(Messages)
  PROVE  \E F : /\ Pair(ms) = F[Len(ms)].out
                /\ F[0] = [out |-> <<>>, seen |-> {}, skip |-> 0]
                /\ \A n \in 1..Len(ms) : F[n] = Paired(ms, F[n - 1], n)
<1> DEFINE N == {n \in Nat : \E F : Pairs(F, n, ms)}
<1>1. 0 \in N
  <2>1. Pairs([i \in 0..0 |-> [out |-> <<>>, seen |-> {}, skip |-> 0]], 0, ms)
    BY DEF Pairs
  <2> QED BY <2>1
<1>2. \A n \in 0..Len(ms) : n + 1 \in 0..Len(ms) /\ n \in N => n + 1 \in N
  BY PairsMore
<1>3. /\ Len(ms) \in Nat /\ Len(ms) \in 0..Len(ms) /\ 0 \in 0..Len(ms)
      /\ \A n \in 1..Len(ms) : n \in 0..Len(ms) /\ n # 0
  OBVIOUS
<1> HIDE DEF N
<1>4. 0..Len(ms) \subseteq N
  BY <1>1, <1>2, <1>3, GoesOnUpTo
<1>5. \E F : Pairs(F, Len(ms), ms)
  BY <1>3, <1>4 DEF N
<1> DEFINE C == CHOOSE F : Pairs(F, Len(ms), ms)
<1>6. Pairs(C, Len(ms), ms)
  BY <1>5
<1>7. Pair(ms) = C[Len(ms)].out
  BY DEF Pair, Pairs
<1> HIDE DEF C
<1>8. \A n \in 0..Len(ms) : C[n] = IF n = 0 THEN [out |-> <<>>, seen |-> {}, skip |-> 0]
                                   ELSE Paired(ms, C[n - 1], n)
  BY <1>6 DEF Pairs
<1> QED BY <1>3, <1>7, <1>8

\* What comes of the message at j: nothing of one of the user alone.
AnswersOf(ms, j) ==
  IF IsUser(ms[j]) THEN {}
  ELSE IF j < Len(ms) /\ IsUser(ms[j + 1])
       THEN {r \in Results : r.id \in ms[j].uses /\ First(ms[j + 1].results, r)}
              \cup {Result(id, FALSE) : id \in ms[j].uses \ IdsIn(ms[j + 1].results)}
       ELSE {Result(id, FALSE) : id \in ms[j].uses}

AskedUpTo(ms, n) == UNION {Asks(ms[i]) : i \in 1..n}
AnsweredUpTo(ms, n) == UNION {AnswersOf(ms, i) : i \in 1..n}

\* A message of placeholders answers each call once.
LEMMA PlaceholdersGiven ==
  ASSUME NEW ids \in CallSets
  PROVE  LET u == User(Placeholders(ids), FALSE) IN
         /\ u \in Users /\ IdsIn(u.results) = ids /\ Once(u.results)
         /\ Gives(u) = {Result(id, FALSE) : id \in ids}
<1> DEFINE ps == Placeholders(ids)
           u == User(ps, FALSE)
<1>0. ps = Placeholders(ids)
  OBVIOUS
<1> HIDE DEF ps
<1>1. ps \in Seq(Results) /\ Once(ps) /\ IdsIn(ps) = ids
  BY <1>0, PlaceholdersAre
<1>2. {ps[k] : k \in 1..Len(ps)} = {Result(id, FALSE) : id \in ids}
  BY <1>0, PlaceholdersListed, Zenon
<1>3. u \in Users /\ u.results = ps /\ IsUser(u)
  BY <1>1, UserIs
<1>4. Gives(u) = {ps[k] : k \in 1..Len(ps)}
  BY <1>3 DEF Gives
<1> QED BY <1>1, <1>2, <1>3, <1>4 DEF ps

\* The state of the loop is made of its fields.
LEMMA StateIs ==
  ASSUME NEW q, NEW a, NEW b, NEW c, q = [out |-> a, seen |-> b, skip |-> c]
  PROVE  /\ q.out = a /\ q.seen = b /\ q.skip = c
         /\ q = [out |-> q.out, seen |-> q.seen, skip |-> q.skip]
OBVIOUS

\* A change of what it has put out.
LEMMA StateOut ==
  ASSUME NEW q, NEW a, NEW b, NEW c, q = [out |-> a, seen |-> b, skip |-> c], NEW x,
         NEW p, p = [q EXCEPT !.out = x]
  PROVE  p = [out |-> x, seen |-> b, skip |-> c]
OBVIOUS

\* The state of the loop after n messages.
PairedUpTo(ms, acc, n) ==
  /\ acc = [out |-> acc.out, seen |-> acc.seen, skip |-> acc.skip]
  /\ acc.out \in Seq(Messages) /\ WellFormed(acc.out)
  /\ n = 0 => acc.out = <<>>
  /\ acc.seen = AskedUpTo(ms, n) /\ Uses(acc.out) = AskedUpTo(ms, n)
  /\ acc.skip \in 0..(n + 1)
  /\ acc.skip = n + 1 <=> n > 0 /\ n < Len(ms) /\ IsAssistant(ms[n]) /\ IsUser(ms[n + 1])
  /\ Unique(ms) => ResultsOf(acc.out) = AnsweredUpTo(ms, n)

\* What one message more asks and answers.
LEMMA UpToMore ==
  ASSUME NEW ms, NEW n \in Nat
  PROVE  /\ AskedUpTo(ms, n + 1) = AskedUpTo(ms, n) \cup Asks(ms[n + 1])
         /\ AnsweredUpTo(ms, n + 1) = AnsweredUpTo(ms, n) \cup AnswersOf(ms, n + 1)
<1>1. 1..(n + 1) = (1..n) \cup {n + 1}
  OBVIOUS
<1> QED BY <1>1 DEF AskedUpTo, AnsweredUpTo

\* A message of the assistant with other calls is still one.
LEMMA FewerUses ==
  ASSUME NEW rid, NEW ids, NEW m, m = Assistant(rid, ids, "none"), NEW less
  PROVE  [m EXCEPT !.uses = less] = Assistant(rid, less, "none")
<1>1. m = [role |-> "assistant", rid |-> rid, uses |-> ids, error |-> "none"]
  BY DEF Assistant
<1>2. [m EXCEPT !.uses = less] \in [role : {"assistant"}, rid : {rid}, uses : {less}, error : {"none"}]
  BY <1>1
<1> QED BY <1>2, RecordIs DEF Assistant

\* One turn of the loop.
LEMMA PairedMore ==
  ASSUME NEW ms, Normal(ms), NEW n \in 0..(Len(ms) - 1), NEW acc, PairedUpTo(ms, acc, n)
  PROVE  PairedUpTo(ms, Paired(ms, acc, n + 1), n + 1)
<1> DEFINE i == n + 1
           m == ms[i]
           q == Paired(ms, acc, i)
           out == acc.out
<1>1. /\ n \in Nat /\ ms \in Seq(Messages) /\ Len(ms) \in Nat /\ i \in 1..Len(ms) /\ m \in Messages
      /\ ~IsApiError(m)
      /\ i > 0 /\ i - 1 = n
  BY InSequence DEF Normal
<1>2. /\ acc = [out |-> out, seen |-> acc.seen, skip |-> acc.skip]
      /\ out \in Seq(Messages) /\ WellFormed(out) /\ acc.seen = AskedUpTo(ms, n)
      /\ Uses(out) = AskedUpTo(ms, n)
      /\ acc.skip \in 0..i
      /\ acc.skip = i <=> n > 0 /\ n < Len(ms) /\ IsAssistant(ms[n]) /\ IsUser(m)
      /\ Unique(ms) => ResultsOf(out) = AnsweredUpTo(ms, n)
      /\ n = 0 => out = <<>>
  BY DEF PairedUpTo
<1>3. AskedUpTo(ms, i) = AskedUpTo(ms, n) \cup Asks(m)
      /\ AnsweredUpTo(ms, i) = AnsweredUpTo(ms, n) \cup AnswersOf(ms, i)
  BY <1>1, UpToMore
<1>4. IsUser(m) => Asks(m) = {} /\ AnswersOf(ms, i) = {} /\ ~IsAssistant(m)
  BY <1>1, MessageIs DEF Asks, AnswersOf
<1>5. CASE acc.skip = i
  <2>1. q = acc
    BY <1>5 DEF Paired
  <2>2. IsUser(m)
    BY <1>2, <1>5
  <2>3. acc.skip \in 0..(i + 1) /\ ~(acc.skip = i + 1)
    BY <1>1, <1>5
  <2> HIDE DEF i, m, q, out
  <2> QED BY <1>1, <1>2, <1>3, <1>4, <2>1, <2>2, <2>3 DEF PairedUpTo, i, m, q, out
<1>6. CASE acc.skip # i /\ IsUser(m)
  <2>1. n = 0 /\ out = <<>>
    <3> SUFFICES ASSUME n # 0 PROVE FALSE
      BY <1>2
    <3>1. n \in 1..(Len(ms) - 1) /\ n > 0 /\ n < Len(ms)
      BY <1>1
    <3>2. ~IsAssistant(ms[n])
      BY <1>2, <1>6, <3>1
    <3>3. IsAssistant(ms[n]) \/ IsAssistant(m)
      BY <3>1 DEF Normal
    <3> QED BY <1>4, <1>6, <3>2, <3>3
  <2>2. \E u \in Users : Len(u.results) = 0 /\ q = [acc EXCEPT !.out = Append(out, u)]
    <3>1. m \in Users /\ m.results \in Seq(Results)
      BY <1>1, <1>6, MessageIs
    <3>2. <<>> \in Seq(Results) /\ Text \in Users /\ Text.results = <<>>
      <4>1. <<>> \in Seq(Results)
        OBVIOUS
      <4> QED BY <4>1, UserIs DEF Text
    <3>3. CASE m.results = <<>>
      <4>1. q = [acc EXCEPT !.out = Append(out, m)]
        BY <1>6, <3>3 DEF Paired
      <4> QED BY <3>1, <3>3, <4>1
    <3>4. CASE m.results # <<>>
      <4>1. q = [acc EXCEPT !.out = Append(out, Text)]
        BY <1>6, <2>1, <3>4 DEF Paired
      <4> QED BY <3>2, <4>1
    <3> QED BY <3>3, <3>4
  <2>3. PICK u \in Users : Len(u.results) = 0 /\ q = [acc EXCEPT !.out = Append(out, u)]
    BY <2>2
  <2>4. q.out = Append(out, u) /\ q.seen = acc.seen /\ q.skip = acc.skip
        /\ q = [out |-> q.out, seen |-> q.seen, skip |-> q.skip]
    <3>1. q = [out |-> Append(out, u), seen |-> acc.seen, skip |-> acc.skip]
      <4> HIDE DEF q
      <4> QED BY <1>2, <2>3, StateOut
    <3> HIDE DEF q
    <3> QED BY <3>1, StateIs
  <2>5. u \in Messages /\ IsUser(u) /\ ~IsAssistant(u) /\ Asks(u) = {} /\ Gives(u) = {}
    BY <2>3, MessageIs DEF Messages, Asks, Gives
  <2>6. q.out \in Seq(Messages) /\ Len(q.out) = 1 /\ q.out[1] = u
    <3>1. out = <<>> /\ Len(out) = 0 /\ out \in Seq(Messages)
      BY <1>2, <2>1
    <3> HIDE DEF out, q
    <3> QED BY <2>4, <2>5, <3>1, Appended
  <2>7. WellFormed(q.out)
    <3>1. Unique(q.out)
      BY <2>6 DEF Unique
    <3>2. IdsIn(u.results) = {} /\ Once(u.results) /\ AskedBefore(q.out, 1) = {}
      BY <2>3 DEF IdsIn, Once, AskedBefore
    <3>3. Fits(q.out, 1)
      <4> HIDE DEF q
      <4> QED BY <2>5, <2>6, <3>2 DEF Fits
    <3>4. \A j \in 1..Len(q.out) : Fits(q.out, j)
      <4> HIDE DEF q
      <4> QED BY <2>6, <3>3
    <3> QED BY <2>6, <3>1, <3>4, WellFormedIs
  <2>8. Uses(q.out) = Uses(out) /\ ResultsOf(q.out) = ResultsOf(out)
    <3> HIDE DEF q, out
    <3>1. Uses(q.out) = Uses(out) \cup Asks(u) /\ ResultsOf(q.out) = ResultsOf(out) \cup Gives(u)
      BY <1>2, <2>4, <2>5, CallsMore
    <3> QED BY <2>5, <3>1
  <2>9. acc.skip \in 0..(i + 1) /\ ~(acc.skip = i + 1) /\ ~(i = 0)
    BY <1>1, <1>2, <1>6
  <2> HIDE DEF m, q, out
  <2>10. Unique(ms) => ResultsOf(q.out) = AnsweredUpTo(ms, i)
    BY <1>2, <1>3, <1>4, <1>6, <2>8
  <2>11. q.seen = AskedUpTo(ms, i) /\ Uses(q.out) = AskedUpTo(ms, i)
    BY <1>2, <1>3, <1>4, <1>6, <2>4, <2>8
  <2>12. ~(q.skip = i + 1) /\ q.skip \in 0..(i + 1)
    BY <2>4, <2>9
  <2>13. ~IsAssistant(ms[i])
    BY <1>4, <1>6 DEF m
  <2> HIDE DEF i
  <2>14. PairedUpTo(ms, q, i)
    BY <2>4, <2>6, <2>7, <2>9, <2>10, <2>11, <2>12, <2>13 DEF PairedUpTo
  <2> QED BY <2>14 DEF q, i
<1>7. CASE acc.skip # i /\ ~IsUser(m)
  <2> DEFINE ids == m.uses \ acc.seen
             next == i < Len(ms) /\ IsUser(ms[i + 1])
             a == Assistant(m.rid, ids, "none")
             b == [m EXCEPT !.uses = ids]
             rest == IF next THEN <<Answering(ms[i + 1], ids)>>
                     ELSE IF ids # {} THEN <<User(Placeholders(ids), FALSE)>> ELSE <<>>
  <2>1. IsAssistant(m) /\ m.uses \in CallSets /\ m = Assistant(m.rid, m.uses, "none") /\ m.rid \in Int
    BY <1>1, <1>7, MessageIs DEF IsApiError
  <2>2. ids \in CallSets
    BY <2>1, FS_Subset DEF CallSets
  <2>3. b = a
    <3> DEFINE old == m.uses
               rid == m.rid
    <3>1. m = Assistant(rid, old, "none")
      BY <2>1
    <3> HIDE DEF m, ids, old, rid
    <3>2. [m EXCEPT !.uses = ids] = Assistant(rid, ids, "none")
      BY ONLY <3>1, FewerUses
    <3> QED BY ONLY <3>2 DEF rid, a, b
  <2>4. a \in Assistants /\ a \in Messages /\ a.uses = ids /\ Asks(a) = ids /\ Gives(a) = {}
    <3> HIDE DEF ids
    <3>1. /\ a \in Assistants /\ a \in Messages /\ a.uses = ids /\ IsAssistant(a) /\ ~IsUser(a)
      BY <2>1, <2>2, AssistantIs
    <3> HIDE DEF a
    <3> QED BY <3>1 DEF Asks, Gives
  <2>5. ids \cap Uses(out) = {} /\ acc.seen \cup ids = AskedUpTo(ms, i) /\ Asks(m) = m.uses
    BY <1>2, <1>3, <2>1 DEF Asks
  <2>6. q = [out |-> Append(out, b) \o rest, seen |-> acc.seen \cup ids,
             skip |-> IF next THEN i + 1 ELSE acc.skip]
    BY <1>7 DEF Paired
  <2>7. q.out = Append(out, b) \o rest /\ q.seen = acc.seen \cup ids
        /\ q.skip = (IF next THEN i + 1 ELSE acc.skip)
        /\ q = [out |-> q.out, seen |-> q.seen, skip |-> q.skip]
    <3> DEFINE x == Append(out, b) \o rest
               y == acc.seen \cup ids
               z == IF next THEN i + 1 ELSE acc.skip
    <3>1. q = [out |-> x, seen |-> y, skip |-> z]
      BY <2>6
    <3> HIDE DEF q, x, y, z
    <3>2. /\ q.out = x /\ q.seen = y /\ q.skip = z
          /\ q = [out |-> q.out, seen |-> q.seen, skip |-> q.skip]
      BY <3>1, StateIs
    <3> QED BY <3>2 DEF x, y, z
  <2>8. Unique(ms) => ids = m.uses
    <3> SUFFICES ASSUME Unique(ms) PROVE m.uses \cap AskedUpTo(ms, n) = {}
      BY <1>2
    <3>1. \A j \in 1..n : Asks(ms[j]) \cap Asks(m) = {}
      <4>1. \A j \in 1..n : j \in 1..Len(ms) /\ j # i
        BY <1>1
      <4> QED BY <1>1, <4>1 DEF Unique
    <3> QED BY <2>5, <3>1 DEF AskedUpTo
  <2>9. Append(out, a) \in Seq(Messages)
    BY <1>2, <2>4, Appended
  <2> HIDE DEF b, a, ids, rest, q, m, next, out
  \* With the answers that it is given.
  <2>10. ASSUME NEW u \in Users, IdsIn(u.results) = ids, Once(u.results), rest = <<u>>
         PROVE  /\ q.out \in Seq(Messages) /\ WellFormed(q.out) /\ Uses(q.out) = Uses(out) \cup ids
                /\ ResultsOf(q.out) = ResultsOf(out) \cup Gives(u)
    <3>1. u \in Messages /\ Asks(u) = {}
      BY MessageIs DEF Messages, Asks
    <3>2. q.out = Append(Append(out, a), u)
      BY <2>3, <2>7, <2>9, <2>10
    <3>3. WellFormed(q.out)
      BY <1>2, <2>4, <2>5, <2>10, <3>2, WellFormedAsked
    <3>4. q.out \in Seq(Messages)
      BY <2>9, <3>1, <3>2, Appended
    <3>5. Uses(Append(out, a)) = Uses(out) \cup ids /\ ResultsOf(Append(out, a)) = ResultsOf(out)
      <4>1. /\ Uses(Append(out, a)) = Uses(out) \cup Asks(a)
            /\ ResultsOf(Append(out, a)) = ResultsOf(out) \cup Gives(a)
        BY <1>2, <2>4, CallsMore
      <4> QED BY <2>4, <4>1
    <3>6. Uses(q.out) = Uses(Append(out, a)) /\ ResultsOf(q.out) = ResultsOf(Append(out, a)) \cup Gives(u)
      <4> DEFINE t == Append(out, a)
      <4> HIDE DEF t
      <4>1. t \in Seq(Messages) /\ q.out = Append(t, u)
        BY <2>9, <3>2 DEF t
      <4>2. /\ Uses(q.out) = Uses(t) \cup Asks(u)
            /\ ResultsOf(q.out) = ResultsOf(t) \cup Gives(u)
        BY <3>1, <4>1, CallsMore
      <4> QED BY <3>1, <4>2 DEF t
    <3> QED BY <3>3, <3>4, <3>5, <3>6
  <2>11. /\ q.out \in Seq(Messages) /\ WellFormed(q.out) /\ Uses(q.out) = Uses(out) \cup ids
         /\ Unique(ms) => ResultsOf(q.out) = ResultsOf(out) \cup AnswersOf(ms, i)
    <3>1. CASE next
      <4> DEFINE y == ms[i + 1]
                 u == Answering(y, ids)
      <4>1. y \in Users
        <5>1. i + 1 \in 1..Len(ms) /\ IsUser(y)
          BY <1>1, <3>1 DEF next
        <5> QED BY <1>1, <5>1, InSequence, MessageIs
      <4>2. /\ u \in Users /\ IdsIn(u.results) = ids /\ Once(u.results)
            /\ Gives(u) = {r \in Results : r.id \in ids /\ First(y.results, r)}
                            \cup {Result(id, FALSE) : id \in ids \ IdsIn(y.results)}
        BY <2>2, <4>1, AnsweringIs
      <4>3. rest = <<u>>
        BY <3>1 DEF rest
      <4> HIDE DEF u
      <4>4. /\ q.out \in Seq(Messages) /\ WellFormed(q.out) /\ Uses(q.out) = Uses(out) \cup ids
            /\ ResultsOf(q.out) = ResultsOf(out) \cup Gives(u)
        BY <2>10, <4>2, <4>3
      <4>5. ASSUME Unique(ms) PROVE Gives(u) = AnswersOf(ms, i)
        <5>1. AnswersOf(ms, i) = {r \in Results : r.id \in m.uses /\ First(y.results, r)}
                            \cup {Result(id, FALSE) : id \in m.uses \ IdsIn(y.results)}
          BY <1>7, <3>1 DEF AnswersOf, next, m
        <5>2. ids = m.uses
          BY <2>8, <4>5
        <5> QED BY <4>2, <5>1, <5>2
      <4> QED BY <4>4, <4>5
    <3>2. CASE ~next /\ ids # {}
      <4> DEFINE u == User(Placeholders(ids), FALSE)
      <4>1. u \in Users /\ IdsIn(u.results) = ids /\ Once(u.results)
        BY <2>2, PlaceholdersGiven
      <4>2. Gives(u) = {Result(id, FALSE) : id \in ids}
        BY <2>2, PlaceholdersGiven
      <4>3. rest = <<u>>
        BY <3>2 DEF rest
      <4> HIDE DEF u
      <4>4. /\ q.out \in Seq(Messages) /\ WellFormed(q.out) /\ Uses(q.out) = Uses(out) \cup ids
            /\ ResultsOf(q.out) = ResultsOf(out) \cup Gives(u)
        BY <2>10, <4>1, <4>3
      <4>6. ASSUME Unique(ms) PROVE Gives(u) = AnswersOf(ms, i)
        <5>1. AnswersOf(ms, i) = {Result(id, FALSE) : id \in m.uses}
          BY <1>7, <3>2 DEF AnswersOf, next, m
        <5> QED BY <2>8, <4>2, <4>6, <5>1
      <4> QED BY <4>4, <4>6
    <3>3. CASE ~next /\ ids = {}
      <4>1. q.out = Append(out, a)
        BY <2>3, <2>7, <2>9, <3>3 DEF rest
      <4>2. WellFormed(q.out)
        BY <1>2, <2>4, <3>3, <4>1, WellFormedSaid
      <4>3. Uses(q.out) = Uses(out) \cup ids /\ ResultsOf(q.out) = ResultsOf(out)
        <5>1. Uses(q.out) = Uses(out) \cup Asks(a) /\ ResultsOf(q.out) = ResultsOf(out) \cup Gives(a)
          BY <1>2, <2>4, <4>1, CallsMore
        <5> QED BY <2>4, <5>1
      <4>4. ASSUME Unique(ms) PROVE AnswersOf(ms, i) = {}
        <5>1. AnswersOf(ms, i) = {Result(id, FALSE) : id \in m.uses}
          BY <1>7, <3>3 DEF AnswersOf, next, m
        <5> QED BY <2>8, <3>3, <4>4, <5>1
      <4> QED BY <2>9, <4>1, <4>2, <4>3, <4>4
    <3> QED BY <3>1, <3>2, <3>3
  <2>12. /\ q.skip \in 0..(i + 1)
         /\ q.skip = i + 1 <=> i > 0 /\ i < Len(ms) /\ IsAssistant(ms[i]) /\ IsUser(ms[i + 1])
    <3>1. CASE next
      BY <1>1, <2>1, <2>7, <3>1 DEF next, m
    <3>2. CASE ~next
      BY <1>1, <1>2, <2>7, <3>2 DEF next, m
    <3> QED BY <3>1, <3>2
  <2>13. ~(i = 0)
    BY <1>1
  <2>14. q.seen = AskedUpTo(ms, i) /\ Uses(q.out) = AskedUpTo(ms, i)
    BY <1>2, <2>5, <2>7, <2>11
  <2>15. Unique(ms) => ResultsOf(q.out) = AnsweredUpTo(ms, i)
    BY <1>2, <1>3, <2>11
  <2> HIDE DEF i
  <2>16. PairedUpTo(ms, q, i)
    BY <2>7, <2>11, <2>12, <2>13, <2>14, <2>15 DEF PairedUpTo
  <2> QED BY <2>16 DEF q, i
<1> QED BY <1>5, <1>6, <1>7

\* What the model is told: the results that are behind their calls, and placeholders
\* for the calls without one.
Answers(nm) ==
  Told(nm) \cup {Result(id, FALSE) : id \in {u \in Uses(nm) : \A r \in Told(nm) : r.id # u}}

\* After all messages: what is told, and a placeholder for each call of which nothing is told.
LEMMA AnsweredIs ==
  ASSUME NEW ms, Normal(ms), Unique(ms)
  PROVE  AnsweredUpTo(ms, Len(ms)) = Answers(ms)
<1> DEFINE n == Len(ms)
           Open(i) == i < n /\ IsUser(ms[i + 1])
<1>1. /\ ms \in Seq(Messages) /\ n \in Nat
      /\ \A i \in 1..n : ms[i] \in Messages /\ (IsUser(ms[i]) <=> ~IsAssistant(ms[i]))
  BY InSequence, MessageIs DEF Normal
<1>2. \A i, j \in 1..n : \A u : u \in Asks(ms[i]) /\ u \in Asks(ms[j]) => i = j
  BY DEF Unique
<1>3. ASSUME NEW i \in 1..n, Open(i)
      PROVE  i \in 1..(n - 1) /\ i + 1 \in 1..n /\ IsUser(ms[i + 1]) /\ ms[i + 1].results \in Seq(Results)
  <2>1. i \in 1..(n - 1) /\ i + 1 \in 1..n
    BY <1>1, <1>3
  <2> QED BY <1>1, <1>3, <2>1, MessageIs
<1>4. ASSUME NEW i \in 1..n, ~IsUser(ms[i]), NEW u \in ms[i].uses,
             Open(i) => u \notin IdsIn(ms[i + 1].results)
      PROVE  Result(u, FALSE) \in Answers(ms)
  <2>1. IsAssistant(ms[i]) /\ u \in Asks(ms[i])
    BY <1>1, <1>4 DEF Asks
  <2>2. u \in Uses(ms)
    BY <1>1, <2>1, CallsOf
  <2>3. ASSUME NEW r \in Told(ms), r.id = u PROVE FALSE
    <3>1. PICK j \in 1..(n - 1) : Tells(ms[j], ms[j + 1], r)
      BY <1>1, ToldIs
    <3>2. j \in 1..n /\ j < n
      BY <1>1
    <3>3. u \in Asks(ms[j]) /\ IsUser(ms[j + 1]) /\ First(ms[j + 1].results, r)
      BY <2>3, <3>1 DEF Tells, Asks
    <3>4. j = i
      BY <1>2, <2>1, <3>2, <3>3
    <3>5. Open(i) /\ First(ms[i + 1].results, r)
      BY <3>2, <3>3, <3>4
    <3>6. u \in IdsIn(ms[i + 1].results)
      BY <2>3, <3>5 DEF First, IdsIn
    <3> QED BY <1>4, <3>5, <3>6
  <2> QED BY <2>2, <2>3 DEF Answers
<1>5. ASSUME NEW i \in 1..n, NEW x \in AnswersOf(ms, i) PROVE x \in Answers(ms)
  <2>1. ~IsUser(ms[i])
    BY <1>5 DEF AnswersOf
  <2>2. CASE Open(i)
    <3>1. \/ x.id \in ms[i].uses /\ First(ms[i + 1].results, x)
          \/ \E u \in ms[i].uses \ IdsIn(ms[i + 1].results) : x = Result(u, FALSE)
      BY <1>5, <2>1, <2>2 DEF AnswersOf
    <3>2. CASE x.id \in ms[i].uses /\ First(ms[i + 1].results, x)
      <4>1. Tells(ms[i], ms[i + 1], x)
        BY <1>1, <1>3, <2>1, <2>2, <3>2 DEF Tells
      <4>2. x \in Told(ms)
        BY <1>1, <1>3, <2>2, <4>1, ToldIs
      <4> QED BY <4>2 DEF Answers
    <3>3. CASE \E u \in ms[i].uses \ IdsIn(ms[i + 1].results) : x = Result(u, FALSE)
      BY <1>4, <2>1, <3>3
    <3> QED BY <3>1, <3>2, <3>3
  <2>3. CASE ~Open(i)
    <3>1. \E u \in ms[i].uses : x = Result(u, FALSE)
      BY <1>5, <2>1, <2>3 DEF AnswersOf
    <3> QED BY <1>4, <2>1, <2>3, <3>1
  <2> QED BY <2>2, <2>3
<1>6. ASSUME NEW r \in Told(ms) PROVE \E i \in 1..n : r \in AnswersOf(ms, i)
  <2>1. PICK i \in 1..(n - 1) : Tells(ms[i], ms[i + 1], r)
    BY <1>1, ToldIs
  <2>2. i \in 1..n /\ i < n /\ ~IsUser(ms[i]) /\ IsUser(ms[i + 1]) /\ r.id \in ms[i].uses
        /\ First(ms[i + 1].results, r)
    BY <1>1, <2>1 DEF Tells
  <2>3. r \in Results
    BY <1>1, CallsTyped DEF Told
  <2>4. r \in AnswersOf(ms, i)
    BY <2>2, <2>3 DEF AnswersOf
  <2> QED BY <2>2, <2>4
<1>7. ASSUME NEW u \in Uses(ms), \A r \in Told(ms) : r.id # u
      PROVE  \E i \in 1..n : Result(u, FALSE) \in AnswersOf(ms, i)
  <2>1. PICK i \in 1..n : u \in Asks(ms[i])
    BY <1>1, CallsOf
  <2>2. IsAssistant(ms[i]) /\ ~IsUser(ms[i]) /\ u \in ms[i].uses
    BY <1>1, <2>1 DEF Asks
  <2>3. CASE Open(i)
    <3>1. u \notin IdsIn(ms[i + 1].results)
      <4> SUFFICES ASSUME u \in IdsIn(ms[i + 1].results) PROVE FALSE
        OBVIOUS
      <4>1. PICK k \in 1..Len(ms[i + 1].results) : ms[i + 1].results[k].id = u
        BY DEF IdsIn
      <4>2. PICK r \in Results : r.id = u /\ First(ms[i + 1].results, r)
        BY <1>3, <2>3, <4>1, FirstWith
      <4>3. Tells(ms[i], ms[i + 1], r)
        BY <1>3, <2>2, <2>3, <4>2 DEF Tells
      <4>4. r \in Told(ms)
        BY <1>1, <1>3, <2>3, <4>3, ToldIs
      <4> QED BY <1>7, <4>2, <4>4
    <3> QED BY <2>2, <2>3, <3>1 DEF AnswersOf
  <2>4. CASE ~Open(i)
    BY <2>2, <2>4 DEF AnswersOf
  <2> QED BY <2>3, <2>4
<1>8. \A x \in AnsweredUpTo(ms, n) : x \in Answers(ms)
  BY <1>5 DEF AnsweredUpTo
<1>9. \A x \in Answers(ms) : x \in AnsweredUpTo(ms, n)
  BY <1>6, <1>7 DEF Answers, AnsweredUpTo
<1> QED BY <1>8, <1>9

\* What is repaired is accepted, and has the calls and the answers of what it was made from.
LEMMA PairNormal ==
  ASSUME NEW ms, Normal(ms)
  PROVE  /\ WellFormed(Pair(ms)) /\ Uses(Pair(ms)) = Uses(ms)
         /\ Unique(ms) => ResultsOf(Pair(ms)) = Answers(ms)
<1>1. ms \in Seq(Messages) /\ Len(ms) \in Nat
  BY InSequence DEF Normal
<1>2. PICK F : /\ Pair(ms) = F[Len(ms)].out
               /\ F[0] = [out |-> <<>>, seen |-> {}, skip |-> 0]
               /\ \A n \in 1..Len(ms) : F[n] = Paired(ms, F[n - 1], n)
  BY <1>1, PairIs
<1> DEFINE N == {n \in 0..Len(ms) : PairedUpTo(ms, F[n], n)}
<1>3. 0 \in N
  <2>1. F[0].out = <<>> /\ F[0].seen = {} /\ F[0].skip = 0
    BY <1>2
  <2>2. <<>> \in Seq(Messages) /\ Len(<<>>) = 0
    OBVIOUS
  <2>3. WellFormed(<<>>)
    BY <2>2 DEF WellFormed
  <2>4. Uses(<<>>) = {} /\ ResultsOf(<<>>) = {}
    BY DEF Uses, ResultsOf
  <2>5. AskedUpTo(ms, 0) = {} /\ AnsweredUpTo(ms, 0) = {}
    BY DEF AskedUpTo, AnsweredUpTo
  <2>6. PairedUpTo(ms, F[0], 0)
    BY <1>2, <2>1, <2>2, <2>3, <2>4, <2>5 DEF PairedUpTo
  <2> QED BY <1>1, <2>6
<1>4. ASSUME NEW n \in 0..Len(ms), n + 1 \in 0..Len(ms), n \in N PROVE n + 1 \in N
  <2>1. n \in 0..(Len(ms) - 1) /\ n + 1 \in 1..Len(ms) /\ (n + 1) - 1 = n /\ PairedUpTo(ms, F[n], n)
    BY <1>1, <1>4
  <2>2. F[n + 1] = Paired(ms, F[n], n + 1)
    BY <1>2, <2>1
  <2>3. PairedUpTo(ms, F[n + 1], n + 1)
    BY <2>1, <2>2, PairedMore
  <2> QED BY <1>4, <2>3
<1> HIDE DEF N
<1>5. 0..Len(ms) \subseteq N
  BY <1>1, <1>3, <1>4, GoesOnUpTo
<1>6. PairedUpTo(ms, F[Len(ms)], Len(ms))
  BY <1>1, <1>5 DEF N
<1>7. Uses(ms) = AskedUpTo(ms, Len(ms))
  BY <1>1, CallsOf DEF AskedUpTo
<1>8. /\ WellFormed(Pair(ms)) /\ Uses(Pair(ms)) = AskedUpTo(ms, Len(ms))
      /\ Unique(ms) => ResultsOf(Pair(ms)) = AnsweredUpTo(ms, Len(ms))
  BY <1>2, <1>6 DEF PairedUpTo
<1> QED BY <1>7, <1>8, AnsweredIs

\* Whatever the conversation, the API accepts what is sent for it.
THEOREM RepairIsAccepted == \A ms \in Seq(Messages) : WellFormed(Pair(Normalize(ms)))
BY NormalizeNormal, PairNormal

-----------------------------------------------------------------------------
(* What a message adds to a conversation                                     *)

Interrupted(ms) == \E i \in 1..Len(ms) : Partial(ms[i])

\* A part of an answer stays in the conversation.
LEMMA InterruptedStill ==
  ASSUME NEW ms \in Seq(Messages), NEW more \in Seq(Messages), Interrupted(ms)
  PROVE  Interrupted(ms \o more)
<1>1. PICK i \in 1..Len(ms) : Partial(ms[i])
  BY DEF Interrupted
<1>2. (ms \o more)[i] = ms[i] /\ i \in 1..Len(ms \o more)
  BY <1>1, Joined, InSequence
<1> QED BY <1>1, <1>2 DEF Interrupted

\* The calls, the results, what is told, and that no call is there twice.
LEMMA UserAdded ==
  ASSUME NEW ms \in Seq(Messages), NEW m \in Users, NEW v, v = Append(ms, m)
  PROVE  /\ v \in Seq(Messages) /\ Uses(v) = Uses(ms) /\ ResultsOf(v) = ResultsOf(ms) \cup Gives(m)
         /\ Told(Normalize(ms)) \subseteq Told(Normalize(v))
         /\ \A r \in Told(Normalize(v)) : r \in Told(Normalize(ms)) \/ (r \in Gives(m) /\ r.id \in Uses(ms))
         /\ Unique(Normalize(ms)) => Unique(Normalize(v))
<1>1. m \in Messages /\ ~IsApiError(m) /\ Asks(m) = {}
  BY MessageIs DEF Messages, IsApiError, Asks
<1>2. v \in Seq(Messages) /\ Uses(v) = Uses(ms) /\ ResultsOf(v) = ResultsOf(ms) \cup Gives(m)
  BY <1>1, Appended, CallsMore
<1> DEFINE nm == Normalize(ms)
<1>3. Normal(nm) /\ Uses(nm) = Uses(ms)
  BY NormalizeNormal
<1>4. Normalize(v) = Merged(nm, m)
  BY <1>1, NormalizeMore
<1> HIDE DEF nm
<1>5. /\ Told(nm) \subseteq Told(Normalize(v))
      /\ \A r \in Told(Normalize(v)) : r \in Told(nm) \/ (r \in Gives(m) /\ r.id \in Uses(ms))
  BY <1>3, <1>4, ToldUser
<1>6. Unique(nm) => Unique(Normalize(v))
  BY <1>1, <1>3, <1>4, UniqueMerged
<1> QED BY <1>2, <1>5, <1>6 DEF nm

\* A message of the assistant with new calls, of which there are no results yet.
LEMMA AssistantAdded ==
  ASSUME NEW ms \in Seq(Messages), NEW m \in Assistants, NEW v, v = Append(ms, m),
         m.uses \cap Uses(ms) = {}, \A r \in ResultsOf(ms) : r.id \notin m.uses
  PROVE  /\ v \in Seq(Messages) /\ Uses(v) = Uses(ms) \cup m.uses /\ ResultsOf(v) = ResultsOf(ms)
         /\ Told(Normalize(v)) = Told(Normalize(ms))
         /\ Unique(Normalize(ms)) => Unique(Normalize(v))
<1>1. m \in Messages /\ IsAssistant(m) /\ Asks(m) = m.uses /\ Gives(m) = {}
  BY MessageIs DEF Messages, Asks, Gives
<1>2. v \in Seq(Messages) /\ Uses(v) = Uses(ms) \cup m.uses /\ ResultsOf(v) = ResultsOf(ms)
  <2>1. v \in Seq(Messages)
    BY <1>1, Appended
  <2>2. Uses(v) = Uses(ms) \cup Asks(m) /\ ResultsOf(v) = ResultsOf(ms) \cup Gives(m)
    BY <1>1, CallsMore
  <2>3. Uses(v) = Uses(ms) \cup m.uses
    BY <1>1, <2>2, Zenon
  <2>4. ResultsOf(v) = ResultsOf(ms)
    BY <1>1, <2>2
  <2> QED BY <2>1, <2>3, <2>4
<1> DEFINE nm == Normalize(ms)
<1>3. Normal(nm) /\ Uses(nm) = Uses(ms) /\ ResultsOf(nm) = ResultsOf(ms)
  BY NormalizeNormal
<1>4. Normalize(v) = IF IsApiError(m) THEN nm ELSE Merged(nm, m)
  BY <1>1, NormalizeMore
<1> HIDE DEF nm
<1>5. CASE IsApiError(m)
  BY <1>2, <1>4, <1>5 DEF nm
<1>6. CASE ~IsApiError(m)
  <2>1. Normalize(v) = Merged(nm, m)
    BY <1>4, <1>6
  <2>2. Told(Merged(nm, m)) = Told(nm)
    BY <1>3, <1>6, ToldAssistant
  <2>3. Unique(nm) => Unique(Merged(nm, m))
    BY <1>1, <1>3, <1>6, UniqueMerged
  <2> QED BY <1>2, <2>1, <2>2, <2>3 DEF nm
<1> QED BY <1>5, <1>6

\* The responses, with one message more.
LEMMA RidsMore ==
  ASSUME NEW ms \in Seq(Messages), NEW m \in Messages
  PROVE  Rids(Append(ms, m)) = Rids(ms) \cup (IF IsAssistant(m) THEN {m.rid} ELSE {})
<1> DEFINE n == Len(ms)
           q == Append(ms, m)
<1>1. /\ Len(q) = n + 1 /\ q[n + 1] = m /\ n \in Nat /\ \A i \in 1..n : q[i] = ms[i]
      /\ \A i \in 1..(n + 1) : i \in 1..n \/ i = n + 1
  BY Appended, InSequence
<1>2. \A i \in 1..n : i \in 1..(n + 1)
  BY <1>1
<1>3. n + 1 \in 1..(n + 1)
  BY <1>1
<1> HIDE DEF q, n
<1>4. \A x : x \in Rids(q) <=> \E i \in 1..(n + 1) : IsAssistant(q[i]) /\ x = q[i].rid
  BY <1>1 DEF Rids
<1>5. \A x : x \in Rids(ms) <=> \E i \in 1..n : IsAssistant(ms[i]) /\ x = ms[i].rid
  BY DEF Rids, n
<1>6. \A x : x \in Rids(q) <=> x \in Rids(ms) \/ (IsAssistant(m) /\ x = m.rid)
  BY <1>1, <1>2, <1>3, <1>4, <1>5
<1> QED BY <1>6 DEF q

\* A response that begins, or goes on, is the last one.
LEMMA OpenedWith ==
  ASSUME NEW ms \in Seq(Messages), NEW m \in Assistants, ~IsApiError(m), NEW v, v = Append(ms, m)
  PROVE  /\ m.rid \notin Rids(ms) => Opened(Normalize(v), m.rid, m.uses)
         /\ \A uses : Opened(Normalize(ms), m.rid, uses) => Opened(Normalize(v), m.rid, uses \cup m.uses)
<1> DEFINE nm == Normalize(ms)
<1>1. m \in Messages
  BY DEF Messages
<1>2. Normal(nm) /\ Normalize(v) = Merged(nm, m) /\ Rids(nm) \subseteq Rids(ms)
  BY <1>1, NormalizeNormal, NormalizeMore, RidsNormalized
<1> HIDE DEF nm
<1>3. m.rid \notin Rids(ms) => Opened(Normalize(v), m.rid, m.uses)
  <2> SUFFICES ASSUME m.rid \notin Rids(ms) PROVE Opened(Normalize(v), m.rid, m.uses)
    OBVIOUS
  <2>1. \A i \in 1..Len(nm) : IsAssistant(nm[i]) => nm[i].rid # m.rid
    BY <1>2 DEF Rids
  <2> QED BY <1>2, <2>1, OpenedStart
<1>4. \A uses : Opened(nm, m.rid, uses) => Opened(Normalize(v), m.rid, uses \cup m.uses)
  BY <1>2, OpenedMore
<1> QED BY <1>3, <1>4 DEF nm

-----------------------------------------------------------------------------
(* What several messages add                                                 *)

\* One more of those that come after s.
LEMMA JoinedMore ==
  ASSUME NEW T, NEW s \in Seq(T), NEW t \in Seq(T)
  PROVE  /\ s \o SubSeq(t, 1, 0) = s /\ s \o SubSeq(t, 1, Len(t)) = s \o t
         /\ \A i \in 0..(Len(t) - 1) : s \o SubSeq(t, 1, i + 1) = Append(s \o SubSeq(t, 1, i), t[i + 1])
<1>1. SubSeq(t, 1, 0) = <<>> /\ SubSeq(t, 1, Len(t)) = t
  OBVIOUS
<1>2. s \o <<>> = s
  OBVIOUS
<1>3. ASSUME NEW i \in 0..(Len(t) - 1)
      PROVE  s \o SubSeq(t, 1, i + 1) = Append(s \o SubSeq(t, 1, i), t[i + 1])
  <2> DEFINE a == SubSeq(t, 1, i)
             b == SubSeq(t, 1, i + 1)
             n == Len(s)
             x == t[i + 1]
  <2>1. /\ i \in Nat /\ i \in 0..Len(t) /\ i + 1 \in 0..Len(t) /\ i + 1 \in 1..Len(t) /\ i + 1 \in 1..(i + 1)
        /\ n \in Nat
    BY InSequence
  <2>2. /\ a \in Seq(T) /\ Len(a) = i /\ \A k \in 1..i : a[k] = t[k]
    BY <2>1, Cut
  <2>3. /\ b \in Seq(T) /\ Len(b) = i + 1 /\ \A k \in 1..(i + 1) : b[k] = t[k]
    BY <2>1, Cut
  <2>4. x \in T
    BY <2>1, InSequence
  <2> HIDE DEF a, b, n, x
  <2> DEFINE u == s \o a
             w == s \o b
             v == Append(u, x)
  <2>5. /\ u \in Seq(T) /\ Len(u) = n + i /\ \A k \in 1..n : u[k] = s[k]
        /\ \A k \in 1..i : u[n + k] = a[k]
    <3>1. Len(u) = n + Len(a) /\ u \in Seq(T)
      BY <2>2, Joined DEF n
    <3>2. \A k \in 1..n : u[k] = s[k]
      BY <2>2, Joined DEF n
    <3>3. \A k \in 1..Len(a) : u[n + k] = a[k]
      BY <2>2, Joined DEF n
    <3> QED BY <2>2, <3>1, <3>2, <3>3
  <2>6. /\ w \in Seq(T) /\ Len(w) = n + (i + 1) /\ \A k \in 1..n : w[k] = s[k]
        /\ \A k \in 1..(i + 1) : w[n + k] = b[k]
    <3>1. Len(w) = n + Len(b) /\ w \in Seq(T)
      BY <2>3, Joined DEF n
    <3>2. \A k \in 1..n : w[k] = s[k]
      BY <2>3, Joined DEF n
    <3>3. \A k \in 1..Len(b) : w[n + k] = b[k]
      BY <2>3, Joined DEF n
    <3> QED BY <2>3, <3>1, <3>2, <3>3
  <2> HIDE DEF u, w
  <2>7. /\ v \in Seq(T) /\ Len(v) = (n + i) + 1 /\ v[(n + i) + 1] = x /\ \A k \in 1..(n + i) : v[k] = u[k]
    BY <2>4, <2>5, Appended
  <2> HIDE DEF v
  <2>8. ASSUME NEW k \in 1..(n + (i + 1)) PROVE w[k] = v[k]
    <3>1. CASE k \in 1..n
      <4>1. k \in 1..(n + i)
        BY <2>1, <3>1
      <4> QED BY <2>5, <2>6, <2>7, <3>1, <4>1
    <3>2. CASE k - n \in 1..i
      <4>1. n + (k - n) = k /\ k \in 1..(n + i) /\ k - n \in 1..(i + 1) /\ k - n \in 1..i
        BY <2>1, <3>2
      <4>2. w[k] = b[k - n] /\ u[k] = a[k - n]
        BY <2>5, <2>6, <4>1
      <4>3. b[k - n] = a[k - n] /\ v[k] = u[k]
        BY <2>2, <2>3, <2>7, <4>1
      <4> QED BY <4>2, <4>3
    <3>3. CASE k = n + (i + 1)
      <4>1. n + (i + 1) = (n + i) + 1
        BY <2>1
      <4>2. w[k] = b[i + 1] /\ b[i + 1] = t[i + 1]
        BY <2>1, <2>3, <2>6, <3>3
      <4> QED BY <2>7, <3>3, <4>1, <4>2 DEF x
    <3>4. k \in 1..n \/ k - n \in 1..i \/ k = n + (i + 1)
      BY <2>1
    <3> QED BY <3>1, <3>2, <3>3, <3>4
  <2>9. Len(w) = Len(v)
    BY <2>1, <2>6, <2>7
  <2>10. w = v
    BY <2>6, <2>7, <2>8, <2>9, Alike
  <2> QED BY <2>10 DEF w, v, u, a, b, x
<1> QED BY <1>1, <1>2, <1>3

\* Messages of the user add results; told is only what answers a call.
LEMMA UsersAdded ==
  ASSUME NEW ms \in Seq(Messages), NEW t \in Seq(Users), NEW v, v = ms \o t
  PROVE  /\ v \in Seq(Messages) /\ Uses(v) = Uses(ms) /\ ResultsOf(v) = ResultsOf(ms) \cup ResultsOf(t)
         /\ Told(Normalize(ms)) \subseteq Told(Normalize(v))
         /\ \A r \in Told(Normalize(v)) :
              r \in Told(Normalize(ms)) \/ (r \in ResultsOf(t) /\ r.id \in Uses(ms))
         /\ Unique(Normalize(ms)) => Unique(Normalize(v))
         /\ Rids(v) = Rids(ms)
<1>1. /\ Len(t) \in Nat /\ \A i \in 1..Len(t) : t[i] \in Users /\ t[i] \in Messages /\ ~IsAssistant(t[i])
  BY InSequence, MessageIs DEF Messages
<1>2. t \in Seq(Messages)
  BY UsersSaid
<1> DEFINE w(i) == ms \o SubSeq(t, 1, i)
           Given(i) == UNION {Gives(t[k]) : k \in 1..i}
           P(i) == /\ w(i) \in Seq(Messages) /\ Uses(w(i)) = Uses(ms)
                   /\ ResultsOf(w(i)) = ResultsOf(ms) \cup Given(i)
                   /\ Told(Normalize(ms)) \subseteq Told(Normalize(w(i)))
                   /\ \A r \in Told(Normalize(w(i))) :
                        r \in Told(Normalize(ms)) \/ (r \in Given(i) /\ r.id \in Uses(ms))
                   /\ Unique(Normalize(ms)) => Unique(Normalize(w(i)))
                   /\ Rids(w(i)) = Rids(ms)
           N == {i \in 0..Len(t) : P(i)}
<1>3. w(0) = ms /\ w(Len(t)) = v
  BY <1>2, JoinedMore
<1>4. \A i \in 0..(Len(t) - 1) : w(i + 1) = Append(w(i), t[i + 1])
  BY <1>2, JoinedMore
<1> HIDE DEF w
<1>5. 0 \in N
  <2>1. Given(0) = {} /\ 0 \in 0..Len(t)
    BY <1>1
  <2> QED BY <1>3, <2>1
<1>6. ASSUME NEW i \in 0..Len(t), i + 1 \in 0..Len(t), i \in N PROVE i + 1 \in N
  <2>1. i \in 0..(Len(t) - 1) /\ i + 1 \in 1..Len(t) /\ i \in Nat
    BY <1>1, <1>6
  <2> DEFINE m == t[i + 1]
  <2>2. Given(i + 1) = Given(i) \cup Gives(m)
    <3>1. 1..(i + 1) = (1..i) \cup {i + 1}
      BY <2>1
    <3> QED BY <3>1
  <2>3. m \in Users /\ m \in Messages /\ ~IsAssistant(m) /\ w(i + 1) = Append(w(i), m)
    BY <1>1, <1>4, <2>1
  <2>4. P(i)
    BY <1>6
  <2> HIDE DEF m, Given
  <2>5. /\ w(i + 1) \in Seq(Messages) /\ Uses(w(i + 1)) = Uses(w(i))
        /\ ResultsOf(w(i + 1)) = ResultsOf(w(i)) \cup Gives(m)
        /\ Told(Normalize(w(i))) \subseteq Told(Normalize(w(i + 1)))
        /\ \A r \in Told(Normalize(w(i + 1))) :
             r \in Told(Normalize(w(i))) \/ (r \in Gives(m) /\ r.id \in Uses(w(i)))
        /\ Unique(Normalize(w(i))) => Unique(Normalize(w(i + 1)))
    BY <2>3, <2>4, UserAdded
  <2>6. Rids(w(i + 1)) = Rids(w(i))
    BY <2>3, <2>4, RidsMore
  <2>7. P(i + 1)
    BY <2>2, <2>4, <2>5, <2>6
  <2> HIDE DEF P
  <2> QED BY <1>6, <2>7
<1> HIDE DEF N, P
<1>7. 0..Len(t) \subseteq N
  BY <1>1, <1>5, <1>6, GoesOnUpTo
<1>8. P(Len(t))
  BY <1>1, <1>7 DEF N
<1>9. Given(Len(t)) = ResultsOf(t)
  BY <1>2, CallsOf
<1> HIDE DEF Given
<1> QED BY <1>3, <1>8, <1>9 DEF P

-----------------------------------------------------------------------------
(* What is taken out of a sequence                                           *)

\* One element after the other is selected, or not.
LEMMA SelectsSteps ==
  ASSUME NEW n \in Nat, NEW s, NEW S, NEW F, Selects(F, n, s, S)
  PROVE  /\ F[0] = <<>>
         /\ \A i \in 1..n : F[i] = IF s[i] \in S THEN Append(F[i - 1], s[i]) ELSE F[i - 1]
<1> DEFINE f == F
<1>1. f = [i \in 0..n |-> IF i = 0 THEN <<>> ELSE IF s[i] \in S THEN Append(F[i - 1], s[i]) ELSE F[i - 1]]
  BY DEF Selects
<1> HIDE DEF f
<1>2. f[0] = <<>>
  BY <1>1
<1>3. ASSUME NEW i \in 1..n PROVE f[i] = IF s[i] \in S THEN Append(F[i - 1], s[i]) ELSE F[i - 1]
  <2>1. i \in 0..n /\ i # 0
    OBVIOUS
  <2> QED BY <1>1, <2>1
<1> QED BY <1>2, <1>3 DEF f

\* As far as two sequences and two sets agree, the same is selected.
LEMMA SelectsAlike ==
  ASSUME NEW n \in Nat, NEW m \in Nat, n <= m, NEW s, NEW t, NEW A, NEW B, NEW F, NEW G,
         Selects(F, n, s, A), Selects(G, m, t, B),
         \A i \in 1..n : t[i] = s[i] /\ (s[i] \in A <=> s[i] \in B)
  PROVE  F[n] = G[n]
<1> DEFINE N == {i \in 0..n : F[i] = G[i]}
<1>1. /\ F[0] = <<>>
      /\ \A i \in 1..n : F[i] = IF s[i] \in A THEN Append(F[i - 1], s[i]) ELSE F[i - 1]
  BY SelectsSteps
<1>2. /\ G[0] = <<>>
      /\ \A i \in 1..m : G[i] = IF t[i] \in B THEN Append(G[i - 1], t[i]) ELSE G[i - 1]
  BY SelectsSteps
<1>3. 0 \in N
  BY <1>1, <1>2
<1>4. ASSUME NEW i \in 0..n, i + 1 \in 0..n, i \in N PROVE i + 1 \in N
  <2>1. i + 1 \in 1..n /\ i + 1 \in 1..m /\ (i + 1) - 1 = i
    BY <1>4
  <2>2. F[i + 1] = IF s[i + 1] \in A THEN Append(F[i], s[i + 1]) ELSE F[i]
    BY <1>1, <2>1
  <2>3. G[i + 1] = IF t[i + 1] \in B THEN Append(G[i], t[i + 1]) ELSE G[i]
    BY <1>2, <2>1
  <2>4. t[i + 1] = s[i + 1] /\ (s[i + 1] \in A <=> s[i + 1] \in B) /\ F[i] = G[i]
    BY <1>4, <2>1
  <2> QED BY <1>4, <2>2, <2>3, <2>4
<1> HIDE DEF N
<1>5. 0..n \subseteq N
  BY <1>3, <1>4, GoesOnUpTo
<1>6. n \in 0..n
  OBVIOUS
<1> QED BY <1>5, <1>6 DEF N

\* One element more in the sequence that is selected from.
LEMMA SelectedMore ==
  ASSUME NEW T, NEW s \in Seq(T), NEW x \in T, NEW A, NEW B,
         \A i \in 1..Len(s) : s[i] \in A <=> s[i] \in B
  PROVE  Selected(Append(s, x), B) = IF x \in B THEN Append(Selected(s, A), x) ELSE Selected(s, A)
<1> DEFINE n == Len(s)
           t == Append(s, x)
<1>1. n \in Nat /\ t \in Seq(T) /\ Len(t) = n + 1 /\ t[n + 1] = x /\ \A i \in 1..n : t[i] = s[i]
  BY Appended, InSequence
<1>2. PICK F : Selects(F, n, s, A) /\ Selected(s, A) = F[n]
  BY SelectedIs
<1>3. PICK G : Selects(G, n + 1, t, B) /\ Selected(t, B) = G[n + 1]
  BY <1>1, SelectedIs
<1>4. \A i \in 1..n : s[i] \in A <=> s[i] \in B
  OBVIOUS
<1> HIDE DEF n, t
<1> DEFINE m == n + 1
<1>5. m \in Nat /\ n <= m /\ m \in 1..m /\ m - 1 = n /\ n \in Nat
  BY <1>1
<1>6. Selects(G, m, t, B) /\ \A i \in 1..n : t[i] = s[i] /\ (s[i] \in A <=> s[i] \in B)
  BY <1>1, <1>3, <1>4
<1> HIDE DEF m
<1>7. F[n] = G[n]
  BY ONLY <1>2, <1>5, <1>6, SelectsAlike
<1>8. G[m] = IF t[m] \in B THEN Append(G[m - 1], t[m]) ELSE G[m - 1]
  BY ONLY <1>5, <1>6, SelectsSteps
<1>9. G[m] = IF x \in B THEN Append(G[n], x) ELSE G[n]
  BY <1>1, <1>5, <1>8 DEF m
<1> QED BY <1>2, <1>3, <1>7, <1>9 DEF m, t

\* The same for what is left.
LEMMA RejectedMore ==
  ASSUME NEW T, NEW s \in Seq(T), NEW x \in T, NEW S
  PROVE  Rejected(Append(s, x), S) = IF x \in S THEN Rejected(s, S) ELSE Append(Rejected(s, S), x)
<1> DEFINE t == Append(s, x)
           A == {s[i] : i \in DOMAIN s} \ S
           B == {t[i] : i \in DOMAIN t} \ S
<1>1. /\ DOMAIN s = 1..Len(s) /\ DOMAIN t = 1..(Len(s) + 1) /\ t[Len(s) + 1] = x /\ Len(s) \in Nat
      /\ \A i \in 1..Len(s) : t[i] = s[i]
  BY Appended, InSequence
<1>2. \A i \in 1..Len(s) : i \in 1..(Len(s) + 1)
  BY <1>1
<1>3. Len(s) + 1 \in 1..(Len(s) + 1)
  BY <1>1
<1>4. \A i \in 1..Len(s) : s[i] \in A <=> s[i] \in B
  BY <1>1, <1>2
<1>5. x \in B <=> x \notin S
  BY <1>1, <1>3
<1>6. Rejected(s, S) = Selected(s, A) /\ Rejected(t, S) = Selected(t, B)
  BY DEF Rejected
<1> HIDE DEF A, B
<1>7. Selected(t, B) = IF x \in B THEN Append(Selected(s, A), x) ELSE Selected(s, A)
  BY <1>4, SelectedMore
<1> QED BY <1>5, <1>6, <1>7

\* Only which of its elements are in the set matters.
LEMMA RejectedAlike ==
  ASSUME NEW T, NEW s \in Seq(T), NEW R, NEW S, \A i \in 1..Len(s) : s[i] \in R <=> s[i] \in S
  PROVE  Rejected(s, R) = Rejected(s, S)
<1> DEFINE A == {s[i] : i \in DOMAIN s} \ R
           B == {s[i] : i \in DOMAIN s} \ S
           n == Len(s)
<1>1. DOMAIN s = 1..n /\ n \in Nat /\ n <= n
  BY InSequence
<1>2. \A i \in 1..n : s[i] = s[i] /\ (s[i] \in A <=> s[i] \in B)
  BY <1>1
<1>3. Rejected(s, R) = Selected(s, A) /\ Rejected(s, S) = Selected(s, B)
  BY DEF Rejected
<1> HIDE DEF A, B
<1>4. PICK F : Selects(F, n, s, A) /\ Selected(s, A) = F[n]
  BY SelectedIs
<1>5. PICK G : Selects(G, n, s, B) /\ Selected(s, B) = G[n]
  BY SelectedIs
<1> HIDE DEF n
<1>6. F[n] = G[n]
  BY <1>1, <1>2, <1>4, <1>5, SelectsAlike
<1> QED BY <1>3, <1>4, <1>5, <1>6

\* What is left has exactly the elements that are not in the set.
LEMMA RejectedElements ==
  ASSUME NEW T, NEW s \in Seq(T), NEW S, NEW r, r = Rejected(s, S)
  PROVE  /\ r \in Seq(T)
         /\ \A a \in 1..Len(r) : r[a] \notin S /\ \E i \in 1..Len(s) : s[i] = r[a]
         /\ \A i \in 1..Len(s) : s[i] \notin S => \E a \in 1..Len(r) : r[a] = s[i]
<1> DEFINE A == {s[i] : i \in DOMAIN s} \ S
<1>1. DOMAIN s = 1..Len(s)
  BY InSequence
<1>2. \A i \in 1..Len(s) : s[i] \in A <=> s[i] \notin S
  BY <1>1
<1>3. r = Selected(s, A)
  BY DEF Rejected
<1> HIDE DEF A
<1>4. /\ r \in Seq(T)
      /\ \A a \in 1..Len(r) : r[a] \in A /\ \E i \in 1..Len(s) : s[i] = r[a]
      /\ \A i \in 1..Len(s) : s[i] \in A => \E a \in 1..Len(r) : r[a] = s[i]
  BY <1>3, SelectedElements
<1> QED BY <1>2, <1>4

\* What comes after and is not in the set is left as it is.
LEMMA RejectedJoined ==
  ASSUME NEW T, NEW s \in Seq(T), NEW t \in Seq(T), NEW S, \A i \in 1..Len(t) : t[i] \notin S
  PROVE  Rejected(s \o t, S) = Rejected(s, S) \o t
<1> DEFINE w(i) == s \o SubSeq(t, 1, i)
           q == Rejected(s, S)
           z(i) == q \o SubSeq(t, 1, i)
           N == {i \in 0..Len(t) : Rejected(w(i), S) = z(i)}
<1>1. q \in Seq(T) /\ Len(t) \in Nat /\ \A i \in 1..Len(t) : t[i] \in T
  BY RejectedElements, InSequence
<1>2. w(0) = s /\ w(Len(t)) = s \o t /\ \A i \in 0..(Len(t) - 1) : w(i + 1) = Append(w(i), t[i + 1])
  BY JoinedMore
<1>3. \A i \in 0..Len(t) : w(i) \in Seq(T)
  <2> TAKE i \in 0..Len(t)
  <2>1. SubSeq(t, 1, i) \in Seq(T)
    BY Cut
  <2> QED BY <2>1, Joined
<1> HIDE DEF w
<1> HIDE DEF q
<1>4. z(0) = q /\ z(Len(t)) = q \o t /\ \A i \in 0..(Len(t) - 1) : z(i + 1) = Append(z(i), t[i + 1])
  <2>1. q \o SubSeq(t, 1, 0) = q /\ q \o SubSeq(t, 1, Len(t)) = q \o t
    BY ONLY <1>1, t \in Seq(T), JoinedMore
  <2>2. \A i \in 0..(Len(t) - 1) : q \o SubSeq(t, 1, i + 1) = Append(q \o SubSeq(t, 1, i), t[i + 1])
    BY ONLY <1>1, t \in Seq(T), JoinedMore
  <2> QED BY <2>1, <2>2
<1> HIDE DEF z
<1>5. 0 \in N
  BY <1>1, <1>2, <1>4 DEF q
<1>6. ASSUME NEW i \in 0..Len(t), i + 1 \in 0..Len(t), i \in N PROVE i + 1 \in N
  <2>1. i \in 0..(Len(t) - 1) /\ i + 1 \in 1..Len(t)
    BY <1>1, <1>6
  <2> DEFINE x == t[i + 1]
  <2>2. w(i) \in Seq(T) /\ x \in T /\ w(i + 1) = Append(w(i), x) /\ z(i + 1) = Append(z(i), x) /\ x \notin S
    BY <1>1, <1>2, <1>3, <1>4, <2>1
  <2> HIDE DEF x
  <2>3. Rejected(Append(w(i), x), S) = Append(Rejected(w(i), S), x)
    BY <2>2, RejectedMore
  <2> QED BY <1>6, <2>2, <2>3
<1> HIDE DEF N
<1>7. 0..Len(t) \subseteq N
  BY <1>1, <1>5, <1>6, GoesOnUpTo
<1>8. Len(t) \in 0..Len(t)
  BY <1>1
<1>9. Rejected(w(Len(t)), S) = z(Len(t))
  BY <1>7, <1>8 DEF N
<1> QED BY <1>2, <1>4, <1>9 DEF q

\* If nothing is in the set, all is left.
LEMMA RejectedNone ==
  ASSUME NEW T, NEW s \in Seq(T), NEW S, \A i \in 1..Len(s) : s[i] \notin S
  PROVE  Rejected(s, S) = s
<1> DEFINE e == SubSeq(s, 1, 0)
<1>1. e = <<>> /\ e \in Seq(T) /\ e \o s = s
  OBVIOUS
<1> HIDE DEF e
<1>2. Rejected(e \o s, S) = Rejected(e, S) \o s
  BY <1>1, RejectedJoined
<1>3. Rejected(e, S) = e
  <2> DEFINE q == Rejected(e, S)
  <2>1. q \in Seq(T) /\ \A a \in 1..Len(q) : \E i \in 1..Len(e) : e[i] = q[a]
    BY <1>1, RejectedElements
  <2> HIDE DEF q
  <2>2. Len(e) = 0 /\ Len(q) \in Nat
    BY <1>1, <2>1
  <2>3. Len(q) = 0
    <3> SUFFICES ASSUME Len(q) # 0 PROVE FALSE
      OBVIOUS
    <3>1. 1 \in 1..Len(q)
      BY <2>2
    <3> QED BY <2>1, <2>2, <3>1
  <2> QED BY <1>1, <2>1, <2>2, <2>3 DEF q
<1> QED BY <1>1, <1>2, <1>3

-----------------------------------------------------------------------------
(* Conversations that are put together                                       *)

\* w has the elements of both, and no others.
MadeUp(w, s, t) ==
  /\ \A i \in 1..Len(w) : (\E j \in 1..Len(s) : w[i] = s[j]) \/ \E j \in 1..Len(t) : w[i] = t[j]
  /\ \A j \in 1..Len(s) : \E i \in 1..Len(w) : w[i] = s[j]
  /\ \A j \in 1..Len(t) : \E i \in 1..Len(w) : w[i] = t[j]

\* A conversation joined from two has the elements of both.
LEMMA OneOfJoined ==
  ASSUME NEW T, NEW s \in Seq(T), NEW t \in Seq(T)
  PROVE  MadeUp(s \o t, s, t)
<1> DEFINE n == Len(s)
           l == Len(t)
           q == s \o t
<1>1. n \in Nat /\ l \in Nat /\ Len(q) = n + l
  BY Joined, InSequence
<1>2. \A i \in 1..n : q[i] = s[i]
  BY Joined
<1>3. \A i \in 1..l : q[n + i] = t[i]
  BY Joined
<1> HIDE DEF n, l, q
<1>4. ASSUME NEW i \in 1..Len(q) PROVE (\E j \in 1..n : q[i] = s[j]) \/ \E j \in 1..l : q[i] = t[j]
  <2>1. CASE i \in 1..n
    BY <1>2, <2>1
  <2>2. CASE i - n \in 1..l
    <3>1. n + (i - n) = i
      BY <1>1
    <3>2. q[n + (i - n)] = t[i - n]
      BY <1>3, <2>2
    <3> QED BY <2>2, <3>1, <3>2
  <2>3. i \in 1..n \/ i - n \in 1..l
    BY <1>1
  <2> QED BY <2>1, <2>2, <2>3
<1>5. \A j \in 1..n : j \in 1..Len(q)
  BY <1>1
<1>6. \A j \in 1..l : n + j \in 1..Len(q)
  BY <1>1
<1> QED BY <1>2, <1>3, <1>4, <1>5, <1>6 DEF n, l, q, MadeUp

\* The calls, results and responses of both.
LEMMA CallsJoined ==
  ASSUME NEW s \in Seq(Messages), NEW t \in Seq(Messages)
  PROVE  /\ Uses(s \o t) = Uses(s) \cup Uses(t) /\ ResultsOf(s \o t) = ResultsOf(s) \cup ResultsOf(t)
         /\ Rids(s \o t) = Rids(s) \cup Rids(t)
<1> DEFINE q == s \o t
<1>1. q \in Seq(Messages)
  BY Joined
<1>2. /\ \A i \in 1..Len(q) : (\E j \in 1..Len(s) : q[i] = s[j]) \/ \E j \in 1..Len(t) : q[i] = t[j]
      /\ \A j \in 1..Len(s) : \E i \in 1..Len(q) : q[i] = s[j]
      /\ \A j \in 1..Len(t) : \E i \in 1..Len(q) : q[i] = t[j]
  <2>1. MadeUp(s \o t, s, t)
    BY ONLY s \in Seq(Messages), t \in Seq(Messages), OneOfJoined
  <2> QED BY ONLY <2>1 DEF q, MadeUp
<1> HIDE DEF q
<1>3. \A u : u \in Uses(q) <=> u \in Uses(s) \/ u \in Uses(t)
  <2>1. /\ \A u : u \in Uses(q) <=> \E i \in 1..Len(q) : u \in Asks(q[i])
        /\ \A u : u \in Uses(s) <=> \E i \in 1..Len(s) : u \in Asks(s[i])
        /\ \A u : u \in Uses(t) <=> \E i \in 1..Len(t) : u \in Asks(t[i])
    BY <1>1, CallsOf
  <2> QED BY <1>2, <2>1
<1>4. \A r : r \in ResultsOf(q) <=> r \in ResultsOf(s) \/ r \in ResultsOf(t)
  <2>1. /\ \A r : r \in ResultsOf(q) <=> \E i \in 1..Len(q) : r \in Gives(q[i])
        /\ \A r : r \in ResultsOf(s) <=> \E i \in 1..Len(s) : r \in Gives(s[i])
        /\ \A r : r \in ResultsOf(t) <=> \E i \in 1..Len(t) : r \in Gives(t[i])
    BY <1>1, CallsOf
  <2> QED BY <1>2, <2>1
<1>5. \A x : x \in Rids(q) <=> x \in Rids(s) \/ x \in Rids(t)
  <2>1. /\ \A x : x \in Rids(q) <=> \E i \in 1..Len(q) : IsAssistant(q[i]) /\ x = q[i].rid
        /\ \A x : x \in Rids(s) <=> \E i \in 1..Len(s) : IsAssistant(s[i]) /\ x = s[i].rid
        /\ \A x : x \in Rids(t) <=> \E i \in 1..Len(t) : IsAssistant(t[i]) /\ x = t[i].rid
    BY DEF Rids
  <2>2. ASSUME NEW x PROVE x \in Rids(q) <=> x \in Rids(s) \/ x \in Rids(t)
    <3>1. ASSUME x \in Rids(q) PROVE x \in Rids(s) \/ x \in Rids(t)
      <4>1. PICK i \in 1..Len(q) : IsAssistant(q[i]) /\ x = q[i].rid
        BY <2>1, <3>1
      <4>2. CASE \E j \in 1..Len(s) : q[i] = s[j]
        BY <2>1, <4>1, <4>2
      <4>3. CASE \E j \in 1..Len(t) : q[i] = t[j]
        BY <2>1, <4>1, <4>3
      <4> QED BY <1>2, <4>2, <4>3
    <3>2. ASSUME x \in Rids(s) PROVE x \in Rids(q)
      BY <1>2, <2>1, <3>2
    <3>3. ASSUME x \in Rids(t) PROVE x \in Rids(q)
      <4>1. PICK j \in 1..Len(t) : IsAssistant(t[j]) /\ x = t[j].rid
        BY <2>1, <3>3
      <4>2. PICK i \in 1..Len(q) : q[i] = t[j]
        BY <1>2
      <4> QED BY <2>1, <4>1, <4>2
    <3> QED BY <3>1, <3>2, <3>3
  <2> QED BY <2>2
<1> QED BY <1>3, <1>4, <1>5 DEF q

-----------------------------------------------------------------------------
(* The results that the executor delivers                                    *)

\* The messages t bring the results rs of the calls ids, one each.
Delivers(t, rs, ids) ==
  /\ t \in Seq(Users) /\ rs \in Seq(Results) /\ Len(rs) = Len(t) /\ Once(rs)
  /\ \A i \in 1..Len(t) : Brings(t[i], rs[i])
  /\ \A i \in 1..Len(rs) : rs[i].id \in ids /\ rs[i] = Result(rs[i].id, TRUE)
  /\ \A id \in ids : \E i \in 1..Len(rs) : rs[i].id = id
Answered(t, ids) == \E rs : Delivers(t, rs, ids)

\* A result that a tool gave.
LEMMA RealResult ==
  ASSUME NEW id \in Nat
  PROVE  Result(id, TRUE) \in Results /\ Result(id, TRUE).id = id /\ Result(id, TRUE).real
  BY DEF Result, Results

\* A function on 1..n is a sequence.
LEMMA MadeOf ==
  ASSUME NEW T, NEW n \in Nat, NEW f, DOMAIN f = 1..n, f = [i \in 1..n |-> f[i]], \A i \in 1..n : f[i] \in T
  PROVE  f \in Seq(T) /\ Len(f) = n
  OBVIOUS

\* What the executor has ready answers those calls.
LEMMA ReadyIs ==
  ASSUME NEW ids \in CallSets
  PROVE  Answered(Ready(ids), ids)
<1> DEFINE s == SetToSeq(ids)
           rs == [i \in 1..Cardinality(ids) |-> Result(s[i], TRUE)]
           t == Ready(ids)
<1>1. ids \subseteq Nat /\ IsFiniteSet(ids)
  BY DEF CallSets
<1>2. /\ s \in Seq(ids) /\ (\A k, l \in 1..Len(s) : s[k] = s[l] => k = l)
      /\ (\A x \in ids : \E k \in 1..Len(s) : s[k] = x)
      /\ Len(s) = Cardinality(ids)
  BY <1>1, SetInOrder
<1>3. t = [i \in 1..Len(s) |-> User(<<Result(s[i], TRUE)>>, FALSE)]
      /\ rs = [i \in 1..Len(s) |-> Result(s[i], TRUE)]
  BY <1>2 DEF Ready
<1>4. Len(s) \in Nat /\ \A i \in 1..Len(s) : s[i] \in ids
  BY <1>2, InSequence
<1> HIDE DEF s, rs, t
<1> DEFINE n == Len(s)
<1>5. \A i \in 1..n : rs[i] = Result(s[i], TRUE) /\ rs[i] \in Results /\ rs[i].id = s[i]
  <2> TAKE i \in 1..n
  <2>1. rs[i] = Result(s[i], TRUE) /\ s[i] \in Nat
    BY <1>1, <1>3, <1>4
  <2> QED BY <2>1, RealResult
<1>6. \A i \in 1..n : Brings(t[i], rs[i]) /\ t[i] \in Users
  <2> TAKE i \in 1..n
  <2>1. t[i] = User(<<rs[i]>>, FALSE)
    BY <1>3, <1>5
  <2>2. Brings(t[i], rs[i])
    BY <2>1 DEF Brings
  <2> QED BY <1>5, <2>2, BringsOne
<1> HIDE DEF n
<1>7. n \in Nat /\ n = Len(s)
  BY <1>4 DEF n
<1>8. rs \in Seq(Results) /\ Len(rs) = n
  <2>1. DOMAIN rs = 1..n /\ rs = [i \in 1..n |-> rs[i]]
    BY <1>3, <1>7
  <2> QED BY <1>5, <1>7, <2>1, MadeOf
<1>9. t \in Seq(Users) /\ Len(t) = n
  <2>1. DOMAIN t = 1..n /\ t = [i \in 1..n |-> t[i]]
    BY <1>3, <1>7
  <2> QED BY <1>6, <1>7, <2>1, MadeOf
<1>10. Once(rs)
  <2>1. \A k, l \in 1..n : s[k] = s[l] => k = l
    BY <1>2, <1>7
  <2>2. \A k, l \in 1..n : rs[k].id = rs[l].id => k = l
    BY <1>5, <2>1
  <2> QED BY <1>8, <2>2 DEF Once
<1>11. \A i \in 1..n : rs[i].id \in ids /\ rs[i] = Result(rs[i].id, TRUE)
  BY <1>4, <1>5, <1>7
<1>12. \A id \in ids : \E i \in 1..n : rs[i].id = id
  <2>1. \A id \in ids : \E i \in 1..n : s[i] = id
    BY <1>2, <1>7
  <2> QED BY <1>5, <2>1
<1>13. Delivers(t, rs, ids)
  BY <1>6, <1>8, <1>9, <1>10, <1>11, <1>12 DEF Delivers
<1> QED BY <1>13 DEF Answered, t

\* No message answers no call.
LEMMA NothingAnswered == Answered(<<>>, {})
<1> DEFINE e == <<>>
<1>1. e \in Seq(Users) /\ e \in Seq(Results) /\ Len(e) = 0 /\ 1..Len(e) = {}
  OBVIOUS
<1> HIDE DEF e
<1>2. Delivers(e, e, {})
  BY <1>1 DEF Delivers, Once
<1> QED BY <1>2 DEF Answered, e

\* Answers to other calls come behind.
LEMMA MoreAnswered ==
  ASSUME NEW t, NEW out, Answered(t, out), NEW u, NEW ids, Answered(u, ids), ids \cap out = {}
  PROVE  Answered(t \o u, out \cup ids)
<1>1. PICK rs : Delivers(t, rs, out)
  BY DEF Answered
<1>2. PICK qs : Delivers(u, qs, ids)
  BY DEF Answered
<1> DEFINE n == Len(t)
           l == Len(u)
           p == t \o u
           xs == rs \o qs
<1>3. t \in Seq(Users) /\ u \in Seq(Users) /\ rs \in Seq(Results) /\ qs \in Seq(Results)
      /\ Len(rs) = n /\ Len(qs) = l
  BY <1>1, <1>2 DEF Delivers
<1>4. n \in Nat /\ l \in Nat
  BY <1>3, InSequence
<1>5. p \in Seq(Users) /\ Len(p) = n + l /\ \A i \in 1..n : p[i] = t[i]
  BY <1>3, Joined
<1>6. \A i \in 1..l : p[n + i] = u[i]
  BY <1>3, Joined
<1>7. xs \in Seq(Results) /\ Len(xs) = n + l /\ \A i \in 1..n : xs[i] = rs[i]
  <2>1. xs \in Seq(Results) /\ Len(xs) = Len(rs) + Len(qs)
    BY <1>3, Joined
  <2>2. \A i \in 1..Len(rs) : xs[i] = rs[i]
    BY <1>3, Joined
  <2> QED BY <1>3, <2>1, <2>2
<1>8. \A i \in 1..l : xs[n + i] = qs[i]
  BY <1>3, Joined
<1>9. /\ \A i \in 1..n : Brings(t[i], rs[i]) /\ rs[i].id \in out /\ rs[i] = Result(rs[i].id, TRUE)
      /\ \A i, j \in 1..n : rs[i].id = rs[j].id => i = j
  BY <1>1, <1>3 DEF Delivers, Once
<1>10. /\ \A i \in 1..l : Brings(u[i], qs[i]) /\ qs[i].id \in ids /\ qs[i] = Result(qs[i].id, TRUE)
       /\ \A i, j \in 1..l : qs[i].id = qs[j].id => i = j
  BY <1>2, <1>3 DEF Delivers, Once
<1>11. (\A id \in out : \E i \in 1..n : rs[i].id = id) /\ (\A id \in ids : \E i \in 1..l : qs[i].id = id)
  BY <1>1, <1>2, <1>3 DEF Delivers
<1> HIDE DEF n, l, p, xs
<1>12. \A i \in 1..(n + l) : i \in 1..n \/ (i - n \in 1..l /\ n + (i - n) = i)
  BY <1>4
<1>13. \A i \in 1..(n + l) :
         \/ i \in 1..n /\ p[i] = t[i] /\ xs[i] = rs[i]
         \/ i - n \in 1..l /\ p[i] = u[i - n] /\ xs[i] = qs[i - n]
  BY <1>5, <1>6, <1>7, <1>8, <1>12
<1>14. \A i \in 1..(n + l) :
         Brings(p[i], xs[i]) /\ xs[i].id \in out \cup ids /\ xs[i] = Result(xs[i].id, TRUE)
  <2> TAKE i \in 1..(n + l)
  <2>1. CASE i \in 1..n /\ p[i] = t[i] /\ xs[i] = rs[i]
    BY <1>9, <2>1
  <2>2. CASE i - n \in 1..l /\ p[i] = u[i - n] /\ xs[i] = qs[i - n]
    BY <1>10, <2>2
  <2> QED BY <1>13, <2>1, <2>2
<1>15. ASSUME NEW i \in 1..(n + l), NEW j \in 1..(n + l), xs[i].id = xs[j].id PROVE i = j
  <2>1. CASE i \in 1..n /\ j \in 1..n
    BY <1>7, <1>9, <1>15, <2>1
  <2>2. CASE i \notin 1..n /\ j \notin 1..n
    <3>1. i - n \in 1..l /\ j - n \in 1..l /\ xs[i] = qs[i - n] /\ xs[j] = qs[j - n]
      BY <1>13, <2>2
    <3>2. i - n = j - n
      BY <1>10, <1>15, <3>1
    <3> QED BY <1>4, <3>2
  <2>3. CASE i \in 1..n /\ j \notin 1..n
    <3>1. xs[i].id \in out
      BY <1>7, <1>9, <2>3
    <3>2. j - n \in 1..l /\ xs[j] = qs[j - n]
      BY <1>13, <2>3
    <3>3. xs[j].id \in ids
      BY <1>10, <3>2
    <3> QED BY <1>15, <3>1, <3>3
  <2>4. CASE i \notin 1..n /\ j \in 1..n
    <3>1. xs[j].id \in out
      BY <1>7, <1>9, <2>4
    <3>2. i - n \in 1..l /\ xs[i] = qs[i - n]
      BY <1>13, <2>4
    <3>3. xs[i].id \in ids
      BY <1>10, <3>2
    <3> QED BY <1>15, <3>1, <3>3
  <2> QED BY <2>1, <2>2, <2>3, <2>4
<1>16. (\A i \in 1..n : i \in 1..(n + l)) /\ \A i \in 1..l : n + i \in 1..(n + l)
  BY <1>4
<1>17. \A id \in out \cup ids : \E i \in 1..(n + l) : xs[i].id = id
  BY <1>7, <1>8, <1>11, <1>16
<1>18. Delivers(p, xs, out \cup ids)
  BY <1>5, <1>7, <1>14, <1>15, <1>17 DEF Delivers, Once
<1> QED BY <1>18 DEF Answered, p

\* The results of calls of the response come to stand behind it, each first.
LEMMA GroupAnswered ==
  ASSUME NEW v \in Seq(Messages), NEW s, NEW rid, NEW uses, NEW rs,
         GroupTyped(s, rid, uses, rs), Group(Normalize(v), s, rid, uses, rs),
         NEW t, NEW qs, NEW ids, Delivers(t, qs, ids)
  PROVE  /\ v \o t \in Seq(Messages)
         /\ Group(Normalize(v \o t), s, rid, uses, rs \o qs) /\ GroupTyped(s, rid, uses, rs \o qs)
<1> DEFINE w(i) == v \o SubSeq(t, 1, i)
           z(i) == rs \o SubSeq(qs, 1, i)
           l == Len(t)
           P(i) == /\ w(i) \in Seq(Messages) /\ Group(Normalize(w(i)), s, rid, uses, z(i))
                   /\ GroupTyped(s, rid, uses, z(i))
           N == {i \in 0..l : P(i)}
<1>1. t \in Seq(Users) /\ qs \in Seq(Results) /\ Len(qs) = l /\ rs \in Seq(Results)
  BY DEF Delivers, GroupTyped
<1>2. l \in Nat /\ \A i \in 1..l : t[i] \in Users /\ qs[i] \in Results /\ Brings(t[i], qs[i])
  BY <1>1, InSequence DEF Delivers
<1>3. t \in Seq(Messages)
  BY <1>1, UsersSaid
<1>4. w(0) = v /\ w(l) = v \o t /\ \A i \in 0..(l - 1) : w(i + 1) = Append(w(i), t[i + 1])
  BY <1>3, JoinedMore
<1>5. z(0) = rs /\ z(l) = rs \o qs /\ \A i \in 0..(l - 1) : z(i + 1) = Append(z(i), qs[i + 1])
  <2>1. /\ z(0) = rs /\ z(Len(qs)) = rs \o qs
        /\ \A i \in 0..(Len(qs) - 1) : z(i + 1) = Append(z(i), qs[i + 1])
    <3>1. rs \in Seq(Results) /\ qs \in Seq(Results)
      BY <1>1
    <3>2. z(0) = rs /\ z(Len(qs)) = rs \o qs
      BY ONLY <3>1, JoinedMore
    <3>3. \A i \in 0..(Len(qs) - 1) : z(i + 1) = Append(z(i), qs[i + 1])
      BY ONLY <3>1, JoinedMore
    <3> QED BY <3>2, <3>3
  <2> HIDE DEF z
  <2>2. Len(qs) = l
    BY <1>1
  <2> HIDE DEF l
  <2> QED BY <2>1, <2>2
<1> HIDE DEF w, z
<1>6. 0 \in N
  BY <1>2, <1>4, <1>5
<1> HIDE DEF l
<1>7. ASSUME NEW i \in 0..l, i + 1 \in 0..l, i \in N PROVE i + 1 \in N
  <2> DEFINE m == t[i + 1]
             r == qs[i + 1]
             nm == Normalize(w(i))
             y == z(i)
  <2>1. i \in 0..(l - 1) /\ i + 1 \in 1..l
    BY <1>2, <1>7
  <2>2. m \in Users /\ r \in Results /\ Brings(m, r) /\ w(i + 1) = Append(w(i), m) /\ z(i + 1) = Append(y, r)
    BY <1>2, <1>4, <1>5, <2>1
  <2>3. w(i) \in Seq(Messages) /\ Group(nm, s, rid, uses, y) /\ GroupTyped(s, rid, uses, y)
    BY <1>7
  <2> HIDE DEF r, m, y
  <2>4. m \in Messages /\ ~IsApiError(m)
    BY <2>2, BringsOne
  <2>5. w(i + 1) \in Seq(Messages)
    <3>1. Append(w(i), m) \in Seq(Messages)
      BY <2>3, <2>4, Appended
    <3> QED BY <2>2, <3>1
  <2>6. Normalize(w(i + 1)) = Merged(nm, m)
    BY <2>2, <2>3, <2>4, NormalizeMore
  <2> HIDE DEF nm
  <2>7. m = User(<<r>>, FALSE)
    BY <2>2 DEF Brings
  <2>8. Group(Merged(nm, m), s, rid, uses, Append(y, r)) /\ GroupTyped(s, rid, uses, Append(y, r))
    BY <2>2, <2>3, <2>7, GroupResult
  <2>9. P(i + 1)
    BY <2>2, <2>5, <2>6, <2>8
  <2> HIDE DEF P
  <2> QED BY <1>7, <2>9
<1> HIDE DEF N, P
<1>8. 0..l \subseteq N
  BY <1>2, <1>6, <1>7, GoesOnUpTo
<1>9. P(l)
  BY <1>2, <1>8 DEF N
<1> QED BY <1>4, <1>5, <1>9 DEF P

\* Such messages have these results, and no calls.
LEMMA AnsweredResults ==
  ASSUME NEW t, NEW ids, Answered(t, ids)
  PROVE  /\ t \in Seq(Users) /\ t \in Seq(Messages) /\ Uses(t) = {} /\ Rids(t) = {}
         /\ ResultsOf(t) = {Result(id, TRUE) : id \in ids}
         /\ \A i \in 1..Len(t) : ~IsAssistant(t[i])
<1>1. PICK rs : Delivers(t, rs, ids)
  BY DEF Answered
<1>2. t \in Seq(Users) /\ rs \in Seq(Results) /\ Len(rs) = Len(t)
  BY <1>1 DEF Delivers
<1>3. /\ Len(t) \in Nat
      /\ \A i \in 1..Len(t) : /\ t[i] \in Users /\ rs[i] \in Results /\ Brings(t[i], rs[i])
                              /\ rs[i] = Result(rs[i].id, TRUE) /\ rs[i].id \in ids
  BY <1>1, <1>2, InSequence DEF Delivers
<1>4. \A i \in 1..Len(t) : t[i] \in Messages /\ ~IsAssistant(t[i]) /\ Gives(t[i]) = {rs[i]} /\ Asks(t[i]) = {}
  BY <1>3, BringsOne
<1>5. t \in Seq(Messages)
  BY <1>2, UsersSaid
<1>6. Uses(t) = {} /\ Rids(t) = {}
  BY <1>4, <1>5, CallsOf DEF Rids
<1>7. ASSUME NEW r \in ResultsOf(t) PROVE r \in {Result(id, TRUE) : id \in ids}
  <2>1. PICK i \in 1..Len(t) : r \in Gives(t[i])
    BY <1>5, CallsOf
  <2> QED BY <1>3, <1>4, <2>1
<1>8. ASSUME NEW id \in ids PROVE Result(id, TRUE) \in ResultsOf(t)
  <2>1. PICK i \in 1..Len(t) : rs[i].id = id
    BY <1>1, <1>2 DEF Delivers
  <2>2. Result(id, TRUE) = rs[i] /\ rs[i] \in Gives(t[i])
    BY <1>3, <1>4, <2>1
  <2> QED BY <1>5, <2>1, <2>2, CallsOf
<1> QED BY <1>2, <1>4, <1>5, <1>6, <1>7, <1>8

\* A result is the first of its call if there is none before.
LEMMA FirstOfOnce ==
  ASSUME NEW rs \in Seq(Results), NEW qs \in Seq(Results), Once(qs), NEW k \in 1..Len(qs),
         \A j \in 1..Len(rs) : rs[j].id # qs[k].id
  PROVE  First(rs \o qs, qs[k])
<1> DEFINE n == Len(rs)
           l == Len(qs)
           x == rs \o qs
           r == qs[k]
<1>1. n \in Nat /\ l \in Nat /\ k \in 1..l
  BY InSequence
<1>2. Len(x) = n + l /\ \A i \in 1..n : x[i] = rs[i]
  BY Joined
<1>3. \A i \in 1..l : x[n + i] = qs[i]
  BY Joined
<1>4. (\A j \in 1..n : rs[j].id # r.id) /\ \A i \in 1..l : qs[i].id = r.id => i = k
  BY DEF Once
<1> HIDE DEF n, l, x
<1>5. n + k \in 1..Len(x) /\ x[n + k] = r
  BY <1>1, <1>2, <1>3
<1> HIDE DEF r
<1>6. ASSUME NEW i \in 1..((n + k) - 1) PROVE x[i].id # r.id
  <2>1. CASE i \in 1..n
    BY <1>2, <1>4, <2>1
  <2>2. CASE i - n \in 1..l /\ i - n # k
    <3>1. n + (i - n) = i
      BY <1>1
    <3>2. x[i] = qs[i - n]
      BY <1>3, <2>2, <3>1
    <3> QED BY <1>4, <2>2, <3>2
  <2>3. i \in 1..n \/ (i - n \in 1..l /\ i - n # k)
    BY <1>1
  <2> QED BY <2>1, <2>2, <2>3
<1>7. First(x, r)
  BY <1>5, <1>6 DEF First
<1> QED BY <1>7 DEF x, r

\* Results of calls of the last response that have none yet: they are told.
LEMMA OpenAnswered ==
  ASSUME NEW v \in Seq(Messages), NEW rid, NEW uses, Opened(Normalize(v), rid, uses),
         NEW t, NEW ids, Answered(t, ids), ids \subseteq uses, \A r \in ResultsOf(v) : r.id \notin ids
  PROVE  /\ Opened(Normalize(v \o t), rid, uses)
         /\ Told(Normalize(v \o t)) = Told(Normalize(v)) \cup ResultsOf(t)
<1>1. PICK s, rs : GroupTyped(s, rid, uses, rs) /\ Group(Normalize(v), s, rid, uses, rs)
  BY DEF Opened
<1>2. PICK qs : Delivers(t, qs, ids)
  BY DEF Answered
<1> DEFINE q == v \o t
           nm == Normalize(v)
           more == {Result(id, TRUE) : id \in ids}
<1>3. q \in Seq(Messages) /\ Group(Normalize(q), s, rid, uses, rs \o qs) /\ GroupTyped(s, rid, uses, rs \o qs)
  BY <1>1, <1>2, GroupAnswered
<1>4. t \in Seq(Users) /\ ResultsOf(t) = more
  BY AnsweredResults
<1>5. /\ Told(nm) \subseteq Told(Normalize(q))
      /\ \A r \in Told(Normalize(q)) : r \in Told(nm) \/ (r \in ResultsOf(t) /\ r.id \in Uses(v))
  BY <1>4, UsersAdded
<1>6. Normal(nm) /\ ResultsOf(nm) = ResultsOf(v)
  BY NormalizeNormal
<1>7. rs \in Seq(Results) /\ qs \in Seq(Results) /\ Once(qs)
  BY <1>1, <1>2 DEF GroupTyped, Delivers
<1> HIDE DEF nm, q
<1>8. \A k \in 1..Len(rs) : rs[k] \in ResultsOf(v)
  <2>1. Group(nm, s, rid, uses, rs)
    BY <1>1 DEF nm
  <2> QED BY <1>1, <1>6, <2>1, GroupGives
<1>9. ASSUME NEW id \in ids PROVE Result(id, TRUE) \in Told(Normalize(q))
  <2>1. PICK k \in 1..Len(qs) : qs[k].id = id
    BY <1>2 DEF Delivers
  <2>2. qs[k] = Result(id, TRUE)
    BY <1>2, <2>1 DEF Delivers
  <2>3. \A j \in 1..Len(rs) : rs[j].id # qs[k].id
    BY <1>8, <2>1
  <2>4. First(rs \o qs, qs[k])
    BY <1>7, <2>1, <2>3, FirstOfOnce
  <2>5. Normal(Normalize(q)) /\ qs[k].id \in uses
    BY <1>3, <2>1, NormalizeNormal
  <2> HIDE DEF more
  <2> DEFINE r == qs[k]
             xs == rs \o qs
  <2>6. GroupTyped(s, rid, uses, xs) /\ Group(Normalize(q), s, rid, uses, xs) /\ First(xs, r) /\ r.id \in uses
    BY <1>3, <2>4, <2>5
  <2>7. r = Result(id, TRUE)
    BY <2>2
  <2> HIDE DEF r, xs
  <2>8. r \in Told(Normalize(q))
    BY <2>5, <2>6, GroupTold
  <2> QED BY <2>7, <2>8
<1>10. Opened(Normalize(q), rid, uses)
  BY <1>3 DEF Opened
<1>11. Told(Normalize(q)) = Told(nm) \cup more
  <2>1. \A r \in more : r \in Told(Normalize(q))
    BY <1>9
  <2> HIDE DEF more
  <2> QED BY <1>4, <1>5, <2>1
<1> HIDE DEF more
<1> QED BY <1>4, <1>10, <1>11 DEF nm, q

-----------------------------------------------------------------------------
(* A response, and what is said after it                                     *)

\* What a response adds: nothing but errors, or one message.
Spoken(p, nm, rid, uses) ==
  \/ p = nm /\ uses = {}
  \/ uses \in CallSets /\ rid \in Int /\ p = Append(nm, Assistant(rid, uses, "none"))

\* The messages of a new response say what Spoken says, and change nothing of what is told.
LEMMA Said ==
  ASSUME NEW s \in Seq(Messages), NEW a \in Seq(Assistants), NEW rid,
         \A i \in 1..Len(a) : a[i].rid = rid /\ rid \notin Rids(s),
         Uses(a) \cap Uses(s) = {}, \A r \in ResultsOf(s) : r.id \notin Uses(a)
  PROVE  /\ s \o a \in Seq(Messages) /\ Told(Normalize(s \o a)) = Told(Normalize(s))
         /\ Unique(Normalize(s)) => Unique(Normalize(s \o a))
         /\ Spoken(Normalize(s \o a), Normalize(s), rid, Uses(a))
<1> DEFINE nm == Normalize(s)
           w(i) == s \o SubSeq(a, 1, i)
           l == Len(a)
           Asked(i) == AskedUpTo(a, i)
           P(i) == /\ w(i) \in Seq(Messages)
                   /\ \/ Normalize(w(i)) = nm /\ Asked(i) = {}
                      \/ /\ Group(Normalize(w(i)), nm, rid, Asked(i), <<>>)
                         /\ GroupTyped(nm, rid, Asked(i), <<>>)
           N == {i \in 0..l : P(i)}
<1>1. l \in Nat /\ \A i \in 1..l : a[i] \in Assistants
  BY InSequence
<1>2. \A i \in 1..l : /\ a[i] \in Messages /\ IsAssistant(a[i])
                      /\ Asks(a[i]) = a[i].uses /\ (IsApiError(a[i]) => a[i].uses = {})
  <2> TAKE i \in 1..l
  <2>1. a[i] \in Assistants /\ a[i] \in Messages
    BY <1>1 DEF Messages
  <2>2. IsAssistant(a[i]) /\ (a[i].error # "none" => a[i].uses = {})
    BY <2>1, MessageIs
  <2> QED BY <2>1, <2>2 DEF Asks, IsApiError
<1>3. a \in Seq(Messages)
  BY AssistantsSaid
<1>4. w(0) = s /\ w(l) = s \o a /\ \A i \in 0..(l - 1) : w(i + 1) = Append(w(i), a[i + 1])
  BY <1>3, JoinedMore
<1>5. Normal(nm) /\ Uses(nm) = Uses(s) /\ ResultsOf(nm) = ResultsOf(s) /\ Rids(nm) \subseteq Rids(s)
  BY NormalizeNormal, RidsNormalized
<1> HIDE DEF w, nm
<1>6. Asked(0) = {}
  BY DEF AskedUpTo
<1>7. \A i \in Nat : Asked(i + 1) = Asked(i) \cup Asks(a[i + 1])
  BY UpToMore
<1>8. Asked(l) = Uses(a)
  BY <1>3, CallsOf DEF AskedUpTo
<1> HIDE DEF Asked
<1>9. 0 \in N
  BY <1>1, <1>4, <1>6 DEF nm
<1>10. \A i \in 1..l : a[i].rid = rid
  OBVIOUS
<1>11. l # 0 => (\A i \in 1..Len(nm) : IsAssistant(nm[i]) => nm[i].rid # rid) /\ rid \in Int
  <2> SUFFICES ASSUME l # 0 PROVE (\A i \in 1..Len(nm) : IsAssistant(nm[i]) => nm[i].rid # rid) /\ rid \in Int
    OBVIOUS
  <2>1. 1 \in 1..l
    BY <1>1
  <2>2. rid \notin Rids(nm)
    BY <1>5, <2>1
  <2>3. a[1].rid \in Int
    BY <1>2, <2>1, MessageIs
  <2> QED BY <1>10, <2>1, <2>2, <2>3 DEF Rids
<1> HIDE DEF l
<1>12. ASSUME NEW i \in 0..l, i + 1 \in 0..l, i \in N PROVE i + 1 \in N
  <2> DEFINE m == a[i + 1]
             p == Normalize(w(i))
  <2>1. i \in 0..(l - 1) /\ i + 1 \in 1..l /\ i \in Nat /\ l # 0
    BY <1>1, <1>12
  <2>2. m \in Assistants /\ m \in Messages /\ Asks(m) = m.uses /\ (IsApiError(m) => m.uses = {})
        /\ m.rid = rid
    BY <1>1, <1>2, <1>10, <2>1
  <2>3. w(i + 1) = Append(w(i), m) /\ Asked(i + 1) = Asked(i) \cup m.uses
    BY <1>4, <1>7, <2>1, <2>2
  <2>4. P(i)
    BY <1>12
  <2> HIDE DEF m
  <2>5. w(i + 1) \in Seq(Messages)
    <3>1. Append(w(i), m) \in Seq(Messages)
      BY <2>2, <2>4, Appended
    <3> QED BY <2>3, <3>1
  <2>6. Normalize(w(i + 1)) = IF IsApiError(m) THEN p ELSE Merged(p, m)
    <3>1. Normalize(Append(w(i), m)) = IF IsApiError(m) THEN p ELSE Merged(p, m)
      BY <2>2, <2>4, NormalizeMore
    <3> QED BY <2>3, <3>1
  <2>7. Normal(p)
    BY <2>4, NormalizeNormal
  <2> HIDE DEF p
  <2>8. CASE IsApiError(m)
    <3>1. P(i + 1)
      BY <2>2, <2>3, <2>4, <2>5, <2>6, <2>8 DEF p
    <3> QED BY <1>12, <3>1
  <2>9. CASE ~IsApiError(m) /\ p = nm /\ Asked(i) = {}
    <3>1. Group(Merged(nm, m), nm, m.rid, m.uses, <<>>) /\ GroupTyped(nm, m.rid, m.uses, <<>>)
      BY <1>5, <1>11, <2>1, <2>2, <2>9, GroupStart
    <3>2. Asked(i + 1) = m.uses /\ m.rid = rid /\ Normalize(w(i + 1)) = Merged(nm, m)
      BY <2>2, <2>3, <2>6, <2>9
    <3>3. P(i + 1)
      BY <2>5, <3>1, <3>2
    <3> QED BY <1>12, <3>3
  <2>10. CASE ~IsApiError(m) /\ Group(p, nm, rid, Asked(i), <<>>) /\ GroupTyped(nm, rid, Asked(i), <<>>)
    <3> DEFINE e == <<>>
    <3>1. Group(p, nm, rid, Asked(i), e) /\ GroupTyped(nm, rid, Asked(i), e)
      BY <2>10
    <3> HIDE DEF e
    <3>2. Group(Merged(p, m), nm, rid, Asked(i) \cup m.uses, e)
          /\ GroupTyped(nm, rid, Asked(i) \cup m.uses, e)
      BY <2>2, <2>7, <2>10, <3>1, GroupMore
    <3>3. P(i + 1)
      BY <2>3, <2>5, <2>6, <2>10, <3>2 DEF e
    <3> QED BY <1>12, <3>3
  <2>11. \/ p = nm /\ Asked(i) = {}
         \/ Group(p, nm, rid, Asked(i), <<>>) /\ GroupTyped(nm, rid, Asked(i), <<>>)
    BY <2>4 DEF p
  <2> QED BY <2>8, <2>9, <2>10, <2>11
<1> HIDE DEF N, P
<1>13. 0..l \subseteq N
  BY <1>1, <1>9, <1>12, GoesOnUpTo
<1>14. P(l)
  BY <1>1, <1>13 DEF N
<1> DEFINE v == s \o a
           U == Uses(a)
<1>15. v \in Seq(Messages)
  BY <1>4, <1>14 DEF P
<1>16. CASE Normalize(v) = nm /\ U = {}
  BY <1>15, <1>16 DEF Spoken, nm
<1>17. CASE Group(Normalize(v), nm, rid, U, <<>>) /\ GroupTyped(nm, rid, U, <<>>) /\ l = 0
  <2>1. v = s
    BY <1>4, <1>17
  <2>2. U = {}
    BY <1>6, <1>8, <1>17
  <2> QED BY <2>1, <2>2, <1>15 DEF Spoken, nm
<1>18. CASE Group(Normalize(v), nm, rid, U, <<>>) /\ GroupTyped(nm, rid, U, <<>>) /\ l # 0
  <2> DEFINE m == Assistant(rid, U, "none")
             e == <<>>
  <2>1. Normalize(v) = Append(nm, m)
    BY <1>18 DEF Group
  <2>2. U \in CallSets /\ rid \in Int
    BY <1>18 DEF GroupTyped
  <2>3. m \in Messages /\ m \in Assistants /\ m.rid = rid /\ m.uses = U /\ ~IsApiError(m) /\ IsAssistant(m)
    BY <2>2, AssistantIs
  <2> HIDE DEF m, U, v
  <2>4. \A i \in 1..Len(nm) : IsAssistant(nm[i]) => nm[i].rid # m.rid
    BY <1>11, <1>18, <2>3
  <2>5. Group(Merged(nm, m), nm, m.rid, m.uses, <<>>)
    BY <1>5, <2>3, <2>4, GroupStart
  <2>6. Merged(nm, m) = Append(nm, Assistant(m.rid, m.uses, "none"))
    BY <2>5 DEF Group
  <2>7. Normalize(v) = Merged(nm, m)
    BY <2>1, <2>3, <2>6 DEF m
  <2>8. Told(Merged(nm, m)) = Told(nm)
    <3>1. \A r \in ResultsOf(nm) : r.id \notin m.uses
      BY <1>5, <2>3 DEF U
    <3> QED BY <1>5, <2>3, <3>1, ToldAssistant
  <2>9. Unique(nm) => Unique(Merged(nm, m))
    <3>1. Asks(m) \cap Uses(nm) = {}
      BY <1>5, <2>3 DEF U, Asks
    <3> QED BY <1>5, <2>3, <3>1, UniqueMerged
  <2>10. Spoken(Normalize(v), nm, rid, U)
    BY <2>1, <2>2 DEF Spoken, m
  <2> QED BY <1>15, <2>7, <2>8, <2>9, <2>10 DEF nm, v, U
<1> QED BY <1>4, <1>8, <1>14, <1>16, <1>17, <1>18 DEF P

\* Text of the user has no results.
LEMMA TextIs ==
  /\ Text \in Users /\ Text \in Messages /\ IsUser(Text) /\ ~IsAssistant(Text) /\ ~IsApiError(Text)
  /\ Text.results = <<>> /\ Gives(Text) = {} /\ Asks(Text) = {}
<1> DEFINE e == <<>>
<1>1. e \in Seq(Results) /\ 1..Len(e) = {}
  OBVIOUS
<1>2. Text = User(e, TRUE)
  BY DEF Text
<1> HIDE DEF e
<1>3. Text \in Users /\ Text \in Messages /\ IsUser(Text) /\ ~IsAssistant(Text) /\ ~IsApiError(Text)
      /\ Text.results = e
  BY <1>1, <1>2, UserIs
<1>4. Gives(Text) = {} /\ Asks(Text) = {}
  BY <1>1, <1>3 DEF Gives, Asks
<1> QED BY <1>3, <1>4 DEF e

\* Joining a sequence of one element is appending it.
LEMMA OneMore ==
  ASSUME NEW T, NEW s \in Seq(T), NEW x \in T
  PROVE  s \o <<x>> = Append(s, x)
  OBVIOUS

\* Joining an empty sequence changes nothing.
LEMMA NoMore ==
  ASSUME NEW T, NEW s \in Seq(T)
  PROVE  s \o <<>> = s
  OBVIOUS

\* Text never makes a conversation unacceptable.
LEMMA WellFormedText ==
  ASSUME NEW nm, Normal(nm), WellFormed(nm)
  PROVE  WellFormed(Merged(nm, Text))
<1> DEFINE n == Len(nm)
           p == Merged(nm, Text)
<1>1. nm \in Seq(Messages) /\ n \in Nat /\ \A i \in 1..n : nm[i] \in Messages
  BY InSequence DEF Normal
<1>2. Unique(nm) /\ \A i \in 1..n : Fits(nm, i)
  BY <1>1, WellFormedIs
<1> HIDE DEF n
<1>3. CASE p = Append(nm, Text) /\ (n = 0 \/ IsAssistant(nm[n]))
  <2>1. /\ p \in Seq(Messages) /\ Len(p) = n + 1 /\ p[n + 1] = Text /\ \A i \in 1..n : p[i] = nm[i]
    BY <1>1, <1>3, TextIs, Appended DEF n
  <2>2. Unique(p)
    <3>1. Asks(Text) \cap Uses(nm) = {}
      BY TextIs
    <3>2. Unique(Append(nm, Text))
      BY <1>1, <1>2, <3>1, TextIs, UniqueAppended
    <3> QED BY <1>3, <3>2
  <2> HIDE DEF p
  <2>3. \A i \in 1..n : Fits(p, i)
    <3>1. Len(nm) < Len(p) /\ \A i \in 1..Len(nm) : p[i] = nm[i] /\ Fits(nm, i)
      BY <1>1, <1>2, <2>1 DEF n
    <3> QED BY <1>1, <2>1, <3>1, FitsStill DEF n
  <2>4. Fits(p, n + 1)
    <3>1. n + 1 = 1 \/ IsAssistant(p[(n + 1) - 1])
      BY <1>1, <1>3, <2>1
    <3>2. AskedBefore(p, n + 1) = {}
      <4>1. CASE n = 0
        BY <4>1 DEF AskedBefore
      <4>2. CASE n # 0
        <5>1. n \in 1..n /\ n + 1 > 1 /\ (n + 1) - 1 = n /\ ~(n < n)
          BY <1>1, <4>2
        <5>2. Fits(nm, n) /\ IsAssistant(nm[n]) /\ ~IsUser(nm[n])
          BY <1>1, <1>2, <1>3, <4>2, <5>1, MessageIs
        <5>3. Asks(nm[n]) = {}
          BY <5>1, <5>2 DEF Fits, n
        <5> QED BY <2>1, <5>1, <5>3 DEF AskedBefore
      <4> QED BY <4>1, <4>2
    <3>3. IdsIn(<<>>) = {} /\ Once(<<>>)
      <4>1. 1..Len(<<>>) = {}
        OBVIOUS
      <4> QED BY <4>1 DEF IdsIn, Once
    <3> QED BY <2>1, <3>1, <3>2, <3>3, TextIs DEF Fits
  <2>5. \A i \in 1..Len(p) : Fits(p, i)
    <3>1. \A i \in 1..(n + 1) : i \in 1..n \/ i = n + 1
      BY <1>1
    <3> QED BY <2>1, <2>3, <2>4, <3>1
  <2>6. WellFormed(p)
    BY <2>1, <2>2, <2>5, WellFormedIs
  <2> QED BY <2>6 DEF p
<1>4. CASE /\ n > 0 /\ IsUser(nm[n]) /\ Changed(p, nm, n, MergeUsers(nm[n], Text))
           /\ MergeUsers(nm[n], Text) \in Users
           /\ MergeUsers(nm[n], Text).results = nm[n].results \o Text.results
  <2> DEFINE x == MergeUsers(nm[n], Text)
  <2>1. n \in 1..n /\ nm[n] \in Messages
    BY <1>1, <1>4
  <2>2. x.results = nm[n].results
    <3>1. nm[n].results \in Seq(Results)
      BY <1>4, <2>1, MessageIs
    <3>2. nm[n].results \o <<>> = nm[n].results
      BY <3>1, NoMore
    <3> QED BY <1>4, <3>2, TextIs
  <2>3. x \in Users /\ Changed(p, nm, n, x)
    BY <1>4
  <2> HIDE DEF x, p
  <2>4. x \in Messages /\ IsUser(x) /\ ~IsAssistant(x) /\ ~IsAssistant(nm[n]) /\ Asks(x) = {}
        /\ Asks(nm[n]) = {}
    BY <1>4, <2>1, <2>3, MessageIs DEF Messages, Asks
  <2>5. p \in Seq(Messages) /\ Len(p) = n /\ p[n] = x /\ \A i \in 1..n : i # n => p[i] = nm[i]
    BY <2>3 DEF Changed, n
  <2>6. \A i \in 1..n : /\ Asks(p[i]) = Asks(nm[i])
                        /\ IsAssistant(p[i]) <=> IsAssistant(nm[i])
                        /\ IsUser(p[i]) <=> IsUser(nm[i])
    BY <1>4, <2>4, <2>5
  <2>7. Unique(p)
    BY <1>2, <2>5, <2>6 DEF Unique, n
  <2>8. ASSUME NEW i \in 1..n PROVE Fits(p, i)
    <3>1. i > 1 => i - 1 \in 1..n
      BY <1>1
    <3>2. AskedBefore(p, i) = AskedBefore(nm, i)
      BY <2>6, <3>1 DEF AskedBefore
    <3>3. Fits(nm, i)
      BY <1>2
    <3>4. i = 1 \/ i > 1
      BY <1>1
    <3>5. CASE IsUser(nm[i])
      <4>1. p[i].results = nm[i].results
        BY <2>2, <2>5
      <4> QED BY <2>6, <3>1, <3>2, <3>3, <3>4, <3>5, <4>1 DEF Fits
    <3>6. CASE ~IsUser(nm[i])
      BY <2>5, <2>6, <3>2, <3>3, <3>6 DEF Fits, n
    <3> QED BY <3>5, <3>6
  <2>9. WellFormed(p)
    BY <2>5, <2>7, <2>8, WellFormedIs
  <2> QED BY <2>9 DEF p
<1> QED BY <1>1, <1>3, <1>4, TextIs, MergedUser DEF n

\* A response without calls.
LEMMA WellFormedSpoken ==
  ASSUME NEW nm, Normal(nm), WellFormed(nm), NEW rid, NEW p, Spoken(p, nm, rid, {})
  PROVE  WellFormed(p)
<1>1. CASE p = nm
  BY <1>1
<1>2. CASE {} \in CallSets /\ rid \in Int /\ p = Append(nm, Assistant(rid, {}, "none"))
  <2> DEFINE a == Assistant(rid, {}, "none")
  <2>1. a \in Assistants /\ a.uses = {}
    BY <1>2, AssistantIs
  <2> HIDE DEF a
  <2>2. WellFormed(Append(nm, a))
    BY <2>1, WellFormedSaid DEF Normal
  <2> QED BY <1>2, <2>2 DEF a
<1> QED BY <1>1, <1>2 DEF Spoken

\* Every call of the response is answered, and then there may be text.
LEMMA WellFormedAnswered ==
  ASSUME NEW nm, Normal(nm), WellFormed(nm), NEW rid, NEW uses, uses \cap Uses(nm) = {}, uses # {},
         NEW v \in Seq(Messages), Spoken(Normalize(v), nm, rid, uses), NEW t, Answered(t, uses)
  PROVE  v \o t \in Seq(Messages) /\ WellFormed(Normalize(v \o t))
<1> DEFINE e == <<>>
           a == Assistant(rid, uses, "none")
<1>1. uses \in CallSets /\ rid \in Int /\ Normalize(v) = Append(nm, a)
  BY DEF Spoken
<1>2. a \in Assistants /\ a.uses = uses
  BY <1>1, AssistantIs
<1>3. e \in Seq(Results) /\ e = <<>> /\ nm \in Seq(Messages)
  BY DEF Normal
<1>4. GroupTyped(nm, rid, uses, e) /\ Group(Normalize(v), nm, rid, uses, e)
  BY <1>1, <1>3 DEF GroupTyped, Group
<1>5. PICK qs : Delivers(t, qs, uses)
  BY DEF Answered
<1>6. qs \in Seq(Results) /\ Once(qs) /\ (\A i \in 1..Len(qs) : qs[i].id \in uses)
      /\ \A id \in uses : \E i \in 1..Len(qs) : qs[i].id = id
  BY <1>5 DEF Delivers
<1>7. e \o qs = qs
  BY <1>6
<1> HIDE DEF e
<1>8. v \o t \in Seq(Messages) /\ Group(Normalize(v \o t), nm, rid, uses, e \o qs)
  BY <1>4, <1>5, GroupAnswered
<1>9. IdsIn(qs) = uses
  BY <1>6 DEF IdsIn
<1>10. Len(qs) # 0
  <2>1. \E i \in 1..Len(qs) : TRUE
    BY <1>6
  <2> QED BY <2>1
<1>11. PICK x \in BOOLEAN : Normalize(v \o t) = Append(Append(nm, a), User(qs, x))
  <2>1. Group(Normalize(v \o t), nm, rid, uses, qs)
    BY <1>7, <1>8
  <2>2. qs # <<>>
    BY <1>6, <1>10
  <2> QED BY <2>1, <2>2 DEF Group
<1> DEFINE u == User(qs, x)
<1>12. u \in Users /\ u.results = qs
  BY <1>6, <1>11, UserIs
<1> HIDE DEF u, a
<1>13. WellFormed(Append(Append(nm, a), u))
  <2>1. a.uses \cap Uses(nm) = {} /\ IdsIn(u.results) = a.uses /\ Once(u.results)
    BY <1>2, <1>6, <1>9, <1>12
  <2> QED BY <1>2, <1>3, <1>12, <2>1, WellFormedAsked
<1> QED BY <1>8, <1>11, <1>13 DEF u, a

\* yieldMissingToolResultBlocks() gives a placeholder to each call of the response.
LEMMA MissingIs ==
  ASSUME NEW ms, Uses(ms) \in CallSets
  PROVE  /\ MissingResults(ms) \in Seq(Users)
         /\ \A r \in ResultsOf(MissingResults(ms)) : ~r.real /\ r.id \in Uses(ms)
         /\ Uses(ms) = {} => MissingResults(ms) = <<>>
<1> DEFINE U == Uses(ms)
           s == SetToSeq(U)
           t == MissingResults(ms)
           n == Len(s)
<1>1. U \subseteq Nat /\ IsFiniteSet(U)
  BY DEF CallSets
<1>2. s \in Seq(U) /\ n = Cardinality(U)
  BY <1>1, SetInOrder
<1>3. n \in Nat /\ DOMAIN s = 1..n /\ \A i \in 1..n : s[i] \in U
  BY <1>2, InSequence
<1>4. t = [i \in 1..n |-> User(<<Result(s[i], FALSE)>>, FALSE)]
  BY <1>3 DEF MissingResults
<1> HIDE DEF t, U, s
<1>5. ASSUME NEW i \in 1..n
      PROVE  t[i] \in Users /\ Gives(t[i]) = {Result(s[i], FALSE)}
  <2> DEFINE r == Result(s[i], FALSE)
  <2>1. r \in Results
    BY <1>1, <1>3 DEF Result, Results
  <2>2. t[i] = User(<<r>>, FALSE)
    BY <1>4
  <2> HIDE DEF r
  <2>3. Brings(t[i], r)
    BY <2>2 DEF Brings
  <2>4. t[i] \in Users /\ Gives(t[i]) = {r}
    BY <2>1, <2>3, BringsOne
  <2> QED BY <2>4 DEF r
<1> HIDE DEF n
<1>6. t \in Seq(Users) /\ Len(t) = n
  <2>1. DOMAIN t = 1..n /\ t = [i \in 1..n |-> t[i]]
    BY <1>4
  <2> QED BY <1>3, <1>5, <2>1, MadeOf
<1>7. t \in Seq(Messages)
  BY <1>6, UsersSaid
<1>8. ASSUME NEW r \in ResultsOf(t) PROVE ~r.real /\ r.id \in U
  <2>1. PICK i \in 1..Len(t) : r \in Gives(t[i])
    BY <1>7, CallsOf
  <2>2. r = Result(s[i], FALSE) /\ s[i] \in U
    BY <1>3, <1>5, <1>6, <2>1
  <2>3. Result(s[i], FALSE).real = FALSE /\ Result(s[i], FALSE).id = s[i]
    BY DEF Result
  <2> QED BY <2>2, <2>3
<1>9. U = {} => t = <<>>
  <2> SUFFICES ASSUME U = {} PROVE t = <<>>
    OBVIOUS
  <2>1. n = 0
    <3> SUFFICES ASSUME n # 0 PROVE FALSE
      OBVIOUS
    <3>1. 1 \in 1..n
      BY <1>3
    <3> QED BY <1>3, <3>1
  <2> QED BY <1>6, <2>1
<1> QED BY <1>6, <1>8, <1>9 DEF t, U

-----------------------------------------------------------------------------
(* Sound conversations                                                       *)

\* The results that stand for a call are told, unless there is a part of an
\* answer that Escape kept.
AllTold(ms) ==
  Interrupted(ms) \/ \A r \in ResultsOf(ms) : r.real /\ r.id \in Uses(ms) => r \in Told(Normalize(ms))

\* Ids of calls and of responses count down: those of the conversation are used up.
Sound(ms, uses, requests) ==
  /\ ms \in Seq(Messages) /\ Unique(Normalize(ms)) /\ AllTold(ms)
  /\ \A u \in Uses(ms) : u > uses
  /\ \A r \in ResultsOf(ms) : r.id > uses
  /\ \A x \in Rids(ms) : x < 0 \/ x >= requests

\* The next ids may be lower still.
LEMMA SoundLess ==
  ASSUME NEW ms, NEW uses \in Nat, NEW requests \in Nat, Sound(ms, uses, requests),
         NEW u \in Nat, u <= uses, NEW q \in Nat, q <= requests
  PROVE  Sound(ms, u, q)
<1>1. ms \in Seq(Messages) /\ Uses(ms) \subseteq Nat /\ ResultsOf(ms) \subseteq Results
  BY CallsTyped DEF Sound
<1>2. \A x \in Uses(ms) : x > u
  BY <1>1 DEF Sound
<1>3. \A r \in ResultsOf(ms) : r.id > u
  <2> TAKE r \in ResultsOf(ms)
  <2>1. r.id \in Nat /\ r.id > uses
    BY <1>1 DEF Sound, Results
  <2> QED BY <2>1
<1>4. \A x \in Rids(ms) : x < 0 \/ x >= q
  <2> TAKE x \in Rids(ms)
  <2>1. PICK i \in 1..Len(ms) : IsAssistant(ms[i]) /\ x = ms[i].rid
    BY DEF Rids
  <2>2. x \in Int
    BY <1>1, <2>1, InSequence, MessageIs
  <2>3. x < 0 \/ x >= requests
    BY DEF Sound
  <2> QED BY <2>2, <2>3
<1> QED BY <1>2, <1>3, <1>4 DEF Sound

\* With messages of the user.
LEMMA SoundUsers ==
  ASSUME NEW ms, NEW uses, NEW requests, Sound(ms, uses, requests), NEW t \in Seq(Users),
         \A r \in ResultsOf(t) : r.id > uses,
         \/ Interrupted(ms)
         \/ \A r \in ResultsOf(t) : r.real /\ r.id \in Uses(ms) => r \in Told(Normalize(ms \o t))
  PROVE  Sound(ms \o t, uses, requests)
<1> DEFINE v == ms \o t
<1>1. ms \in Seq(Messages) /\ Unique(Normalize(ms)) /\ AllTold(ms)
  BY DEF Sound
<1>2. /\ v \in Seq(Messages) /\ Uses(v) = Uses(ms) /\ ResultsOf(v) = ResultsOf(ms) \cup ResultsOf(t)
      /\ Told(Normalize(ms)) \subseteq Told(Normalize(v))
      /\ Unique(Normalize(ms)) => Unique(Normalize(v))
      /\ Rids(v) = Rids(ms)
  BY <1>1, UsersAdded
<1>3. t \in Seq(Messages)
  BY UsersSaid
<1>4. Interrupted(ms) => Interrupted(v)
  BY <1>1, <1>3, InterruptedStill
<1>5. Interrupted(ms) \/ \A r \in ResultsOf(t) : r.real /\ r.id \in Uses(ms) => r \in Told(Normalize(v))
  OBVIOUS
<1> HIDE DEF v
<1>6. AllTold(v)
  BY <1>1, <1>2, <1>4, <1>5 DEF AllTold
<1>7. /\ \A u \in Uses(v) : u > uses
      /\ \A r \in ResultsOf(v) : r.id > uses
      /\ \A x \in Rids(v) : x < 0 \/ x >= requests
  BY <1>2 DEF Sound
<1>8. Sound(v, uses, requests)
  BY <1>1, <1>2, <1>6, <1>7 DEF Sound
<1> QED BY <1>8 DEF v

\* A part of an answer is in the conversation if it was, or if it comes last.
LEMMA InterruptedMore ==
  ASSUME NEW ms \in Seq(Messages), NEW m \in Messages
  PROVE  Interrupted(Append(ms, m)) <=> Interrupted(ms) \/ Partial(m)
<1> DEFINE n == Len(ms)
           q == Append(ms, m)
<1>1. /\ n \in Nat /\ Len(q) = n + 1 /\ q[n + 1] = m /\ \A i \in 1..n : q[i] = ms[i]
  BY Appended, InSequence
<1>2. (\A i \in 1..n : i \in 1..(n + 1)) /\ n + 1 \in 1..(n + 1)
      /\ \A i \in 1..(n + 1) : i \in 1..n \/ i = n + 1
  BY <1>1
<1> HIDE DEF q, n
<1>3. (\E i \in 1..(n + 1) : Partial(q[i])) <=> (\E i \in 1..n : Partial(ms[i])) \/ Partial(m)
  BY <1>1, <1>2
<1> QED BY <1>1, <1>3 DEF Interrupted, q, n

\* With a message of the model, whose calls are new.
LEMMA SoundSaid ==
  ASSUME NEW ms, NEW uses \in Nat, NEW requests \in Nat, Sound(ms, uses, requests),
         NEW m \in Assistants, NEW u \in Nat, u <= uses, \A x \in m.uses : x > u /\ x <= uses,
         m.rid < 0 \/ m.rid >= requests
  PROVE  /\ Sound(Append(ms, m), u, requests)
         /\ Uses(Append(ms, m)) = Uses(ms) \cup m.uses /\ ResultsOf(Append(ms, m)) = ResultsOf(ms)
         /\ Told(Normalize(Append(ms, m))) = Told(Normalize(ms))
<1> DEFINE v == Append(ms, m)
<1>1. Sound(ms, u, requests)
  BY SoundLess
<1>2. ms \in Seq(Messages) /\ Uses(ms) \subseteq Nat /\ ResultsOf(ms) \subseteq Results
      /\ Unique(Normalize(ms)) /\ AllTold(ms)
  BY CallsTyped DEF Sound
<1>3. m \in Messages /\ IsAssistant(m) /\ m.uses \subseteq Nat
  BY MessageIs DEF Messages
<1>4. m.uses \cap Uses(ms) = {}
  <2> SUFFICES ASSUME NEW x \in Uses(ms), x \in m.uses PROVE FALSE
    OBVIOUS
  <2>1. x \in Nat /\ x > uses /\ x <= uses
    BY <1>2 DEF Sound
  <2> QED BY <2>1
<1>5. \A r \in ResultsOf(ms) : r.id \notin m.uses
  <2> SUFFICES ASSUME NEW r \in ResultsOf(ms), r.id \in m.uses PROVE FALSE
    OBVIOUS
  <2>1. r.id \in Nat /\ r.id > uses /\ r.id <= uses
    BY <1>2 DEF Sound, Results
  <2> QED BY <2>1
<1>6. v = Append(ms, m)
  OBVIOUS
<1>7. Rids(v) = Rids(ms) \cup {m.rid} /\ (Interrupted(ms) => Interrupted(v))
  BY <1>2, <1>3, RidsMore, InterruptedMore
<1> HIDE DEF v
<1>8. /\ v \in Seq(Messages) /\ Uses(v) = Uses(ms) \cup m.uses /\ ResultsOf(v) = ResultsOf(ms)
      /\ Told(Normalize(v)) = Told(Normalize(ms))
      /\ Unique(Normalize(ms)) => Unique(Normalize(v))
  BY <1>2, <1>4, <1>5, <1>6, AssistantAdded
<1>9. AllTold(v)
  BY <1>2, <1>5, <1>7, <1>8 DEF AllTold
<1>10. /\ \A x \in Uses(v) : x > u
       /\ \A r \in ResultsOf(v) : r.id > u
       /\ \A x \in Rids(v) : x < 0 \/ x >= requests
  BY <1>1, <1>7, <1>8 DEF Sound
<1>11. Sound(v, u, requests)
  BY <1>2, <1>8, <1>9, <1>10 DEF Sound
<1> QED BY <1>8, <1>11 DEF v

\* With text of the user.
LEMMA SoundText ==
  ASSUME NEW ms, NEW uses, NEW requests, Sound(ms, uses, requests)
  PROVE  /\ Sound(Append(ms, Text), uses, requests)
         /\ Uses(Append(ms, Text)) = Uses(ms) /\ ResultsOf(Append(ms, Text)) = ResultsOf(ms)
         /\ Told(Normalize(Append(ms, Text))) = Told(Normalize(ms))
         /\ WellFormed(Normalize(ms)) => WellFormed(Normalize(Append(ms, Text)))
<1> DEFINE t == <<Text>>
           v == Append(ms, Text)
<1>1. ms \in Seq(Messages) /\ Normal(Normalize(ms))
  BY NormalizeNormal DEF Sound
<1>2. t \in Seq(Users) /\ v = ms \o t
  BY <1>1, TextIs
<1>3. v \in Seq(Messages) /\ Uses(v) = Uses(ms) /\ ResultsOf(v) = ResultsOf(ms) \cup Gives(Text)
  BY <1>1, TextIs, UserAdded
<1>4. /\ Told(Normalize(ms)) \subseteq Told(Normalize(v))
      /\ \A r \in Told(Normalize(v)) : r \in Told(Normalize(ms)) \/ (r \in Gives(Text) /\ r.id \in Uses(ms))
  BY <1>1, TextIs, UserAdded
<1>5. Normalize(v) = Merged(Normalize(ms), Text)
  BY <1>1, TextIs, NormalizeMore
<1>6. ResultsOf(t) = {}
  <2>1. t \in Seq(Messages) /\ \A i \in 1..Len(t) : t[i] = Text
    BY TextIs
  <2> HIDE DEF t
  <2> QED BY <2>1, CallsOf, TextIs
<1> HIDE DEF t, v
<1>7. Sound(ms \o t, uses, requests)
  BY <1>2, <1>6, SoundUsers
<1>8. Told(Normalize(v)) = Told(Normalize(ms))
  BY <1>4, TextIs
<1>9. WellFormed(Normalize(ms)) => WellFormed(Normalize(v))
  BY <1>1, <1>5, WellFormedText
<1> QED BY <1>2, <1>3, <1>7, <1>8, <1>9, TextIs DEF v

-----------------------------------------------------------------------------
(* A response that is under way                                              *)

Requests == [assistantMessages : Seq(Assistants), toolResults : Seq(Users), given : CallSets,
             out : CallSets, fellBack : BOOLEAN, prevent : BOOLEAN]

\* The messages are those of one response, and toolResults has what came out.
Response(r, uses, requests) ==
  LET a == r.assistantMessages IN
  /\ r \in Requests /\ Uses(a) \in CallSets
  /\ r.given \subseteq Uses(a) /\ r.out \subseteq Uses(a) /\ Answered(r.toolResults, r.out)
  /\ \A u \in Uses(a) : u > uses
  /\ \A i, j \in 1..Len(a) : a[i].rid = a[j].rid /\ a[i].rid >= requests

\* Nothing that was sent has to do with it.
Behind(s, r, requests) ==
  LET a == r.assistantMessages IN
  /\ \A x \in Rids(s) : x < 0 \/ (x > requests /\ \A i \in 1..Len(a) : x > a[i].rid)
  /\ \A u \in Uses(s) : u \notin Uses(a)
  /\ \A p \in ResultsOf(s) : p.id \notin Uses(a)

\* What the caller has is what was sent, and the calls and results of the response.
Agrees(v, s, r) ==
  /\ Uses(v) = Uses(s) \cup Uses(r.assistantMessages)
  /\ Told(Normalize(v)) = Told(Normalize(s)) \cup {Result(id, TRUE) : id \in r.out}

\* The caller has no other result for its calls.
Unanswered(v, r) == \A p \in ResultsOf(v) : p.id \in Uses(r.assistantMessages) => p.id \in r.out

\* The next result will stand behind it.
OpenFor(v, r) ==
  LET a == r.assistantMessages IN
  (\E i \in 1..Len(a) : a[i].error = "none") => Opened(Normalize(v), a[1].rid, Uses(a))

Underway(v, s, r, uses, requests, quiet) ==
  /\ Sound(v, uses, requests) /\ Sound(s, uses, requests)
  /\ Response(r, uses, requests) /\ Behind(s, r, requests) /\ Unanswered(v, r)
  /\ quiet \/ ~Interrupted(v) => OpenFor(v, r)

\* What came with this id is of the response.
Own(v, r, requests) ==
  LET a == r.assistantMessages IN
  \A i \in 1..Len(v) : IsAssistant(v[i]) /\ v[i].rid = requests => \E j \in 1..Len(a) : a[j] = v[i]

Same(v, s) == Uses(v) = Uses(s) /\ Told(Normalize(v)) = Told(Normalize(s))

\* What is left when the response is withdrawn.
Left(v, r) == Rejected(v, Range(r.assistantMessages))
LeftSame(v, s, r, uses, requests) == Sound(Left(v, r), uses, requests) /\ Same(Left(v, r), s)

\* Range() by positions.
LEMMA InRange ==
  ASSUME NEW T, NEW s \in Seq(T), NEW x
  PROVE  x \in Range(s) <=> \E i \in 1..Len(s) : s[i] = x
  BY InSequence DEF Range

NothingYet(r) ==
  /\ r \in Requests /\ r.assistantMessages = <<>> /\ r.toolResults = <<>>
  /\ r.given = {} /\ r.out = {}

\* A request of which nothing was received has no calls.
LEMMA NothingYetIs ==
  ASSUME NEW r, NothingYet(r)
  PROVE  Uses(r.assistantMessages) = {} /\ Len(r.assistantMessages) = 0
         /\ 1..Len(r.assistantMessages) = {} /\ Range(r.assistantMessages) = {}
<1> DEFINE a == r.assistantMessages
<1>1. a \in Seq(Messages) /\ Len(a) = 0 /\ 1..Len(a) = {}
  BY DEF NothingYet
<1> HIDE DEF a
<1>2. Uses(a) = {} /\ Range(a) = {}
  BY <1>1, CallsOf, InRange
<1> QED BY <1>1, <1>2 DEF a

\* When the response is withdrawn, the caller has nothing of it, and it may begin anew.
LEMMA Withdraws ==
  ASSUME NEW v, NEW s, NEW r, NEW uses, NEW requests, NEW quiet,
         Underway(v, s, r, uses, requests, quiet), Own(v, r, requests), LeftSame(v, s, r, uses, requests),
         NEW p, NothingYet(p), NEW w, w = Left(v, r)
  PROVE  /\ Underway(w, s, p, uses, requests, quiet) /\ Agrees(w, s, p)
         /\ Own(w, p, requests) /\ LeftSame(w, s, p, uses, requests)
<1> DEFINE a == r.assistantMessages
           b == p.assistantMessages
<1>1. Uses(b) = {} /\ 1..Len(b) = {} /\ Range(b) = {} /\ p.given = {} /\ p.out = {}
      /\ p \in Requests /\ p.toolResults = <<>>
  BY NothingYetIs DEF NothingYet
<1>2. Sound(w, uses, requests) /\ Same(w, s) /\ Sound(s, uses, requests) /\ v \in Seq(Messages)
  BY DEF LeftSame, Underway, Sound
<1>3. Response(p, uses, requests)
  <2>1. {} \in CallSets
    BY FS_EmptySet DEF CallSets
  <2>2. Answered(p.toolResults, p.out)
    BY <1>1, NothingAnswered
  <2> QED BY <1>1, <2>1, <2>2 DEF Response
<1>4. Behind(s, p, requests)
  BY <1>1 DEF Behind, Underway
<1>5. Unanswered(w, p) /\ OpenFor(w, p)
  BY <1>1 DEF Unanswered, OpenFor
<1>6. Agrees(w, s, p)
  BY <1>1, <1>2 DEF Agrees, Same
<1>7. a \in Seq(Assistants)
  BY DEF Underway, Response, Requests
<1>8. w \in Seq(Messages) /\ \A i \in 1..Len(w) : w[i] \notin Range(a) /\ \E j \in 1..Len(v) : v[j] = w[i]
  BY <1>2, RejectedElements DEF Left
<1>9. Own(w, p, requests)
  <2> SUFFICES ASSUME NEW i \in 1..Len(w), IsAssistant(w[i]), w[i].rid = requests PROVE FALSE
    BY DEF Own
  <2>1. PICK j \in 1..Len(v) : v[j] = w[i]
    BY <1>8
  <2>2. \E k \in 1..Len(a) : a[k] = w[i]
    BY <2>1 DEF Own
  <2> QED BY <1>7, <1>8, <2>2, InRange
<1>10. Left(w, p) = w
  BY <1>1, <1>8, RejectedNone DEF Left
<1> QED BY <1>2, <1>3, <1>4, <1>5, <1>6, <1>9, <1>10 DEF Underway, LeftSame

Delivery(p, r, ids) ==
  /\ p \in Requests /\ p.assistantMessages = r.assistantMessages /\ p.given = r.given
  /\ p.toolResults = r.toolResults \o Ready(ids) /\ p.out = r.out \cup ids

\* A response with calls is not only errors.
LEMMA UsesSpoken ==
  ASSUME NEW a \in Seq(Assistants), Uses(a) # {}
  PROVE  \E i \in 1..Len(a) : a[i].error = "none"
<1>1. a \in Seq(Messages)
  BY AssistantsSaid
<1>2. PICK i \in 1..Len(a) : Asks(a[i]) # {}
  BY <1>1, CallsOf
<1> DEFINE m == a[i]
<1>3. m \in Assistants /\ m \in Messages
  BY <1>2, InSequence DEF Messages
<1> HIDE DEF m
<1>4. IsAssistant(m) /\ (m.error # "none" => m.uses = {})
  BY <1>3, MessageIs
<1> QED BY <1>2, <1>4 DEF Asks, m

\* Answers to no call are no messages.
LEMMA NoneReady ==
  ASSUME NEW T, NEW v \in Seq(T), NEW t, Answered(t, {})
  PROVE  v \o t = v
<1>1. PICK rs : Delivers(t, rs, {})
  BY DEF Answered
<1>2. rs \in Seq(Results) /\ t \in Seq(Users) /\ Len(rs) = Len(t) /\ \A i \in 1..Len(rs) : FALSE
  BY <1>1 DEF Delivers
<1>3. Len(t) = 0
  <2>1. Len(t) \in Nat
    BY <1>2
  <2> SUFFICES ASSUME Len(t) # 0 PROVE FALSE
    OBVIOUS
  <2>2. 1 \in 1..Len(rs)
    BY <1>2, <2>1
  <2> QED BY <1>2, <2>2
<1>4. t = <<>>
  BY <1>2, <1>3
<1> QED BY <1>4

\* Results of the executor come to stand behind the response.
LEMMA Delivered ==
  ASSUME NEW v, NEW s, NEW r, NEW uses, NEW requests, NEW quiet,
         Underway(v, s, r, uses, requests, quiet),
         NEW ids \in CallSets, ids \subseteq Uses(r.assistantMessages), ids \cap r.out = {},
         NEW p, Delivery(p, r, ids)
  PROVE  /\ Underway(v \o Ready(ids), s, p, uses, requests, quiet)
         /\ Agrees(v, s, r) /\ (quiet \/ ids = {}) => Agrees(v \o Ready(ids), s, p)
<1> DEFINE a == r.assistantMessages
           t == Ready(ids)
           w == v \o t
           more == {Result(id, TRUE) : id \in ids}
<1>1. /\ Sound(v, uses, requests) /\ Sound(s, uses, requests) /\ Response(r, uses, requests)
      /\ Behind(s, r, requests) /\ Unanswered(v, r) /\ (quiet \/ ~Interrupted(v) => OpenFor(v, r))
  BY DEF Underway
<1>2. a \in Seq(Assistants) /\ Uses(a) \in CallSets /\ (\A u \in Uses(a) : u > uses)
      /\ p.assistantMessages = a
  BY <1>1 DEF Response, Requests, Delivery
<1>3. Answered(t, ids) /\ v \in Seq(Messages)
  BY <1>1, ReadyIs DEF Sound
<1> HIDE DEF t
<1>4. t \in Seq(Users) /\ t \in Seq(Messages) /\ ResultsOf(t) = more
  BY <1>3, AnsweredResults
<1>5. /\ w \in Seq(Messages) /\ Uses(w) = Uses(v) /\ ResultsOf(w) = ResultsOf(v) \cup more
  <2>1. w = v \o t
    OBVIOUS
  <2> HIDE DEF w, more
  <2>2. /\ w \in Seq(Messages) /\ Uses(w) = Uses(v) /\ ResultsOf(w) = ResultsOf(v) \cup ResultsOf(t)
    BY <1>3, <1>4, <2>1, UsersAdded
  <2> QED BY <1>4, <2>2
<1>6. \A q \in more : q.id \in ids
  BY DEF Result
<1>7. \A q \in ResultsOf(v) : q.id \notin ids
  BY <1>1 DEF Unanswered
<1>8. \A q \in ResultsOf(t) : q.id > uses
  BY <1>2, <1>4, <1>6
<1> HIDE DEF more
<1>9. ids = {} => w = v
  BY <1>3, NoneReady
<1>10. ASSUME quiet \/ ~Interrupted(v), ids # {}
       PROVE  Opened(Normalize(w), a[1].rid, Uses(a)) /\ Told(Normalize(w)) = Told(Normalize(v)) \cup more
  <2>1. \E i \in 1..Len(a) : a[i].error = "none"
    BY <1>2, <1>10, UsesSpoken
  <2>2. Opened(Normalize(v), a[1].rid, Uses(a))
    BY <1>1, <1>10, <2>1 DEF OpenFor
  <2> DEFINE rid == a[1].rid
             U == Uses(a)
  <2>3. Opened(Normalize(v), rid, U) /\ ids \subseteq U
    BY <2>2
  <2> HIDE DEF rid, U
  <2>4. Opened(Normalize(v \o t), rid, U)
    BY <1>3, <1>7, <2>3, OpenAnswered
  <2>5. Told(Normalize(v \o t)) = Told(Normalize(v)) \cup ResultsOf(t)
    BY <1>3, <1>7, <2>3, OpenAnswered
  <2> QED BY <1>4, <2>4, <2>5 DEF rid, U
<1>11. Interrupted(v) => Interrupted(w)
  BY <1>3, <1>4, InterruptedStill
<1> HIDE DEF w
<1>12. Sound(w, uses, requests)
  <2>1. Interrupted(v) \/ \A q \in ResultsOf(t) : q.real /\ q.id \in Uses(v) => q \in Told(Normalize(w))
    <3>1. CASE ids = {}
      BY <1>4, <1>6, <3>1
    <3>2. CASE ids # {}
      BY <1>4, <1>10, <3>2
    <3> QED BY <3>1, <3>2
  <2>2. Sound(v \o t, uses, requests)
    BY <1>1, <1>4, <1>8, <2>1, SoundUsers DEF w
  <2> QED BY <2>2 DEF w
<1>13. Response(p, uses, requests)
  <2>1. Answered(p.toolResults, p.out)
    BY <1>1, <1>3, MoreAnswered DEF Response, Delivery, t
  <2>2. p.given \subseteq Uses(a) /\ p.out \subseteq Uses(a) /\ p \in Requests
    BY <1>1 DEF Response, Delivery
  <2> QED BY <1>1, <1>2, <2>1, <2>2 DEF Response
<1>14. Behind(s, p, requests)
  BY <1>1, <1>2 DEF Behind
<1>15. Unanswered(w, p)
  <2>1. p.out = r.out \cup ids
    BY DEF Delivery
  <2> QED BY <1>1, <1>2, <1>5, <1>6, <2>1 DEF Unanswered
<1>16. quiet \/ ~Interrupted(w) => OpenFor(w, p)
  <2>1. CASE ids = {}
    BY <1>1, <1>2, <1>9, <2>1 DEF OpenFor
  <2>2. CASE ids # {}
    BY <1>2, <1>10, <1>11, <2>2 DEF OpenFor
  <2> QED BY <2>1, <2>2
<1>17. ASSUME Agrees(v, s, r), quiet \/ ids = {} PROVE Agrees(w, s, p)
  <2>1. Told(Normalize(w)) = Told(Normalize(v)) \cup more
    <3>1. CASE ids = {}
      BY <1>9, <3>1 DEF more
    <3>2. CASE ids # {}
      BY <1>10, <1>17, <3>2
    <3> QED BY <3>1, <3>2
  <2>2. {Result(id, TRUE) : id \in p.out} = {Result(id, TRUE) : id \in r.out} \cup more
    BY DEF Delivery, more
  <2>3. Told(Normalize(v)) = Told(Normalize(s)) \cup {Result(id, TRUE) : id \in r.out}
        /\ Uses(v) = Uses(s) \cup Uses(a)
    BY <1>17 DEF Agrees
  <2>4. Told(Normalize(w)) = Told(Normalize(s)) \cup {Result(id, TRUE) : id \in p.out}
    BY <2>1, <2>2, <2>3
  <2>5. Uses(w) = Uses(s) \cup Uses(p.assistantMessages)
    BY <1>2, <1>5, <2>3
  <2> QED BY <2>4, <2>5 DEF Agrees
<1>18. Underway(w, s, p, uses, requests, quiet)
  BY <1>1, <1>12, <1>13, <1>14, <1>15, <1>16 DEF Underway
<1> QED BY <1>17, <1>18 DEF w, t

\* What is left without the response is still sound, and still what was sent.
LEMMA DeliveredLeft ==
  ASSUME NEW v, NEW s, NEW r, NEW uses, NEW requests, NEW quiet,
         Underway(v, s, r, uses, requests, quiet), Own(v, r, requests), LeftSame(v, s, r, uses, requests),
         NEW ids \in CallSets, ids \subseteq Uses(r.assistantMessages),
         NEW p, Delivery(p, r, ids)
  PROVE  Own(v \o Ready(ids), p, requests) /\ LeftSame(v \o Ready(ids), s, p, uses, requests)
<1> DEFINE a == r.assistantMessages
           t == Ready(ids)
           w == v \o t
           k == Left(v, r)
<1>1. v \in Seq(Messages) /\ a \in Seq(Assistants) /\ (\A u \in Uses(a) : u > uses) /\ p.assistantMessages = a
  BY DEF Underway, Sound, Response, Requests, Delivery
<1>2. Answered(t, ids)
  BY ReadyIs
<1> HIDE DEF t
<1>3. /\ t \in Seq(Users) /\ t \in Seq(Messages) /\ ResultsOf(t) = {Result(id, TRUE) : id \in ids}
      /\ \A i \in 1..Len(t) : ~IsAssistant(t[i])
  BY <1>2, AnsweredResults
<1>4. \A q \in ResultsOf(t) : q.id \in ids
  BY <1>3 DEF Result
<1>5. \A i \in 1..Len(t) : t[i] \notin Range(a)
  <2> SUFFICES ASSUME NEW i \in 1..Len(t), t[i] \in Range(a) PROVE FALSE
    OBVIOUS
  <2>1. PICK j \in 1..Len(a) : a[j] = t[i]
    BY <1>1, InRange
  <2>2. a[j] \in Assistants /\ a[j] \in Messages
    BY <1>1, <2>1, InSequence DEF Messages
  <2>3. IsAssistant(a[j])
    BY <2>2, MessageIs
  <2> QED BY <1>3, <2>1, <2>3
<1>6. Left(w, p) = k \o t
  <2>1. Rejected(v \o t, Range(a)) = Rejected(v, Range(a)) \o t
    BY <1>1, <1>3, <1>5, RejectedJoined
  <2> QED BY <1>1, <2>1 DEF Left
<1>7. Own(w, p, requests)
  <2> SUFFICES ASSUME NEW i \in 1..Len(w), IsAssistant(w[i]), w[i].rid = requests
               PROVE  \E j \in 1..Len(a) : a[j] = w[i]
    BY <1>1 DEF Own
  <2>1. (\E j \in 1..Len(v) : w[i] = v[j]) \/ \E j \in 1..Len(t) : w[i] = t[j]
    BY <1>1, <1>3, OneOfJoined DEF MadeUp
  <2>2. PICK j \in 1..Len(v) : w[i] = v[j]
    BY <1>3, <2>1
  <2> QED BY <2>2 DEF Own
<1>8. Sound(k, uses, requests) /\ Same(k, s) /\ k \in Seq(Messages) /\ Uses(k) = Uses(s)
  BY DEF LeftSame, Same, Sound
<1>9. \A q \in ResultsOf(t) : q.id > uses /\ q.id \notin Uses(k)
  <2>1. \A x \in Uses(s) : x \notin Uses(a)
    BY DEF Underway, Behind
  <2> QED BY <1>1, <1>4, <1>8, <2>1
<1> HIDE DEF k
<1>10. Sound(k \o t, uses, requests)
  BY <1>3, <1>8, <1>9, SoundUsers
<1> DEFINE q == k \o t
<1>11. /\ Uses(q) = Uses(k) /\ Told(Normalize(k)) \subseteq Told(Normalize(q))
       /\ \A x \in Told(Normalize(q)) : x \in Told(Normalize(k)) \/ (x \in ResultsOf(t) /\ x.id \in Uses(k))
  BY <1>3, <1>8, UsersAdded
<1>12. Same(q, s)
  <2> HIDE DEF q
  <2>1. Told(Normalize(q)) = Told(Normalize(k))
    BY <1>9, <1>11
  <2> QED BY <1>8, <1>11, <2>1 DEF Same
<1> QED BY <1>6, <1>7, <1>10, <1>12 DEF LeftSame, t

\* Calls and more calls.
LEMMA MoreCalls ==
  ASSUME NEW A \in CallSets, NEW B \in CallSets
  PROVE  A \cup B \in CallSets
<1>1. IsFiniteSet(A) /\ IsFiniteSet(B) /\ A \cup B \subseteq Nat
  BY DEF CallSets
<1>2. IsFiniteSet(A \cup B)
  BY <1>1, FS_Union
<1> QED BY <1>1, <1>2 DEF CallSets

\* A message m of the response: what is not withheld goes to the caller.
Adding(p, r, m) ==
  /\ p \in Requests /\ p.assistantMessages = Append(r.assistantMessages, m)
  /\ p.toolResults = r.toolResults /\ p.out = r.out /\ p.given \subseteq Uses(p.assistantMessages)

\* A message of the response keeps all of it.
LEMMA Received ==
  ASSUME NEW v, NEW s, NEW r, NEW uses \in Nat, NEW requests \in Nat, NEW quiet,
         Underway(v, s, r, uses, requests, quiet), Agrees(v, s, r), Own(v, r, requests),
         LeftSame(v, s, r, uses, requests),
         r.assistantMessages = <<>>
           \/ (r.assistantMessages[1].rid = requests /\ Last(r.assistantMessages).error = "none"),
         NEW m \in Assistants, m.rid = requests,
         NEW u \in Nat, u <= uses, \A x \in m.uses : x > u /\ x <= uses,
         NEW p, Adding(p, r, m), NEW w, w = v \/ w = Append(v, m), m.error = "max_output_tokens" <=> w = v
  PROVE  /\ Underway(w, s, p, u, requests, quiet) /\ Agrees(w, s, p)
         /\ Own(w, p, requests) /\ LeftSame(w, s, p, u, requests)
<1> DEFINE a == r.assistantMessages
           b == p.assistantMessages
           n == Len(a)
<1>1. /\ Sound(v, uses, requests) /\ Sound(s, uses, requests) /\ Response(r, uses, requests)
      /\ Behind(s, r, requests) /\ Unanswered(v, r) /\ (quiet \/ ~Interrupted(v) => OpenFor(v, r))
  BY DEF Underway
<1>2. /\ a \in Seq(Assistants) /\ Uses(a) \in CallSets /\ (\A x \in Uses(a) : x > uses)
      /\ \A i, j \in 1..n : a[i].rid = a[j].rid
  BY <1>1 DEF Response, Requests
<1>3. m \in Messages /\ IsAssistant(m) /\ m.uses \in CallSets /\ m.uses \subseteq Nat
      /\ (m.error # "none" => m.uses = {})
      /\ (IsApiError(m) <=> m.error # "none") /\ Asks(m) = m.uses /\ m.rid \in Int
  BY MessageIs DEF Messages, IsApiError, Asks
<1>4. a \in Seq(Messages)
  BY <1>2, AssistantsSaid
<1>5. b = Append(a, m) /\ Uses(b) = Uses(a) \cup m.uses
  BY <1>3, <1>4, CallsMore DEF Adding
<1>6. n \in Nat /\ Len(b) = n + 1 /\ b[n + 1] = m /\ \A i \in 1..n : b[i] = a[i]
  BY <1>2, <1>5, Appended, InSequence
<1>7. (\A i \in 1..(n + 1) : i \in 1..n \/ i = n + 1) /\ (\A i \in 1..n : i \in 1..(n + 1))
      /\ n + 1 \in 1..(n + 1)
  BY <1>6
<1>8. a # <<>> => 1 \in 1..n /\ n \in 1..n /\ a[1].rid = requests /\ a[n].error = "none"
  BY <1>2 DEF Last
<1>9. a = <<>> => 1..n = {} /\ n = 0 /\ Uses(a) = {} /\ Range(a) = {}
  <2> SUFFICES ASSUME a = <<>> PROVE 1..n = {} /\ n = 0 /\ Uses(a) = {} /\ Range(a) = {}
    OBVIOUS
  <2>1. 1..n = {} /\ n = 0
    OBVIOUS
  <2> HIDE DEF n
  <2>2. Uses(a) = {} /\ Range(a) = {}
    BY <1>2, <1>4, <2>1, CallsOf, InRange DEF n
  <2> QED BY <2>1, <2>2
<1>10. v \in Seq(Messages) /\ Uses(v) \subseteq Nat /\ ResultsOf(v) \subseteq Results
       /\ Uses(s) \subseteq Nat /\ ResultsOf(s) \subseteq Results
       /\ Uses(a) \subseteq Nat
  BY <1>1, <1>2, CallsTyped DEF Sound, CallSets
<1>11. /\ Sound(w, u, requests) /\ Uses(w) = Uses(v) \cup m.uses /\ ResultsOf(w) = ResultsOf(v)
       /\ Told(Normalize(w)) = Told(Normalize(v))
  <2>1. CASE w = v
    <3>1. m.uses = {}
      BY <1>3, <2>1
    <3>2. Sound(v, u, requests)
      BY <1>1, SoundLess
    <3> QED BY <2>1, <3>1, <3>2
  <2>2. CASE w = Append(v, m)
    <3>1. m.rid < 0 \/ m.rid >= requests
      BY <1>3
    <3> QED BY <1>1, <2>2, <3>1, SoundSaid
  <2> QED BY <2>1, <2>2
<1>12. Interrupted(w) <=> Interrupted(v)
  <2>1. ~Partial(m)
    BY <1>3 DEF Partial
  <2>2. CASE w = v
    BY <2>2
  <2>3. CASE w = Append(v, m)
    BY <1>3, <1>10, <2>1, <2>3, InterruptedMore
  <2> QED BY <2>2, <2>3
<1>13. Sound(s, u, requests)
  BY <1>1, SoundLess
<1> HIDE DEF n
<1>14. Response(p, u, requests)
  <2>1. Uses(b) \in CallSets
    BY <1>2, <1>3, <1>5, MoreCalls
  <2>2. \A x \in Uses(b) : x > u
    BY <1>2, <1>5, <1>10
  <2>3. \A i \in 1..(n + 1) : b[i].rid = requests
    <3> TAKE i \in 1..(n + 1)
    <3>1. CASE i = n + 1
      BY <1>6, <3>1
    <3>2. CASE i \in 1..n
      <4>1. a # <<>>
        BY <1>9, <3>2
      <4>2. a[i].rid = a[1].rid /\ b[i] = a[i]
        BY <1>2, <1>6, <1>8, <3>2, <4>1
      <4> QED BY <1>8, <4>1, <4>2
    <3> QED BY <1>7, <3>1, <3>2
  <2>4. \A i, j \in 1..Len(b) : b[i].rid = b[j].rid /\ b[i].rid >= requests
    BY <1>6, <2>3
  <2>5. p.out \subseteq Uses(b) /\ p.given \subseteq Uses(b) /\ Answered(p.toolResults, p.out)
        /\ p \in Requests
    BY <1>1, <1>5 DEF Response, Adding
  <2> QED BY <2>1, <2>2, <2>4, <2>5 DEF Response
<1>15. Behind(s, p, requests)
  <2>1. \A x \in Rids(s) : x < 0 \/ (x > requests /\ \A i \in 1..(n + 1) : x > b[i].rid)
    <3> TAKE x \in Rids(s)
    <3>1. x < 0 \/ (x > requests /\ \A i \in 1..n : x > a[i].rid)
      BY <1>1 DEF Behind, n
    <3> QED BY <1>6, <1>7, <3>1
  <2>2. \A x \in Uses(s) : x \notin Uses(b)
    <3> TAKE x \in Uses(s)
    <3>1. x \in Nat /\ x > uses /\ x \notin Uses(a)
      BY <1>1, <1>10 DEF Behind, Sound
    <3>2. x \notin m.uses
      BY <1>3, <3>1
    <3> QED BY <1>5, <3>1, <3>2
  <2>3. \A q \in ResultsOf(s) : q.id \notin Uses(b)
    <3> TAKE q \in ResultsOf(s)
    <3>1. q.id \in Nat /\ q.id > uses /\ q.id \notin Uses(a)
      BY <1>1, <1>10 DEF Behind, Sound, Results
    <3>2. q.id \notin m.uses
      BY <1>3, <3>1
    <3> QED BY <1>5, <3>1, <3>2
  <2> QED BY <1>6, <2>1, <2>2, <2>3 DEF Behind
<1>16. Unanswered(w, p)
  <2> SUFFICES ASSUME NEW q \in ResultsOf(v), q.id \in Uses(b) PROVE q.id \in p.out
    BY <1>11 DEF Unanswered
  <2>1. q.id \in Nat /\ q.id > uses
    BY <1>1, <1>10 DEF Sound, Results
  <2>2. q.id \notin m.uses
    BY <1>3, <2>1
  <2>3. q.id \in Uses(a)
    BY <1>5, <2>2
  <2> QED BY <1>1, <2>3 DEF Unanswered, Adding
<1>17. ASSUME quiet \/ ~Interrupted(w), NEW i \in 1..Len(b), b[i].error = "none"
       PROVE  Opened(Normalize(w), b[1].rid, Uses(b))
  <2>1. OpenFor(v, r)
    BY <1>1, <1>12, <1>17
  <2> DEFINE rid == a[1].rid
             U == Uses(a)
  <2>2. CASE m.error # "none"
    <3>1. i # n + 1
      BY <1>6, <1>17, <2>2
    <3>2. i \in 1..n /\ a[i].error = "none"
      BY <1>6, <1>7, <1>17, <3>1
    <3>3. Opened(Normalize(v), a[1].rid, Uses(a)) /\ b[1] = a[1] /\ Uses(b) = Uses(a)
      <4>1. a # <<>>
        BY <1>9, <3>2
      <4>2. b[1] = a[1]
        BY <1>6, <1>8, <4>1
      <4>3. Uses(b) = Uses(a)
        BY <1>3, <1>5, <2>2
      <4> QED BY <2>1, <3>2, <4>2, <4>3 DEF OpenFor, n
    <3>4. Normalize(w) = Normalize(v)
      <4>1. Normalize(Append(v, m)) = Normalize(v)
        BY <1>3, <1>10, <2>2, NormalizeMore
      <4> QED BY <4>1
    <3> QED BY <3>3, <3>4
  <2>3. CASE m.error = "none" /\ a = <<>>
    <3>1. w = Append(v, m)
      BY <2>3
    <3>2. m.rid \notin Rids(v)
      BY <1>9, <2>3 DEF Own, Rids, n
    <3>3. Opened(Normalize(w), m.rid, m.uses)
      BY <1>3, <1>10, <2>3, <3>1, <3>2, OpenedWith
    <3>4. b[1] = m /\ Uses(b) = m.uses
      BY <1>5, <1>6, <1>9, <2>3
    <3> QED BY <3>3, <3>4
  <2>4. CASE m.error = "none" /\ a # <<>>
    <3>1. w = Append(v, m) /\ ~IsApiError(m)
      BY <1>3, <2>4
    <3>2. Opened(Normalize(v), rid, U) /\ rid = m.rid
      BY <1>8, <2>1, <2>4 DEF OpenFor, n
    <3>3. b[1].rid = m.rid /\ Uses(b) = U \cup m.uses
      BY <1>5, <1>6, <1>8, <2>4
    <3> HIDE DEF rid, U
    <3>4. Opened(Normalize(w), m.rid, U \cup m.uses)
      BY <1>10, <3>1, <3>2, OpenedWith
    <3> QED BY <3>3, <3>4
  <2> QED BY <2>2, <2>3, <2>4
<1>18. Agrees(w, s, p)
  <2>1. p.out = r.out
    BY DEF Adding
  <2> QED BY <1>5, <1>11, <2>1 DEF Agrees
<1>19. \A i \in 1..Len(v) : IsAssistant(v[i]) /\ v[i].rid = requests => \E j \in 1..n : a[j] = v[i]
  BY DEF Own, n
<1>20. Own(w, p, requests)
  <2> SUFFICES ASSUME NEW i \in 1..Len(w), IsAssistant(w[i]), w[i].rid = requests
               PROVE  \E j \in 1..(n + 1) : b[j] = w[i]
    BY <1>6 DEF Own
  <2>1. (i \in 1..Len(v) /\ w[i] = v[i]) \/ w[i] = m
    <3>1. CASE w = v
      BY <3>1
    <3>2. CASE w = Append(v, m)
      BY <1>3, <1>10, <3>2, Appended
    <3> QED BY <3>1, <3>2
  <2>2. CASE w[i] = m
    BY <1>6, <1>7, <2>2
  <2>3. CASE i \in 1..Len(v) /\ w[i] = v[i]
    <3>1. PICK j \in 1..n : a[j] = v[i]
      BY <1>19, <2>3
    <3> QED BY <1>6, <1>7, <2>3, <3>1
  <2> QED BY <2>1, <2>2, <2>3
<1>21. Left(w, p) = Left(v, r)
  <2> DEFINE S == Range(a)
             R == Range(b)
  <2>1. b \in Seq(Messages)
    BY <1>3, <1>4, <1>5, Appended
  <2>2. \A x : x \in S <=> \E j \in 1..n : a[j] = x
    BY <1>4, InRange DEF n
  <2>3. \A x : x \in R <=> \E j \in 1..(n + 1) : b[j] = x
    BY <1>6, <2>1, InRange
  <2> HIDE DEF S, R
  <2>4. \A x : x \in R <=> x \in S \/ x = m
    BY <1>6, <1>7, <2>2, <2>3
  <2>5. \A i \in 1..Len(v) : v[i] \in R <=> v[i] \in S
    <3> TAKE i \in 1..Len(v)
    <3>1. v[i] = m => v[i] \in S
      BY <1>3, <1>19, <2>2
    <3> QED BY <2>4, <3>1
  <2>6. Rejected(v, R) = Rejected(v, S)
    BY <1>10, <2>5, RejectedAlike
  <2>7. Rejected(w, R) = Rejected(v, R)
    <3>1. CASE w = v
      BY <3>1
    <3>2. CASE w = Append(v, m)
      <4>1. m \in R
        BY <2>4
      <4>2. Rejected(Append(v, m), R) = Rejected(v, R)
        BY <1>3, <1>10, <4>1, RejectedMore
      <4> QED BY <3>2, <4>2
    <3> QED BY <3>1, <3>2
  <2> QED BY <2>6, <2>7 DEF Left, S, R
<1>22. LeftSame(w, s, p, u, requests)
  <2>1. Sound(Left(v, r), uses, requests) /\ Same(Left(v, r), s)
    BY DEF LeftSame
  <2>2. Sound(Left(v, r), u, requests)
    BY <2>1, SoundLess
  <2> QED BY <1>21, <2>1, <2>2 DEF LeftSame
<1>23. quiet \/ ~Interrupted(w) => OpenFor(w, p)
  BY <1>17 DEF OpenFor
<1> QED BY <1>11, <1>13, <1>14, <1>15, <1>16, <1>18, <1>20, <1>22, <1>23 DEF Underway

-----------------------------------------------------------------------------
(* What the model is sent next                                               *)

Again(w, s, r) == w = s \o Append(r.assistantMessages, Text)
Turned(w, s, r) == w = s \o r.assistantMessages \o r.toolResults

\* Appending to the second of two sequences.
LEMMA AppendedLast ==
  ASSUME NEW T, NEW s \in Seq(T), NEW t \in Seq(T), NEW x \in T
  PROVE  s \o Append(t, x) = Append(s \o t, x)
  OBVIOUS

\* The empty conversation is sound.
LEMMA SoundNothing ==
  ASSUME NEW uses, NEW requests
  PROVE  Sound(<<>>, uses, requests) /\ WellFormed(Normalize(<<>>))
<1> DEFINE e == <<>>
<1>1. e \in Seq(Messages) /\ Len(e) = 0 /\ 1..Len(e) = {} /\ Normalize(e) = e
  BY NormalizeNothing
<1> HIDE DEF e
<1>2. Uses(e) = {} /\ ResultsOf(e) = {} /\ Rids(e) = {}
  BY <1>1, CallsOf DEF Rids
<1>3. Unique(e) /\ AllTold(e)
  BY <1>1, <1>2 DEF Unique, AllTold
<1>4. Sound(e, uses, requests)
  BY <1>1, <1>2, <1>3 DEF Sound
<1>5. WellFormed(Normalize(e))
  BY <1>1, <1>3, WellFormedIs
<1> QED BY <1>4, <1>5 DEF e

\* With the messages of the response.
LEMMA SoundSpoken ==
  ASSUME NEW s, NEW r, NEW uses \in Nat, NEW requests \in Nat, Sound(s, uses, requests),
         Response(r, uses, requests), Behind(s, r, requests), NEW a, a = r.assistantMessages
  PROVE  /\ s \o a \in Seq(Messages) /\ Sound(s \o a, uses, requests)
         /\ Uses(s \o a) = Uses(s) \cup Uses(a) /\ ResultsOf(s \o a) = ResultsOf(s)
         /\ Told(Normalize(s \o a)) = Told(Normalize(s))
         /\ Spoken(Normalize(s \o a), Normalize(s), a[1].rid, Uses(a))
<1>1. /\ a \in Seq(Assistants) /\ Uses(a) \in CallSets /\ (\A u \in Uses(a) : u > uses)
      /\ (\A i, j \in 1..Len(a) : a[i].rid = a[j].rid) /\ (\A i \in 1..Len(a) : a[i].rid >= requests)
      /\ (\A x \in Rids(s) : x < 0 \/ (\A i \in 1..Len(a) : x > a[i].rid))
      /\ (\A u \in Uses(s) : u \notin Uses(a)) /\ \A p \in ResultsOf(s) : p.id \notin Uses(a)
  BY DEF Response, Requests, Behind
<1>2. s \in Seq(Messages) /\ Unique(Normalize(s)) /\ AllTold(s)
  BY DEF Sound
<1>3. \A i \in 1..Len(a) : a[i] \in Messages /\ IsAssistant(a[i]) /\ Gives(a[i]) = {} /\ a[i].rid \in Int
  <2> TAKE i \in 1..Len(a)
  <2> DEFINE m == a[i]
  <2>1. m \in Assistants /\ m \in Messages
    BY <1>1, InSequence DEF Messages
  <2> HIDE DEF m
  <2>2. IsAssistant(m) /\ ~IsUser(m) /\ m.rid \in Int
    BY <2>1, MessageIs
  <2> QED BY <2>1, <2>2 DEF Gives, m
<1>4. a \in Seq(Messages)
  <2>1. DOMAIN a = 1..Len(a)
    BY <1>1, InSequence
  <2> QED BY <1>1, <1>3, <2>1
<1> DEFINE v == s \o a
           rid == a[1].rid
<1>5. /\ v \in Seq(Messages) /\ Uses(v) = Uses(s) \cup Uses(a)
      /\ ResultsOf(v) = ResultsOf(s) \cup ResultsOf(a)
      /\ Rids(v) = Rids(s) \cup Rids(a)
  BY <1>2, <1>4, Joined, CallsJoined
<1>6. ResultsOf(a) = {}
  BY <1>3, <1>4, CallsOf
<1>7. \A x \in Rids(a) : \E i \in 1..Len(a) : x = a[i].rid
  BY DEF Rids
<1>8. \A i \in 1..Len(a) : a[i].rid = rid /\ rid \notin Rids(s)
  <2> TAKE i \in 1..Len(a)
  <2>1. 1 \in 1..Len(a)
    BY <1>1
  <2>2. a[i].rid = rid
    BY <1>1, <2>1
  <2>3. rid \in Int /\ rid >= requests
    BY <1>1, <1>3, <2>1
  <2>4. rid \notin Rids(s)
    <3> SUFFICES ASSUME rid \in Rids(s) PROVE FALSE
      OBVIOUS
    <3>1. rid < 0 \/ rid > a[1].rid
      BY <1>1, <2>1
    <3> QED BY <2>3, <3>1
  <2> QED BY <2>2, <2>4
<1>9. Uses(a) \cap Uses(s) = {}
  BY <1>1
<1> HIDE DEF rid
<1>10. /\ Told(Normalize(v)) = Told(Normalize(s)) /\ (Unique(Normalize(s)) => Unique(Normalize(v)))
       /\ Spoken(Normalize(v), Normalize(s), rid, Uses(a))
  BY <1>1, <1>2, <1>8, <1>9, Said
<1>11. Interrupted(s) => Interrupted(v)
  BY <1>2, <1>4, InterruptedStill
<1> HIDE DEF v
<1>12. AllTold(v)
  BY <1>1, <1>2, <1>5, <1>6, <1>10, <1>11 DEF AllTold
<1>13. /\ \A u \in Uses(v) : u > uses
       /\ \A p \in ResultsOf(v) : p.id > uses
       /\ \A x \in Rids(v) : x < 0 \/ x >= requests
  <2>1. \A u \in Uses(v) : u > uses
    <3>1. \A u \in Uses(s) : u > uses
      BY DEF Sound
    <3> QED BY <1>1, <1>5, <3>1
  <2>2. \A p \in ResultsOf(v) : p.id > uses
    <3>1. \A p \in ResultsOf(s) : p.id > uses
      BY DEF Sound
    <3> QED BY <1>5, <1>6, <3>1
  <2>3. \A x \in Rids(v) : x < 0 \/ x >= requests
    <3>1. \A x \in Rids(s) : x < 0 \/ x >= requests
      BY DEF Sound
    <3>2. \A x \in Rids(a) : x >= requests
      BY <1>1, <1>7
    <3> QED BY <1>5, <3>1, <3>2
  <2> QED BY <2>1, <2>2, <2>3
<1>14. Sound(v, uses, requests)
  BY <1>2, <1>5, <1>10, <1>12, <1>13 DEF Sound
<1> QED BY <1>5, <1>6, <1>10, <1>14 DEF v, rid

\* Without calls: text goes after the response, which is repeated or held up.
LEMMA SoundAgain ==
  ASSUME NEW v, NEW s, NEW r, NEW uses \in Nat, NEW requests \in Nat, Sound(s, uses, requests),
         Response(r, uses, requests), Behind(s, r, requests), Agrees(v, s, r), Uses(r.assistantMessages) = {},
         NEW w, Again(w, s, r)
  PROVE  /\ Sound(w, uses, requests) /\ Same(v, w) /\ Same(v, s)
         /\ WellFormed(Normalize(s)) => WellFormed(Normalize(w))
<1> DEFINE a == r.assistantMessages
           q == s \o a
<1>1. a = r.assistantMessages
  OBVIOUS
<1>2. a \in Seq(Assistants) /\ r.out = {} /\ s \in Seq(Messages) /\ Uses(a) = {}
  BY DEF Response, Requests, Sound
<1>3. a \in Seq(Messages)
  BY <1>2, AssistantsSaid
<1> HIDE DEF a
<1>4. w = Append(q, Text)
  <2>1. s \o Append(a, Text) = Append(s \o a, Text)
    BY ONLY <1>2, <1>3, TextIs, AppendedLast
  <2> QED BY <1>1, <2>1 DEF Again
<1>5. /\ q \in Seq(Messages) /\ Sound(q, uses, requests)
      /\ Uses(q) = Uses(s) \cup Uses(a) /\ Told(Normalize(q)) = Told(Normalize(s))
      /\ Spoken(Normalize(q), Normalize(s), a[1].rid, Uses(a))
  BY <1>1, SoundSpoken
<1> HIDE DEF q
<1>6. /\ Sound(Append(q, Text), uses, requests) /\ Uses(Append(q, Text)) = Uses(q)
      /\ Told(Normalize(Append(q, Text))) = Told(Normalize(q))
      /\ WellFormed(Normalize(q)) => WellFormed(Normalize(Append(q, Text)))
  BY <1>5, SoundText
<1>7. Same(v, s)
  BY <1>1, <1>2 DEF Agrees, Same
<1>8. Same(v, w)
  BY <1>2, <1>4, <1>5, <1>6, <1>7 DEF Same
<1>9. WellFormed(Normalize(s)) => WellFormed(Normalize(q))
  <2>1. Normal(Normalize(s))
    BY <1>2, NormalizeNormal
  <2> DEFINE rid == a[1].rid
  <2>2. Spoken(Normalize(q), Normalize(s), rid, {})
    BY <1>2, <1>5
  <2> HIDE DEF rid
  <2> QED BY <2>1, <2>2, WellFormedSpoken
<1> QED BY <1>4, <1>6, <1>7, <1>8, <1>9

\* With calls that are all answered: the results go after the response.
LEMMA SoundTurn ==
  ASSUME NEW v, NEW s, NEW r, NEW uses \in Nat, NEW requests \in Nat, Sound(s, uses, requests),
         Response(r, uses, requests), Behind(s, r, requests), Agrees(v, s, r),
         Uses(r.assistantMessages) # {}, r.out = Uses(r.assistantMessages),
         NEW w, Turned(w, s, r)
  PROVE  /\ Sound(w, uses, requests) /\ Same(v, w)
         /\ WellFormed(Normalize(s)) => WellFormed(Normalize(w))
<1> DEFINE a == r.assistantMessages
           t == r.toolResults
           q == s \o a
           U == Uses(a)
           rid == a[1].rid
<1>1. a = r.assistantMessages
  OBVIOUS
<1>2. Answered(t, U) /\ s \in Seq(Messages) /\ U # {} /\ U \in CallSets /\ r.out = U
      /\ (\A u \in U : u > uses)
      /\ (\A u \in Uses(s) : u \notin U) /\ (\A p \in ResultsOf(s) : p.id \notin U)
  BY DEF Response, Requests, Sound, Behind
<1>3. w = q \o t
  BY DEF Turned
<1> HIDE DEF a, t
<1>4. /\ q \in Seq(Messages) /\ Sound(q, uses, requests)
      /\ Uses(q) = Uses(s) \cup U /\ ResultsOf(q) = ResultsOf(s) /\ Told(Normalize(q)) = Told(Normalize(s))
      /\ Spoken(Normalize(q), Normalize(s), rid, U)
  BY <1>1, SoundSpoken
<1> HIDE DEF q, U, rid
<1>5. Normal(Normalize(s)) /\ Uses(Normalize(s)) = Uses(s)
  BY <1>2, NormalizeNormal
<1>6. Opened(Normalize(q), rid, U)
  <2> DEFINE e == <<>>
             nm == Normalize(s)
  <2>1. rid \in Int /\ Normalize(q) = Append(nm, Assistant(rid, U, "none")) /\ nm \in Seq(Messages)
    BY <1>2, <1>4, <1>5 DEF Spoken, Normal
  <2>2. e \in Seq(Results) /\ e = <<>>
    OBVIOUS
  <2> HIDE DEF nm, e
  <2>3. GroupTyped(nm, rid, U, e) /\ Group(Normalize(q), nm, rid, U, e)
    BY <1>2, <2>1, <2>2 DEF GroupTyped, Group
  <2> QED BY <2>3 DEF Opened
<1>7. /\ t \in Seq(Users) /\ ResultsOf(t) = {Result(id, TRUE) : id \in U}
  BY <1>2, AnsweredResults
<1>8. \A p \in ResultsOf(t) : p.id \in U
  BY <1>7 DEF Result
<1>9. Told(Normalize(q \o t)) = Told(Normalize(q)) \cup ResultsOf(t)
  <2>1. \A p \in ResultsOf(q) : p.id \notin U
    BY <1>2, <1>4
  <2>2. U \subseteq U
    OBVIOUS
  <2> QED BY <1>2, <1>4, <1>6, <2>1, <2>2, OpenAnswered
<1>10. Sound(q \o t, uses, requests)
  BY <1>2, <1>4, <1>7, <1>8, <1>9, SoundUsers
<1>11. Uses(q \o t) = Uses(q)
  BY <1>4, <1>7, UsersAdded
<1>12. Uses(v) = Uses(s) \cup U /\ Told(Normalize(v)) = Told(Normalize(s)) \cup ResultsOf(t)
  BY <1>1, <1>2, <1>7 DEF Agrees, U
<1>13. Same(v, w)
  BY <1>3, <1>4, <1>9, <1>11, <1>12 DEF Same
<1>14. WellFormed(Normalize(s)) => WellFormed(Normalize(q \o t))
  <2>1. U \cap Uses(Normalize(s)) = {}
    BY <1>2, <1>5
  <2> QED BY <1>2, <1>4, <1>5, <2>1, WellFormedAnswered
<1> QED BY <1>3, <1>10, <1>13, <1>14

\* The next request.
LEMMA Starts ==
  ASSUME NEW v, NEW s, NEW uses \in Nat, NEW requests \in Nat, NEW quiet,
         Sound(v, uses, requests + 1), Sound(s, uses, requests + 1), Same(v, s), NEW p, NothingYet(p)
  PROVE  /\ Underway(v, s, p, uses, requests, quiet) /\ Agrees(v, s, p)
         /\ Own(v, p, requests) /\ LeftSame(v, s, p, uses, requests)
<1> DEFINE b == p.assistantMessages
           q == requests + 1
<1>1. Uses(b) = {} /\ 1..Len(b) = {} /\ Range(b) = {} /\ p.given = {} /\ p.out = {}
      /\ p \in Requests /\ p.toolResults = <<>>
  BY NothingYetIs DEF NothingYet
<1>2. q \in Nat /\ requests <= q
  OBVIOUS
<1>3. v \in Seq(Messages)
  BY DEF Sound
<1>4. \A x \in Rids(s) \cup Rids(v) : x < 0 \/ x >= q
  BY DEF Sound
<1> HIDE DEF q
<1>5. Sound(v, uses, requests) /\ Sound(s, uses, requests)
  BY <1>2, SoundLess DEF q
<1>6. Response(p, uses, requests)
  <2>1. {} \in CallSets
    BY FS_EmptySet DEF CallSets
  <2>2. Answered(p.toolResults, p.out)
    BY <1>1, NothingAnswered
  <2> QED BY <1>1, <2>1, <2>2 DEF Response
<1>7. Behind(s, p, requests)
  <2>1. \A x \in Rids(s) : x < 0 \/ x > requests
    <3> TAKE x \in Rids(s)
    <3>1. PICK i \in 1..Len(s) : IsAssistant(s[i]) /\ x = s[i].rid
      BY DEF Rids
    <3>2. x \in Int
      BY <3>1, InSequence, MessageIs DEF Sound
    <3> QED BY <1>4, <3>2 DEF q
  <2> QED BY <1>1, <2>1 DEF Behind
<1>8. Unanswered(v, p) /\ OpenFor(v, p)
  BY <1>1 DEF Unanswered, OpenFor
<1>9. Agrees(v, s, p)
  BY <1>1 DEF Agrees, Same
<1>10. Own(v, p, requests)
  <2> SUFFICES ASSUME NEW i \in 1..Len(v), IsAssistant(v[i]), v[i].rid = requests PROVE FALSE
    BY DEF Own
  <2>1. requests \in Rids(v)
    BY DEF Rids
  <2> QED BY <1>4, <2>1 DEF q
<1>11. Left(v, p) = v
  BY <1>1, <1>3, RejectedNone DEF Left
<1> QED BY <1>5, <1>6, <1>7, <1>8, <1>9, <1>10, <1>11 DEF Underway, LeftSame

-----------------------------------------------------------------------------
(* The inductive invariant                                                   *)

Limits == [queries : Nat, requests : Nat, texts : Nat, uses : Nat, truncations : Nat,
           blocks : Nat, stops : Nat, attachments : Nat, compactions : Nat,
           fallbacks : Nat, aborts : Nat, capEnabled : BOOLEAN]
Busy == {"stream", "received", "tools", "answered", "hooks"}
Reasons == {"no", "user-cancel", "interrupt"}

\* What the response has made of the view, until the loop goes on with it.
InTurn(l, p, v, s, r, st, ab) ==
  LET a == r.assistantMessages IN
  /\ Underway(v, s, r, l.uses, l.requests, ab = "no")
  /\ p # "tools" \/ ab = "no" => Agrees(v, s, r)
  /\ st /\ ab = "no" => r.given = Uses(a)
  /\ p = "stream" =>
       /\ Own(v, r, l.requests) /\ LeftSame(v, s, r, l.uses, l.requests)
       /\ ~r.fellBack /\ a # <<>> => a[1].rid = l.requests
  /\ p = "tools" => Uses(a) # {}
  /\ p \in {"answered", "hooks"} => Uses(a) = {}

Holds(l, p, v, s, r, st, ab, c) ==
  /\ l \in Limits /\ p \in {"idle", "request"} \cup Busy /\ st \in BOOLEAN /\ ab \in Reasons
  /\ Sound(v, l.uses, l.requests) /\ Sound(s, l.uses, l.requests)
  /\ p = "request" => Same(v, s)
  /\ p \in Busy => InTurn(l, p, v, s, r, st, ab)
  /\ c /\ p # "idle" => WellFormed(Normalize(s))

QueryInv == Holds(left, pc, view, sent, req, streaming, aborted, clean)

\* It is enough, without a query, that the conversation is sound.
LEMMA HoldsIdle ==
  ASSUME NEW l \in Limits, NEW v, Sound(v, l.uses, l.requests)
  PROVE  Holds(l, "idle", v, <<>>, NewRequest, TRUE, "no", TRUE)
<1>1. Sound(<<>>, l.uses, l.requests)
  BY SoundNothing
<1> QED BY <1>1 DEF Holds, Busy, Reasons

\* Between two requests the caller and the loop agree.
LEMMA HoldsRequest ==
  ASSUME NEW l \in Limits, NEW v, NEW s, NEW r, NEW st \in BOOLEAN, NEW ab \in Reasons, NEW c,
         Sound(v, l.uses, l.requests), Sound(s, l.uses, l.requests), Same(v, s),
         c => WellFormed(Normalize(s))
  PROVE  Holds(l, "request", v, s, r, st, ab, c)
  BY DEF Holds, Busy

\* While the response is looked at, the part about it.
LEMMA HoldsBusy ==
  ASSUME NEW l \in Limits, NEW p \in Busy, NEW v, NEW s, NEW r, NEW st \in BOOLEAN,
         NEW ab \in Reasons, NEW c, InTurn(l, p, v, s, r, st, ab), c => WellFormed(Normalize(s))
  PROVE  Holds(l, p, v, s, r, st, ab, c)
<1>1. Sound(v, l.uses, l.requests) /\ Sound(s, l.uses, l.requests)
  BY DEF InTurn, Underway
<1>2. p # "request"
  BY DEF Busy
<1> QED BY <1>1, <1>2 DEF Holds

\* While it streams, all that may still be needed.
LEMMA HoldsStream ==
  ASSUME NEW l \in Limits, NEW v, NEW s, NEW r, NEW st \in BOOLEAN, NEW ab \in Reasons, NEW c,
         NEW quiet, quiet <=> ab = "no",
         Underway(v, s, r, l.uses, l.requests, quiet), Agrees(v, s, r),
         Own(v, r, l.requests), LeftSame(v, s, r, l.uses, l.requests),
         st /\ ab = "no" => r.given = Uses(r.assistantMessages),
         ~r.fellBack /\ r.assistantMessages # <<>> => r.assistantMessages[1].rid = l.requests,
         c => WellFormed(Normalize(s))
  PROVE  Holds(l, "stream", v, s, r, st, ab, c)
<1>1. Underway(v, s, r, l.uses, l.requests, ab = "no")
  BY DEF Underway
<1>2. InTurn(l, "stream", v, s, r, st, ab)
  BY <1>1 DEF InTurn
<1> QED BY <1>2, HoldsBusy DEF Busy

\* The invariant holds in the beginning.
LEMMA QueryInvInit == Init => QueryInv
<1> SUFFICES ASSUME Init PROVE QueryInv
  OBVIOUS
<1>1. /\ left \in Limits /\ pc = "idle" /\ view = <<>> /\ sent = <<>> /\ req = NewRequest
      /\ streaming = TRUE /\ aborted = "no" /\ clean = TRUE
  BY QueryAssumption DEF Init, Limits
<1>2. Sound(view, left.uses, left.requests)
  BY <1>1, SoundNothing
<1>3. Holds(left, "idle", view, <<>>, NewRequest, TRUE, "no", TRUE)
  BY <1>1, <1>2, HoldsIdle
<1> QED BY <1>1, <1>3 DEF QueryInv

\* What may still happen is counted down.
Spends(k, l, uses, requests) ==
  k \in Limits /\ k.uses = l.uses - uses /\ k.requests = l.requests - requests

\* The counters of the model are spent one by one.
LEMMA Counted ==
  ASSUME NEW l \in Limits
  PROVE  /\ l.queries > 0 => Spends([l EXCEPT !.queries = @ - 1], l, 0, 0)
         /\ l.aborts > 0 => Spends([l EXCEPT !.aborts = @ - 1], l, 0, 0)
         /\ l.aborts > 0 /\ l.texts > 0 =>
              Spends([l EXCEPT !.aborts = @ - 1, !.texts = @ - 1], l, 0, 0)
         /\ l.requests > 0 => Spends([l EXCEPT !.requests = @ - 1], l, 0, 1)
         /\ l.requests > 0 /\ l.compactions > 0 =>
              Spends([l EXCEPT !.requests = @ - 1, !.compactions = @ - 1], l, 0, 1)
         /\ l.fallbacks > 0 /\ l.requests > 0 =>
              Spends([l EXCEPT !.fallbacks = @ - 1, !.requests = @ - 1], l, 0, 1)
         /\ l.texts > 0 => Spends([l EXCEPT !.texts = @ - 1], l, 0, 0)
         /\ l.truncations > 0 => Spends([l EXCEPT !.truncations = @ - 1], l, 0, 0)
         /\ l.fallbacks > 0 => Spends([l EXCEPT !.fallbacks = @ - 1], l, 0, 0)
         /\ l.blocks > 0 => Spends([l EXCEPT !.blocks = @ - 1], l, 0, 0)
<1>1. l.queries > 0 => Spends([l EXCEPT !.queries = @ - 1], l, 0, 0)
  BY DEF Limits, Spends
<1>2. l.aborts > 0 => Spends([l EXCEPT !.aborts = @ - 1], l, 0, 0)
  BY DEF Limits, Spends
<1>3. l.aborts > 0 /\ l.texts > 0 => Spends([l EXCEPT !.aborts = @ - 1, !.texts = @ - 1], l, 0, 0)
  <2> DEFINE k == [l EXCEPT !.aborts = @ - 1, !.texts = @ - 1]
  <2> SUFFICES ASSUME l.aborts > 0, l.texts > 0 PROVE Spends(k, l, 0, 0)
    OBVIOUS
  <2>1. l.aborts - 1 \in Nat /\ l.texts - 1 \in Nat
    BY DEF Limits
  <2>2. k = [l EXCEPT !.aborts = l.aborts - 1, !.texts = l.texts - 1]
    OBVIOUS
  <2>3. k \in Limits
    BY <2>1, <2>2 DEF Limits
  <2>4. k.uses = l.uses - 0 /\ k.requests = l.requests - 0
    BY DEF Limits
  <2> HIDE DEF k
  <2> QED BY <2>3, <2>4 DEF Spends
<1>4. l.requests > 0 => Spends([l EXCEPT !.requests = @ - 1], l, 0, 1)
  BY DEF Limits, Spends
<1>5. l.requests > 0 /\ l.compactions > 0 =>
        Spends([l EXCEPT !.requests = @ - 1, !.compactions = @ - 1], l, 0, 1)
  <2> DEFINE k == [l EXCEPT !.requests = @ - 1, !.compactions = @ - 1]
  <2> SUFFICES ASSUME l.requests > 0, l.compactions > 0 PROVE Spends(k, l, 0, 1)
    OBVIOUS
  <2>1. l.requests - 1 \in Nat /\ l.compactions - 1 \in Nat
    BY DEF Limits
  <2>2. k = [l EXCEPT !.requests = l.requests - 1, !.compactions = l.compactions - 1]
    OBVIOUS
  <2>3. k \in Limits
    BY <2>1, <2>2 DEF Limits
  <2>4. k.uses = l.uses - 0 /\ k.requests = l.requests - 1
    BY DEF Limits
  <2> HIDE DEF k
  <2> QED BY <2>3, <2>4 DEF Spends
<1>6. l.fallbacks > 0 /\ l.requests > 0 => Spends([l EXCEPT !.fallbacks = @ - 1, !.requests = @ - 1], l, 0, 1)
  <2> DEFINE k == [l EXCEPT !.fallbacks = @ - 1, !.requests = @ - 1]
  <2> SUFFICES ASSUME l.fallbacks > 0, l.requests > 0 PROVE Spends(k, l, 0, 1)
    OBVIOUS
  <2>1. l.fallbacks - 1 \in Nat /\ l.requests - 1 \in Nat
    BY DEF Limits
  <2>2. k = [l EXCEPT !.fallbacks = l.fallbacks - 1, !.requests = l.requests - 1]
    OBVIOUS
  <2>3. k \in Limits
    BY <2>1, <2>2 DEF Limits
  <2>4. k.uses = l.uses - 0 /\ k.requests = l.requests - 1
    BY DEF Limits
  <2> HIDE DEF k
  <2> QED BY <2>3, <2>4 DEF Spends
<1>7. l.texts > 0 => Spends([l EXCEPT !.texts = @ - 1], l, 0, 0)
  BY DEF Limits, Spends
<1>8. l.truncations > 0 => Spends([l EXCEPT !.truncations = @ - 1], l, 0, 0)
  BY DEF Limits, Spends
<1>9. l.fallbacks > 0 => Spends([l EXCEPT !.fallbacks = @ - 1], l, 0, 0)
  BY DEF Limits, Spends
<1>10. l.blocks > 0 => Spends([l EXCEPT !.blocks = @ - 1], l, 0, 0)
  BY DEF Limits, Spends
<1> QED BY <1>1, <1>2, <1>3, <1>4, <1>5, <1>6, <1>7, <1>8, <1>9, <1>10

\* Attachments and calls are spent several at once.
LEMMA CountedMore ==
  ASSUME NEW l \in Limits, NEW n \in Nat
  PROVE  /\ n <= l.attachments => Spends([l EXCEPT !.attachments = @ - n], l, 0, 0)
         /\ n <= l.uses => Spends([l EXCEPT !.uses = @ - n], l, n, 0)
<1>1. n <= l.attachments => Spends([l EXCEPT !.attachments = @ - n], l, 0, 0)
  BY DEF Limits, Spends
<1>2. n <= l.uses => Spends([l EXCEPT !.uses = @ - n], l, n, 0)
  BY DEF Limits, Spends
<1> QED BY <1>1, <1>2

\* What is left is less, and only requests and calls use up ids.
LEMMA SpendsIs ==
  ASSUME NEW l \in Limits, NEW k, NEW uses \in Nat, NEW requests \in Nat, Spends(k, l, uses, requests)
  PROVE  /\ k \in Limits /\ k.uses \in Nat /\ k.requests \in Nat /\ l.uses \in Nat /\ l.requests \in Nat
         /\ k.uses <= l.uses /\ k.requests <= l.requests
         /\ uses = 0 => k.uses = l.uses
         /\ requests = 0 => k.requests = l.requests
         /\ requests = 1 => l.requests = k.requests + 1
  BY DEF Limits, Spends

-----------------------------------------------------------------------------
(* The caller, and the start of a request                                    *)

\* query() is called with what the caller has.
LEMMA SubmitInv == QueryInv /\ Submit => QueryInv'
<1> SUFFICES ASSUME QueryInv, Submit PROVE QueryInv'
  OBVIOUS
<1>1. left \in Limits /\ Sound(view, left.uses, left.requests)
  BY DEF QueryInv, Holds
<1>2. Spends(left', left, 0, 0)
  BY <1>1, Counted DEF Submit
<1>3. left' \in Limits /\ left'.uses = left.uses /\ left'.requests = left.requests
  BY <1>1, <1>2, SpendsIs
<1>4. view' = Append(view, Text) /\ Sound(Append(view, Text), left.uses, left.requests)
  BY <1>1, SoundText DEF Submit
<1>5. Sound(view', left'.uses, left'.requests)
  BY <1>3, <1>4
<1>6. streaming' \in BOOLEAN /\ clean' = WellFormed(Normalize(view'))
  BY DEF Submit
<1>7. Holds(left', "request", view', view', NewRequest, streaming', "no", clean')
  BY <1>3, <1>5, <1>6, HoldsRequest DEF Same, Reasons
<1>8. pc' = "request" /\ sent' = view' /\ req' = NewRequest /\ aborted' = "no"
  BY DEF Submit
<1> QED BY <1>7, <1>8 DEF QueryInv

\* Nothing of what the response has made changes.
LEMMA InTurnAborted ==
  ASSUME NEW l, NEW k, k.uses = l.uses, k.requests = l.requests, NEW p, NEW v, NEW s, NEW r, NEW st,
         InTurn(l, p, v, s, r, st, "no"), NEW ab \in Reasons, ab # "no"
  PROVE  InTurn(k, p, v, s, r, st, ab)
<1>1. Underway(v, s, r, l.uses, l.requests, "no" = "no")
  BY DEF InTurn
<1>2. Underway(v, s, r, k.uses, k.requests, ab = "no")
  BY <1>1 DEF Underway
<1>3. Agrees(v, s, r)
  BY DEF InTurn
<1> QED BY <1>2, <1>3 DEF InTurn

\* The user aborts.
LEMMA AbortInv == QueryInv /\ Abort => QueryInv'
<1> SUFFICES ASSUME QueryInv, Abort PROVE QueryInv'
  OBVIOUS
<1>1. /\ left \in Limits /\ pc \in {"idle", "request"} \cup Busy /\ pc # "idle" /\ streaming \in BOOLEAN
      /\ Sound(view, left.uses, left.requests) /\ Sound(sent, left.uses, left.requests)
      /\ pc = "request" => Same(view, sent)
      /\ pc \in Busy => InTurn(left, pc, view, sent, req, streaming, "no")
      /\ clean => WellFormed(Normalize(sent))
  BY DEF QueryInv, Holds, Abort
<1>2. Spends(left', left, 0, 0)
  BY <1>1, Counted DEF Abort
<1>3. left' \in Limits /\ left'.uses = left.uses /\ left'.requests = left.requests
  BY <1>1, <1>2, SpendsIs
<1>4. aborted' \in Reasons /\ aborted' # "no"
  BY DEF Abort, Reasons
<1>5. Holds(left', pc, view, sent, req, streaming, aborted', clean)
  <2>1. CASE pc = "request"
    BY <1>1, <1>3, <1>4, <2>1, HoldsRequest
  <2>2. CASE pc \in Busy
    <3>1. InTurn(left', pc, view, sent, req, streaming, aborted')
      BY <1>1, <1>3, <1>4, <2>2, InTurnAborted
    <3> QED BY <1>1, <1>3, <1>4, <2>2, <3>1, HoldsBusy
  <2> QED BY <1>1, <2>1, <2>2
<1>6. pc' = pc /\ view' = view /\ sent' = sent /\ req' = req /\ streaming' = streaming /\ clean' = clean
  BY DEF Abort
<1> QED BY <1>5, <1>6 DEF QueryInv

\* A part of an answer that Escape keeps is of no response.
LEMMA PartialKept ==
  ASSUME NEW v, NEW s, NEW r, NEW uses \in Nat, NEW requests \in Nat, NEW quiet,
         Underway(v, s, r, uses, requests, quiet), Agrees(v, s, r), Own(v, r, requests),
         LeftSame(v, s, r, uses, requests), NEW m \in Assistants, m.uses = {}, m.rid < 0
  PROVE  /\ Underway(Append(v, m), s, r, uses, requests, FALSE) /\ Agrees(Append(v, m), s, r)
         /\ Own(Append(v, m), r, requests) /\ LeftSame(Append(v, m), s, r, uses, requests)
<1> DEFINE a == r.assistantMessages
           w == Append(v, m)
           x == Left(v, r)
<1>1. /\ Sound(v, uses, requests) /\ v \in Seq(Messages) /\ a \in Seq(Assistants) /\ m \in Messages
      /\ m.rid \in Int
      /\ \A i, j \in 1..Len(a) : a[i].rid = a[j].rid /\ a[i].rid >= requests
  <2>1. m \in Messages
    BY DEF Messages
  <2>2. m.rid \in Int
    BY DEF Assistants
  <2> QED BY <2>1, <2>2 DEF Underway, Sound, Response, Requests
<1>2. m \notin Range(a)
  <2> SUFFICES ASSUME m \in Range(a) PROVE FALSE
    OBVIOUS
  <2>1. PICK i \in 1..Len(a) : a[i] = m
    BY <1>1, InRange
  <2>2. m.rid >= requests
    BY <1>1, <2>1
  <2> QED BY <1>1, <2>2
<1>3. Left(w, r) = Append(x, m)
  BY <1>1, <1>2, RejectedMore DEF Left
<1>4. Sound(x, uses, requests) /\ Same(x, s)
  BY DEF LeftSame
<1> HIDE DEF x
<1>5. /\ Sound(Append(x, m), uses, requests) /\ Uses(Append(x, m)) = Uses(x)
      /\ Told(Normalize(Append(x, m))) = Told(Normalize(x))
  <2>1. uses <= uses /\ \A u \in m.uses : u > uses /\ u <= uses
    OBVIOUS
  <2> QED BY <1>4, <2>1, SoundSaid
<1>6. LeftSame(w, s, r, uses, requests)
  <2>1. Same(Append(x, m), s)
    BY <1>4, <1>5 DEF Same
  <2> QED BY <1>3, <1>5, <2>1 DEF LeftSame
<1>7. /\ Sound(w, uses, requests) /\ Uses(w) = Uses(v) /\ ResultsOf(w) = ResultsOf(v)
      /\ Told(Normalize(w)) = Told(Normalize(v))
  <2>1. uses <= uses /\ \A u \in m.uses : u > uses /\ u <= uses
    OBVIOUS
  <2> QED BY <1>1, <2>1, SoundSaid
<1>8. Interrupted(w)
  <2>1. Partial(m)
    BY <1>1, MessageIs DEF Partial
  <2> QED BY <1>1, <2>1, InterruptedMore
<1>9. Own(w, r, requests)
  <2>1. /\ Len(w) = Len(v) + 1 /\ w[Len(v) + 1] = m /\ \A i \in 1..Len(v) : w[i] = v[i]
        /\ \A i \in 1..(Len(v) + 1) : i \in 1..Len(v) \/ i = Len(v) + 1
    BY <1>1, Appended
  <2> HIDE DEF w
  <2> SUFFICES ASSUME NEW i \in 1..Len(w), IsAssistant(w[i]), w[i].rid = requests
               PROVE  \E j \in 1..Len(a) : a[j] = w[i]
    BY DEF Own
  <2>2. i \in 1..Len(v)
    <3> SUFFICES ASSUME i = Len(v) + 1 PROVE FALSE
      BY <2>1
    <3>1. m.rid = requests
      BY <2>1
    <3> QED BY <1>1, <3>1
  <2>3. w[i] = v[i]
    BY <2>1, <2>2
  <2> QED BY <2>2, <2>3 DEF Own
<1> HIDE DEF w
<1>10. Underway(w, s, r, uses, requests, FALSE)
  <2>1. Unanswered(w, r)
    BY <1>7 DEF Underway, Unanswered
  <2> QED BY <1>7, <1>8, <2>1 DEF Underway
<1>11. Agrees(w, s, r)
  BY <1>7 DEF Agrees
<1> QED BY <1>6, <1>9, <1>10, <1>11 DEF w

\* Escape keeps the text that was shown as a message of its own.
LEMMA AbortTextInv == QueryInv /\ AbortText => QueryInv'
<1> SUFFICES ASSUME QueryInv, AbortText PROVE QueryInv'
  OBVIOUS
<1> DEFINE m == Assistant(-left.aborts, {}, "none")
<1>1. /\ left \in Limits /\ pc = "stream" /\ streaming \in BOOLEAN /\ left.aborts > 0 /\ left.texts > 0
      /\ InTurn(left, "stream", view, sent, req, streaming, "no")
      /\ clean => WellFormed(Normalize(sent))
  BY DEF QueryInv, Holds, AbortText, Busy
<1>2. Spends(left', left, 0, 0)
  BY <1>1, Counted DEF AbortText
<1>3. /\ left' \in Limits /\ left'.uses = left.uses /\ left'.requests = left.requests
      /\ left.uses \in Nat /\ left.requests \in Nat
  BY <1>1, <1>2, SpendsIs
<1>4. m \in Assistants /\ m.uses = {} /\ m.rid < 0
  <2> DEFINE n == left.aborts
  <2>1. n \in Nat
    BY <1>1 DEF Limits
  <2> HIDE DEF n
  <2>2. -n \in Int /\ -n < 0
    BY <1>1, <2>1 DEF n
  <2>3. {} \in CallSets
    BY FS_EmptySet DEF CallSets
  <2> DEFINE q == -n
  <2> HIDE DEF q
  <2>4. Assistant(q, {}, "none") \in Assistants /\ Assistant(q, {}, "none").uses = {}
        /\ Assistant(q, {}, "none").rid = q
    BY <2>2, <2>3, AssistantIs DEF q
  <2> QED BY <2>2, <2>4 DEF n, q
<1> HIDE DEF m
<1>5. /\ Agrees(view, sent, req) /\ Own(view, req, left.requests)
      /\ LeftSame(view, sent, req, left.uses, left.requests)
      /\ ~req.fellBack /\ req.assistantMessages # <<>> => req.assistantMessages[1].rid = left.requests
  BY <1>1 DEF InTurn
<1>6. Underway(view, sent, req, left.uses, left.requests, TRUE)
  <2>1. Underway(view, sent, req, left.uses, left.requests, "no" = "no")
    BY <1>1 DEF InTurn
  <2> QED BY <2>1 DEF Underway
<1>7. view' = Append(view, m) /\ aborted' = "user-cancel"
  BY DEF AbortText, m
<1>8. /\ Underway(view', sent, req, left'.uses, left'.requests, FALSE) /\ Agrees(view', sent, req)
      /\ Own(view', req, left'.requests) /\ LeftSame(view', sent, req, left'.uses, left'.requests)
  BY <1>3, <1>4, <1>5, <1>6, <1>7, PartialKept
<1>9. Holds(left', "stream", view', sent, req, streaming, aborted', clean)
  <2>1. aborted' \in Reasons /\ aborted' # "no"
    BY <1>7 DEF Reasons
  <2> QED BY <1>1, <1>3, <1>5, <1>8, <2>1, HoldsStream
<1>10. pc' = "stream" /\ sent' = sent /\ req' = req /\ streaming' = streaming /\ clean' = clean
  BY <1>1 DEF AbortText
<1> QED BY <1>9, <1>10 DEF QueryInv

\* Nothing is received when a request starts.
LEMMA NewRequestIs == NothingYet(NewRequest) /\ NewRequest.fellBack = FALSE
<1>1. {} \in CallSets
  BY FS_EmptySet DEF CallSets
<1>2. NewRequest \in Requests
  BY <1>1 DEF NewRequest, Requests
<1> QED BY <1>2 DEF NothingYet, NewRequest

\* autoCompact() may shorten both copies, or fail; then the request goes out.
LEMMA StartRequestInv == QueryInv /\ StartRequest => QueryInv'
<1> SUFFICES ASSUME QueryInv, StartRequest PROVE QueryInv'
  OBVIOUS
<1>1. /\ left \in Limits /\ streaming \in BOOLEAN /\ aborted \in Reasons
      /\ Sound(view, left.uses, left.requests) /\ Sound(sent, left.uses, left.requests) /\ Same(view, sent)
      /\ clean => WellFormed(Normalize(sent))
  BY DEF QueryInv, Holds, StartRequest
<1>2. Spends(left', left, 0, 1)
  <2>1. CASE NotCompacted /\ left' = [left EXCEPT !.requests = @ - 1]
    BY <1>1, <2>1, Counted DEF StartRequest
  <2>2. CASE /\ Compacted \/ CompactionFailed
             /\ left' = [left EXCEPT !.requests = @ - 1, !.compactions = @ - 1]
    <3>1. left.compactions > 0
      BY <2>2 DEF Compacted, CompactionFailed
    <3> QED BY <1>1, <2>2, <3>1, Counted DEF StartRequest
  <2> QED BY <2>1, <2>2 DEF StartRequest
<1> DEFINE uses == left'.uses
           requests == left'.requests
           quiet == aborted = "no"
<1>3. left' \in Limits /\ left.uses = uses /\ left.requests = requests + 1 /\ uses \in Nat /\ requests \in Nat
  BY <1>1, <1>2, SpendsIs
<1>4. /\ Sound(view', uses, requests + 1) /\ Sound(sent', uses, requests + 1) /\ Same(view', sent')
      /\ clean => WellFormed(Normalize(sent'))
  <2>1. CASE Compacted
    <3>1. Sound(Append(<<>>, Text), uses, requests + 1) /\ WellFormed(Normalize(Append(<<>>, Text)))
      BY SoundNothing, SoundText
    <3>2. Append(<<>>, Text) = <<Text>>
      OBVIOUS
    <3> QED BY <2>1, <3>1, <3>2 DEF Compacted, Same
  <2>2. CASE NotCompacted \/ CompactionFailed
    BY <1>1, <1>3, <2>2 DEF NotCompacted, CompactionFailed
  <2> QED BY <2>1, <2>2 DEF StartRequest
<1> HIDE DEF uses, requests, quiet
<1>5. /\ Underway(view', sent', NewRequest, uses, requests, quiet) /\ Agrees(view', sent', NewRequest)
      /\ Own(view', NewRequest, requests) /\ LeftSame(view', sent', NewRequest, uses, requests)
  BY <1>3, <1>4, NewRequestIs, Starts
<1>6. NewRequest.given = Uses(NewRequest.assistantMessages) /\ NewRequest.assistantMessages = <<>>
  BY NewRequestIs, NothingYetIs DEF NothingYet
<1>7. quiet <=> aborted = "no"
  BY DEF quiet
<1>8. Holds(left', "stream", view', sent', NewRequest, streaming, aborted, clean)
  BY <1>1, <1>3, <1>4, <1>5, <1>6, <1>7, HoldsStream DEF uses, requests
<1>9. pc' = "stream" /\ req' = NewRequest /\ streaming' = streaming /\ aborted' = aborted /\ clean' = clean
  BY DEF StartRequest
<1> QED BY <1>8, <1>9 DEF QueryInv

-----------------------------------------------------------------------------
(* What is received of the response                                          *)

\* Some of the calls.
LEMMA FewerCalls ==
  ASSUME NEW A \in CallSets, NEW B, B \subseteq A
  PROVE  B \in CallSets
  BY FS_Subset DEF CallSets

\* Deliver() hands on the results that are ready.
LEMMA DeliveryIs ==
  ASSUME NEW r \in Requests, NEW ids \in CallSets
  PROVE  Delivery(Deliver(r, ids), r, ids) /\ Deliver(r, ids).fellBack = r.fellBack
<1> DEFINE t == Ready(ids)
           u == r.toolResults \o t
           o == r.out \cup ids
           p == [r EXCEPT !.toolResults = u, !.out = o]
<1>1. t \in Seq(Users)
  BY ReadyIs, AnsweredResults
<1>2. r.toolResults \in Seq(Users) /\ r.out \in CallSets
  BY DEF Requests
<1> HIDE DEF t
<1>3. u \in Seq(Users)
  BY <1>1, <1>2
<1>4. o \in CallSets
  BY <1>2, MoreCalls
<1>5. Deliver(r, ids) = p
  BY DEF Deliver, t
<1>6. u = r.toolResults \o Ready(ids) /\ o = r.out \cup ids
  BY DEF t
<1> HIDE DEF u, o
<1>7. /\ p \in Requests /\ p.assistantMessages = r.assistantMessages /\ p.given = r.given
      /\ p.fellBack = r.fellBack /\ p.toolResults = u /\ p.out = o
  BY <1>3, <1>4 DEF Requests
<1> HIDE DEF p
<1> QED BY <1>5, <1>6, <1>7 DEF Delivery

\* One message of a response: its calls, and that only truncation is withheld.
LEMMA OneSaid ==
  ASSUME NEW m \in Assistants
  PROVE  /\ Uses(<<m>>) = m.uses
         /\ Rejected(<<m>>, {x \in Range(<<m>>) : x.error = "max_output_tokens"})
              = IF m.error = "max_output_tokens" THEN <<>> ELSE <<m>>
<1> DEFINE e == <<>>
           S == {x \in Range(<<m>>) : x.error = "max_output_tokens"}
<1>1. m \in Messages
  BY DEF Messages
<1>2. Append(e, m) = <<m>> /\ e \in Seq(Messages) /\ Len(e) = 0 /\ 1..Len(e) = {} /\ e = <<>>
  OBVIOUS
<1>3. IsAssistant(m)
  BY <1>1, MessageIs
<1>4. m \in S <=> m.error = "max_output_tokens"
  BY DEF Range
<1> HIDE DEF e, S
<1>5. Uses(e) = {}
  BY <1>2, CallsOf
<1>6. Uses(Append(e, m)) = m.uses
  BY <1>1, <1>2, <1>3, <1>5, CallsMore DEF Asks
<1>7. Rejected(e, S) = e
  BY <1>2, RejectedNone
<1>8. Rejected(Append(e, m), S) = IF m \in S THEN e ELSE Append(e, m)
  <2>1. e \in Seq(Messages)
    BY <1>2
  <2>2. Rejected(Append(e, m), S) = IF m \in S THEN Rejected(e, S) ELSE Append(Rejected(e, S), m)
    BY <1>1, <2>1, RejectedMore
  <2> QED BY <1>7, <2>2
<1> QED BY <1>2, <1>4, <1>6, <1>8 DEF S

\* The loop goes on with what there is of the response, or begins it again.
Receiving(l, w, s, b, st, ab, c) ==
  LET a == b.assistantMessages IN
  /\ l \in Limits /\ st \in BOOLEAN /\ ab \in Reasons
  /\ Underway(w, s, b, l.uses, l.requests, ab = "no") /\ Agrees(w, s, b)
  /\ Own(w, b, l.requests) /\ LeftSame(w, s, b, l.uses, l.requests)
  /\ a = <<>> \/ (a[1].rid = l.requests /\ Last(a).error = "none")
  /\ st /\ ab = "no" => b.given = Uses(a)
  /\ c => WellFormed(Normalize(s))

\* After a withdrawal, or without one, the response can go on.
LEMMA ReceivingIs ==
  ASSUME QueryInv, Streams
  PROVE  /\ Receiving(left, Withdrawn(view), sent, Attempt, streaming, aborted, clean)
         /\ Attempt.fellBack = req.fellBack
<1> DEFINE a == req.assistantMessages
           uses == left.uses
           requests == left.requests
           quiet == aborted = "no"
<1>1. /\ left \in Limits /\ streaming \in BOOLEAN /\ aborted \in Reasons
      /\ InTurn(left, "stream", view, sent, req, streaming, aborted)
      /\ clean => WellFormed(Normalize(sent))
  BY DEF QueryInv, Holds, Streams, Busy
<1>2. /\ Underway(view, sent, req, uses, requests, quiet) /\ Agrees(view, sent, req)
      /\ Own(view, req, requests) /\ LeftSame(view, sent, req, uses, requests)
      /\ ~req.fellBack /\ a # <<>> => a[1].rid = requests
      /\ streaming /\ aborted = "no" => req.given = Uses(a)
  BY <1>1 DEF InTurn
<1>3. req \in Requests /\ a \in Seq(Assistants) /\ req.fellBack \in BOOLEAN
  BY <1>2 DEF Underway, Response, Requests
<1>4. CASE req.fellBack
  <2> DEFINE p == [NewRequest EXCEPT !.fellBack = TRUE]
  <2>1. Attempt = p /\ Withdrawn(view) = Left(view, req)
    BY <1>4 DEF Attempt, Withdrawn, Left
  <2>2. NewRequest \in Requests
    BY NewRequestIs DEF NothingYet
  <2>3. NothingYet(p) /\ p.fellBack = TRUE
    BY <2>2, NewRequestIs DEF NothingYet, Requests
  <2> HIDE DEF p, uses, requests, quiet
  <2>4. /\ Underway(Left(view, req), sent, p, uses, requests, quiet) /\ Agrees(Left(view, req), sent, p)
        /\ Own(Left(view, req), p, requests) /\ LeftSame(Left(view, req), sent, p, uses, requests)
    BY <1>2, <2>3, Withdraws
  <2>5. p.given = Uses(p.assistantMessages) /\ p.assistantMessages = <<>>
    BY <2>3, NothingYetIs DEF NothingYet
  <2> QED BY <1>1, <1>4, <2>1, <2>3, <2>4, <2>5 DEF Receiving, uses, requests, quiet
<1>5. CASE ~req.fellBack
  <2>1. Attempt = req /\ Withdrawn(view) = view
    BY <1>5 DEF Attempt, Withdrawn
  <2>2. a = <<>> \/ Last(a).error = "none"
    <3> SUFFICES ASSUME a # <<>> PROVE Last(a).error = "none"
      OBVIOUS
    <3>1. Last(a) \in Assistants
      BY <1>3 DEF Last
    <3>2. Last(a).error \in {"none", "max_output_tokens", "api_error"}
      BY <3>1 DEF Assistants
    <3>3. Last(a).error # "max_output_tokens" /\ Last(a).error # "api_error"
      BY DEF Streams, Complete, EndsWith, LastMessage
    <3> QED BY <3>2, <3>3
  <2> QED BY <1>1, <1>2, <1>5, <2>1, <2>2 DEF Receiving
<1> QED BY <1>3, <1>4, <1>5

\* The message goes to the response and, unless withheld, to the caller; then results that are ready.
LEMMA ReceiveOne ==
  ASSUME NEW l, NEW w, NEW s, NEW b, NEW st, NEW ab, NEW c, Receiving(l, w, s, b, st, ab, c),
         NEW m \in Assistants, m.rid = l.requests, NEW k \in Limits, k.requests = l.requests,
         k.uses <= l.uses, \A x \in m.uses : x > k.uses /\ x <= l.uses,
         NEW r, r = [b EXCEPT !.assistantMessages = @ \o <<m>>,
                              !.given = IF st /\ ab = "no" THEN @ \cup Uses(<<m>>) ELSE @],
         NEW ids, ids \subseteq r.given \ r.out, ab # "no" => ids = {}, NEW v,
         v = w \o Rejected(<<m>>, {x \in Range(<<m>>) : x.error = "max_output_tokens"}) \o Ready(ids)
  PROVE  Holds(k, "stream", v, s, Deliver(r, ids), st, ab, c)
<1> DEFINE a == b.assistantMessages
           uses == l.uses
           requests == l.requests
           u == k.uses
           quiet == ab = "no"
           x == IF m.error = "max_output_tokens" THEN w ELSE Append(w, m)
           q == Deliver(r, ids)
<1>1. /\ l \in Limits /\ st \in BOOLEAN /\ ab \in Reasons
      /\ Underway(w, s, b, uses, requests, quiet) /\ Agrees(w, s, b)
      /\ Own(w, b, requests) /\ LeftSame(w, s, b, uses, requests)
      /\ a = <<>> \/ (a[1].rid = requests /\ Last(a).error = "none")
      /\ st /\ quiet => b.given = Uses(a)
      /\ c => WellFormed(Normalize(s))
  BY DEF Receiving
<1>2. uses \in Nat /\ requests \in Nat /\ u \in Nat
  BY <1>1 DEF Limits
<1>3. /\ b \in Requests /\ a \in Seq(Assistants) /\ b.given \in CallSets /\ w \in Seq(Messages)
      /\ b.given \subseteq Uses(a) /\ m \in Messages /\ m.uses \in CallSets /\ IsAssistant(m)
  <2>1. m \in Messages
    BY DEF Messages
  <2>2. m.uses \in CallSets /\ IsAssistant(m)
    BY <2>1, MessageIs
  <2> QED BY <1>1, <2>1, <2>2 DEF Underway, Response, Requests, Sound
<1>4. Append(a, m) \in Seq(Assistants) /\ a \o <<m>> = Append(a, m)
  BY <1>3, Appended, OneMore
<1> DEFINE g == IF st /\ ab = "no" THEN b.given \cup m.uses ELSE b.given
           z == Append(a, m)
<1>5. g \in CallSets
  BY <1>3, MoreCalls
<1>6. Uses(z) = Uses(a) \cup m.uses
  <2>1. a \in Seq(Messages)
    BY <1>3, AssistantsSaid
  <2> QED BY <1>3, <2>1, CallsMore DEF Asks
<1>7. r = [b EXCEPT !.assistantMessages = z, !.given = g]
  BY <1>4, OneSaid
<1>8. g \subseteq Uses(z) /\ (st /\ quiet => g = Uses(z))
  BY <1>1, <1>3, <1>6
<1> HIDE DEF z, g
<1>9. /\ r \in Requests /\ r.assistantMessages = z /\ r.given = g /\ r.toolResults = b.toolResults
      /\ r.out = b.out /\ r.fellBack = b.fellBack
  BY <1>3, <1>4, <1>5, <1>7 DEF Requests, z
<1>10. Adding(r, b, m)
  BY <1>8, <1>9 DEF Adding, z
<1> HIDE DEF uses, requests, u, quiet, x, q
<1>11. /\ Underway(x, s, r, u, requests, quiet) /\ Agrees(x, s, r)
       /\ Own(x, r, requests) /\ LeftSame(x, s, r, u, requests)
  <2>1. x = w \/ x = Append(w, m)
    BY DEF x
  <2>2. m.error = "max_output_tokens" <=> x = w
    <3>1. Append(w, m) # w
      BY <1>3
    <3> QED BY <3>1 DEF x
  <2>3. u <= uses /\ (\A y \in m.uses : y > u /\ y <= uses) /\ m.rid = requests
    BY DEF u, uses, requests
  <2>4. /\ Underway(w, s, b, uses, requests, quiet) /\ Agrees(w, s, b)
        /\ Own(w, b, requests) /\ LeftSame(w, s, b, uses, requests)
        /\ b.assistantMessages = <<>>
             \/ (b.assistantMessages[1].rid = requests /\ Last(b.assistantMessages).error = "none")
    BY <1>1
  <2>5. Underway(x, s, r, u, requests, quiet)
    BY ONLY <1>2, <1>10, <2>1, <2>2, <2>3, <2>4, Received, m \in Assistants
  <2>6. Agrees(x, s, r)
    BY ONLY <1>2, <1>10, <2>1, <2>2, <2>3, <2>4, Received, m \in Assistants
  <2>7. Own(x, r, requests)
    BY ONLY <1>2, <1>10, <2>1, <2>2, <2>3, <2>4, Received, m \in Assistants
  <2>8. LeftSame(x, s, r, u, requests)
    BY ONLY <1>2, <1>10, <2>1, <2>2, <2>3, <2>4, Received, m \in Assistants
  <2> QED BY <2>5, <2>6, <2>7, <2>8
<1>12. ids \in CallSets /\ ids \subseteq Uses(r.assistantMessages) /\ ids \cap r.out = {}
  <2>1. ids \subseteq g
    BY <1>9
  <2> QED BY <1>5, <1>8, <1>9, <2>1, FewerCalls
<1>13. v = x \o Ready(ids)
  <2>1. w \o <<>> = w /\ w \o <<m>> = Append(w, m)
    BY <1>3, NoMore, OneMore
  <2> QED BY <2>1, OneSaid DEF x
<1>14. Delivery(q, r, ids) /\ q.fellBack = r.fellBack
  BY <1>9, <1>12, DeliveryIs DEF q
<1>15. quiet \/ ids = {}
  BY DEF quiet
<1>16. Underway(v, s, q, u, requests, quiet) /\ Agrees(v, s, q)
  <2>1. Underway(x, s, r, u, requests, quiet) /\ Delivery(q, r, ids)
    BY <1>11, <1>14
  <2>2. Underway(x \o Ready(ids), s, q, u, requests, quiet)
    BY ONLY <1>12, <2>1, Delivered
  <2>3. Agrees(x \o Ready(ids), s, q)
    BY ONLY <1>11, <1>12, <1>15, <2>1, Delivered
  <2> QED BY <1>13, <2>2, <2>3
<1>17. Own(v, q, requests) /\ LeftSame(v, s, q, u, requests)
  <2>1. Own(x \o Ready(ids), q, requests)
    BY ONLY <1>11, <1>12, <1>14, DeliveredLeft
  <2>2. LeftSame(x \o Ready(ids), s, q, u, requests)
    BY ONLY <1>11, <1>12, <1>14, DeliveredLeft
  <2> QED BY <1>13, <2>1, <2>2
<1>18. st /\ ab = "no" => q.given = Uses(q.assistantMessages)
  BY <1>8, <1>9, <1>14 DEF Delivery, quiet
<1>19. q.assistantMessages[1].rid = requests
  <2>1. q.assistantMessages = Append(a, m)
    BY <1>9, <1>14 DEF Delivery, z
  <2>2. a # <<>> => Append(a, m)[1] = a[1]
    BY <1>3
  <2>3. a = <<>> => Append(a, m)[1] = m
    BY <1>3
  <2> QED BY <1>1, <2>1, <2>2, <2>3 DEF requests
<1>20. quiet <=> ab = "no"
  BY DEF quiet
<1>21. k.requests = requests /\ k.uses = u
  BY DEF requests, u
<1> QED BY <1>1, <1>16, <1>17, <1>18, <1>19, <1>20, <1>21, HoldsStream DEF q

\* So the receipt of a message whose calls are new keeps the invariant.
LEMMA ReceiveInv ==
  ASSUME QueryInv, Streams, NEW m \in Assistants, Receive(<<m>>), m.rid = left.requests,
         left' \in Limits, left'.requests = left.requests, left'.uses <= left.uses,
         \A x \in m.uses : x > left'.uses /\ x <= left.uses
  PROVE  QueryInv'
<1> DEFINE R == [Attempt EXCEPT !.assistantMessages = @ \o <<m>>,
                                !.given = IF streaming /\ aborted = "no" THEN @ \cup Uses(<<m>>) ELSE @]
           shown == Rejected(<<m>>, {x \in Range(<<m>>) : x.error = "max_output_tokens"})
<1>1. PICK ids \in SUBSET (R.given \ R.out) :
         /\ aborted # "no" => ids = {}
         /\ req' = Deliver(R, ids)
         /\ view' = Withdrawn(view) \o shown \o Ready(ids)
  BY DEF Receive
<1>2. ids \subseteq R.given \ R.out
  BY <1>1
<1>3. R = [Attempt EXCEPT !.assistantMessages = @ \o <<m>>,
                          !.given = IF streaming /\ aborted = "no" THEN @ \cup Uses(<<m>>) ELSE @]
  OBVIOUS
<1> HIDE DEF R
<1>4. Receiving(left, Withdrawn(view), sent, Attempt, streaming, aborted, clean)
  BY ReceivingIs
<1>5. Holds(left', "stream", view', sent, Deliver(R, ids), streaming, aborted, clean)
  BY <1>1, <1>2, <1>3, <1>4, ReceiveOne
<1>6. pc' = "stream" /\ sent' = sent /\ streaming' = streaming /\ aborted' = aborted /\ clean' = clean
  BY DEF Streams
<1> QED BY <1>1, <1>5, <1>6 DEF QueryInv

\* Text of the response.
LEMMA ReceiveTextInv == QueryInv /\ ReceiveText => QueryInv'
<1> SUFFICES ASSUME QueryInv, ReceiveText PROVE QueryInv'
  OBVIOUS
<1> DEFINE m == Assistant(left.requests, {}, "none")
<1>1. left \in Limits
  BY DEF QueryInv, Holds
<1>2. Spends(left', left, 0, 0)
  BY <1>1, Counted DEF ReceiveText
<1>3. /\ left' \in Limits /\ left'.uses = left.uses /\ left'.requests = left.requests
      /\ left.requests \in Nat /\ left.uses \in Nat
  BY <1>1, <1>2, SpendsIs
<1>4. m \in Assistants /\ m.rid = left.requests /\ m.uses = {}
  <2>1. {} \in CallSets /\ left.requests \in Int
    BY <1>3, FS_EmptySet DEF CallSets
  <2> QED BY <2>1, AssistantIs
<1>5. Streams /\ Receive(<<m>>)
  BY DEF ReceiveText
<1> HIDE DEF m
<1>6. left'.uses <= left.uses /\ \A x \in m.uses : x > left'.uses /\ x <= left.uses
  BY <1>3, <1>4
<1> QED BY <1>3, <1>4, <1>5, <1>6, ReceiveInv

\* Calls of the response.
LEMMA ReceiveUseInv == QueryInv /\ ReceiveUse => QueryInv'
<1> SUFFICES ASSUME QueryInv, ReceiveUse PROVE QueryInv'
  OBVIOUS
<1>1. PICK n \in 1..left.uses :
        /\ Receive(<<Assistant(left.requests, (left.uses - n + 1)..left.uses, "none")>>)
        /\ left' = [left EXCEPT !.uses = @ - n]
  BY DEF ReceiveUse
<1> DEFINE ids == (left.uses - n + 1)..left.uses
           m == Assistant(left.requests, ids, "none")
<1>2. left \in Limits /\ left.uses \in Nat /\ left.requests \in Nat
  BY DEF QueryInv, Holds, Limits
<1>3. n \in Nat /\ n <= left.uses
  BY <1>2
<1>4. Spends(left', left, n, 0)
  BY <1>1, <1>2, <1>3, CountedMore
<1>5. left' \in Limits /\ left'.uses = left.uses - n /\ left'.requests = left.requests
      /\ left'.uses <= left.uses
  <2>1. left' \in Limits /\ left'.uses = left.uses - n /\ left'.requests = left.requests - 0
    BY <1>4 DEF Spends
  <2> QED BY <1>2, <1>3, <2>1
<1>6. ids \in CallSets
  <2>1. left.uses - n + 1 \in Int /\ left.uses \in Int
    BY <1>2, <1>3
  <2>2. IsFiniteSet(ids)
    BY <2>1, FS_Interval
  <2>3. ids \subseteq Nat
    BY <1>2, <1>3
  <2> QED BY <2>2, <2>3 DEF CallSets
<1>7. \A x \in ids : x > left'.uses /\ x <= left.uses
  BY <1>2, <1>3, <1>5
<1>8. Streams /\ Receive(<<m>>)
  BY <1>1 DEF ReceiveUse
<1> HIDE DEF ids
<1>9. m \in Assistants /\ m.rid = left.requests /\ m.uses = ids
  <2>1. left.requests \in Int
    BY <1>2
  <2> QED BY <1>6, <2>1, AssistantIs
<1> HIDE DEF m
<1> QED BY <1>5, <1>7, <1>8, <1>9, ReceiveInv

\* An error, or a truncation that is withheld.
LEMMA ReceiveErrorInv == QueryInv /\ ReceiveError => QueryInv'
<1> SUFFICES ASSUME QueryInv, ReceiveError PROVE QueryInv'
  OBVIOUS
<1>1. PICK error \in {"max_output_tokens", "api_error"} :
        /\ error = "max_output_tokens" => left.truncations > 0
        /\ Receive(<<Assistant(left.requests, {}, error)>>)
        /\ left' = [left EXCEPT !.truncations = IF error = "api_error" THEN @ ELSE @ - 1]
  BY DEF ReceiveError
<1> DEFINE m == Assistant(left.requests, {}, error)
<1>2. left \in Limits
  BY DEF QueryInv, Holds
<1>3. Spends(left', left, 0, 0)
  <2>1. CASE error = "api_error"
    <3>1. left' = [left EXCEPT !.truncations = left.truncations]
      BY <1>1, <2>1
    <3> QED BY <1>2, <3>1 DEF Spends, Limits
  <2>2. CASE error = "max_output_tokens"
    <3>1. left' = [left EXCEPT !.truncations = @ - 1] /\ left.truncations > 0
      BY <1>1, <2>2
    <3> QED BY <1>2, <3>1, Counted
  <2> QED BY <2>1, <2>2
<1>4. /\ left' \in Limits /\ left'.uses = left.uses /\ left'.requests = left.requests
      /\ left.requests \in Nat /\ left.uses \in Nat
  BY <1>2, <1>3, SpendsIs
<1>5. m \in Assistants /\ m.rid = left.requests /\ m.uses = {}
  <2>1. {} \in CallSets /\ left.requests \in Int
    BY <1>4, FS_EmptySet DEF CallSets
  <2> QED BY <2>1, AssistantIs
<1>6. Streams /\ Receive(<<m>>)
  BY <1>1 DEF ReceiveError
<1> HIDE DEF m
<1>7. left'.uses <= left.uses /\ \A x \in m.uses : x > left'.uses /\ x <= left.uses
  BY <1>4, <1>5
<1> QED BY <1>4, <1>5, <1>6, <1>7, ReceiveInv

\* An event without a message: only results that are ready, perhaps.
LEMMA ReceiveEventInv == QueryInv /\ ReceiveEvent => QueryInv'
<1> SUFFICES ASSUME QueryInv, ReceiveEvent PROVE QueryInv'
  OBVIOUS
<1> DEFINE e == <<>>
           b == Attempt
           a == b.assistantMessages
           w == Withdrawn(view)
           S == {x \in Range(e) : x.error = "max_output_tokens"}
           R == [b EXCEPT !.assistantMessages = @ \o e,
                          !.given = IF streaming /\ aborted = "no" THEN @ \cup Uses(e) ELSE @]
           uses == left.uses
           requests == left.requests
           quiet == aborted = "no"
<1>1. PICK ids \in SUBSET (R.given \ R.out) :
         /\ aborted # "no" => ids = {}
         /\ req' = Deliver(R, ids)
         /\ view' = w \o Rejected(e, S) \o Ready(ids)
  BY DEF ReceiveEvent, Receive
<1>2. Receiving(left, w, sent, b, streaming, aborted, clean)
  BY ReceivingIs DEF ReceiveEvent
<1>3. e \in Seq(Messages) /\ Len(e) = 0 /\ 1..Len(e) = {} /\ e = <<>>
  OBVIOUS
<1> HIDE DEF e, S, b, w
<1>4. Rejected(e, S) = <<>> /\ Uses(e) = {}
  BY <1>3, RejectedNone, CallsOf
<1>5. /\ left \in Limits /\ streaming \in BOOLEAN /\ aborted \in Reasons
      /\ Underway(w, sent, b, uses, requests, quiet) /\ Agrees(w, sent, b)
      /\ Own(w, b, requests) /\ LeftSame(w, sent, b, uses, requests)
      /\ a = <<>> \/ a[1].rid = requests
      /\ streaming /\ quiet => b.given = Uses(a)
      /\ clean => WellFormed(Normalize(sent))
  BY <1>2 DEF Receiving
<1> HIDE DEF quiet
<1>6. /\ b \in Requests /\ a \in Seq(Assistants) /\ b.given \in CallSets /\ b.given \subseteq Uses(a)
      /\ w \in Seq(Messages)
  BY <1>5 DEF Underway, Response, Requests, Sound
<1>7. /\ R \in Requests /\ R.assistantMessages = a /\ R.given = b.given /\ R.out = b.out
      /\ R.toolResults = b.toolResults /\ R.fellBack = b.fellBack
  <2> DEFINE g == IF streaming /\ aborted = "no" THEN b.given \cup Uses(e) ELSE b.given
             z == a \o e
  <2>1. g = b.given /\ z = a
    BY <1>3, <1>4, <1>6, NoMore
  <2>2. R = [b EXCEPT !.assistantMessages = z, !.given = g]
    OBVIOUS
  <2> HIDE DEF g, z
  <2> QED BY <1>6, <2>1, <2>2 DEF Requests
<1> HIDE DEF R
<1> DEFINE q == Deliver(R, ids)
<1>8. ids \in CallSets /\ ids \subseteq Uses(a) /\ ids \cap b.out = {}
  <2>1. ids \subseteq b.given /\ ids \cap b.out = {}
    BY <1>1, <1>7
  <2> QED BY <1>6, <2>1, FewerCalls
<1>9. Delivery(q, b, ids) /\ q.fellBack = b.fellBack
  <2>1. Delivery(q, R, ids) /\ q.fellBack = R.fellBack
    BY <1>7, <1>8, DeliveryIs
  <2> HIDE DEF q
  <2> QED BY <1>7, <2>1 DEF Delivery
<1> HIDE DEF q
<1>10. view' = w \o Ready(ids)
  BY <1>1, <1>4, <1>6, NoMore
<1>11. quiet \/ ids = {}
  BY <1>1 DEF quiet
<1> HIDE DEF uses, requests
<1>12. Underway(w \o Ready(ids), sent, q, uses, requests, quiet)
  BY <1>5, <1>8, <1>9, Delivered
<1>13. Agrees(w \o Ready(ids), sent, q)
  BY <1>5, <1>8, <1>9, <1>11, Delivered
<1>14. Own(w \o Ready(ids), q, requests)
  BY <1>5, <1>8, <1>9, DeliveredLeft
<1>15. LeftSame(w \o Ready(ids), sent, q, uses, requests)
  BY <1>5, <1>8, <1>9, DeliveredLeft
<1>16. q.assistantMessages = a /\ q.given = b.given
  BY <1>9 DEF Delivery
<1>17. Holds(left, "stream", view', sent, q, streaming, aborted, clean)
  <2>1. quiet <=> aborted = "no"
    BY DEF quiet
  <2> HIDE DEF a
  <2> QED BY <1>5, <1>10, <1>12, <1>13, <1>14, <1>15, <1>16, <2>1, HoldsStream DEF uses, requests
<1>18. /\ pc' = "stream" /\ sent' = sent /\ streaming' = streaming /\ aborted' = aborted
       /\ clean' = clean /\ left' = left /\ req' = q
  BY <1>1 DEF ReceiveEvent, Streams, q
<1> QED BY <1>17, <1>18 DEF QueryInv

-----------------------------------------------------------------------------
(* Fallbacks, and the steps after the response that only go on               *)

\* The request is made again, under an id of its own.
Falls(p, r) == p = [r EXCEPT !.fellBack = TRUE]

\* The messages received so far are of the request that failed.
LEMMA FallenBack ==
  ASSUME NEW v, NEW s, NEW r, NEW uses \in Nat, NEW n \in Nat, NEW requests \in Nat,
         requests < n, NEW quiet, Underway(v, s, r, uses, n, quiet), Agrees(v, s, r),
         LeftSame(v, s, r, uses, n), NEW p, Falls(p, r)
  PROVE  /\ Underway(v, s, p, uses, requests, quiet) /\ Agrees(v, s, p) /\ Own(v, p, requests)
         /\ LeftSame(v, s, p, uses, requests) /\ p.given = r.given /\ p.fellBack = TRUE
         /\ p.assistantMessages = r.assistantMessages
<1> DEFINE a == r.assistantMessages
<1>1. n \in Nat /\ requests <= n /\ requests < n /\ uses <= uses
  OBVIOUS
<1>2. /\ Sound(v, uses, n) /\ Sound(s, uses, n) /\ Response(r, uses, n) /\ Behind(s, r, n)
      /\ Unanswered(v, r) /\ (quiet \/ ~Interrupted(v) => OpenFor(v, r))
  BY DEF Underway
<1>3. Sound(Left(v, r), uses, n) /\ Same(Left(v, r), s)
  BY DEF LeftSame
<1>4. Sound(v, uses, requests) /\ Sound(s, uses, requests) /\ Sound(Left(v, r), uses, requests)
  BY <1>1, <1>2, <1>3, SoundLess
<1>5. /\ r \in Requests /\ a \in Seq(Assistants) /\ s \in Seq(Messages) /\ v \in Seq(Messages)
      /\ \A i, j \in 1..Len(a) : a[i].rid = a[j].rid /\ a[i].rid >= n
  BY <1>2 DEF Response, Requests, Sound
<1>6. /\ p \in Requests /\ p.assistantMessages = a /\ p.given = r.given /\ p.out = r.out
      /\ p.toolResults = r.toolResults /\ p.fellBack = TRUE
  BY <1>5 DEF Requests, Falls
<1>7. Response(p, uses, requests)
  <2>1. \A i, j \in 1..Len(a) : a[i].rid = a[j].rid /\ a[i].rid >= requests
    <3> TAKE i, j \in 1..Len(a)
    <3>1. a[i] \in Assistants
      BY <1>5, InSequence
    <3>2. a[i].rid \in Int
      BY <3>1 DEF Assistants
    <3> QED BY <1>1, <1>5, <3>2
  <2>2. /\ Uses(a) \in CallSets /\ r.given \subseteq Uses(a) /\ r.out \subseteq Uses(a)
        /\ Answered(r.toolResults, r.out) /\ \A u \in Uses(a) : u > uses
    BY <1>2 DEF Response
  <2> HIDE DEF a
  <2> QED BY <1>6, <2>1, <2>2 DEF Response
<1>8. Behind(s, p, requests)
  <2>1. /\ \A x \in Rids(s) : x < 0 \/ (x > n /\ \A i \in 1..Len(a) : x > a[i].rid)
        /\ (\A u \in Uses(s) : u \notin Uses(a)) /\ \A q \in ResultsOf(s) : q.id \notin Uses(a)
    BY <1>2 DEF Behind
  <2>2. \A x \in Rids(s) : x \in Int
    <3> TAKE x \in Rids(s)
    <3>1. PICK i \in 1..Len(s) : IsAssistant(s[i]) /\ x = s[i].rid
      BY DEF Rids
    <3> QED BY <1>5, <3>1, InSequence, MessageIs
  <2>3. \A x \in Rids(s) : x < 0 \/ (x > requests /\ \A i \in 1..Len(a) : x > a[i].rid)
    BY <1>1, <2>1, <2>2
  <2> HIDE DEF a
  <2> QED BY <1>6, <2>1, <2>3 DEF Behind
<1>9. Unanswered(v, p) /\ (quiet \/ ~Interrupted(v) => OpenFor(v, p))
  BY <1>2, <1>6 DEF Unanswered, OpenFor
<1>10. Agrees(v, s, p)
  BY <1>6 DEF Agrees
<1>11. Own(v, p, requests)
  <2> SUFFICES ASSUME NEW i \in 1..Len(v), IsAssistant(v[i]), v[i].rid = requests PROVE FALSE
    BY DEF Own
  <2>1. requests \in Rids(v)
    BY DEF Rids
  <2>2. requests < 0 \/ requests >= n
    BY <1>2, <2>1 DEF Sound
  <2> QED BY <1>1, <2>2
<1>12. Left(v, p) = Left(v, r)
  BY <1>6 DEF Left
<1>13. LeftSame(v, s, p, uses, requests)
  BY <1>3, <1>4, <1>12 DEF LeftSame
<1>14. Underway(v, s, p, uses, requests, quiet)
  BY <1>4, <1>7, <1>8, <1>9 DEF Underway
<1> QED BY <1>6, <1>10, <1>11, <1>13, <1>14

\* The request is repeated without streaming.
LEMMA StreamingFallbackInv == QueryInv /\ StreamingFallback => QueryInv'
<1> SUFFICES ASSUME QueryInv, StreamingFallback PROVE QueryInv'
  OBVIOUS
<1> DEFINE uses == left.uses
           n == left.requests
           requests == left'.requests
           quiet == aborted = "no"
           p == [req EXCEPT !.fellBack = TRUE]
<1>1. /\ left \in Limits /\ streaming \in BOOLEAN /\ aborted \in Reasons
      /\ InTurn(left, "stream", view, sent, req, streaming, aborted)
      /\ clean => WellFormed(Normalize(sent))
  BY DEF QueryInv, Holds, StreamingFallback, Streams, Busy
<1>2. Spends(left', left, 0, 1)
  BY <1>1, Counted DEF StreamingFallback
<1>3. /\ left' \in Limits /\ left'.uses = uses /\ n = requests + 1
      /\ uses \in Nat /\ requests \in Nat /\ n \in Nat /\ requests < n
  <2>1. left' \in Limits /\ left'.uses = uses /\ n = requests + 1
        /\ uses \in Nat /\ requests \in Nat /\ n \in Nat
    BY <1>1, <1>2, SpendsIs
  <2> HIDE DEF uses, n, requests
  <2> QED BY <2>1
<1>4. /\ Underway(view, sent, req, uses, n, quiet) /\ Agrees(view, sent, req)
      /\ LeftSame(view, sent, req, uses, n)
      /\ streaming /\ aborted = "no" => req.given = Uses(req.assistantMessages)
  BY <1>1, <1>3 DEF InTurn
<1>5. Falls(p, req)
  BY DEF Falls
<1>6. quiet <=> aborted = "no"
  OBVIOUS
<1> HIDE DEF uses, n, requests, quiet, p
<1>7. /\ Underway(view, sent, p, uses, requests, quiet) /\ Agrees(view, sent, p) /\ Own(view, p, requests)
      /\ LeftSame(view, sent, p, uses, requests) /\ p.given = req.given /\ p.fellBack = TRUE
      /\ p.assistantMessages = req.assistantMessages
  <2>1. Underway(view, sent, p, uses, requests, quiet)
    BY ONLY <1>3, <1>4, <1>5, FallenBack
  <2>2. Agrees(view, sent, p)
    BY ONLY <1>3, <1>4, <1>5, FallenBack
  <2>3. Own(view, p, requests)
    BY ONLY <1>3, <1>4, <1>5, FallenBack
  <2>4. LeftSame(view, sent, p, uses, requests)
    BY ONLY <1>3, <1>4, <1>5, FallenBack
  <2>5. p.given = req.given /\ p.fellBack = TRUE /\ p.assistantMessages = req.assistantMessages
    <3>1. req \in Requests
      BY <1>4 DEF Underway, Response
    <3> QED BY <1>5, <3>1 DEF Falls, Requests
  <2> QED BY <2>1, <2>2, <2>3, <2>4, <2>5
<1>8. Holds(left', "stream", view, sent, p, streaming, aborted, clean)
  BY <1>1, <1>3, <1>4, <1>6, <1>7, HoldsStream DEF requests
<1>9. /\ pc' = "stream" /\ view' = view /\ sent' = sent /\ req' = p /\ streaming' = streaming
      /\ aborted' = aborted /\ clean' = clean
  BY DEF StreamingFallback, Streams, p
<1> QED BY <1>8, <1>9 DEF QueryInv

\* The request is repeated with another model.
LEMMA ModelFallbackInv == QueryInv /\ ModelFallback => QueryInv'
<1> SUFFICES ASSUME QueryInv, ModelFallback PROVE QueryInv'
  OBVIOUS
<1> DEFINE uses == left.uses
           requests == left.requests
           quiet == aborted = "no"
           a == req.assistantMessages
<1>1. /\ left \in Limits /\ streaming \in BOOLEAN /\ aborted \in Reasons
      /\ InTurn(left, "stream", view, sent, req, streaming, aborted)
      /\ clean => WellFormed(Normalize(sent))
  BY DEF QueryInv, Holds, ModelFallback, Streams, Busy
<1>2. Spends(left', left, 0, 0)
  BY <1>1, Counted DEF ModelFallback
<1>3. left' \in Limits /\ left'.uses = uses /\ left'.requests = requests
  BY <1>1, <1>2, SpendsIs
<1>4. /\ Underway(view, sent, req, uses, requests, quiet) /\ Own(view, req, requests)
      /\ LeftSame(view, sent, req, uses, requests)
  BY <1>1 DEF InTurn
<1>5. quiet <=> aborted = "no"
  OBVIOUS
<1>6. a = <<>> /\ view \in Seq(Messages) /\ Uses(a) \in CallSets
  BY <1>4 DEF ModelFallback, Underway, Sound, Response
<1>7. Uses(a) = {} /\ Range(a) = {}
  <2> DEFINE e == <<>>
  <2>1. e \in Seq(Messages) /\ 1..Len(e) = {} /\ Range(e) = {} /\ a = e
    BY <1>6 DEF Range
  <2> HIDE DEF e
  <2>2. Uses(e) = {}
    BY <2>1, CallsOf
  <2> QED BY <2>1, <2>2
<1> HIDE DEF uses, requests, quiet
<1>8. Left(view, req) = view
  BY <1>6, <1>7, RejectedNone DEF Left
<1>9. view' = view
  <2>1. MissingResults(a) = <<>>
    BY <1>6, <1>7, MissingIs
  <2> QED BY <1>6, <2>1, NoMore DEF ModelFallback
<1>10. /\ Underway(view, sent, NewRequest, uses, requests, quiet) /\ Agrees(view, sent, NewRequest)
       /\ Own(view, NewRequest, requests) /\ LeftSame(view, sent, NewRequest, uses, requests)
  BY <1>4, <1>8, NewRequestIs, Withdraws
<1>11. NewRequest.given = Uses(NewRequest.assistantMessages) /\ NewRequest.assistantMessages = <<>>
  BY NewRequestIs, NothingYetIs DEF NothingYet
<1>12. Holds(left', "stream", view, sent, NewRequest, streaming, aborted, clean)
  BY <1>1, <1>3, <1>5, <1>10, <1>11, HoldsStream
<1>13. /\ pc' = "stream" /\ sent' = sent /\ req' = NewRequest /\ streaming' = streaming
       /\ aborted' = aborted /\ clean' = clean
  BY DEF ModelFallback, Streams
<1> QED BY <1>9, <1>12, <1>13 DEF QueryInv

\* The response stays as it is, and the loop goes on to look at it.
LEMMA InTurnMore ==
  ASSUME NEW l, NEW p, NEW v, NEW s, NEW r, NEW st, NEW ab, InTurn(l, p, v, s, r, st, ab),
         NEW q \in {"received", "tools", "answered", "hooks"},
         p # "tools", q = "tools" => Uses(r.assistantMessages) # {},
         q \in {"answered", "hooks"} => Uses(r.assistantMessages) = {}
  PROVE  InTurn(l, q, v, s, r, st, ab)
  BY DEF InTurn

\* The stream ends, nobody aborted, or the stop hooks start.
LEMMA OnwardInv == QueryInv /\ (StreamEnd \/ NotAborted \/ RunStopHooks) => QueryInv'
<1> SUFFICES ASSUME QueryInv, StreamEnd \/ NotAborted \/ RunStopHooks PROVE QueryInv'
  OBVIOUS
<1>1. /\ left \in Limits /\ streaming \in BOOLEAN /\ aborted \in Reasons
      /\ clean => WellFormed(Normalize(sent))
      /\ pc \in {"stream", "received", "answered"} => InTurn(left, pc, view, sent, req, streaming, aborted)
  BY DEF QueryInv, Holds, StreamEnd, NotAborted, RunStopHooks, Busy
<1>2. pc' \in {"received", "tools", "answered", "hooks"} /\ pc' \in Busy
  BY DEF StreamEnd, NotAborted, RunStopHooks, Busy
<1>3. InTurn(left, pc', view, sent, req, streaming, aborted)
  <2>1. CASE StreamEnd
    BY <1>1, <1>2, <2>1, InTurnMore DEF StreamEnd
  <2>2. CASE NotAborted
    <3>1. pc = "received" /\ pc' = IF Uses(req.assistantMessages) # {} THEN "tools" ELSE "answered"
      BY <2>2 DEF NotAborted, NeedsFollowUp
    <3> QED BY <1>1, <1>2, <3>1, InTurnMore
  <2>3. CASE RunStopHooks
    <3>1. pc = "answered" /\ pc' = "hooks"
      BY <2>3 DEF RunStopHooks
    <3>2. Uses(req.assistantMessages) = {}
      BY <1>1, <3>1 DEF InTurn
    <3> QED BY <1>1, <1>2, <3>1, <3>2, InTurnMore
  <2> QED BY <2>1, <2>2, <2>3
<1>4. Holds(left, pc', view, sent, req, streaming, aborted, clean)
  BY <1>1, <1>2, <1>3, HoldsBusy
<1>5. /\ left' = left /\ view' = view /\ sent' = sent /\ req' = req /\ streaming' = streaming
      /\ aborted' = aborted /\ clean' = clean
  BY DEF StreamEnd, NotAborted, RunStopHooks
<1> QED BY <1>4, <1>5 DEF QueryInv

-----------------------------------------------------------------------------
(* The ends of a query                                                       *)

\* A query that returns leaves a sound conversation.
LEMMA ReturnInv ==
  ASSUME Return, left' \in Limits, Sound(view', left'.uses, left'.requests)
  PROVE  QueryInv'
<1>1. Holds(left', "idle", view', <<>>, NewRequest, TRUE, "no", TRUE)
  BY HoldsIdle
<1>2. /\ pc' = "idle" /\ sent' = <<>> /\ req' = NewRequest /\ streaming' = TRUE
      /\ aborted' = "no" /\ clean' = TRUE
  BY DEF Return
<1> QED BY <1>1, <1>2 DEF QueryInv

\* Text is said at the end, or nothing.
LEMMA SoundShown ==
  ASSUME NEW v, NEW uses, NEW requests, Sound(v, uses, requests)
  PROVE  Sound(v \o <<>>, uses, requests) /\ Sound(v \o <<Text>>, uses, requests)
<1>1. v \in Seq(Messages)
  BY DEF Sound
<1>2. v \o <<>> = v /\ v \o <<Text>> = Append(v, Text)
  BY <1>1, TextIs, NoMore, OneMore
<1>3. Sound(Append(v, Text), uses, requests)
  BY SoundText
<1> QED BY <1>2, <1>3

\* What stands for the results that are missing tells nothing.
LEMMA SoundMissing ==
  ASSUME NEW v, NEW s, NEW r, NEW uses, NEW requests, NEW quiet,
         Underway(v, s, r, uses, requests, quiet)
  PROVE  /\ MissingResults(r.assistantMessages) \in Seq(Users)
         /\ Sound(v \o MissingResults(r.assistantMessages), uses, requests)
<1> DEFINE a == r.assistantMessages
           t == MissingResults(a)
<1>1. Uses(a) \in CallSets /\ (\A u \in Uses(a) : u > uses) /\ Sound(v, uses, requests)
  BY DEF Underway, Response
<1>2. t \in Seq(Users) /\ \A p \in ResultsOf(t) : ~p.real /\ p.id \in Uses(a)
  BY <1>1, MissingIs
<1> HIDE DEF t
<1>3. (\A p \in ResultsOf(t) : p.id > uses)
      /\ \A p \in ResultsOf(t) : p.real /\ p.id \in Uses(v) => p \in Told(Normalize(v \o t))
  BY <1>1, <1>2
<1>4. Sound(v \o t, uses, requests)
  BY <1>1, <1>2, <1>3, SoundUsers
<1> QED BY <1>2, <1>4 DEF t

\* Joining is associative.
LEMMA JoinedThrice ==
  ASSUME NEW T, NEW s \in Seq(T), NEW t \in Seq(T), NEW u \in Seq(T)
  PROVE  s \o (t \o u) = (s \o t) \o u
  OBVIOUS

\* The query ends with text, or with nothing.
LEMMA ShownInv ==
  QueryInv /\ (Failed \/ HooksPass \/ HooksCancelled \/ AbortedTools \/ HookStopped) => QueryInv'
<1> SUFFICES ASSUME QueryInv, Failed \/ HooksPass \/ HooksCancelled \/ AbortedTools \/ HookStopped
             PROVE  QueryInv'
  OBVIOUS
<1>1. left \in Limits /\ Sound(view, left.uses, left.requests)
  BY DEF QueryInv, Holds
<1>2. /\ view' = view \o <<>> \/ view' = view \o <<Text>>
      /\ Return /\ left' = left
  BY DEF Failed, HooksPass, HooksCancelled, AbortedTools, HookStopped, End, Interruption
<1>3. Sound(view', left'.uses, left'.requests)
  BY <1>1, <1>2, SoundShown
<1> QED BY <1>1, <1>2, <1>3, ReturnInv

\* The withheld truncation is shown at last.
LEMMA ExhaustedInv == QueryInv /\ Exhausted => QueryInv'
<1> SUFFICES ASSUME QueryInv, Exhausted PROVE QueryInv'
  OBVIOUS
<1> DEFINE a == req.assistantMessages
           m == Last(a)
           uses == left.uses
           requests == left.requests
<1>1. left \in Limits /\ pc = "answered" /\ InTurn(left, "answered", view, sent, req, streaming, aborted)
  BY DEF QueryInv, Holds, Exhausted, Busy
<1>2. /\ Sound(view, uses, requests) /\ a \in Seq(Assistants) /\ Uses(a) = {} /\ view \in Seq(Messages)
      /\ \A i, j \in 1..Len(a) : a[i].rid = a[j].rid /\ a[i].rid >= requests
  BY <1>1 DEF InTurn, Underway, Response, Requests, Sound
<1>3. a # <<>> /\ Return /\ left' = left /\ view' = view \o <<m>>
  BY DEF Exhausted, EndsWith, LastMessage, End
<1>4. Len(a) \in 1..Len(a) /\ m = a[Len(a)] /\ m \in Assistants
  BY <1>2, <1>3 DEF Last
<1>5. m.rid >= requests
  BY <1>2, <1>4
<1>6. m \in Messages /\ IsAssistant(m)
  <2> HIDE DEF m
  <2>1. m \in Messages
    BY <1>4 DEF Messages
  <2> QED BY <1>4, <2>1, MessageIs
<1>7. m.uses = {}
  <2>1. a \in Seq(Messages)
    BY <1>2, AssistantsSaid
  <2>2. \A u : u \in m.uses => u \in Uses(a)
    BY <1>4, <1>6, <2>1, CallsOf DEF Asks
  <2> QED BY <1>2, <2>2
<1>8. uses \in Nat /\ requests \in Nat
  BY <1>1 DEF Limits
<1> HIDE DEF m, uses, requests
<1>9. Sound(Append(view, m), uses, requests)
  <2>1. uses <= uses /\ \A x \in m.uses : x > uses /\ x <= uses
    BY <1>7, <1>8
  <2> QED BY <1>2, <1>4, <1>5, <1>8, <2>1, SoundSaid
<1>10. view' = Append(view, m)
  BY <1>2, <1>3, <1>6, OneMore
<1> QED BY <1>1, <1>3, <1>9, <1>10, ReturnInv DEF uses, requests

\* An exception: placeholders for the calls that were received, and a message.
LEMMA ModelErrorInv == QueryInv /\ ModelError => QueryInv'
<1> SUFFICES ASSUME QueryInv, ModelError PROVE QueryInv'
  OBVIOUS
<1> DEFINE t == MissingResults(req.assistantMessages)
           m == Assistant(left.requests, {}, "api_error")
           uses == left.uses
           requests == left.requests
           quiet == aborted = "no"
<1>1. left \in Limits /\ InTurn(left, "stream", view, sent, req, streaming, aborted)
  BY DEF QueryInv, Holds, ModelError, Busy
<1>2. Underway(view, sent, req, uses, requests, quiet)
  BY <1>1 DEF InTurn
<1>3. uses \in Nat /\ requests \in Nat /\ view \in Seq(Messages)
  BY <1>1, <1>2 DEF Limits, Underway, Sound
<1>4. m \in Assistants /\ m.rid = requests /\ m.uses = {} /\ m \in Messages
  <2>1. {} \in CallSets /\ requests \in Int
    BY <1>3, FS_EmptySet DEF CallSets
  <2> QED BY <2>1, AssistantIs
<1>5. view' = view \o Append(t, m) /\ Return /\ left' = left
  BY DEF ModelError, End
<1> HIDE DEF uses, requests, quiet, m
<1>6. t \in Seq(Users) /\ Sound(view \o t, uses, requests)
  BY <1>2, SoundMissing
<1> HIDE DEF t
<1>7. view' = Append(view \o t, m)
  <2>1. t \in Seq(Messages)
    BY <1>6, UsersSaid
  <2> QED BY <1>3, <1>4, <1>5, <2>1, AppendedLast
<1>8. Sound(Append(view \o t, m), uses, requests)
  <2>1. uses <= uses /\ (\A x \in m.uses : x > uses /\ x <= uses) /\ m.rid >= requests
    BY <1>3, <1>4
  <2> QED BY <1>3, <1>4, <1>6, <2>1, SoundSaid
<1> QED BY <1>1, <1>5, <1>7, <1>8, ReturnInv DEF uses, requests

\* An abort while streaming: the results that are missing, and a message.
LEMMA AbortedStreamingInv == QueryInv /\ AbortedStreaming => QueryInv'
<1> SUFFICES ASSUME QueryInv, AbortedStreaming PROVE QueryInv'
  OBVIOUS
<1> DEFINE a == req.assistantMessages
           ids == req.given \ req.out
           t == IF streaming THEN Ready(ids) ELSE MissingResults(a)
           uses == left.uses
           requests == left.requests
           quiet == aborted = "no"
<1>1. left \in Limits /\ InTurn(left, "received", view, sent, req, streaming, aborted)
  BY DEF QueryInv, Holds, AbortedStreaming, Busy
<1>2. Underway(view, sent, req, uses, requests, quiet)
  BY <1>1 DEF InTurn
<1>3. /\ view \in Seq(Messages) /\ req \in Requests /\ Uses(a) \in CallSets
      /\ req.given \subseteq Uses(a)
  BY <1>2 DEF Underway, Sound, Response
<1>4. view' = view \o (t \o Interruption) /\ Return /\ left' = left
  <2>1. Ready(Remaining) = Ready(ids) \/ ~streaming
    BY DEF Remaining
  <2> QED BY <2>1 DEF AbortedStreaming, End
<1>5. ids \in CallSets /\ ids \subseteq Uses(a) /\ ids \cap req.out = {}
  BY <1>3, FewerCalls
<1> HIDE DEF uses, requests, quiet, ids
<1>6. Sound(view \o Ready(ids), uses, requests) /\ Ready(ids) \in Seq(Users)
  <2> DEFINE q == Deliver(req, ids)
  <2>1. Delivery(q, req, ids)
    BY <1>3, <1>5, DeliveryIs
  <2> HIDE DEF q
  <2>2. Underway(view \o Ready(ids), sent, q, uses, requests, quiet)
    BY <1>2, <1>5, <2>1, Delivered
  <2>3. Ready(ids) \in Seq(Users)
    BY <1>5, ReadyIs, AnsweredResults
  <2> QED BY <2>2, <2>3 DEF Underway
<1>7. Sound(view \o t, uses, requests) /\ t \in Seq(Messages)
  <2>1. MissingResults(a) \in Seq(Users) /\ Sound(view \o MissingResults(a), uses, requests)
    BY <1>2, SoundMissing
  <2> QED BY <1>6, <2>1, UsersSaid
<1> HIDE DEF t
<1>8. Interruption \in Seq(Messages) /\ (Interruption = <<>> \/ Interruption = <<Text>>)
  BY TextIs DEF Interruption
<1>9. view' = (view \o t) \o Interruption
  BY <1>3, <1>4, <1>7, <1>8, JoinedThrice
<1>10. Sound(view', uses, requests)
  <2> DEFINE v == view \o t
  <2> HIDE DEF v
  <2>1. Sound(v \o <<>>, uses, requests) /\ Sound(v \o <<Text>>, uses, requests)
    BY <1>7, SoundShown DEF v
  <2> QED BY <1>8, <1>9, <2>1 DEF v
<1> QED BY <1>1, <1>4, <1>10, ReturnInv DEF uses, requests

-----------------------------------------------------------------------------
(* The next request, and the results of the tools                            *)

\* The same request with a higher limit.
LEMMA EscalateInv == QueryInv /\ Escalate => QueryInv'
<1> SUFFICES ASSUME QueryInv, Escalate PROVE QueryInv'
  OBVIOUS
<1> DEFINE uses == left.uses
           requests == left.requests
<1>1. /\ left \in Limits /\ streaming \in BOOLEAN /\ aborted \in Reasons /\ pc = "answered"
      /\ clean => WellFormed(Normalize(sent))
      /\ InTurn(left, "answered", view, sent, req, streaming, aborted)
  BY DEF QueryInv, Holds, Escalate, Busy
<1>2. /\ Sound(view, uses, requests) /\ Sound(sent, uses, requests) /\ Agrees(view, sent, req)
      /\ Uses(req.assistantMessages) = {} /\ Response(req, uses, requests)
  BY <1>1 DEF InTurn, Underway
<1>3. Same(view, sent)
  <2>1. req.out = {}
    BY <1>2 DEF Response
  <2> QED BY <1>2, <2>1 DEF Agrees, Same
<1>4. Holds(left, "request", view, sent, req, streaming, aborted, clean)
  BY <1>1, <1>2, <1>3, HoldsRequest
<1>5. /\ pc' = "request" /\ left' = left /\ view' = view /\ sent' = sent /\ req' = req
      /\ streaming' = streaming /\ aborted' = aborted /\ clean' = clean
  BY DEF Escalate, Continue
<1> QED BY <1>4, <1>5 DEF QueryInv

\* The response is kept and the model asked to go on.
LEMMA AgainInv == QueryInv /\ (Recover \/ HooksBlock) => QueryInv'
<1> SUFFICES ASSUME QueryInv, Recover \/ HooksBlock PROVE QueryInv'
  OBVIOUS
<1> DEFINE uses == left.uses
           requests == left.requests
           quiet == aborted = "no"
           w == sent \o Append(req.assistantMessages, Text)
<1>1. /\ left \in Limits /\ streaming \in BOOLEAN /\ aborted \in Reasons
      /\ clean => WellFormed(Normalize(sent))
      /\ pc \in {"answered", "hooks"} /\ InTurn(left, pc, view, sent, req, streaming, aborted)
  BY DEF QueryInv, Holds, Recover, HooksBlock, Busy
<1>2. /\ Sound(view, uses, requests) /\ Sound(sent, uses, requests) /\ Agrees(view, sent, req)
      /\ Uses(req.assistantMessages) = {} /\ Response(req, uses, requests) /\ Behind(sent, req, requests)
  BY <1>1 DEF InTurn, Underway
<1>3. uses \in Nat /\ requests \in Nat
  BY <1>1 DEF Limits
<1>4. Again(w, sent, req)
  BY DEF Again
<1> HIDE DEF w
<1>5. /\ Sound(w, uses, requests) /\ Same(view, w)
      /\ WellFormed(Normalize(sent)) => WellFormed(Normalize(w))
  BY <1>2, <1>3, <1>4, SoundAgain
<1>6. /\ left' \in Limits /\ left'.uses = uses /\ left'.requests = requests
  <2>1. CASE Recover
    BY <1>1, <2>1 DEF Recover, Continue
  <2>2. CASE HooksBlock
    <3>1. Spends(left', left, 0, 0)
      BY <1>1, <2>2, Counted DEF HooksBlock
    <3> QED BY <1>1, <3>1, SpendsIs
  <2> QED BY <2>1, <2>2
<1>7. Sound(view', uses, requests) /\ Same(view', w)
  <2>1. view' = view \/ view' = Append(view, Text)
    BY DEF Recover, HooksBlock
  <2>2. /\ Sound(Append(view, Text), uses, requests) /\ Uses(Append(view, Text)) = Uses(view)
        /\ Told(Normalize(Append(view, Text))) = Told(Normalize(view))
    BY <1>2, SoundText
  <2> QED BY <1>2, <1>5, <2>1, <2>2 DEF Same
<1>8. Holds(left', "request", view', w, req, streaming, aborted, clean)
  BY <1>1, <1>5, <1>6, <1>7, HoldsRequest
<1>9. /\ pc' = "request" /\ sent' = w /\ req' = req
      /\ streaming' = streaming /\ aborted' = aborted /\ clean' = clean
  BY DEF Recover, HooksBlock, Continue, w
<1> QED BY <1>8, <1>9 DEF QueryInv

\* A result of a tool after the stream.
LEMMA ToolResultInv == QueryInv /\ ToolResult => QueryInv'
<1> SUFFICES ASSUME QueryInv, ToolResult PROVE QueryInv'
  OBVIOUS
<1> DEFINE a == req.assistantMessages
           uses == left.uses
           requests == left.requests
           quiet == aborted = "no"
<1>1. /\ left \in Limits /\ streaming \in BOOLEAN /\ aborted \in Reasons
      /\ clean => WellFormed(Normalize(sent))
      /\ InTurn(left, "tools", view, sent, req, streaming, aborted)
  BY DEF QueryInv, Holds, ToolResult, Busy
<1>2. PICK id \in Remaining, asks \in BOOLEAN :
        /\ req' = [Deliver(req, {id}) EXCEPT !.prevent = @ \/ asks]
        /\ view' = view \o Ready({id})
  BY DEF ToolResult
<1>3. /\ Underway(view, sent, req, uses, requests, quiet) /\ (quiet => Agrees(view, sent, req))
      /\ (streaming /\ aborted = "no" => req.given = Uses(a)) /\ Uses(a) # {}
  BY <1>1 DEF InTurn
<1>4. req \in Requests /\ Uses(a) \in CallSets /\ req.given \subseteq Uses(a)
  BY <1>3 DEF Underway, Response
<1> DEFINE ids == {id}
           p == Deliver(req, ids)
           q == [p EXCEPT !.prevent = @ \/ asks]
<1>5. ids \in CallSets /\ ids \subseteq Uses(a) /\ ids \cap req.out = {}
  <2>1. ids \subseteq Uses(a) /\ ids \cap req.out = {}
    BY <1>4 DEF Remaining
  <2> QED BY <1>4, <2>1, FewerCalls
<1>6. req' = q /\ view' = view \o Ready(ids)
  BY <1>2
<1> HIDE DEF ids, quiet
<1>7. Delivery(q, req, ids)
  <2>1. Delivery(p, req, ids)
    BY <1>4, <1>5, DeliveryIs
  <2> DEFINE b == p.prevent \/ asks
  <2>2. q = [p EXCEPT !.prevent = b] /\ b \in BOOLEAN
    BY <2>1 DEF Delivery, Requests
  <2> HIDE DEF p, b, q
  <2>3. p \in Requests
    BY <2>1 DEF Delivery
  <2>4. /\ q \in Requests /\ q.assistantMessages = p.assistantMessages /\ q.given = p.given
        /\ q.toolResults = p.toolResults /\ q.out = p.out
    BY <2>2, <2>3 DEF Requests
  <2> QED BY <2>1, <2>4 DEF Delivery
<1> HIDE DEF q, uses, requests
<1>8. Underway(view \o Ready(ids), sent, q, uses, requests, quiet)
  BY <1>3, <1>5, <1>7, Delivered
<1>9. quiet => Agrees(view \o Ready(ids), sent, q)
  <2> SUFFICES ASSUME quiet PROVE Agrees(view \o Ready(ids), sent, q)
    OBVIOUS
  <2>1. Agrees(view, sent, req) /\ (quiet \/ ids = {})
    BY <1>3
  <2> QED BY <1>3, <1>5, <1>7, <2>1, Delivered
<1>10. q.assistantMessages = a /\ q.given = req.given
  BY <1>7 DEF Delivery
<1>11. InTurn(left, "tools", view', sent, q, streaming, aborted)
  BY <1>3, <1>6, <1>8, <1>9, <1>10 DEF InTurn, quiet, uses, requests
<1>12. Holds(left, "tools", view', sent, q, streaming, aborted, clean)
  BY <1>1, <1>11, HoldsBusy DEF Busy
<1>13. /\ pc' = "tools" /\ left' = left /\ sent' = sent /\ streaming' = streaming
       /\ aborted' = aborted /\ clean' = clean
  BY DEF ToolResult
<1> QED BY <1>6, <1>12, <1>13 DEF QueryInv

\* The beginnings of a sequence of one element.
LEMMA CutOne ==
  ASSUME NEW T, NEW m \in T
  PROVE  SubSeq(<<m>>, 1, 0) = <<>> /\ SubSeq(<<m>>, 1, 1) = <<m>>
<1> DEFINE s == <<m>>
<1>1. s \in Seq(T) /\ Len(s) = 1
  OBVIOUS
<1> HIDE DEF s
<1>2. 0 \in 0..Len(s) /\ 1 \in 0..Len(s)
  BY <1>1
<1>3. SubSeq(s, 1, 0) \in Seq(T) /\ Len(SubSeq(s, 1, 0)) = 0
  BY <1>1, <1>2, Cut
<1>4. /\ SubSeq(s, 1, 1) \in Seq(T) /\ Len(SubSeq(s, 1, 1)) = 1
      /\ \A i \in 1..1 : SubSeq(s, 1, 1)[i] = s[i]
  BY <1>1, <1>2, Cut
<1>5. SubSeq(s, 1, 0) = <<>>
  BY <1>3, Nothing
<1>6. SubSeq(s, 1, 1) = s
  BY <1>1, <1>4, Alike
<1> QED BY <1>5, <1>6 DEF s

\* All calls are answered: attachments, and the next request unless the turns are used up.
LEMMA NextTurnInv == QueryInv /\ NextTurn => QueryInv'
<1> SUFFICES ASSUME QueryInv, NextTurn PROVE QueryInv'
  OBVIOUS
<1> DEFINE a == req.assistantMessages
           uses == left.uses
           requests == left.requests
           quiet == aborted = "no"
           w == sent \o req.assistantMessages \o req.toolResults
<1>1. PICK n \in {0, 1} :
        /\ n <= left.attachments
        /\ left' = [left EXCEPT !.attachments = @ - n]
        /\ view' = view \o SubSeq(<<Text>>, 1, n)
        /\ IF loop.turnCount + 1 > MaxTurns
           THEN Return
           ELSE /\ sent' = w \o SubSeq(<<Text>>, 1, n)
                /\ pc' = "request"
                /\ UNCHANGED <<req, streaming, model, aborted, clean>>
  BY DEF NextTurn
<1> DEFINE attached == SubSeq(<<Text>>, 1, n)
<1>2. attached = <<>> \/ attached = <<Text>>
  <2> DEFINE m == Text
  <2>1. m \in Messages
    BY TextIs
  <2> HIDE DEF m
  <2>2. SubSeq(<<m>>, 1, 0) = <<>> /\ SubSeq(<<m>>, 1, 1) = <<m>>
    BY <2>1, CutOne
  <2>3. n = 0 \/ n = 1
    OBVIOUS
  <2> QED BY <2>2, <2>3 DEF m
<1> HIDE DEF attached
<1>3. /\ left \in Limits /\ streaming \in BOOLEAN /\ aborted \in Reasons /\ aborted = "no"
      /\ clean => WellFormed(Normalize(sent))
      /\ InTurn(left, "tools", view, sent, req, streaming, aborted)
  BY DEF QueryInv, Holds, NextTurn, Busy
<1>4. /\ left' \in Limits /\ left'.uses = uses /\ left'.requests = requests
      /\ uses \in Nat /\ requests \in Nat
  <2>1. Spends(left', left, 0, 0)
    BY <1>1, <1>3, CountedMore
  <2> QED BY <1>3, <2>1, SpendsIs
<1>5. /\ Sound(view, uses, requests) /\ Sound(sent, uses, requests) /\ Agrees(view, sent, req)
      /\ Response(req, uses, requests) /\ Behind(sent, req, requests)
      /\ (streaming => req.given = Uses(a)) /\ Uses(a) # {} /\ req.out \subseteq Uses(a)
      /\ view \in Seq(Messages)
  BY <1>3 DEF InTurn, Underway, Response, Sound
<1>6. req.out = Uses(a)
  <2>1. Remaining = {}
    BY DEF NextTurn
  <2> QED BY <1>5, <2>1 DEF Remaining
<1>7. Turned(w, sent, req)
  BY DEF Turned
<1>8. view' = view \o attached
  BY <1>1 DEF attached
<1> HIDE DEF w
<1>9. /\ Sound(w, uses, requests) /\ Same(view, w)
      /\ WellFormed(Normalize(sent)) => WellFormed(Normalize(w))
  BY <1>4, <1>5, <1>6, <1>7, SoundTurn
<1>10. /\ Sound(view \o attached, uses, requests) /\ Sound(w \o attached, uses, requests)
       /\ Same(view \o attached, w \o attached)
       /\ WellFormed(Normalize(w)) => WellFormed(Normalize(w \o attached))
  <2>1. w \in Seq(Messages)
    BY <1>9 DEF Sound
  <2>2. CASE attached = <<>>
    <3>1. view \o attached = view /\ w \o attached = w
      BY <1>5, <2>1, <2>2, NoMore
    <3> QED BY <1>5, <1>9, <3>1
  <2>3. CASE attached = <<Text>>
    <3>1. view \o attached = Append(view, Text) /\ w \o attached = Append(w, Text)
      BY <1>5, <2>1, <2>3, TextIs, OneMore
    <3>2. /\ Sound(Append(view, Text), uses, requests) /\ Uses(Append(view, Text)) = Uses(view)
          /\ Told(Normalize(Append(view, Text))) = Told(Normalize(view))
      BY <1>5, SoundText
    <3>3. /\ Sound(Append(w, Text), uses, requests) /\ Uses(Append(w, Text)) = Uses(w)
          /\ Told(Normalize(Append(w, Text))) = Told(Normalize(w))
          /\ WellFormed(Normalize(w)) => WellFormed(Normalize(Append(w, Text)))
      BY <1>9, SoundText
    <3>4. Same(Append(view, Text), Append(w, Text))
      BY <1>9, <3>2, <3>3 DEF Same
    <3> QED BY <3>1, <3>2, <3>3, <3>4
  <2> QED BY <1>2, <2>2, <2>3
<1>11. CASE loop.turnCount + 1 > MaxTurns
  <2>1. Return
    BY <1>1, <1>11
  <2> QED BY <1>4, <1>8, <1>10, <2>1, ReturnInv
<1>12. CASE ~(loop.turnCount + 1 > MaxTurns)
  <2> DEFINE v == view \o attached
             s == w \o attached
  <2>1. clean => WellFormed(Normalize(s))
    BY <1>3, <1>9, <1>10
  <2>2. /\ pc' = "request" /\ view' = v /\ sent' = s /\ req' = req
        /\ streaming' = streaming /\ aborted' = aborted /\ clean' = clean
    BY <1>1, <1>8, <1>12 DEF attached
  <2>3. Sound(v, left'.uses, left'.requests) /\ Sound(s, left'.uses, left'.requests) /\ Same(v, s)
    BY <1>4, <1>10
  <2> HIDE DEF v, s
  <2>4. Holds(left', "request", v, s, req, streaming, aborted, clean)
    BY <1>3, <1>4, <2>1, <2>3, HoldsRequest
  <2> QED BY <2>2, <2>4 DEF QueryInv
<1> QED BY <1>11, <1>12

\* Every step keeps the inductive invariant: conversation, request and the
\* caller's copy stay consistent through streams, fallbacks, aborts and retries.
THEOREM QueryInvHolds == Spec => []QueryInv
<1>1. QueryInv /\ [Next]_vars => QueryInv'
  <2> SUFFICES ASSUME QueryInv, [Next]_vars PROVE QueryInv'
    OBVIOUS
  <2>1. CASE Submit
    BY <2>1, SubmitInv
  <2>2. CASE Abort \/ AbortText
    BY <2>2, AbortInv, AbortTextInv
  <2>3. CASE Respond
    BY <2>3, ReceiveTextInv, ReceiveUseInv, ReceiveErrorInv, ReceiveEventInv, StreamingFallbackInv,
       ModelFallbackInv, ModelErrorInv DEF Respond
  <2>4. CASE Step
    <3>1. CASE StartRequest
      BY <3>1, StartRequestInv
    <3>2. CASE StreamEnd \/ NotAborted \/ RunStopHooks
      BY <3>2, OnwardInv
    <3>3. CASE Failed \/ HooksPass \/ HooksCancelled \/ AbortedTools \/ HookStopped
      BY <3>3, ShownInv
    <3>4. CASE AbortedStreaming \/ Exhausted
      BY <3>4, AbortedStreamingInv, ExhaustedInv
    <3>5. CASE Escalate \/ Recover \/ HooksBlock
      BY <3>5, EscalateInv, AgainInv
    <3>6. CASE ToolResult \/ NextTurn
      BY <3>6, ToolResultInv, NextTurnInv
    <3> QED BY <2>4, <3>1, <3>2, <3>3, <3>4, <3>5, <3>6 DEF Step
  <2>5. CASE UNCHANGED vars
    BY <2>5 DEF vars, QueryInv
  <2> QED BY <2>1, <2>2, <2>3, <2>4, <2>5 DEF Next, Finished
<1> QED BY <1>1, QueryInvInit, PTL DEF Spec

-----------------------------------------------------------------------------
(* The properties                                                            *)

\* What the invariant says of a request that was just sent.
LEMMA RequestedIs ==
  ASSUME QueryInv, Requested
  PROVE  /\ Sound(view, left.uses, left.requests) /\ Sound(sent, left.uses, left.requests)
         /\ Same(view, sent)
         /\ clean => WellFormed(Normalize(sent))
<1>1. /\ InTurn(left, "stream", view, sent, req, streaming, aborted) /\ req = NewRequest
      /\ clean => WellFormed(Normalize(sent))
  BY DEF QueryInv, Holds, Requested, Busy
<1>2. /\ Sound(view, left.uses, left.requests) /\ Sound(sent, left.uses, left.requests)
      /\ Agrees(view, sent, NewRequest)
  BY <1>1 DEF InTurn, Underway
<1>3. Uses(NewRequest.assistantMessages) = {} /\ NewRequest.out = {}
  BY NewRequestIs, NothingYetIs DEF NothingYet
<1>4. Same(view, sent)
  BY <1>2, <1>3 DEF Agrees, Same
<1> QED BY <1>1, <1>2, <1>4

\* What the repair makes of a conversation.
LEMMA RepairedIs ==
  ASSUME NEW ms \in Seq(Messages), Unique(Normalize(ms))
  PROVE  /\ WellFormed(Pair(Normalize(ms))) /\ Uses(Pair(Normalize(ms))) = Uses(ms)
         /\ ResultsOf(Pair(Normalize(ms))) = Answers(Normalize(ms))
  BY NormalizeNormal, PairNormal

\* The model is always sent a conversation that the API accepts, in which no call
\* whose result is there is answered by a placeholder, unless Escape kept a part
\* of an answer.
THEOREM RequestIsPaired == Spec => []RequestPaired
<1>1. QueryInv => RequestPaired
  <2> SUFFICES ASSUME QueryInv, Requested
               PROVE  /\ WellFormed(Request)
                      /\ \A r \in ResultsOf(sent) :
                           r.real /\ r.id \in Uses(Request) =>
                             r \in ResultsOf(Request) \/ \E m \in Range(sent) : Partial(m)
    BY DEF RequestPaired
  <2>1. sent \in Seq(Messages) /\ Unique(Normalize(sent)) /\ AllTold(sent)
    BY RequestedIs DEF Sound
  <2>2. /\ WellFormed(Request) /\ Uses(Request) = Uses(sent)
        /\ ResultsOf(Request) = Answers(Normalize(sent))
    BY <2>1, RepairedIs DEF Request
  <2>3. ASSUME NEW r \in ResultsOf(sent), r.real, r.id \in Uses(Request)
        PROVE  r \in ResultsOf(Request) \/ \E m \in Range(sent) : Partial(m)
    <3>1. CASE Interrupted(sent)
      <4>1. PICK i \in 1..Len(sent) : Partial(sent[i])
        BY <3>1 DEF Interrupted
      <4>2. sent[i] \in Range(sent)
        BY <2>1, InRange
      <4> QED BY <4>1, <4>2
    <3>2. CASE ~Interrupted(sent)
      <4>1. r \in Told(Normalize(sent))
        BY <2>1, <2>2, <2>3, <3>2 DEF AllTold
      <4> QED BY <2>2, <4>1 DEF Answers
    <3> QED BY <3>1, <3>2
  <2> QED BY <2>2, <2>3
<1> QED BY <1>1, QueryInvHolds, PTL

\* A query that began with a conversation that needs no repair sends none that does.
THEOREM NothingNeedsRepair == Spec => []NothingToRepair
<1>1. QueryInv => NothingToRepair
  BY RequestedIs DEF NothingToRepair
<1> QED BY <1>1, QueryInvHolds, PTL

\* The caller keeps the calls and the results that the model is told of.
THEOREM ViewAlwaysAgrees == Spec => []ViewAgrees
<1>1. QueryInv => ViewAgrees
  <2> SUFFICES ASSUME QueryInv, Requested PROVE Calls(Pair(Normalize(view))) = Calls(Request)
    BY DEF ViewAgrees
  <2>1. /\ view \in Seq(Messages) /\ Unique(Normalize(view))
        /\ sent \in Seq(Messages) /\ Unique(Normalize(sent))
    BY RequestedIs DEF Sound
  <2>2. Uses(view) = Uses(sent) /\ Told(Normalize(view)) = Told(Normalize(sent))
    BY RequestedIs DEF Same
  <2>3. Uses(Normalize(view)) = Uses(view) /\ Uses(Normalize(sent)) = Uses(sent)
    BY <2>1, NormalizeNormal
  <2>4. Answers(Normalize(view)) = Answers(Normalize(sent))
    BY <2>2, <2>3 DEF Answers
  <2>5. /\ Uses(Pair(Normalize(view))) = Uses(view)
        /\ ResultsOf(Pair(Normalize(view))) = Answers(Normalize(view))
    BY <2>1, RepairedIs
  <2>6. Uses(Request) = Uses(sent) /\ ResultsOf(Request) = Answers(Normalize(sent))
    BY <2>1, RepairedIs DEF Request
  <2> QED BY <2>2, <2>4, <2>5, <2>6 DEF Calls
<1> QED BY <1>1, QueryInvHolds, PTL
=============================================================================
