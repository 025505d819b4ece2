------------------------ MODULE PermissionRaceProofs ------------------------
(***************************************************************************)
(* Whoever decides a request is alone, and its dialog goes: for any        *)
(* requests, racers and number of Escapes.                                 *)
(*                                                                         *)
(* An answer drops the head of the queue, whatever it is, and that is the  *)
(* dialog on the screen or one of another request: an answered request has *)
(* no dialog any more because its own can only be the head (QueueInv).     *)
(***************************************************************************)
EXTENDS PermissionRace, SelectionProofs, TLAPS

Stages == {"new", "checking", "automated", "asked"}
Changes == [by : {"user", "bridge", "hook"}, for : Requests]

\* A request is claimed when it is decided, and only one that was put to the user
\* has a prompt elsewhere.
ClaimInv ==
  /\ stage \in [Requests -> Stages]
  /\ claimedBy \in [Requests -> Claimants]
  /\ decision \in [Requests -> {"none", "allow", "deny"}]
  /\ remote \in [Requests -> {"off", "open", "closed"}]
  /\ rules \subseteq Changes
  /\ \A r \in Requests : /\ remote[r] = "open" => stage[r] = "asked"
                         /\ Unclaimed(r) = (decision[r] = "none")

AloneInv == ClaimInv /\ RemoteDismissed /\ RulesOfWinner

\* What the invariant speaks of.
claimVars == <<stage, claimedBy, decision, remote, rules>>

LEMMA AloneInit == Init => AloneInv
  BY DEF Init, AloneInv, ClaimInv, RemoteDismissed, RulesOfWinner, Unclaimed, Claimants,
         Stages, Changes

LEMMA AloneStutter == AloneInv /\ UNCHANGED claimVars => AloneInv'
  BY DEF AloneInv, ClaimInv, RemoteDismissed, RulesOfWinner, Unclaimed, claimVars

-----------------------------------------------------------------------------

\* A change of the rules is one of the request's, by one of them.
LEMMA PersistedRules ==
  ASSUME NEW r \in Requests, NEW who \in {"user", "bridge", "hook"}, rules \subseteq Changes,
         PersistPermissions(r, who)
  PROVE  /\ rules' \subseteq Changes
         /\ \A x \in rules' : x \in rules \/ (x.by = who /\ x.for = r)
  BY DEF PersistPermissions, NoRules, NewRules, Changes

\* Hooks change rules in their own name.
LEMMA HookedRules ==
  ASSUME NEW r \in Requests, NEW answer, rules \subseteq Changes, HookRules(r, answer)
  PROVE  /\ rules' \subseteq Changes
         /\ \A x \in rules' : x \in rules \/ x.by = "hook"
<1>1. CASE answer = "allow"
  BY <1>1, PersistedRules DEF HookRules
<1>2. CASE answer # "allow"
  BY <1>2 DEF HookRules, NoRules
<1> QED BY <1>1, <1>2

\* The first claim of a request r: its remote prompt does not stay open, and of
\* the rules only those of its winner, or of hooks, are new.
LEMMA FirstClaim ==
  ASSUME AloneInv, NEW r \in Requests, Unclaimed(r),
         NEW who \in Claimants \ {"nobody"}, NEW answer \in {"allow", "deny"},
         Decide(r, who, answer),
         stage' \in [Requests -> Stages],
         \A q \in Requests : stage[q] = "asked" => stage'[q] = "asked",
         remote' \in [Requests -> {"off", "open", "closed"}], remote'[r] # "open",
         \A q \in Requests \ {r} : remote'[q] = remote[q],
         rules' \subseteq Changes,
         \A x \in rules' : \/ x \in rules \/ x.by = "hook"
                           \/ x.by = who /\ x.for = r /\ answer = "allow"
  PROVE  AloneInv'
<1> USE DEF AloneInv, ClaimInv, Unclaimed
<1>1. /\ claimedBy' \in [Requests -> Claimants]
      /\ decision' \in [Requests -> {"none", "allow", "deny"}]
      /\ claimedBy'[r] = who /\ decision'[r] = answer
      /\ \A q \in Requests \ {r} : claimedBy'[q] = claimedBy[q] /\ decision'[q] = decision[q]
  BY DEF Decide
<1>2. ClaimInv'
  BY <1>1
<1>3. RemoteDismissed'
  BY <1>1 DEF RemoteDismissed
<1>4. ASSUME NEW x \in rules', x.by # "hook"
      PROVE  claimedBy'[x.for] = x.by /\ decision'[x.for] = "allow"
  <2>1. x.for \in Requests /\ x.by # "nobody"
    BY <1>4 DEF Changes
  <2>2. CASE x \in rules
    <3>1. claimedBy[x.for] = x.by /\ decision[x.for] = "allow"
      BY <2>2, <1>4 DEF RulesOfWinner
    <3>2. x.for # r
      BY <3>1, <2>1
    <3> QED BY <3>1, <3>2, <2>1, <1>1
  <2>3. CASE x.by = who /\ x.for = r /\ answer = "allow"
    BY <2>3, <1>1
  <2> QED BY <1>4, <2>2, <2>3
<1>5. RulesOfWinner'
  BY <1>4 DEF RulesOfWinner
<1> QED BY <1>2, <1>3, <1>5

\* Nobody claims; a remote prompt may open for a request that is unclaimed, and
\* hooks may change rules.
LEMMA NoClaim ==
  ASSUME AloneInv, UNCHANGED <<claimedBy, decision>>,
         stage' \in [Requests -> Stages],
         remote' \in [Requests -> {"off", "open", "closed"}],
         \A q \in Requests : remote'[q] = "open" =>
           stage'[q] = "asked" /\ (remote[q] = "open" \/ Unclaimed(q)),
         rules' \subseteq Changes,
         \A x \in rules' : x \in rules \/ x.by = "hook"
  PROVE  AloneInv'
  BY DEF AloneInv, ClaimInv, Unclaimed, RemoteDismissed, RulesOfWinner

\* The remote prompt of a request that is claimed is closed.
LEMMA ClosedRemote ==
  ASSUME NEW r \in Requests, remote \in [Requests -> {"off", "open", "closed"}], CloseRemote(r)
  PROVE  /\ remote' \in [Requests -> {"off", "open", "closed"}] /\ remote'[r] # "open"
         /\ \A q \in Requests \ {r} : remote'[q] = remote[q]
  BY DEF CloseRemote

-----------------------------------------------------------------------------
(* Asking                                                                    *)

LEMMA RequestAlone == ASSUME AloneInv, NEW r \in Requests, Request(r) PROVE AloneInv'
<1>1. /\ stage[r] = "new" /\ Unclaimed(r) /\ remote[r] # "open"
      /\ stage' \in [Requests -> Stages]
      /\ \A q \in Requests : stage[q] = "asked" => stage'[q] = "asked"
      /\ remote' = remote /\ remote \in [Requests -> {"off", "open", "closed"}]
      /\ rules' = rules /\ rules \subseteq Changes
      /\ \A q \in Requests : remote[q] = "open" => stage[q] = "asked"
  BY DEF Request, Stages, AloneInv, ClaimInv
<1>2. CASE ~aborted
  <2>1. UNCHANGED <<claimedBy, decision>>
    BY <1>2 DEF Request
  <2> QED BY <1>1, <2>1, NoClaim
<1>3. CASE aborted
  <2>1. Decide(r, "config", "deny")
    BY <1>3 DEF Request, Resolve
  <2> QED BY <1>1, <2>1, FirstClaim DEF Claimants
<1> QED BY <1>2, <1>3

\* The rules, or hooks, decide a request that was not yet put to the user.
LEMMA ResolveAlone ==
  ASSUME AloneInv, NEW r \in Requests, stage[r] \in {"checking", "automated"}, Unclaimed(r),
         NEW answer \in {"allow", "deny"}, Resolve(r, answer),
         UNCHANGED <<stage, remote>>, rules' \subseteq Changes,
         \A x \in rules' : x \in rules \/ x.by = "hook"
  PROVE  AloneInv'
<1>1. /\ stage \in [Requests -> Stages] /\ remote \in [Requests -> {"off", "open", "closed"}]
      /\ remote[r] # "open"
  BY DEF AloneInv, ClaimInv
<1> QED BY <1>1, FirstClaim DEF Resolve, Claimants

\* A request is put to the user.
LEMMA AskAlone ==
  ASSUME AloneInv, NEW r \in Requests, Unclaimed(r), Ask(r), rules' = rules
  PROVE  AloneInv'
<1>1. /\ stage \in [Requests -> Stages] /\ remote \in [Requests -> {"off", "open", "closed"}]
      /\ rules \subseteq Changes
      /\ \A q \in Requests : remote[q] = "open" => stage[q] = "asked"
  BY DEF AloneInv, ClaimInv
<1>2. /\ stage' \in [Requests -> Stages]
      /\ remote' \in [Requests -> {"off", "open", "closed"}]
      /\ \A q \in Requests : remote'[q] = "open" =>
           stage'[q] = "asked" /\ (remote[q] = "open" \/ Unclaimed(q))
      /\ UNCHANGED <<claimedBy, decision>>
  BY <1>1 DEF Ask, Stages
<1> QED BY <1>1, <1>2, NoClaim

LEMMA CheckedAlone == ASSUME AloneInv, NEW r \in Requests, Checked(r) PROVE AloneInv'
<1> USE DEF Checked
<1>1. rules \subseteq Changes /\ stage \in [Requests -> Stages]
  BY DEF AloneInv, ClaimInv
<1>2. CASE \E answer \in {"allow", "deny"} : Resolve(r, IF aborted THEN "deny" ELSE answer)
           /\ UNCHANGED <<stage, remote>>
  BY <1>1, <1>2, ResolveAlone
<1>3. CASE Ask(r)
  BY <1>3, AskAlone
<1>4. CASE background /\ stage' = [stage EXCEPT ![r] = "automated"]
           /\ UNCHANGED <<claimedBy, decision, remote>>
  <2>1. /\ stage' \in [Requests -> Stages]
        /\ \A q \in Requests : stage[q] = "asked" => stage'[q] = "asked"
    BY <1>1, <1>4 DEF Stages
  <2>2. /\ remote' \in [Requests -> {"off", "open", "closed"}]
        /\ \A q \in Requests : remote'[q] = "open" => remote[q] = "open" /\ stage[q] = "asked"
    BY <1>4 DEF AloneInv, ClaimInv
  <2> QED BY <1>1, <1>4, <2>1, <2>2, NoClaim
<1> QED BY <1>2, <1>3, <1>4

LEMMA AutomatedAlone == ASSUME AloneInv, NEW r \in Requests, Automated(r) PROVE AloneInv'
<1> USE DEF Automated
<1>1. rules \subseteq Changes
  BY DEF AloneInv, ClaimInv
<1>2. ASSUME NEW answer \in {"allow", "deny"}, Resolve(r, answer), HookRules(r, decision'[r]),
             UNCHANGED <<stage, remote>>
      PROVE  AloneInv'
  BY <1>1, <1>2, HookedRules, ResolveAlone
<1>3. CASE Resolve(r, "deny") /\ UNCHANGED <<stage, remote>> /\ NoRules
  BY <1>1, <1>3, ResolveAlone DEF NoRules
<1>4. CASE Ask(r) /\ NoRules
  BY <1>4, AskAlone DEF NoRules
<1> QED BY <1>2, <1>3, <1>4

-----------------------------------------------------------------------------
(* Answers                                                                   *)

\* The user's answer: the first one that claims the request, or none.
LEMMA AnswersAlone ==
  ASSUME AloneInv, NEW r \in Requests, NEW answer \in {"allow", "deny"}, NEW abort \in BOOLEAN,
         Answers(r, answer, abort),
         rules' \subseteq Changes,
         \A x \in rules' : \/ x \in rules
                           \/ Unclaimed(r) /\ x.by = "user" /\ x.for = r /\ answer = "allow"
  PROVE  AloneInv'
<1>1. /\ stage' = stage /\ stage \in [Requests -> Stages]
      /\ remote \in [Requests -> {"off", "open", "closed"}]
      /\ \A q \in Requests : remote[q] = "open" => stage[q] = "asked"
  BY DEF Answers, AloneInv, ClaimInv
<1>2. CASE Unclaimed(r)
  BY <1>1, <1>2, FirstClaim, ClosedRemote DEF Answers, Claimants
<1>3. CASE ~Unclaimed(r)
  BY <1>1, <1>3, NoClaim DEF Answers
<1> QED BY <1>2, <1>3

LEMMA AnswerAlone == ASSUME AloneInv, NEW r \in Requests, Answer(r) PROVE AloneInv'
<1>1. rules \subseteq Changes
  BY DEF AloneInv, ClaimInv
<1>2. CASE UserAllow(r)
  <2>1. /\ rules' \subseteq Changes
        /\ \A x \in rules' : x \in rules \/ (Unclaimed(r) /\ x.by = "user" /\ x.for = r)
    BY <1>1, <1>2, PersistedRules DEF UserAllow, NoRules
  <2> QED BY <1>2, <2>1, AnswersAlone DEF UserAllow
<1>3. ASSUME NEW escape \in BOOLEAN, UserReject(r, escape) PROVE AloneInv'
  <2>1. PICK feedback \in BOOLEAN : Answers(r, "deny", escape \/ (~feedback /\ ~background))
    BY <1>3 DEF UserReject
  <2>2. (escape \/ (~feedback /\ ~background)) \in BOOLEAN
    OBVIOUS
  <2> QED BY <1>1, <1>3, <2>1, <2>2, AnswersAlone DEF UserReject, NoRules
<1> QED BY <1>2, <1>3 DEF Answer

\* claude.ai, the hooks, the classifier, a changed rule.
LEMMA RaceAlone == ASSUME AloneInv, NEW r \in Requests, Race(r) PROVE AloneInv'
<1>1. /\ rules \subseteq Changes /\ stage \in [Requests -> Stages]
      /\ remote \in [Requests -> {"off", "open", "closed"}]
      /\ \A q \in Requests : remote[q] = "open" => stage[q] = "asked"
  BY DEF AloneInv, ClaimInv
<1>2. CASE BridgeAnswers(r)
  <2>1. /\ stage' = stage /\ remote' \in [Requests -> {"off", "open", "closed"}]
        /\ remote'[r] = "closed" /\ \A q \in Requests \ {r} : remote'[q] = remote[q]
    BY <1>1, <1>2 DEF BridgeAnswers
  <2>2. CASE Unclaimed(r) /\ ~aborted
    <3>1. PICK answer \in {"allow", "deny"} :
            /\ Decide(r, "bridge", answer)
            /\ IF decision'[r] = "allow" THEN PersistPermissions(r, "bridge") ELSE NoRules
      BY <1>2, <2>2 DEF BridgeAnswers
    <3>2. decision'[r] = answer
      BY <3>1 DEF Decide, AloneInv, ClaimInv
    <3>3. /\ rules' \subseteq Changes
          /\ \A x \in rules' : x \in rules \/ (x.by = "bridge" /\ x.for = r /\ answer = "allow")
      BY <1>1, <3>1, <3>2, PersistedRules DEF NoRules
    <3> QED BY <1>1, <2>1, <2>2, <3>1, <3>3, FirstClaim DEF Claimants
  <2>3. CASE ~(Unclaimed(r) /\ ~aborted)
    <3>1. UNCHANGED <<claimedBy, decision, rules>>
      BY <1>2, <2>3 DEF BridgeAnswers
    <3> QED BY <1>1, <2>1, <3>1, NoClaim
  <2> QED BY <2>2, <2>3
<1>3. CASE HooksEnd(r)
  <2>1. stage' = stage
    BY <1>3 DEF HooksEnd
  <2>2. CASE NoRules /\ UNCHANGED <<claimedBy, decision, remote>>
    BY <1>1, <2>1, <2>2, NoClaim DEF NoRules
  <2>3. ASSUME NEW answer \in {"allow", "deny"}, HookRules(r, answer),
               IF Unclaimed(r) THEN Decide(r, "hook", answer) /\ CloseRemote(r)
                               ELSE UNCHANGED <<claimedBy, decision, remote>>
        PROVE  AloneInv'
    <3>1. rules' \subseteq Changes /\ \A x \in rules' : x \in rules \/ x.by = "hook"
      BY <1>1, <2>3, HookedRules
    <3>2. CASE Unclaimed(r)
      BY <1>1, <2>1, <2>3, <3>1, <3>2, ClosedRemote, FirstClaim DEF Claimants
    <3>3. CASE ~Unclaimed(r)
      BY <1>1, <2>1, <2>3, <3>1, <3>3, NoClaim
    <3> QED BY <3>2, <3>3
  <2> QED BY <1>3, <2>2, <2>3 DEF HooksEnd
<1>4. ASSUME NEW who \in {"classifier", "config"}, Unclaimed(r), Decide(r, who, "allow"),
             CloseRemote(r), UNCHANGED <<stage, rules>>
      PROVE  AloneInv'
  BY <1>1, <1>4, ClosedRemote, FirstClaim DEF Claimants
<1>5. CASE UNCHANGED claimVars
  BY <1>5, AloneStutter
<1>6. CASE ClassifierEnds(r)
  BY <1>6, <1>4, <1>5 DEF ClassifierEnds, ShouldContinue, claimVars
<1>7. CASE CheckmarkEnds(r)
  BY <1>7, <1>5 DEF CheckmarkEnds, claimVars
<1>8. CASE RecheckEnds(r)
  BY <1>8, <1>4, <1>5 DEF RecheckEnds, claimVars
<1> QED BY <1>2, <1>3, <1>6, <1>7, <1>8 DEF Race

-----------------------------------------------------------------------------

LEMMA AloneNext == AloneInv /\ [Next]_vars => AloneInv'
<1> SUFFICES ASSUME AloneInv, [Next]_vars PROVE AloneInv' OBVIOUS
<1>1. ASSUME NEW r \in Requests, Asking(r) \/ Answer(r) \/ Race(r) PROVE AloneInv'
  BY <1>1, RequestAlone, CheckedAlone, AutomatedAlone, AnswerAlone, RaceAlone DEF Asking
<1>2. CASE UNCHANGED claimVars
  BY <1>2, AloneStutter
<1>3. ASSUME NEW r \in Requests, Touch(r) PROVE AloneInv'
  BY <1>2, <1>3 DEF Touch, claimVars
<1>4. CASE Render \/ StartTyping \/ StopTyping \/ Escape \/ QueryAborts \/ Done \/ UNCHANGED vars
  BY <1>2, <1>4 DEF Render, StartTyping, StopTyping, Escape, QueryAborts, Done, vars, ownVars, claimVars
<1> QED BY <1>1, <1>3, <1>4 DEF Next

\* Who has claimed a request keeps it, whatever comes later.
LEMMA ClaimStays ==
  ASSUME AloneInv, [Next]_vars, NEW r \in Requests, ~Unclaimed(r)
  PROVE  claimedBy'[r] = claimedBy[r] /\ decision'[r] = decision[r]
<1>1. ASSUME NEW q \in Requests, Unclaimed(q), NEW who, NEW answer, Decide(q, who, answer)
      PROVE  claimedBy'[r] = claimedBy[r] /\ decision'[r] = decision[r]
  <2>1. q # r BY <1>1
  <2> QED BY <1>1, <2>1 DEF Decide, AloneInv, ClaimInv
<1>2. CASE UNCHANGED <<claimedBy, decision>>
  BY <1>2
<1>3. ASSUME NEW q \in Requests, Asking(q) PROVE claimedBy'[r] = claimedBy[r] /\ decision'[r] = decision[r]
  BY <1>1, <1>2, <1>3 DEF Asking, Request, Checked, Automated, Ask, Resolve
<1>4. ASSUME NEW q \in Requests, Answer(q) PROVE claimedBy'[r] = claimedBy[r] /\ decision'[r] = decision[r]
  BY <1>1, <1>2, <1>4 DEF Answer, UserAllow, UserReject, Answers
<1>5. ASSUME NEW q \in Requests, Race(q) PROVE claimedBy'[r] = claimedBy[r] /\ decision'[r] = decision[r]
  BY <1>1, <1>2, <1>5 DEF Race, BridgeAnswers, HooksEnd, ClassifierEnds, CheckmarkEnds, RecheckEnds,
                          ShouldContinue
<1>6. CASE UNCHANGED vars \/ Render \/ StartTyping \/ StopTyping \/ Escape \/ QueryAborts \/ Done
           \/ \E q \in Requests : Touch(q)
  BY <1>2, <1>6 DEF vars, ownVars, Render, StartTyping, StopTyping, Escape, QueryAborts, Done, Touch
<1> QED BY <1>3, <1>4, <1>5, <1>6 DEF Next

-----------------------------------------------------------------------------
(* The queue of dialogs                                                      *)

\* t has elements of q, in the order they have there.
Within(t, q) ==
  /\ \A i \in DOMAIN t : \E k \in DOMAIN q : q[k] = t[i]
  /\ \A i, j \in DOMAIN t : i < j => \E k, l \in DOMAIN q : k < l /\ q[k] = t[i] /\ q[l] = t[j]

\* A dialog is in the queue once, of a request that was put to the user.  The one
\* on the screen is at its head, or in it no more.
QueueInv ==
  /\ queue \in Seq(Requests)
  /\ \A i, j \in DOMAIN queue : queue[i] = queue[j] => i = j
  /\ \A i \in DOMAIN queue : stage[queue[i]] = "asked"
  /\ shown \in Requests \cup {Nobody} /\ (shown # Nobody => stage[shown] = "asked")
  /\ \A i \in DOMAIN queue : queue[i] = shown => i = 1

DialogInv == QueueInv /\ DialogDismissed

LEMMA WithinItself == ASSUME NEW q \in Seq(Requests) PROVE Within(q, q)
  BY DEF Within

LEMMA RejectedWithin ==
  ASSUME NEW q \in Seq(Requests), NEW S, NEW r, r = Rejected(q, S)
  PROVE  r \in Seq(Requests) /\ Within(r, q) /\ \A i \in DOMAIN r : r[i] \notin S
<1> DEFINE P == {q[i] : i \in DOMAIN q} \ S
<1>1. r = Selected(q, P)
  BY DEF Rejected
<1> HIDE DEF P
<1>2. r \in Seq(Requests)
  BY <1>1, SelectedElements
<1>3. \A a \in 1..Len(r) : r[a] \in P /\ \E i \in 1..Len(q) : q[i] = r[a]
  BY <1>1, SelectedElements
<1>4. ASSUME NEW a \in 1..Len(r), NEW b \in 1..Len(r), a < b
      PROVE  \E i, j \in 1..Len(q) : i < j /\ q[i] = r[a] /\ q[j] = r[b]
  BY <1>1, <1>4, SelectedOrder
<1>5. DOMAIN r = 1..Len(r) /\ DOMAIN q = 1..Len(q)
  BY <1>2
<1>6. Within(r, q)
  <2>1. \A a \in DOMAIN r : \E k \in DOMAIN q : q[k] = r[a]
    BY <1>3, <1>5
  <2>2. \A a, b \in DOMAIN r : a < b => \E k, l \in DOMAIN q : k < l /\ q[k] = r[a] /\ q[l] = r[b]
    <3> SUFFICES ASSUME NEW a \in DOMAIN r, NEW b \in DOMAIN r, a < b
                 PROVE  \E k, l \in DOMAIN q : k < l /\ q[k] = r[a] /\ q[l] = r[b]
      OBVIOUS
    <3>1. PICK i \in 1..Len(q), j \in 1..Len(q) : i < j /\ q[i] = r[a] /\ q[j] = r[b]
      BY <1>4, <1>5
    <3> QED BY <1>5, <3>1
  <2> QED BY <2>1, <2>2 DEF Within
<1> QED BY <1>2, <1>3, <1>5, <1>6 DEF P

LEMMA TailWithin ==
  ASSUME NEW q \in Seq(Requests), q # <<>>
  PROVE  /\ Tail(q) \in Seq(Requests) /\ Within(Tail(q), q)
         /\ (\A i, j \in DOMAIN q : q[i] = q[j] => i = j) => \A i \in DOMAIN Tail(q) : Tail(q)[i] # q[1]
<1> DEFINE t == Tail(q)
<1>1. /\ t \in Seq(Requests) /\ DOMAIN t \subseteq Nat /\ 1 \in DOMAIN q
      /\ \A i \in DOMAIN t : i + 1 \in DOMAIN q /\ t[i] = q[i + 1] /\ i >= 1
  OBVIOUS
<1> HIDE DEF t
<1>2. Within(t, q)
  BY <1>1 DEF Within
<1> QED BY <1>1, <1>2 DEF t

LEMMA WithinTransitive ==
  ASSUME NEW q \in Seq(Requests), NEW t \in Seq(Requests), NEW u, Within(u, t), Within(t, q)
  PROVE  Within(u, q)
<1>1. ASSUME NEW i \in DOMAIN u PROVE \E k \in DOMAIN q : q[k] = u[i]
  <2>1. PICK m \in DOMAIN t : t[m] = u[i]
    BY DEF Within
  <2> QED BY <2>1 DEF Within
<1>2. ASSUME NEW i \in DOMAIN u, NEW j \in DOMAIN u, i < j
      PROVE \E k, l \in DOMAIN q : k < l /\ q[k] = u[i] /\ q[l] = u[j]
  <2>1. PICK m \in DOMAIN t, n \in DOMAIN t : m < n /\ t[m] = u[i] /\ t[n] = u[j]
    BY <1>2 DEF Within
  <2> QED BY <2>1 DEF Within
<1> QED BY <1>1, <1>2 DEF Within

\* Of the dialogs q only checkmarks go with an abort.
LEMMA Aborts ==
  ASSUME NEW q \in Seq(Requests), NEW abort, QueueAndAbort(q, abort)
  PROVE  /\ queue' \in Seq(Requests) /\ Within(queue', q)
         /\ \A i \in DOMAIN queue' : queue'[i] \in checkmark => queue'[i] \in checkmark'
<1>1. CASE abort /\ ~aborted
  <2>1. queue' = Rejected(q, checkmark)
    BY <1>1 DEF QueueAndAbort
  <2> QED BY <2>1, RejectedWithin
<1>2. CASE ~(abort /\ ~aborted)
  <2>1. queue' = q /\ checkmark' = checkmark
    BY <1>2 DEF QueueAndAbort
  <2> QED BY <2>1, WithinItself
<1> QED BY <1>1, <1>2

\* Dialogs go, and the screen is as it was or shows the head.
LEMMA Shrinks ==
  ASSUME QueueInv, queue' \in Seq(Requests), Within(queue', queue),
         \A q \in Requests : stage[q] = "asked" => stage'[q] = "asked",
         shown' = shown \/ shown' = Nobody \/ shown' = First(queue')
  PROVE  QueueInv'
<1>1. /\ queue \in Seq(Requests) /\ \A i, j \in DOMAIN queue : queue[i] = queue[j] => i = j
      /\ \A i \in DOMAIN queue : stage[queue[i]] = "asked" /\ (queue[i] = shown => i = 1)
      /\ shown \in Requests \cup {Nobody} /\ (shown # Nobody => stage[shown] = "asked")
  BY DEF QueueInv
<1>2. DOMAIN queue' \subseteq Nat /\ DOMAIN queue = 1..Len(queue) /\ Len(queue) \in Nat
      /\ \A i \in DOMAIN queue' : i >= 1 /\ queue'[i] \in Requests /\ 1 \in DOMAIN queue'
  BY <1>1
<1>3. ASSUME NEW i \in DOMAIN queue', NEW j \in DOMAIN queue', i < j
      PROVE  \E k, l \in DOMAIN queue : k < l /\ queue[k] = queue'[i] /\ queue[l] = queue'[j]
  BY <1>3 DEF Within
<1>4. ASSUME NEW i \in DOMAIN queue', NEW j \in DOMAIN queue', i < j PROVE queue'[i] # queue'[j]
  <2>1. PICK k \in DOMAIN queue, l \in DOMAIN queue : k < l /\ queue[k] = queue'[i] /\ queue[l] = queue'[j]
    BY <1>3, <1>4
  <2>2. k # l
    BY <1>2, <2>1
  <2> QED BY <1>1, <2>1, <2>2
<1>5. \A i, j \in DOMAIN queue' : queue'[i] = queue'[j] => i = j
  BY <1>2, <1>4
<1>6. \A i \in DOMAIN queue' : stage'[queue'[i]] = "asked"
  BY <1>1, <1>2 DEF Within
<1>7. ASSUME NEW i \in DOMAIN queue', queue'[i] = shown PROVE i = 1
  <2> SUFFICES ASSUME 1 < i PROVE FALSE
    BY <1>2
  <2>1. PICK k \in DOMAIN queue, l \in DOMAIN queue : k < l /\ queue[l] = queue'[i]
    BY <1>2, <1>3
  <2>2. l = 1
    BY <1>1, <1>7, <2>1
  <2> QED BY <1>2, <2>1, <2>2
<1>8. /\ shown' \in Requests \cup {Nobody} /\ (shown' # Nobody => stage'[shown'] = "asked")
      /\ \A i \in DOMAIN queue' : queue'[i] = shown' => i = 1
  <2>1. CASE shown' = shown
    BY <1>1, <1>7, <2>1
  <2>2. CASE shown' = Nobody \/ (shown' = First(queue') /\ queue' = <<>>)
    <3>1. shown' = Nobody /\ Nobody \notin Requests
      BY <2>2, RequestAssumption DEF First
    <3> QED BY <1>2, <3>1
  <2>3. CASE shown' = First(queue') /\ queue' # <<>>
    <3>1. 1 \in DOMAIN queue' /\ shown' = queue'[1]
      BY <2>3 DEF First
    <3> QED BY <1>2, <1>5, <1>6, <3>1
  <2> QED BY <2>1, <2>2, <2>3
<1> QED BY <1>5, <1>6, <1>8 DEF QueueInv

\* The dialogs that are left are those of open requests, or checkmarks.
LEMMA Dismisses ==
  ASSUME DialogInv, queue' \in Seq(Requests), Within(queue', queue),
         \A q \in Requests : stage[q] = "asked" => stage'[q] = "asked",
         shown' = shown \/ shown' = Nobody \/ shown' = First(queue'),
         \A i \in DOMAIN queue' : /\ queue'[i] \in checkmark => queue'[i] \in checkmark'
                                  /\ Unclaimed(queue'[i]) =>
                                       claimedBy'[queue'[i]] = "nobody" \/ queue'[i] \in checkmark'
  PROVE  DialogInv'
<1>1. QueueInv'
  BY Shrinks DEF DialogInv
<1>2. ASSUME NEW i \in DOMAIN queue' PROVE claimedBy'[queue'[i]] = "nobody" \/ queue'[i] \in checkmark'
  <2>1. PICK k \in DOMAIN queue : queue[k] = queue'[i]
    BY DEF Within
  <2>2. Unclaimed(queue[k]) \/ queue[k] \in checkmark
    BY DEF DialogInv, DialogDismissed, InQueue
  <2>3. Unclaimed(queue'[i]) \/ queue'[i] \in checkmark
    BY <2>1, <2>2
  <2> QED BY <2>3
<1>3. DialogDismissed'
  BY <1>2 DEF DialogDismissed, InQueue, Unclaimed
<1> QED BY <1>1, <1>3 DEF DialogInv

\* Dialogs stay, no request is claimed.
LEMMA Unmoved ==
  ASSUME DialogInv, UNCHANGED <<queue, claimedBy>>,
         \A q \in Requests : stage[q] = "asked" => stage'[q] = "asked",
         shown' = shown \/ shown' = Nobody \/ shown' = First(queue'), checkmark \subseteq checkmark'
  PROVE  DialogInv'
<1>1. queue' \in Seq(Requests) /\ Within(queue', queue)
  BY WithinItself DEF DialogInv, QueueInv
<1>2. \A i \in DOMAIN queue' : /\ queue'[i] \in checkmark => queue'[i] \in checkmark'
                               /\ Unclaimed(queue'[i]) =>
                                    claimedBy'[queue'[i]] = "nobody" \/ queue'[i] \in checkmark'
  BY DEF Unclaimed
<1> QED BY <1>1, <1>2, Dismisses

\* A request that has no dialog is decided.
LEMMA DecidesElsewhere ==
  ASSUME ClaimInv, NEW r \in Requests, NEW who, NEW answer, Decide(r, who, answer)
  PROVE  \A q \in Requests : q # r /\ Unclaimed(q) => Unclaimed(q)'
  BY DEF Decide, Unclaimed, ClaimInv

LEMMA AskDialog ==
  ASSUME ClaimInv, DialogInv, NEW r \in Requests, stage[r] # "asked", Unclaimed(r), Ask(r),
         UNCHANGED <<shown, checkmark>>
  PROVE  DialogInv'
<1>1. /\ queue \in Seq(Requests) /\ \A i, j \in DOMAIN queue : queue[i] = queue[j] => i = j
      /\ \A i \in DOMAIN queue : stage[queue[i]] = "asked" /\ (queue[i] = shown => i = 1)
      /\ shown \in Requests \cup {Nobody} /\ (shown # Nobody => stage[shown] = "asked")
      /\ \A i \in DOMAIN queue : Unclaimed(queue[i]) \/ queue[i] \in checkmark
  BY DEF DialogInv, QueueInv, DialogDismissed, InQueue
<1>2. queue' = Append(queue, r) /\ claimedBy' = claimedBy /\ shown' = shown /\ checkmark' = checkmark
      /\ \A q \in Requests : stage'[q] = IF q = r THEN "asked" ELSE stage[q]
  BY DEF Ask, Pushed, ClaimInv
<1>3. /\ queue' \in Seq(Requests) /\ Len(queue) \in Nat
      /\ queue'[Len(queue) + 1] = r /\ \A i \in DOMAIN queue : queue'[i] = queue[i]
      /\ \A i \in DOMAIN queue' : i = Len(queue) + 1 \/ i \in DOMAIN queue
      /\ \A i \in DOMAIN queue : queue[i] \in Requests
  BY <1>1, <1>2
<1>4. /\ \A i \in DOMAIN queue : queue[i] # r
      /\ r # shown
  BY <1>1, RequestAssumption
<1>5. \A i, j \in DOMAIN queue' : queue'[i] = queue'[j] => i = j
  BY <1>1, <1>3, <1>4
<1>6. \A i \in DOMAIN queue' : /\ stage'[queue'[i]] = "asked" /\ (queue'[i] = shown => i = 1)
                               /\ Unclaimed(queue'[i]) \/ queue'[i] \in checkmark
  BY <1>1, <1>2, <1>3, <1>4
<1>7. shown' \in Requests \cup {Nobody} /\ (shown' # Nobody => stage'[shown'] = "asked")
  BY <1>1, <1>2
<1>8. \A q : Unclaimed(q)' = Unclaimed(q)
  BY <1>2 DEF Unclaimed
<1> QED BY <1>2, <1>3, <1>5, <1>6, <1>7, <1>8 DEF DialogInv, QueueInv, DialogDismissed, InQueue

\* Only r may be claimed, and then it has no dialog any more, or a checkmark.
LEMMA Decides ==
  ASSUME DialogInv, NEW r \in Requests, \A q \in Requests : q # r => claimedBy'[q] = claimedBy[q],
         queue' \in Seq(Requests), Within(queue', queue),
         \A i \in DOMAIN queue' : queue'[i] = r => claimedBy'[r] = claimedBy[r] \/ r \in checkmark',
         \A i \in DOMAIN queue' : queue'[i] \in checkmark => queue'[i] \in checkmark',
         \A q \in Requests : stage[q] = "asked" => stage'[q] = "asked",
         shown' = shown \/ shown' = Nobody \/ shown' = First(queue')
  PROVE  DialogInv'
<1>1. \A i \in DOMAIN queue' : Unclaimed(queue'[i]) => claimedBy'[queue'[i]] = "nobody" \/ queue'[i] \in checkmark'
  <2> SUFFICES ASSUME NEW i \in DOMAIN queue', Unclaimed(queue'[i])
               PROVE  claimedBy'[queue'[i]] = "nobody" \/ queue'[i] \in checkmark'
    OBVIOUS
  <2>1. queue'[i] \in Requests
    OBVIOUS
  <2>2. CASE queue'[i] = r
    BY <2>2 DEF Unclaimed
  <2>3. CASE queue'[i] # r
    BY <2>1, <2>3 DEF Unclaimed
  <2> QED BY <2>2, <2>3
<1> QED BY <1>1, Dismisses

LEMMA DecideOnly ==
  ASSUME ClaimInv, NEW r \in Requests, NEW who, NEW answer, Decide(r, who, answer)
  PROVE  \A q \in Requests : q # r => claimedBy'[q] = claimedBy[q]
  BY DEF Decide, ClaimInv

\* The queue p of which r is gone, but for checkmarks that go with an abort.
LEMMA DecidesAborting ==
  ASSUME DialogInv, NEW r \in Requests, \A q \in Requests : q # r => claimedBy'[q] = claimedBy[q],
         NEW p \in Seq(Requests), Within(p, queue), NEW abort, QueueAndAbort(p, abort),
         claimedBy'[r] = claimedBy[r] \/ \A i \in DOMAIN p : p[i] # r,
         stage' = stage, shown' = shown \/ shown' = First(queue')
  PROVE  DialogInv'
<1>1. /\ queue' \in Seq(Requests) /\ Within(queue', p)
      /\ \A i \in DOMAIN queue' : queue'[i] \in checkmark => queue'[i] \in checkmark'
  BY Aborts
<1>2. queue \in Seq(Requests)
  BY DEF DialogInv, QueueInv
<1>3. Within(queue', queue)
  BY <1>1, <1>2, WithinTransitive
<1>4. \A i \in DOMAIN queue' : queue'[i] = r => claimedBy'[r] = claimedBy[r] \/ r \in checkmark'
  BY <1>1 DEF Within
<1> QED BY <1>1, <1>3, <1>4, Decides

\* A request that was not put to the user has no dialog.
LEMMA NotInQueue ==
  ASSUME DialogInv, NEW r \in Requests, stage[r] # "asked"
  PROVE  \A i \in DOMAIN queue : queue[i] # r
  BY DEF DialogInv, QueueInv

LEMMA QueueFacts ==
  ASSUME DialogInv
  PROVE  queue \in Seq(Requests) /\ Within(queue, queue)
  BY WithinItself DEF DialogInv, QueueInv

LEMMA AskingDialog == ASSUME AloneInv, DialogInv, NEW r \in Requests, Asking(r) PROVE DialogInv'
<1>1. ClaimInv /\ stage \in [Requests -> Stages] /\ queue \in Seq(Requests) /\ Within(queue, queue)
  BY QueueFacts DEF AloneInv, ClaimInv
<1>2. CASE Request(r)
  <2>1. /\ \A q \in Requests : stage[q] = "asked" => stage'[q] = "asked"
        /\ queue' = queue /\ shown' = shown /\ checkmark' = checkmark /\ stage[r] # "asked"
    BY <1>1, <1>2 DEF Request
  <2>2. \A q \in Requests : q # r => claimedBy'[q] = claimedBy[q]
    BY <1>1, <1>2, DecideOnly DEF Request, Resolve
  <2> QED BY <1>1, <2>1, <2>2, NotInQueue, Decides
<1>3. ASSUME stage[r] # "asked", NEW answer, Resolve(r, answer), NEW abort,
             QueueAndAbort(queue, abort), UNCHANGED <<stage, shown>>
      PROVE  DialogInv'
  <2>1. \A q \in Requests : q # r => claimedBy'[q] = claimedBy[q]
    BY <1>1, <1>3, DecideOnly DEF Resolve
  <2>2. \A i \in DOMAIN queue : queue[i] # r
    BY <1>3, NotInQueue
  <2> QED BY <1>1, <1>3, <2>1, <2>2, DecidesAborting
<1>5. CASE Checked(r)
  <2>1. stage[r] # "asked" /\ Unclaimed(r) /\ shown' = shown /\ checkmark' = checkmark
    BY <1>5 DEF Checked
  <2>2. CASE Ask(r)
    BY <1>1, <2>1, <2>2, AskDialog
  <2>3. CASE \E answer : Resolve(r, answer) /\ UNCHANGED <<stage, queue>>
    <3>1. \A q \in Requests : q # r => claimedBy'[q] = claimedBy[q]
      BY <1>1, <2>3, DecideOnly DEF Resolve
    <3> QED BY <1>1, <2>1, <2>3, <3>1, NotInQueue, Decides
  <2>4. CASE stage' = [stage EXCEPT ![r] = "automated"] /\ UNCHANGED <<claimedBy, queue>>
    BY <1>1, <2>1, <2>4, Unmoved
  <2> QED BY <1>5, <2>2, <2>3, <2>4 DEF Checked
<1>6. CASE Automated(r)
  <2>1. stage[r] # "asked" /\ Unclaimed(r) /\ shown' = shown
    BY <1>6 DEF Automated
  <2>2. CASE Ask(r) /\ UNCHANGED checkmark
    BY <1>1, <2>1, <2>2, AskDialog
  <2>3. CASE Resolve(r, "deny") /\ UNCHANGED <<stage, queue, checkmark>>
    <3>1. \A q \in Requests : q # r => claimedBy'[q] = claimedBy[q]
      BY <1>1, <2>3, DecideOnly DEF Resolve
    <3> QED BY <1>1, <2>1, <2>3, <3>1, NotInQueue, Decides
  <2>4. CASE /\ \E answer \in {"allow", "deny"} : Resolve(r, answer)
             /\ \E interrupt \in BOOLEAN : QueueAndAbort(queue, interrupt /\ decision'[r] = "deny")
             /\ UNCHANGED stage
    BY <1>3, <2>1, <2>4
  <2> QED BY <1>6, <2>2, <2>3, <2>4 DEF Automated
<1> QED BY <1>2, <1>5, <1>6 DEF Asking

LEMMA AnswersDialog ==
  ASSUME AloneInv, DialogInv, NEW r \in Requests, NEW answer, NEW abort, Answers(r, answer, abort)
  PROVE  DialogInv'
<1> DEFINE p == IF queue = <<>> THEN queue ELSE Tail(queue)
<1>1. /\ shown = r /\ QueueAndAbort(p, Unclaimed(r) /\ abort) /\ shown' = First(queue') /\ stage' = stage
      /\ IF Unclaimed(r) THEN Decide(r, "user", answer) ELSE UNCHANGED claimedBy
  BY DEF Answers
<1>2. /\ queue \in Seq(Requests) /\ \A i, j \in DOMAIN queue : queue[i] = queue[j] => i = j
      /\ \A i \in DOMAIN queue : queue[i] = r => i = 1
  BY <1>1 DEF DialogInv, QueueInv
<1>3. \A q \in Requests : q # r => claimedBy'[q] = claimedBy[q]
  BY <1>1, DecideOnly DEF AloneInv
<1>4. p \in Seq(Requests) /\ Within(p, queue) /\ \A i \in DOMAIN p : p[i] # r
  <2>1. CASE queue = <<>>
    <3>1. p = queue /\ DOMAIN p = {}
      BY <2>1
    <3> HIDE DEF p
    <3> QED BY <1>2, <3>1, WithinItself
  <2>2. CASE queue # <<>>
    <3>1. /\ p = Tail(queue) /\ p \in Seq(Requests) /\ Within(p, queue)
          /\ \A i \in DOMAIN p : p[i] # queue[1]
      BY <1>2, <2>2, TailWithin
    <3>2. ASSUME NEW i \in DOMAIN p, p[i] = r PROVE FALSE
      <4>1. PICK k \in DOMAIN queue : queue[k] = p[i]
        BY <3>1 DEF Within
      <4> QED BY <1>2, <3>1, <3>2, <4>1
    <3> QED BY <3>1, <3>2
  <2> QED BY <2>1, <2>2
<1> HIDE DEF p
<1> QED BY <1>1, <1>3, <1>4, DecidesAborting

\* r is decided by a racer that takes its dialog away.
LEMMA RemovedFacts ==
  ASSUME DialogInv, NEW r \in Requests
  PROVE  /\ Removed(queue, r) \in Seq(Requests) /\ Within(Removed(queue, r), queue)
         /\ \A i \in DOMAIN Removed(queue, r) : Removed(queue, r)[i] # r
<1>1. queue \in Seq(Requests)
  BY QueueFacts
<1> DEFINE p == Rejected(queue, {r})
<1> HIDE DEF p
<1>2. p \in Seq(Requests) /\ Within(p, queue) /\ \A i \in DOMAIN p : p[i] \notin {r}
  BY <1>1, RejectedWithin DEF p
<1> QED BY <1>2 DEF Removed, p

LEMMA RaceDialog == ASSUME AloneInv, DialogInv, NEW r \in Requests, Race(r) PROVE DialogInv'
<1>1. ClaimInv /\ queue \in Seq(Requests) /\ Within(queue, queue)
  BY QueueFacts DEF AloneInv
<1> DEFINE p == Removed(queue, r)
<1>2. p \in Seq(Requests) /\ Within(p, queue) /\ \A i \in DOMAIN p : p[i] # r
  BY RemovedFacts
<1> HIDE DEF p
<1>3. CASE BridgeAnswers(r)
  <2>1. stage' = stage /\ shown' = shown
    BY <1>3 DEF BridgeAnswers
  <2>2. CASE Unclaimed(r) /\ ~aborted
    <3>1. /\ \E answer \in {"allow", "deny"} : Decide(r, "bridge", answer)
          /\ \E abort : QueueAndAbort(p, abort)
      BY <1>3, <2>2 DEF BridgeAnswers, p
    <3>2. \A q \in Requests : q # r => claimedBy'[q] = claimedBy[q]
      BY <1>1, <3>1, DecideOnly
    <3> QED BY <1>2, <2>1, <3>1, <3>2, DecidesAborting
  <2>3. CASE ~(Unclaimed(r) /\ ~aborted)
    <3>1. UNCHANGED <<claimedBy, queue, checkmark>>
      BY <1>3, <2>3 DEF BridgeAnswers
    <3> QED BY <2>1, <3>1, Unmoved
  <2> QED BY <2>2, <2>3
<1>4. CASE HooksEnd(r)
  <2>1. stage' = stage /\ shown' = shown
    BY <1>4 DEF HooksEnd
  <2>2. CASE UNCHANGED <<claimedBy, queue, checkmark>>
    BY <2>1, <2>2, Unmoved
  <2>3. ASSUME NEW answer, NEW abort,
               IF Unclaimed(r) THEN Decide(r, "hook", answer) /\ CloseRemote(r)
                               ELSE UNCHANGED <<claimedBy, decision, remote>>,
               QueueAndAbort(IF Unclaimed(r) THEN p ELSE queue, abort)
        PROVE  DialogInv'
    <3>1. \A q \in Requests : q # r => claimedBy'[q] = claimedBy[q]
      BY <1>1, <2>3, DecideOnly
    <3>2. CASE Unclaimed(r)
      <4>1. QueueAndAbort(p, abort)
        BY <2>3, <3>2
      <4> QED BY <1>2, <2>1, <3>1, <4>1, DecidesAborting
    <3>3. CASE ~Unclaimed(r)
      <4>1. QueueAndAbort(queue, abort) /\ claimedBy' = claimedBy
        BY <2>3, <3>3
      <4> QED BY <1>1, <2>1, <3>1, <4>1, DecidesAborting
    <3> QED BY <3>2, <3>3
  <2> QED BY <1>4, <2>2, <2>3 DEF HooksEnd, p
<1>5. CASE ClassifierEnds(r)
  <2>1. stage' = stage /\ shown' = shown /\ queue' = queue
    BY <1>5 DEF ClassifierEnds
  <2>2. CASE UNCHANGED <<claimedBy, checkmark>>
    BY <2>1, <2>2, Unmoved
  <2>3. CASE Decide(r, "classifier", "allow") /\ checkmark' = checkmark \cup {r}
    <3>1. \A q \in Requests : q # r => claimedBy'[q] = claimedBy[q]
      BY <1>1, <2>3, DecideOnly
    <3> QED BY <1>1, <2>1, <2>3, <3>1, Decides
  <2> QED BY <1>5, <2>2, <2>3 DEF ClassifierEnds
<1>6. CASE CheckmarkEnds(r)
  <2>1. stage' = stage /\ shown' = shown /\ queue' = p /\ claimedBy' = claimedBy /\ checkmark' = checkmark \ {r}
    BY <1>6 DEF CheckmarkEnds, p
  <2>2. \A i \in DOMAIN queue' : queue'[i] \in checkmark => queue'[i] \in checkmark'
    BY <1>2, <2>1
  <2> QED BY <1>2, <2>1, <2>2, Decides
<1>7. CASE RecheckEnds(r)
  <2>1. stage' = stage /\ shown' = shown /\ checkmark' = checkmark
    BY <1>7 DEF RecheckEnds
  <2>2. CASE UNCHANGED <<claimedBy, queue>>
    BY <2>1, <2>2, Unmoved
  <2>3. CASE Decide(r, "config", "allow") /\ queue' = p
    <3>1. \A q \in Requests : q # r => claimedBy'[q] = claimedBy[q]
      BY <1>1, <2>3, DecideOnly
    <3> QED BY <1>2, <2>1, <2>3, <3>1, Decides
  <2> QED BY <1>7, <2>2, <2>3 DEF RecheckEnds, p
<1> QED BY <1>3, <1>4, <1>5, <1>6, <1>7 DEF Race

LEMMA DialogNext == AloneInv /\ DialogInv /\ [Next]_vars => DialogInv'
<1> SUFFICES ASSUME AloneInv, DialogInv, [Next]_vars PROVE DialogInv'
  OBVIOUS
<1>1. queue \in Seq(Requests) /\ Within(queue, queue)
  BY QueueFacts
<1>2. ASSUME NEW r \in Requests, Asking(r) \/ Answer(r) \/ Race(r) PROVE DialogInv'
  BY <1>2, AskingDialog, AnswersDialog, RaceDialog DEF Answer, UserAllow, UserReject
<1>3. CASE UNCHANGED <<queue, claimedBy, stage, shown, checkmark>>
  BY <1>3, Unmoved
<1>4. ASSUME NEW r \in Requests, Touch(r) PROVE DialogInv'
  BY <1>3, <1>4 DEF Touch
<1>5. CASE Render
  <2>1. UNCHANGED <<queue, claimedBy, stage, checkmark>> /\ (shown' = Nobody \/ shown' = First(queue))
    BY <1>5 DEF Render, ownVars
  <2>2. shown' = Nobody \/ shown' = First(queue')
    BY <2>1
  <2> QED BY <2>1, <2>2, Unmoved
<1>6. CASE StartTyping \/ StopTyping \/ Done \/ UNCHANGED vars
  BY <1>3, <1>6 DEF StartTyping, StopTyping, Done, vars, ownVars
<1>7. CASE Escape
  <2>1. /\ QueueAndAbort(<<>>, ~background) /\ stage' = stage /\ shown' = shown /\ claimedBy' = claimedBy
    BY <1>7 DEF Escape
  <2>2. <<>> \in Seq(Requests)
    OBVIOUS
  <2>3. /\ queue' \in Seq(Requests) /\ Within(queue', <<>>)
        /\ \A i \in DOMAIN queue' : queue'[i] \in checkmark => queue'[i] \in checkmark'
    BY <2>1, <2>2, Aborts
  <2>4. Within(<<>>, queue)
    BY DEF Within
  <2>5. Within(queue', queue)
    BY <1>1, <2>2, <2>3, <2>4, WithinTransitive
  <2> QED BY <2>1, <2>3, <2>5, Dismisses DEF Unclaimed
<1>8. CASE QueryAborts
  <2>1. /\ QueueAndAbort(queue, TRUE) /\ stage' = stage /\ shown' = shown /\ claimedBy' = claimedBy
    BY <1>8 DEF QueryAborts
  <2>2. /\ queue' \in Seq(Requests) /\ Within(queue', queue)
        /\ \A i \in DOMAIN queue' : queue'[i] \in checkmark => queue'[i] \in checkmark'
    BY <1>1, <2>1, Aborts
  <2> QED BY <2>1, <2>2, Dismisses DEF Unclaimed
<1> QED BY <1>2, <1>4, <1>5, <1>6, <1>7, <1>8 DEF Next

LEMMA DialogInit == Init => DialogInv
<1> SUFFICES ASSUME Init PROVE DialogInv
  OBVIOUS
<1>1. queue = <<>> /\ shown = Nobody
  BY DEF Init
<1>2. queue \in Seq(Requests) /\ DOMAIN queue = {}
  BY <1>1
<1> QED BY <1>1, <1>2 DEF DialogInv, QueueInv, DialogDismissed, InQueue

-----------------------------------------------------------------------------
(* The theorems                                                              *)

\* Whoever wins a request, all others are out of it: its prompt on claude.ai and
\* its dialog, but for a checkmark, are gone, and no rule is changed for an answer
\* that did not count, but by hooks.
THEOREM WinnerAlone == Spec => []WinnerTakesAll
<1>1. AloneInv /\ DialogInv => WinnerTakesAll
  BY DEF AloneInv, DialogInv, WinnerTakesAll
<1> QED BY <1>1, AloneInit, AloneNext, DialogInit, DialogNext, PTL DEF Spec

\* A request is decided once: its promise keeps the answer that came first,
\* whichever racers come later (resolveOnce() and claim() of PermissionContext).
DecidedOnce == [][\A r \in Requests : decision[r] # "none" => decision'[r] = decision[r]]_vars

\* No racer of a permission request ever replaces the answer that was kept.
THEOREM DecidesOnce == Spec => DecidedOnce
<1>1. AloneInv /\ [Next]_vars => [\A r \in Requests : decision[r] # "none" => decision'[r] = decision[r]]_vars
  BY ClaimStays DEF AloneInv, ClaimInv
<1> QED BY <1>1, AloneInit, AloneNext, PTL DEF Spec, DecidedOnce
=============================================================================
