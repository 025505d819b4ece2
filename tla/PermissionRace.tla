--------------------------- MODULE PermissionRace ---------------------------
(***************************************************************************)
(* The permission requests of one query of the main agent or of a          *)
(* background agent: src/src/hooks/useCanUseTool.tsx asks, and for one     *)
(* to be put to the user src/src/hooks/toolPermission/handlers/            *)
(* interactiveHandler.ts lets the dialog, the bridge to claude.ai, the     *)
(* PermissionRequest hooks, the Bash classifier and a change of the rules  *)
(* race for it.  The dialogs form a queue of which the head is shown; the  *)
(* screen lags behind the queue until React renders.                       *)
(***************************************************************************)
EXTENDS Selections

CONSTANTS Requests,        \* the requests of the query, as numbers
          Racers,          \* which of the automatic answers there are
          MaxEscapes       \* bound: Escapes while the dialog is hidden

Nobody == 0

ASSUME RequestAssumption == Requests \subseteq Nat \ {Nobody}
ASSUME RacerAssumption == Racers \subseteq {"bridge", "hook", "classifier"}
ASSUME BoundAssumption == MaxEscapes \in Nat

VARIABLES
  background, \* awaitAutomatedChecksBeforeDialog: of a background agent
  stage,      \* request -> "new", "checking", "automated" or "asked"
  claimedBy,  \* request -> who claimed it, or "nobody"
  decision,   \* request -> what its promise was resolved with, or "none"
  queue,      \* toolUseConfirmQueue
  shown,      \* the request whose dialog is on the screen, or Nobody
  typing,     \* isPromptInputActive: the dialog is hidden
  remote,     \* request -> the prompt of claude.ai: "off", "open", "closed"
  hook,       \* request -> its PermissionRequest hooks: "off", "running", "over"
  classifier, \* request -> its classifier check: "off", "running", "over"
  touched,    \* the requests with userInteracted
  checkmark,  \* the requests whose checkmark timer runs
  recheck,    \* the requests whose recheckPermission() is under way
  rules,      \* the persisted changes of the rules: who made them, for what
  aborted,    \* the query's controller was aborted
  escapes

\* The requests' own variables, and those they share.
ownVars == <<stage, claimedBy, decision, remote, hook, classifier, touched,
             checkmark, recheck>>
vars == <<background, ownVars, queue, shown, typing, rules, aborted, escapes>>

Init ==
  /\ background \in BOOLEAN
  /\ stage = [r \in Requests |-> "new"]
  /\ claimedBy = [r \in Requests |-> "nobody"]
  /\ decision = [r \in Requests |-> "none"]
  /\ queue = <<>>
  /\ shown = Nobody /\ typing = FALSE
  /\ remote = [r \in Requests |-> "off"]
  /\ hook = [r \in Requests |-> "off"]
  /\ classifier = [r \in Requests |-> "off"]
  /\ touched = {} /\ checkmark = {} /\ recheck = {}
  /\ rules = {}
  /\ aborted = FALSE
  /\ escapes = 0

----------------------------------------------------------------------------

\* Mutated form: claim() does not fail.
UnclaimedAlways(r) == TRUE

Unclaimed(r) == claimedBy[r] = "nobody"

Decide(r, who, answer) ==
  /\ claimedBy' = [claimedBy EXCEPT ![r] = who]
  /\ decision' = [decision EXCEPT ![r] = answer]

\* bridgeCallbacks.cancelRequest().
CloseRemote(r) == remote' = IF remote[r] = "open" THEN [remote EXCEPT ![r] = "closed"]
                                                  ELSE remote

\* removeFromQueue(): by toolUseID.
Removed(q, r) == Rejected(q, {r})

\* Mutated form: the new dialog replaces the others.
Replaced(q, r) == <<r>>

\* pushToQueue().
Pushed(q, r) == Append(q, r)

\* The queue becomes q, and if the query is aborted in the same step the
\* abort listeners drop the dialogs that only show a checkmark.
QueueAndAbort(q, abort) ==
  LET now == abort /\ ~aborted IN
  /\ aborted' = (aborted \/ abort)
  /\ queue' = IF now THEN Rejected(q, checkmark) ELSE q
  /\ checkmark' = IF now THEN {} ELSE checkmark

InQueue == {queue[n] : n \in DOMAIN queue}
First(q) == IF q = <<>> THEN Nobody ELSE Head(q)

\* persistPermissions() with or without changes: when the rules change,
\* everything that is in the queue is checked again.
NoRules == UNCHANGED <<rules, recheck>>
NewRules(r, who) == /\ rules' = rules \cup {[by |-> who, for |-> r]}
                    /\ recheck' = recheck \cup InQueue
PersistPermissions(r, who) == NoRules \/ NewRules(r, who)

\* runHooks() changes rules before anybody looks at what it returns.
HookRules(r, answer) == IF answer = "allow" THEN PersistPermissions(r, "hook") ELSE NoRules

----------------------------------------------------------------------------
(* Asking: useCanUseTool()                                                 *)

\* Without a claim: nobody else has the request yet.
Resolve(r, answer) == Decide(r, "config", answer)

Request(r) ==
  /\ stage[r] = "new" /\ Unclaimed(r)
  /\ stage' = [stage EXCEPT ![r] = "checking"]
  /\ IF aborted THEN Resolve(r, "deny") ELSE UNCHANGED <<claimedBy, decision>>
  /\ UNCHANGED <<queue, shown, typing, remote, hook, classifier, touched,
                 checkmark, recheck, rules, aborted, escapes, background>>

\* The dialog goes to the end of the queue, and the racers start.
Ask(r) ==
  /\ stage' = [stage EXCEPT ![r] = "asked"]
  /\ queue' = Pushed(queue, r)
  /\ remote' = [remote EXCEPT ![r] = IF "bridge" \in Racers THEN "open" ELSE "off"]
  /\ hook' = [hook EXCEPT ![r] =
       IF "hook" \in Racers /\ ~background THEN "running" ELSE "off"]
  /\ classifier' = [classifier EXCEPT ![r] =
       IF "classifier" \in Racers /\ ~background THEN "running" ELSE "off"]
  /\ UNCHANGED <<claimedBy, decision>>

\* hasPermissionsToUseTool() and the tool's description are there: the rules
\* decide, or the user is to be asked, unless the query was aborted meanwhile.
Checked(r) ==
  /\ stage[r] = "checking" /\ Unclaimed(r)
  /\ \/ /\ \E answer \in {"allow", "deny"} :
             Resolve(r, IF aborted THEN "deny" ELSE answer)
        /\ UNCHANGED <<stage, queue, remote, hook, classifier>>
     \/ /\ ~aborted /\ ~background
        /\ Ask(r)
     \/ /\ ~aborted /\ background
        /\ stage' = [stage EXCEPT ![r] = "automated"]
        /\ UNCHANGED <<claimedBy, decision, queue, remote, hook, classifier>>
  /\ UNCHANGED <<shown, typing, touched, checkmark, recheck, rules, aborted, escapes,
                 background>>

\* handleCoordinatorPermission(): hooks and classifier first, the dialog after.
Automated(r) ==
  /\ stage[r] = "automated" /\ Unclaimed(r)
  /\ \/ /\ \E answer \in {"allow", "deny"} : Resolve(r, answer)
        /\ HookRules(r, decision'[r])
        /\ \E interrupt \in BOOLEAN :
             QueueAndAbort(queue, interrupt /\ decision'[r] = "deny")
        /\ UNCHANGED <<stage, remote, hook, classifier>>
     \/ /\ IF aborted THEN /\ Resolve(r, "deny")
                           /\ UNCHANGED <<stage, queue, remote, hook, classifier>>
                      ELSE Ask(r)
        /\ NoRules /\ UNCHANGED <<aborted, checkmark>>
  /\ UNCHANGED <<shown, typing, touched, escapes, background>>

----------------------------------------------------------------------------
(* The dialog                                                              *)

\* React renders the head of the queue, or hides it while the user types.
Render ==
  /\ shown # IF typing THEN Nobody ELSE First(queue)
  /\ shown' = IF typing THEN Nobody ELSE First(queue)
  /\ UNCHANGED <<ownVars, queue, typing, rules, aborted, escapes, background>>

\* A key in the prompt; the timer that follows the last one.
StartTyping == /\ ~typing /\ typing' = TRUE
               /\ UNCHANGED <<ownVars, queue, shown, rules, aborted, escapes, background>>
StopTyping == /\ typing /\ typing' = FALSE
              /\ UNCHANGED <<ownVars, queue, shown, rules, aborted, escapes, background>>

\* The user answers what is on the screen.  onDone() drops the head of the
\* queue, whatever that is by now; the answer counts if it claims the request.
Answers(r, answer, abort) ==
  /\ shown = r
  /\ QueueAndAbort(IF queue = <<>> THEN queue ELSE Tail(queue), Unclaimed(r) /\ abort)
  /\ shown' = First(queue')
  /\ IF Unclaimed(r) THEN Decide(r, "user", answer) /\ CloseRemote(r)
                     ELSE UNCHANGED <<claimedBy, decision, remote>>
  /\ UNCHANGED <<stage, typing, hook, classifier, touched, escapes, background>>

UserAllow(r) ==
  /\ Answers(r, "allow", FALSE)
  /\ IF Unclaimed(r) THEN PersistPermissions(r, "user") ELSE NoRules

\* cancelAndAbort(): a rejection with feedback, or one of a background agent's
\* call, lets the query go on; one without, and Escape on the dialog, abort it.
UserReject(r, escape) ==
  /\ \E feedback \in BOOLEAN :
       Answers(r, "deny", escape \/ (~feedback /\ ~background))
  /\ NoRules

\* onUserInteraction(), after the grace period.
Touch(r) ==
  /\ shown = r /\ r \notin touched
  /\ touched' = touched \cup {r}
  /\ UNCHANGED <<stage, claimedBy, decision, queue, shown, typing, remote, hook,
                 classifier, checkmark, recheck, rules, aborted, escapes, background>>

\* Escape while the dialog is hidden: useCancelRequest() empties the queue,
\* onCancel() finds no dialog in focus and aborts the query of the main agent.
Escape ==
  /\ shown = Nobody /\ typing /\ escapes < MaxEscapes
  /\ background \/ ~aborted
  /\ escapes' = escapes + 1
  /\ QueueAndAbort(<<>>, ~background)
  /\ UNCHANGED <<stage, claimedBy, decision, shown, typing, remote, hook,
                 classifier, touched, recheck, rules, background>>

\* Something else aborts the query (a sibling's error, a new message).
QueryAborts ==
  /\ ~aborted
  /\ QueueAndAbort(queue, TRUE)
  /\ UNCHANGED <<stage, claimedBy, decision, shown, typing, remote, hook,
                 classifier, touched, recheck, rules, escapes, background>>

----------------------------------------------------------------------------
(* The other racers                                                        *)

\* claude.ai answers; after an abort nobody listens any more.
BridgeAnswers(r) ==
  /\ remote[r] = "open"
  /\ remote' = [remote EXCEPT ![r] = "closed"]
  /\ IF Unclaimed(r) /\ ~aborted
       THEN /\ \E answer \in {"allow", "deny"} : Decide(r, "bridge", answer)
            /\ IF decision'[r] = "allow" THEN PersistPermissions(r, "bridge") ELSE NoRules
            /\ \E feedback \in BOOLEAN :
                 QueueAndAbort(Removed(queue, r), /\ decision'[r] = "deny"
                                                  /\ ~feedback /\ ~background)
       ELSE UNCHANGED <<claimedBy, decision, queue, rules, recheck, aborted, checkmark>>
  /\ UNCHANGED <<stage, shown, typing, hook, classifier, touched, escapes, background>>

\* The hooks end: with no decision, with an allow whose rules are persisted
\* before the claim, or with a deny that may interrupt the query.
HooksEnd(r) ==
  /\ hook[r] = "running"
  /\ hook' = [hook EXCEPT ![r] = "over"]
  /\ \/ NoRules /\ UNCHANGED <<claimedBy, decision, queue, remote, aborted, checkmark>>
     \/ \E answer \in {"allow", "deny"}, interrupt \in BOOLEAN :
          /\ HookRules(r, answer)
          /\ IF Unclaimed(r) THEN Decide(r, "hook", answer) /\ CloseRemote(r)
                             ELSE UNCHANGED <<claimedBy, decision, remote>>
          /\ QueueAndAbort(IF Unclaimed(r) THEN Removed(queue, r) ELSE queue,
                           interrupt /\ answer = "deny")
  /\ UNCHANGED <<stage, shown, typing, classifier, touched, escapes, background>>

ShouldContinue(r) == Unclaimed(r) /\ r \notin touched

\* The classifier ends: when it allows, the dialog stays with a checkmark.
ClassifierEnds(r) ==
  /\ classifier[r] = "running"
  /\ classifier' = [classifier EXCEPT ![r] = "over"]
  /\ \/ UNCHANGED <<claimedBy, decision, remote, checkmark>>
     \/ /\ ShouldContinue(r)
        /\ Decide(r, "classifier", "allow")
        /\ CloseRemote(r)
        /\ checkmark' = checkmark \cup {r}
  /\ UNCHANGED <<stage, queue, shown, typing, hook, touched, recheck, rules,
                 aborted, escapes, background>>

\* The timer of the checkmark, or Escape on it.
CheckmarkEnds(r) ==
  /\ r \in checkmark
  /\ checkmark' = checkmark \ {r}
  /\ queue' = Removed(queue, r)
  /\ UNCHANGED <<stage, claimedBy, decision, shown, typing, remote, hook,
                 classifier, touched, recheck, rules, aborted, escapes, background>>

\* recheckPermission() of a request whose dialog waits.
RecheckEnds(r) ==
  /\ r \in recheck
  /\ recheck' = recheck \ {r}
  /\ \/ UNCHANGED <<claimedBy, decision, remote, queue>>
     \/ /\ Unclaimed(r)
        /\ Decide(r, "config", "allow")
        /\ CloseRemote(r)
        /\ queue' = Removed(queue, r)
  /\ UNCHANGED <<stage, shown, typing, hook, classifier, touched, checkmark,
                 rules, aborted, escapes, background>>

Asking(r) == Request(r) \/ Checked(r) \/ Automated(r)
Answer(r) == UserAllow(r) \/ \E escape \in BOOLEAN : UserReject(r, escape)
Race(r) == BridgeAnswers(r) \/ HooksEnd(r) \/ ClassifierEnds(r)
           \/ CheckmarkEnds(r) \/ RecheckEnds(r)

Done == /\ \A r \in Requests : decision[r] # "none"
        /\ UNCHANGED vars

Next == \/ \E r \in Requests : Asking(r) \/ Answer(r) \/ Touch(r) \/ Race(r)
        \/ Render \/ StartTyping \/ StopTyping \/ Escape \/ QueryAborts
        \/ Done

Spec == Init /\ [][Next]_vars

\* Checks end, React renders, the timer of a checkmark fires, and the user
\* answers the dialog he sees again and again.  No racer has to answer.
Fairness == /\ \A r \in Requests : /\ WF_vars(Checked(r)) /\ WF_vars(Automated(r))
                                   /\ SF_vars(Answer(r)) /\ WF_vars(CheckmarkEnds(r))
            /\ WF_vars(StopTyping) /\ SF_vars(Render /\ shown' # Nobody)

FairSpec == Spec /\ Fairness

----------------------------------------------------------------------------
(* Properties                                                              *)

Claimants == {"nobody", "config", "user", "bridge", "hook", "classifier"}

\* The prompt on claude.ai does not outlive the request.
RemoteDismissed == \A r \in Requests : remote[r] = "open" => Unclaimed(r)

\* Its dialog is gone but for the time of the checkmark.
DialogDismissed == \A r \in InQueue : Unclaimed(r) \/ r \in checkmark

\* The rules are changed only by the answer that counts.  Hooks are excepted:
\* what they allow changes the rules before they claim.
RulesOfWinner ==
  \A x \in rules : x.by # "hook" => claimedBy[x.for] = x.by /\ decision[x.for] = "allow"

\* Whoever wins a request, all the others are out of it.
WinnerTakesAll == RemoteDismissed /\ DialogDismissed /\ RulesOfWinner

\* While a request is open the user still has its dialog.
PendingAnswerable ==
  \A r \in Requests : stage[r] = "asked" /\ Unclaimed(r) => r \in InQueue

\* Only the user answers, and nobody presses Escape.
OnlyUser == escapes = 0 /\ \A r \in Requests :
              stage[r] = "asked" => claimedBy[r] \in {"nobody", "user"}

\* Every request that was put to the user is decided in the end, whichever
\* racers stay silent: when only the user answers, however often the screen
\* lags behind the queue, and otherwise as long as the queue loses no dialog
\* (an answer to a dialog that was just decided elsewhere drops the next one).
EventuallyDecided ==
  []OnlyUser \/ []PendingAnswerable =>
    \A r \in Requests : stage[r] = "asked" ~> decision[r] # "none"
=============================================================================
