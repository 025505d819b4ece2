-------------------------- MODULE TranscriptProofs --------------------------
(***************************************************************************)
(* The invariants of Transcript, for any messages, drains, calls of        *)
(* flush(), removals and setups: that each message is recorded once, that  *)
(* the chain skips nothing, that flush() returns after what was enqueued   *)
(* before it, and that the file has the parent of each of its lines.       *)
(*                                                                         *)
(* The inductive invariant has a part for each: TypeInv, DrainInv and      *)
(* PromiseInv (flush()), OnceInv and HandInv (where the messages are),     *)
(* ScreenInv and ForkInv (what the effect saw), ChainInv and CrashInv.     *)
(***************************************************************************)
EXTENDS Transcript, SelectionProofs, FiniteSetTheorems, TLAPS

-----------------------------------------------------------------------------
(* The inductive invariant                                                   *)

\* t goes on where s ends.
Begins(s, t) == Len(s) <= Len(t) /\ \A i \in DOMAIN s : t[i] = s[i]

Increasing(s) == \A i, j \in DOMAIN s : i < j => s[i] < s[j]

\* Calls of recordTranscript(), at each point.
CallsInv ==
  \A c \in DOMAIN calls :
    /\ calls[c].pc # "appends" => calls[c].lines = <<>>
    /\ calls[c].pc # "loads" => calls[c].slice = <<>>
    /\ calls[c].pc = "loads" => calls[c].slice # <<>>

\* What a removal has read, and what has become of the file since.
SnapInv ==
  /\ removal.pc # "idle" => removal.target \in removal.targets
  /\ removal.pc \in {"cuts", "writes"} =>
       removal.pos \in DOMAIN removal.snap /\ removal.snap[removal.pos].uuid = removal.target
  /\ removal.pc \in {"cuts", "rewrites"} => Begins(removal.snap, file)
  /\ removal.pc = "writes" => Begins(SubSeq(removal.snap, 1, removal.pos - 1), file)

TypeInv ==
  /\ TypeOK /\ CallsInv /\ SnapInv
  /\ \A f \in Flushers : flush[f].pc = "waits" <=> flush[f].on # None

\* Which drains are under way.
DrainInv ==
  /\ active \in Timers => drains[active] # <<>>
  /\ \A f \in Flushers : flush[f].pc = "drains" <=> drains[f] # <<>>
  /\ ~overlapped =>
       /\ \A d \in Timers : drains[d] # <<>> => active = d
       /\ \A d, e \in Drainers : d # e => drains[d] = <<>> \/ drains[e] = <<>>
       /\ \A f \in Flushers : flush[f].pc = "waits" /\ drains[flush[f].on] = <<>> =>
            \A d \in Timers : drains[d] = <<>>

\* What a call of flush() has promised.
PromiseInv ==
  ~overlapped =>
    \A f \in Flushers :
      /\ flush[f].pc = "waits" => flush[f].promised \subseteq Settled \cup Of(queue) \cup InFlight
      /\ flush[f].pc = "drains" => flush[f].promised \subseteq Settled \cup Of(drains[f])
      /\ flush[f].pc \in {"counts", "returned"} => flush[f].promised \subseteq Settled

\* The lines that are waiting or being written.
Moving == Of(queue) \cup InFlight

\* Each message once, where it is.
OnceInv ==
  /\ Distinct(file) /\ Distinct(queue) /\ \A d \in Drainers : Distinct(drains[d])
  /\ OnDisk \cap Moving = {} /\ Of(queue) \cap InFlight = {}
  /\ \A d, e \in Drainers : d # e => Of(drains[d]) \cap Of(drains[e]) = {}
  /\ removal.pc = "writes" =>
       /\ Distinct(removal.snap) /\ Of(removal.snap) \cap Moving = {} /\ Of(removal.snap) \subseteq known
       /\ \A i \in DOMAIN file : i >= removal.pos => file[i].uuid \notin Of(removal.snap)
  /\ Moving \cup OnDisk \subseteq known

\* Where what was passed to the transcript is.
HandInv ==
  /\ known \subseteq Moving \cup Settled
  /\ handed \subseteq Todo \cup Of(pending) \cup known
  /\ Todo \cup Of(pending) \cup known \subseteq handed
  /\ IF materialized THEN pending = <<>> ELSE known = {}
  /\ \A u \in handed \ Notes :
       materialized \/ \E c \in DOMAIN calls : u \in Elements(calls[c].slice)

\* The screen, and what the effect saw of it.
ScreenInv ==
  /\ 1..made \subseteq setup.uuids /\ handed \subseteq 1..made
  /\ removal.targets \subseteq Partials
  /\ Elements(messages) \subseteq 1..made /\ 1..made \subseteq Elements(messages) \cup removal.targets
  /\ Increasing(messages) /\ Increasing(shown)
  /\ made > 0 => messages # <<>> /\ messages[1] = 1
  /\ hook.length = Len(shown)
  /\ IF shown = <<>> THEN hook.first = Root /\ handed = {} /\ calls = <<>> ELSE hook.first = 1 /\ shown[1] = 1 /\ made > 0

\* The messages are what was shown up to some point, and new from there on.
Fork(k) ==
  /\ k <= Len(messages) /\ \A i \in 1..k : messages[i] = shown[i]
  /\ \A i \in DOMAIN messages : i > k => \A u \in handed : u < messages[i]
  /\ \A i \in DOMAIN shown : i > k => shown[i] \in removal.targets

ForkInv ==
  ~astray => Elements(shown) \subseteq handed /\ \E k \in 0..Len(shown) : Fork(k)

\* What was recorded and not withdrawn.
Standing == handed \ removal.targets

\* None of H lies between p and x.
Adjacent(p, x, H) == \A u \in H : ~(p < u /\ u < x)

AllLines ==
  Range(file) \cup Range(queue) \cup Range(pending)
    \cup (UNION {Range(drains[d]) : d \in Drainers}) \cup (UNION {Range(calls[c].lines) : c \in DOMAIN calls})
    \cup (IF removal.pc = "writes" THEN Range(removal.snap) ELSE {})

\* What of the calls cs others than c have, or have left in p to be appended.
Elsewhere(c, cs, p) ==
  Of(p) \cup (UNION {Of(cs[e].lines) : e \in DOMAIN cs}) \cup (UNION {Elements(cs[e].slice) : e \in DOMAIN cs \ {c}})

\* slice, to be appended behind hint, skips none of H, what of it is known, in
\* K, comes first, and what is not is with no other call, in E.
SliceAt(slice, hint, K, E, H) ==
  /\ Increasing(slice)
  /\ \A u \in H : slice[1] <= u /\ u <= Last(slice) => u \in Elements(slice)
  /\ Adjacent(hint, slice[1], H)
  /\ \A i, j \in DOMAIN slice : i < j /\ slice[j] \in K => slice[i] \in K
  /\ \A i \in DOMAIN slice : slice[i] \in K \/ slice[i] \notin E

SlicesInv ==
  \A c \in DOMAIN calls :
    calls[c].pc = "loads" => SliceAt(calls[c].slice, calls[c].hint, known, Elsewhere(c, calls, pending), Standing)

LinesInv == \A l \in AllLines : Adjacent(l.parent, l.uuid, Standing) /\ l.uuid \in handed

\* The latest call, when it passed all messages, will find the last of them.
LatestInv ==
  calls # <<>> /\ calls[Len(calls)].full =>
    /\ calls[Len(calls)].pc = "loads" => calls[Len(calls)].slice = shown
    /\ calls[Len(calls)].pc = "appends" => calls[Len(calls)].result = Last(shown)

HookInv == shown # <<>> => hook.parent = Last(shown)

ChainInv == ~astray => HookInv /\ LinesInv /\ SlicesInv /\ LatestInv

\* What a line in the file may follow although it is not in the file before it.
Gone == {Root} \cup failed \cup cut \cup removal.targets

\* Each line of s follows one before it, or one of S.
Before(s, i) == {s[j].uuid : j \in 1..(i - 1)}
Follows(s, S) == \A i \in DOMAIN s : s[i].parent \in S \cup Before(s, i)

\* At most one call is under way.
AloneInv == \A c, e \in DOMAIN calls : calls[c].pc # "over" /\ calls[e].pc # "over" => c = e

\* What the next lines will follow.
ParentsInv ==
  /\ hook.parent \in {Root} \cup handed
  /\ Follows(pending, Gone)
  /\ \A c \in DOMAIN calls :
       /\ calls[c].pc = "loads" => calls[c].hint \in {Root} \cup known \cup Of(pending)
       /\ calls[c].pc = "appends" =>
            Follows(calls[c].lines, Gone \cup known \cup Of(pending)) /\ calls[c].result \in handed

\* What the lines of the file, and those on their way to it, follow.
FollowInv ==
  /\ Follows(file, Gone \cup Held)
  /\ \A d \in Drainers : Follows(drains[d], {Root} \cup Settled)
  /\ Follows(queue, {Root} \cup Settled \cup InFlight)
  /\ removal.pc = "writes" => Follows(removal.snap, Gone)

CrashInv == ~beside => AloneInv /\ ParentsInv /\ (~overlapped => FollowInv)
-----------------------------------------------------------------------------
(* Sequences                                                                 *)

LEMMA InSequence ==
  ASSUME NEW T, NEW s \in Seq(T)
  PROVE  Len(s) \in Nat /\ DOMAIN s = 1..Len(s) /\ \A i \in 1..Len(s) : s[i] \in T
  OBVIOUS

LEMMA Appended ==
  ASSUME NEW T, NEW s \in Seq(T), NEW x \in T
  PROVE  /\ Append(s, x) \in Seq(T) /\ Len(Append(s, x)) = Len(s) + 1 /\ Append(s, x) # <<>>
         /\ \A i \in 1..Len(s) : Append(s, x)[i] = s[i]
         /\ Append(s, x)[Len(s) + 1] = x
  OBVIOUS

LEMMA Joined ==
  ASSUME NEW T, NEW s \in Seq(T), NEW t \in Seq(T)
  PROVE  /\ s \o t \in Seq(T) /\ Len(s \o t) = Len(s) + Len(t)
         /\ \A i \in 1..Len(s) : (s \o t)[i] = s[i]
         /\ \A i \in 1..Len(t) : (s \o t)[Len(s) + i] = t[i]
         /\ \A i \in 1..(Len(s) + Len(t)) : i \in 1..Len(s) \/ i - Len(s) \in 1..Len(t)
  OBVIOUS

LEMMA Cut ==
  ASSUME NEW T, NEW s \in Seq(T), NEW a \in Nat \ {0}, NEW b \in Nat, b <= Len(s), a <= b + 1
  PROVE  /\ SubSeq(s, a, b) \in Seq(T) /\ Len(SubSeq(s, a, b)) = b - a + 1
         /\ \A i \in 1..(b - a + 1) : SubSeq(s, a, b)[i] = s[a + i - 1]
  OBVIOUS

LEMMA CutNothing ==
  ASSUME NEW T, NEW s \in Seq(T), NEW a \in Nat, NEW b \in Nat, b < a
  PROVE  SubSeq(s, a, b) = <<>>
  OBVIOUS

LEMMA Behind ==
  ASSUME NEW T, NEW s \in Seq(T), s # <<>>
  PROVE  /\ Tail(s) \in Seq(T) /\ Len(Tail(s)) = Len(s) - 1 /\ Len(s) >= 1
         /\ \A i \in 1..(Len(s) - 1) : Tail(s)[i] = s[i + 1]
         /\ Head(s) = s[1] /\ s[1] \in T
  OBVIOUS

LEMMA Ended ==
  ASSUME NEW T, NEW s \in Seq(T), s # <<>>
  PROVE  /\ Last(s) = s[Len(s)] /\ Last(s) \in T /\ Len(s) \in 1..Len(s)
         /\ Front(s) \in Seq(T) /\ Len(Front(s)) = Len(s) - 1
         /\ \A i \in 1..(Len(s) - 1) : Front(s)[i] = s[i]
<1>1. Len(s) \in Nat /\ Len(s) >= 1 /\ \A i \in 1..Len(s) : s[i] \in T
  OBVIOUS
<1>2. Last(s) = s[Len(s)]
  BY DEF Last
<1>3. Front(s) \in Seq(T) /\ Len(Front(s)) = Len(s) - 1 /\ \A i \in 1..(Len(s) - 1) : Front(s)[i] = s[i]
  <2>1. Len(s) - 1 \in Nat /\ 1 <= Len(s) - 1 + 1 /\ Len(s) - 1 <= Len(s) /\ Len(s) - 1 - 1 + 1 = Len(s) - 1
    BY <1>1
  <2>2. Front(s) = SubSeq(s, 1, Len(s) - 1)
    BY DEF Front
  <2> QED BY <2>1, <2>2, Cut
<1> QED BY <1>1, <1>2, <1>3

LEMMA Nothing ==
  ASSUME NEW T, NEW s \in Seq(T)
  PROVE  s = <<>> <=> Len(s) = 0
  OBVIOUS

\* The messages of lines.
LEMMA OfTyped ==
  ASSUME NEW s \in Seq(Lines)
  PROVE  /\ Of(s) \subseteq Uuids /\ \A u : u \in Of(s) <=> \E i \in 1..Len(s) : s[i].uuid = u
         /\ \A i \in 1..Len(s) : s[i].uuid \in Uuids /\ s[i].parent \in Uuids \cup {Root}
<1>1. DOMAIN s = 1..Len(s) /\ \A i \in 1..Len(s) : s[i] \in Lines
  BY InSequence
<1>2. \A i \in 1..Len(s) : s[i].uuid \in Uuids /\ s[i].parent \in Uuids \cup {Root}
  BY <1>1 DEF Lines
<1> QED BY <1>1, <1>2 DEF Of

LEMMA OfNothing == Of(<<>>) = {}
BY DEF Of

LEMMA OfAppended ==
  ASSUME NEW s \in Seq(Lines), NEW l \in Lines
  PROVE  Of(Append(s, l)) = Of(s) \cup {l.uuid}
<1> DEFINE r == Append(s, l)
<1>1. /\ r \in Seq(Lines) /\ Len(r) = Len(s) + 1 /\ r[Len(s) + 1] = l /\ Len(s) \in Nat
      /\ \A i \in 1..Len(s) : r[i] = s[i]
  BY Appended, InSequence
<1> HIDE DEF r
<1>2. \A i \in 1..Len(r) : i \in 1..Len(s) \/ i = Len(s) + 1
  BY <1>1
<1>3. \A i \in 1..Len(s) : i \in 1..Len(r)
  BY <1>1
<1>4. Len(s) + 1 \in 1..Len(r)
  BY <1>1
<1>5. Of(r) \subseteq Of(s) \cup {l.uuid}
  BY <1>1, <1>2, OfTyped
<1>6. Of(s) \cup {l.uuid} \subseteq Of(r)
  <2>1. l.uuid \in Of(r)
    BY <1>1, <1>4, OfTyped
  <2>2. Of(s) \subseteq Of(r)
    BY <1>1, <1>3, OfTyped
  <2> QED BY <2>1, <2>2
<1> QED BY <1>5, <1>6 DEF r

LEMMA OfJoined ==
  ASSUME NEW s \in Seq(Lines), NEW t \in Seq(Lines)
  PROVE  Of(s \o t) = Of(s) \cup Of(t)
<1> DEFINE r == s \o t
<1>1. /\ r \in Seq(Lines) /\ Len(r) = Len(s) + Len(t) /\ Len(s) \in Nat /\ Len(t) \in Nat
      /\ \A i \in 1..Len(s) : r[i] = s[i]
      /\ \A i \in 1..Len(t) : r[Len(s) + i] = t[i]
      /\ \A i \in 1..Len(r) : i \in 1..Len(s) \/ i - Len(s) \in 1..Len(t)
  BY Joined, InSequence
<1> HIDE DEF r
<1>2. \A i \in 1..Len(s) : i \in 1..Len(r)
  BY <1>1
<1>3. \A i \in 1..Len(t) : Len(s) + i \in 1..Len(r)
  BY <1>1
<1>4. \A i \in 1..Len(r) : i \in 1..Len(s) \/ (i - Len(s) \in 1..Len(t) /\ r[i] = t[i - Len(s)])
  <2> SUFFICES ASSUME NEW i \in 1..Len(r), i - Len(s) \in 1..Len(t) PROVE r[i] = t[i - Len(s)]
    BY <1>1
  <2>1. Len(s) + (i - Len(s)) = i
    BY <1>1
  <2> QED BY <1>1, <2>1
<1>5. Of(r) \subseteq Of(s) \cup Of(t)
  BY <1>1, <1>4, OfTyped
<1>6. Of(s) \subseteq Of(r)
  BY <1>1, <1>2, OfTyped
<1>7. Of(t) \subseteq Of(r)
  <2>1. \A u : u \in Of(t) => \E i \in 1..Len(t) : t[i].uuid = u
    BY OfTyped
  <2>2. ASSUME NEW i \in 1..Len(t) PROVE t[i].uuid \in Of(r)
    <3> DEFINE j == Len(s) + i
    <3>1. j \in 1..Len(r) /\ r[j] = t[i]
      BY <1>1, <1>3
    <3> HIDE DEF j
    <3> QED BY <1>1, <3>1, OfTyped
  <2> QED BY <2>1, <2>2
<1> QED BY <1>5, <1>6, <1>7 DEF r

LEMMA OfBehind ==
  ASSUME NEW s \in Seq(Lines), s # <<>>
  PROVE  Of(s) = {Head(s).uuid} \cup Of(Tail(s)) /\ Head(s) \in Lines /\ Tail(s) \in Seq(Lines)
<1> DEFINE t == Tail(s)
<1>1. /\ t \in Seq(Lines) /\ Len(t) = Len(s) - 1 /\ Len(s) >= 1 /\ Len(s) \in Nat
      /\ \A i \in 1..Len(t) : t[i] = s[i + 1]
      /\ Head(s) = s[1] /\ s[1] \in Lines
  BY Behind, InSequence
<1> HIDE DEF t
<1>2. \A i \in 1..Len(s) : i = 1 \/ (i - 1 \in 1..Len(t) /\ t[i - 1] = s[i])
  <2> SUFFICES ASSUME NEW i \in 1..Len(s), i # 1 PROVE i - 1 \in 1..Len(t) /\ t[i - 1] = s[i]
    OBVIOUS
  <2>1. i - 1 \in 1..Len(t) /\ (i - 1) + 1 = i
    BY <1>1
  <2> QED BY <1>1, <2>1
<1>3. \A i \in 1..Len(t) : i + 1 \in 1..Len(s)
  BY <1>1
<1>4. Of(s) \subseteq {s[1].uuid} \cup Of(t)
  BY <1>1, <1>2, OfTyped
<1>5. Of(t) \subseteq Of(s)
  BY <1>1, <1>3, OfTyped
<1>6. 1 \in 1..Len(s)
  BY <1>1
<1>7. s[1].uuid \in Of(s)
  BY <1>6, OfTyped
<1> QED BY <1>1, <1>4, <1>5, <1>7 DEF t

\* The elements of a sequence.
LEMMA ElementsTyped ==
  ASSUME NEW T, NEW s \in Seq(T)
  PROVE  Elements(s) \subseteq T /\ \A u : u \in Elements(s) <=> \E i \in 1..Len(s) : s[i] = u
BY InSequence DEF Elements

LEMMA SetupIs ==
  ASSUME setup \in Setups
  PROVE  /\ setup.uuids \subseteq Uuids /\ setup.notes \subseteq setup.uuids /\ setup.partials \subseteq setup.uuids
         /\ setup.timers \subseteq Timers /\ setup.flushers \subseteq Flushers /\ setup.failures \in Nat
         /\ Partials \cap Notes = {} /\ 1 \notin Partials
BY FileAssumption, WithdrawnAssumption DEF Partials, Notes

LEMMA NumbersAre ==
  /\ Uuids \subseteq Nat \ {0} /\ Root \notin Uuids /\ Root = 0
  /\ None \notin Timers /\ Rejection \notin Timers /\ None # Rejection
  /\ \A d \in Timers : d \notin Flushers
<1>1. Cardinality(Uuids) \in Nat
  BY MessagesAssumption, FS_CardinalityType
<1>2. Uuids \subseteq Nat \ {0}
  BY <1>1, MessagesAssumption
<1> QED BY <1>2, FileAssumption DEF Root, None, Rejection

-----------------------------------------------------------------------------
(* Types                                                                     *)

ScreenTypes ==
  /\ messages \in Seq(Uuids) /\ shown \in Seq(Uuids) /\ made \in Nat /\ handed \subseteq Uuids
  /\ hook \in [length : Nat, parent : Uuids \cup {Root}, first : Uuids \cup {Root}]
  /\ beside \in BOOLEAN /\ astray \in BOOLEAN

Call == [pc : {"loads", "appends", "over"}, slice : Seq(Uuids), hint : Uuids \cup {Root},
         full : BOOLEAN, lines : Seq(Lines), result : Uuids \cup {Root}]

CallTypes ==
  /\ calls \in Seq(Call) /\ known \subseteq Uuids
  /\ pending \in Seq(Lines) /\ materialized \in BOOLEAN

Appending == {c \in DOMAIN calls : calls[c].pc = "appends"}
Removing == IF removal.pc = "idle" THEN 0 ELSE 1
Counted == tracked = Cardinality(Appending) + Removing

LEMMA TypeParts == TypeOK <=> FileTypeOK /\ ScreenTypes /\ CallTypes /\ Counted
BY DEF TypeOK, ScreenTypes, CallTypes, Call, Counted, Appending, Removing

LEMMA AppendingTyped ==
  ASSUME CallTypes
  PROVE  /\ IsFiniteSet(DOMAIN calls) /\ IsFiniteSet(Appending) /\ Cardinality(Appending) \in Nat
         /\ Appending # {} => Cardinality(Appending) > 0
<1>1. DOMAIN calls = 1..Len(calls) /\ Len(calls) \in Nat
  BY InSequence DEF CallTypes
<1>2. IsFiniteSet(DOMAIN calls)
  BY <1>1, FS_Interval
<1>3. IsFiniteSet(Appending)
  BY <1>2, FS_Subset DEF Appending
<1>4. Cardinality(Appending) \in Nat
  BY <1>3, FS_CardinalityType
<1>5. Appending # {} => Cardinality(Appending) # 0
  BY <1>3, FS_EmptySet
<1> QED BY <1>2, <1>3, <1>4, <1>5

\* What is counted is a number, and more than zero while anything is counted.
LEMMA CountedTyped ==
  ASSUME CallTypes, Counted
  PROVE  tracked \in Nat /\ (removal.pc # "idle" => tracked - 1 \in Nat) /\ (Appending # {} => tracked - 1 \in Nat)
BY AppendingTyped DEF Counted, Removing

LEMMA CountedMore ==
  ASSUME CallTypes, Counted, Removing' = Removing, NEW c \in DOMAIN calls, c \notin Appending,
         Appending' = Appending \cup {c}, tracked' = tracked + 1
  PROVE  Counted'
<1>1. Cardinality(Appending \cup {c}) = Cardinality(Appending) + 1
  BY AppendingTyped, FS_AddElement
<1> QED BY <1>1, AppendingTyped DEF Counted, Removing

LEMMA CountedLess ==
  ASSUME CallTypes, Counted, Removing' = Removing, NEW c \in Appending,
         Appending' = Appending \ {c}, tracked' = tracked - 1
  PROVE  Counted'
<1>1. Cardinality(Appending \ {c}) = Cardinality(Appending) - 1
  BY AppendingTyped, FS_RemoveElement
<1> QED BY <1>1, AppendingTyped DEF Counted, Removing

LEMMA CountedRemoval ==
  ASSUME CallTypes, Counted, calls' = calls,
         \/ removal'.pc = removal.pc /\ tracked' = tracked
         \/ removal'.pc # "idle" /\ removal.pc # "idle" /\ tracked' = tracked
         \/ removal.pc = "idle" /\ removal'.pc # "idle" /\ tracked' = tracked + 1
         \/ removal.pc # "idle" /\ removal'.pc = "idle" /\ tracked' = tracked - 1
  PROVE  Counted'
<1>1. Appending' = Appending
  BY DEF Appending
<1>2. Removing' = IF removal'.pc = "idle" THEN 0 ELSE 1
  BY DEF Removing
<1>3. Cardinality(Appending) \in Nat
  BY AppendingTyped
<1>4. Removing = IF removal.pc = "idle" THEN 0 ELSE 1
  BY DEF Removing
<1>5. tracked = Cardinality(Appending) + Removing
  BY DEF Counted
<1>6. tracked' = Cardinality(Appending) + Removing'
  BY <1>2, <1>3, <1>4, <1>5
<1> QED BY <1>1, <1>6 DEF Counted

FlushOn == \A f \in Flushers : flush[f].pc = "waits" <=> flush[f].on # None

\* The steps of the file, and what they need.
FileInv == FileTypeOK /\ FlushOn /\ SnapInv

LEMMA BeginsJoined ==
  ASSUME NEW s \in Seq(Lines), NEW t \in Seq(Lines), NEW r \in Seq(Lines), Begins(s, t)
  PROVE  Begins(s, t \o r)
<1>1. /\ Len(t \o r) = Len(t) + Len(r) /\ \A i \in 1..Len(t) : (t \o r)[i] = t[i]
      /\ Len(s) \in Nat /\ Len(t) \in Nat /\ Len(r) \in Nat /\ DOMAIN s = 1..Len(s)
  BY Joined, InSequence
<1>2. Len(s) <= Len(t) /\ \A i \in 1..Len(s) : i \in 1..Len(t)
  BY <1>1 DEF Begins
<1> QED BY <1>1, <1>2 DEF Begins

LEMMA BeginsCut ==
  ASSUME NEW s \in Seq(Lines), NEW t \in Seq(Lines), Begins(s, t), NEW n \in 0..Len(s)
  PROVE  /\ SubSeq(s, 1, n) = SubSeq(t, 1, n) /\ SubSeq(t, 1, n) \in Seq(Lines)
         /\ Begins(SubSeq(s, 1, n), SubSeq(t, 1, n))
         /\ Len(SubSeq(t, 1, n)) = n /\ \A i \in 1..n : SubSeq(t, 1, n)[i] = s[i]
<1>1. /\ Len(s) \in Nat /\ Len(t) \in Nat /\ DOMAIN s = 1..Len(s) /\ n \in Nat /\ n <= Len(s) /\ 1 <= n + 1
  BY InSequence
<1>2. n <= Len(t) /\ \A i \in 1..n : i \in 1..Len(s)
  BY <1>1 DEF Begins
<1> DEFINE p == SubSeq(s, 1, n)
           q == SubSeq(t, 1, n)
<1>0. n - 1 + 1 = n /\ \A i \in 1..n : 1 + i - 1 = i
  BY <1>1
<1>3. /\ p \in Seq(Lines) /\ Len(p) = n - 1 + 1 /\ \A i \in 1..(n - 1 + 1) : p[i] = s[1 + i - 1]
      /\ q \in Seq(Lines) /\ Len(q) = n - 1 + 1 /\ \A i \in 1..(n - 1 + 1) : q[i] = t[1 + i - 1]
  BY <1>1, <1>2, Cut
<1> HIDE DEF p, q
<1>4. /\ p \in Seq(Lines) /\ Len(p) = n /\ \A i \in 1..n : p[i] = s[i]
      /\ q \in Seq(Lines) /\ Len(q) = n /\ \A i \in 1..n : q[i] = t[i]
  BY <1>0, <1>3
<1>5. \A i \in 1..n : p[i] = q[i] /\ q[i] = s[i]
  BY <1>1, <1>2, <1>4 DEF Begins
<1>6. p = q
  BY <1>4, <1>5
<1>7. DOMAIN p = 1..n
  BY <1>4, InSequence
<1>8. Begins(p, q)
  BY <1>1, <1>4, <1>5, <1>7 DEF Begins
<1> QED BY <1>4, <1>5, <1>6, <1>8 DEF p, q

LEMMA SnapTyped ==
  ASSUME FileTypeOK
  PROVE  /\ removal.snap \in Seq(Lines) /\ file \in Seq(Lines) /\ queue \in Seq(Lines)
         /\ \A d \in Drainers : drains[d] \in Seq(Lines)
         /\ removal.pos \in Nat /\ removal.targets \subseteq Uuids /\ removal.target \in Uuids \cup {Root}
BY DEF FileTypeOK

\* Where a removal cuts.
LEMMA CutAt ==
  ASSUME FileTypeOK, SnapInv, removal.pc \in {"cuts", "writes"}
  PROVE  /\ removal.pos \in 1..Len(removal.snap) /\ removal.pos - 1 \in 0..Len(removal.snap)
         /\ removal.pos - 1 <= Len(file) /\ removal.pos - 1 \in Nat
         /\ Begins(SubSeq(removal.snap, 1, removal.pos - 1), file)
<1>0. removal.snap \in Seq(Lines) /\ file \in Seq(Lines) /\ removal.pos \in Nat
  BY SnapTyped
<1>1. removal.pos \in 1..Len(removal.snap) /\ Len(removal.snap) \in Nat /\ Len(file) \in Nat
  BY <1>0, InSequence DEF SnapInv
<1> DEFINE n == removal.pos - 1
           p == SubSeq(removal.snap, 1, n)
<1>2. n \in 0..Len(removal.snap) /\ n \in Nat /\ 1 <= n + 1 /\ n - 1 + 1 = n /\ n <= Len(removal.snap)
  BY <1>1
<1> HIDE DEF n
<1>3. Len(p) = n /\ p \in Seq(Lines)
  BY <1>0, <1>2, Cut
<1>4. CASE removal.pc = "writes"
  <2>1. Begins(p, file)
    BY <1>4 DEF SnapInv, n
  <2> QED BY <1>1, <1>2, <1>3, <2>1 DEF Begins, n
<1>5. CASE removal.pc = "cuts"
  <2>1. Begins(removal.snap, file)
    BY <1>5 DEF SnapInv
  <2>2. Len(removal.snap) <= Len(file)
    BY <2>1 DEF Begins
  <2>3. DOMAIN p = 1..n /\ DOMAIN removal.snap = 1..Len(removal.snap)
    BY <1>0, <1>3, InSequence
  <2>4. \A i \in 1..n : p[i] = removal.snap[i] /\ i \in 1..Len(removal.snap)
    <3>1. \A i \in 1..n : 1 + i - 1 = i /\ i \in 1..Len(removal.snap)
      BY <1>1, <1>2
    <3>2. \A i \in 1..(n - 1 + 1) : p[i] = removal.snap[1 + i - 1]
      BY <1>0, <1>2, Cut
    <3> QED BY <1>2, <3>1, <3>2
  <2>5. Begins(p, file)
    BY <1>1, <1>2, <1>3, <2>1, <2>2, <2>3, <2>4 DEF Begins
  <2>6. n <= Len(file)
    BY <1>1, <1>2, <2>2
  <2> QED BY <1>1, <1>2, <2>5, <2>6 DEF n
<1> QED BY <1>4, <1>5

LEMMA NothingTyped == <<>> \in Seq(Lines)
  OBVIOUS

LEMMA DrainEmptied ==
  ASSUME FileInv, NEW d \in Drainers
  PROVE  [drains EXCEPT ![d] = <<>>] \in [Drainers -> Seq(Lines)]
BY NothingTyped DEF FileInv, FileTypeOK

LEMMA SnapKept ==
  ASSUME FileTypeOK, SnapInv, removal' = removal,
         file' = file \/ \E t \in Seq(Lines) : file' = file \o t
  PROVE  SnapInv'
<1>0. removal.snap \in Seq(Lines) /\ file \in Seq(Lines)
  BY SnapTyped
<1>1. CASE file' = file
  BY <1>1 DEF SnapInv
<1>2. ASSUME NEW t \in Seq(Lines), file' = file \o t PROVE SnapInv'
  <2>1. ASSUME removal.pc \in {"cuts", "rewrites"} PROVE Begins(removal.snap, file')
    BY <1>0, <1>2, <2>1, BeginsJoined DEF SnapInv
  <2>2. ASSUME removal.pc = "writes" PROVE Begins(SubSeq(removal.snap, 1, removal.pos - 1), file')
    <3>1. SubSeq(removal.snap, 1, removal.pos - 1) \in Seq(Lines)
      <4>1. removal.pos - 1 \in 0..Len(removal.snap) /\ Len(removal.snap) \in Nat
        BY <1>0, <2>2, CutAt, InSequence
      <4>2. removal.pos - 1 \in Nat /\ removal.pos - 1 <= Len(removal.snap) /\ 1 <= removal.pos - 1 + 1
        BY <4>1
      <4> QED BY <1>0, <4>2, Cut
    <3> QED BY <1>0, <1>2, <2>2, <3>1, BeginsJoined DEF SnapInv
  <2> QED BY <1>2, <2>1, <2>2 DEF SnapInv
<1> QED BY <1>1, <1>2

LEMMA DrainTypes ==
  ASSUME FileInv, NEW d \in Drainers, NEW others, others \subseteq Drainers, Drain(d, others)
  PROVE  queue' \in Seq(Lines) /\ drains' \in [Drainers -> Seq(Lines)] /\ overlapped' \in BOOLEAN
<1>1. overlapped' \in BOOLEAN
  BY DEF Drain, FileInv, FileTypeOK
<1>2. drains' \in [Drainers -> Seq(Lines)] /\ queue' \in Seq(Lines)
  BY DEF Drain, FileInv, FileTypeOK
<1> QED BY <1>1, <1>2

LEMMA TimerFiresTypes ==
  ASSUME FileInv, NEW d \in Timers, TimerFires(d)
  PROVE  FileInv'
<1>1. queue' \in Seq(Lines) /\ drains' \in [Drainers -> Seq(Lines)] /\ overlapped' \in BOOLEAN
  BY DrainTypes DEF TimerFires, Drainers
<1>2. active' \in Timers \cup {None, Rejection}
  BY DEF TimerFires
<1>3. FileTypeOK'
  BY <1>1, <1>2 DEF FileInv, FileTypeOK, TimerFires
<1>4. SnapInv'
  BY SnapKept DEF FileInv, TimerFires
<1>5. FlushOn'
  BY DEF FileInv, FlushOn, TimerFires
<1> QED BY <1>3, <1>4, <1>5 DEF FileInv

LEMMA WrittenTypes ==
  ASSUME FileInv, NEW d \in Timers, Written(d)
  PROVE  FileInv'
<1>1. drains[d] \in Seq(Lines) /\ file \in Seq(Lines) /\ queue \in Seq(Lines)
  BY DEF FileInv, FileTypeOK, Drainers
<1>2. file' \in Seq(Lines)
  BY <1>1, Joined DEF Written
<1>3. timer' \in BOOLEAN
  BY DEF FileInv, FileTypeOK, Written, Scheduled
<1>4. drains' \in [Drainers -> Seq(Lines)]
  BY DrainEmptied DEF Written, Drainers
<1>5. FileTypeOK'
  BY <1>2, <1>3, <1>4 DEF FileInv, FileTypeOK, Written
<1>6. SnapInv'
  BY <1>1, SnapKept DEF FileInv, Written
<1>7. FlushOn'
  BY DEF FileInv, FlushOn, Written
<1> QED BY <1>5, <1>6, <1>7 DEF FileInv

LEMMA WriteFailsTypes ==
  ASSUME FileInv, NEW d \in Timers, WriteFails(d)
  PROVE  FileInv'
<1>1. drains[d] \in Seq(Lines)
  BY DEF FileInv, FileTypeOK, Drainers
<1>2. failed' \subseteq Uuids
  BY <1>1, OfTyped DEF WriteFails, FileInv, FileTypeOK
<1>3. drains' \in [Drainers -> Seq(Lines)] /\ active' \in Timers \cup {None, Rejection}
  BY DrainEmptied DEF FileInv, FileTypeOK, WriteFails, Drainers
<1>4. /\ flush' \in [Flushers -> [pc : {"idle", "waits", "drains", "counts", "returned", "failed"},
                                  on : Timers \cup {None}, promised : SUBSET Uuids]]
      /\ FlushOn'
  BY DEF FileInv, FileTypeOK, WriteFails, FlushOn
<1>5. FileTypeOK'
  BY <1>2, <1>3, <1>4 DEF FileInv, FileTypeOK, WriteFails
<1>6. SnapInv'
  BY SnapKept DEF FileInv, WriteFails
<1> QED BY <1>4, <1>5, <1>6 DEF FileInv

LEMMA MovingTyped ==
  ASSUME FileInv
  PROVE  InFlight \subseteq Uuids /\ Of(queue) \subseteq Uuids /\ OnDisk \subseteq Uuids
<1>1. \A d \in Drainers : Of(drains[d]) \subseteq Uuids
  <2> SUFFICES ASSUME NEW d \in Drainers PROVE Of(drains[d]) \subseteq Uuids
    OBVIOUS
  <2>1. drains[d] \in Seq(Lines)
    BY DEF FileInv, FileTypeOK
  <2> QED BY <2>1, OfTyped
<1>2. queue \in Seq(Lines) /\ file \in Seq(Lines)
  BY DEF FileInv, FileTypeOK
<1> QED BY <1>1, <1>2, OfTyped DEF InFlight, OnDisk

LEMMA FlushDrainsTypes ==
  ASSUME FileInv, NEW f \in Flushers, NEW promised, promised \subseteq Uuids, FlushDrains(f, promised)
  PROVE  /\ queue' \in Seq(Lines) /\ drains' \in [Drainers -> Seq(Lines)] /\ overlapped' \in BOOLEAN
         /\ flush' \in [Flushers -> [pc : {"idle", "waits", "drains", "counts", "returned", "failed"},
                                     on : Timers \cup {None}, promised : SUBSET Uuids]]
         /\ FlushOn'
<1>1. queue' \in Seq(Lines) /\ drains' \in [Drainers -> Seq(Lines)] /\ overlapped' \in BOOLEAN
  BY DrainTypes DEF FlushDrains, Drainers
<1>2. (IF queue = <<>> THEN Counting ELSE "drains") \in {"counts", "returned", "drains"}
  BY DEF Counting
<1> DEFINE next == IF queue = <<>> THEN Counting ELSE "drains"
<1>3. flush' = [flush EXCEPT ![f] = [pc |-> next, on |-> None, promised |-> promised]]
  BY DEF FlushDrains
<1> HIDE DEF next
<1>4. next \in {"counts", "returned", "drains"}
  BY <1>2 DEF next
<1> QED BY <1>1, <1>3, <1>4 DEF FileInv, FileTypeOK, FlushOn

LEMMA FlushTypes ==
  ASSUME FileInv, NEW f \in Flushers, Flush(f)
  PROVE  FileInv'
<1> DEFINE promised == Of(queue) \cup InFlight
<1>1. promised \subseteq Uuids
  BY MovingTyped
<1>2. CASE ~Awaited(f)
  <2>1. FlushDrains(f, promised)
    BY <1>2 DEF Flush
  <2> HIDE DEF promised
  <2>2. FileTypeOK' /\ FlushOn'
    BY <1>1, <2>1, FlushDrainsTypes DEF FileInv, FileTypeOK, Flush
  <2>3. SnapInv'
    BY SnapKept DEF FileInv, Flush
  <2> QED BY <2>2, <2>3 DEF FileInv
<1>3. CASE Awaited(f)
  <2>1. /\ flush' = [flush EXCEPT ![f] =
                            IF active = Rejection THEN [NotCalled EXCEPT !.pc = "failed"]
                            ELSE [pc |-> "waits", on |-> active, promised |-> promised]]
        /\ UNCHANGED <<queue, drains, overlapped>>
    BY <1>3 DEF Flush
  <2> HIDE DEF promised
  <2>2. active \in Timers \/ active = Rejection
    BY <1>3 DEF Awaited, FileInv, FileTypeOK
  <2>3. /\ flush' \in [Flushers -> [pc : {"idle", "waits", "drains", "counts", "returned", "failed"},
                                    on : Timers \cup {None}, promised : SUBSET Uuids]]
        /\ FlushOn'
    <3>1. CASE active = Rejection
      BY <2>1, <3>1 DEF FileInv, FileTypeOK, FlushOn, NotCalled
    <3>2. CASE active # Rejection
      BY <1>1, <2>1, <2>2, <3>2, NumbersAre DEF FileInv, FileTypeOK, FlushOn
    <3> QED BY <3>1, <3>2
  <2>4. FileTypeOK'
    BY <2>1, <2>3 DEF FileInv, FileTypeOK, Flush
  <2>5. SnapInv'
    BY SnapKept DEF FileInv, Flush
  <2> QED BY <2>3, <2>4, <2>5 DEF FileInv
<1> QED BY <1>2, <1>3

LEMMA FlushGoesOnTypes ==
  ASSUME FileInv, NEW f \in Flushers, FlushGoesOn(f)
  PROVE  FileInv'
<1>1. flush[f].promised \subseteq Uuids
  BY DEF FileInv, FileTypeOK
<1>2. FlushDrains(f, flush[f].promised)
  BY DEF FlushGoesOn
<1>3. FileTypeOK' /\ FlushOn'
  BY <1>1, <1>2, FlushDrainsTypes DEF FileInv, FileTypeOK, FlushGoesOn
<1>4. SnapInv'
  BY SnapKept DEF FileInv, FlushGoesOn
<1> QED BY <1>3, <1>4 DEF FileInv

LEMMA FlushWrittenTypes ==
  ASSUME FileInv, NEW f \in Flushers, FlushWritten(f)
  PROVE  FileInv'
<1>1. drains[f] \in Seq(Lines) /\ file \in Seq(Lines)
  BY DEF FileInv, FileTypeOK, Drainers
<1>2. file' \in Seq(Lines)
  BY <1>1, Joined DEF FlushWritten
<1>3. drains' \in [Drainers -> Seq(Lines)]
  BY DrainEmptied DEF FlushWritten, Drainers
<1>4. Counting \in {"counts", "returned"}
  BY DEF Counting
<1>5. /\ flush' \in [Flushers -> [pc : {"idle", "waits", "drains", "counts", "returned", "failed"},
                                  on : Timers \cup {None}, promised : SUBSET Uuids]]
      /\ FlushOn'
  BY <1>4 DEF FileInv, FileTypeOK, FlushWritten, FlushOn
<1>6. FileTypeOK'
  BY <1>2, <1>3, <1>5 DEF FileInv, FileTypeOK, FlushWritten
<1>7. SnapInv'
  BY <1>1, SnapKept DEF FileInv, FlushWritten
<1> QED BY <1>5, <1>6, <1>7 DEF FileInv

LEMMA FlushFailsTypes ==
  ASSUME FileInv, NEW f \in Flushers, FlushFails(f)
  PROVE  FileInv'
<1>1. drains[f] \in Seq(Lines)
  BY DEF FileInv, FileTypeOK, Drainers
<1>2. failed' \subseteq Uuids
  BY <1>1, OfTyped DEF FlushFails, FileInv, FileTypeOK
<1>3. drains' \in [Drainers -> Seq(Lines)]
  BY DrainEmptied DEF FlushFails, Drainers
<1>4. /\ flush' \in [Flushers -> [pc : {"idle", "waits", "drains", "counts", "returned", "failed"},
                                  on : Timers \cup {None}, promised : SUBSET Uuids]]
      /\ FlushOn'
  BY DEF FileInv, FileTypeOK, FlushFails, FlushOn
<1>5. FileTypeOK'
  BY <1>2, <1>3, <1>4 DEF FileInv, FileTypeOK, FlushFails
<1>6. SnapInv'
  BY SnapKept DEF FileInv, FlushFails
<1> QED BY <1>4, <1>5, <1>6 DEF FileInv

\* What is cut from a place on, also beyond the end.
LEMMA CutFrom ==
  ASSUME NEW s \in Seq(Lines), NEW n \in Nat
  PROVE  /\ SubSeq(s, n + 1, Len(s)) \in Seq(Lines)
         /\ Len(SubSeq(s, n + 1, Len(s))) = IF n <= Len(s) THEN Len(s) - n ELSE 0
         /\ \A i \in 1..(Len(s) - n) : SubSeq(s, n + 1, Len(s))[i] = s[n + i]
<1>0. Len(s) \in Nat
  BY InSequence
<1>1. CASE n <= Len(s)
  <2> DEFINE a == n + 1
             m == Len(s)
             r == SubSeq(s, a, m)
  <2>1. /\ a \in Nat \ {0} /\ m \in Nat /\ m <= Len(s) /\ a <= m + 1
        /\ m - a + 1 = m - n /\ \A i \in 1..(m - n) : a + i - 1 = n + i
    BY <1>0, <1>1
  <2> HIDE DEF a, m
  <2>2. /\ r \in Seq(Lines) /\ Len(r) = m - a + 1
        /\ \A i \in 1..(m - a + 1) : r[i] = s[a + i - 1]
    BY <2>1, Cut
  <2> HIDE DEF r
  <2>3. Len(r) = m - n /\ \A i \in 1..(m - n) : r[i] = s[n + i]
    BY <2>1, <2>2
  <2> QED BY <1>1, <2>2, <2>3 DEF r, a, m
<1>2. CASE ~(n <= Len(s))
  <2>1. Len(s) < n + 1 /\ n + 1 \in Nat
    BY <1>0, <1>2
  <2>2. SubSeq(s, n + 1, Len(s)) = <<>>
    BY <1>0, <2>1, CutNothing
  <2>3. \A i \in 1..(Len(s) - n) : FALSE
    BY <1>0, <1>2
  <2>4. <<>> \in Seq(Lines) /\ Len(<<>>) = 0
    OBVIOUS
  <2> QED BY <1>2, <2>2, <2>3, <2>4
<1> QED BY <1>1, <1>2

LEMMA LastPosition ==
  ASSUME NEW s \in Seq(Lines), NEW u, Position(u, s) # {}
  PROVE  LET i == CHOOSE i \in Position(u, s) : \A j \in Position(u, s) : j <= i
         IN i \in DOMAIN s /\ s[i].uuid = u
<1> DEFINE P == Position(u, s)
           N == {Len(s) - i : i \in P}
<1>1. Len(s) \in Nat /\ P \subseteq 1..Len(s)
  BY InSequence DEF Position
<1>2. N \in SUBSET Nat /\ N # {}
  BY <1>1
<1>3. PICK n \in N : \A k \in N : n <= k
  BY <1>2, Least
<1>4. PICK i \in P : n = Len(s) - i
  BY <1>3
<1>5. \A j \in P : j <= i
  <2> SUFFICES ASSUME NEW j \in P PROVE j <= i
    OBVIOUS
  <2>1. Len(s) - j \in N
    OBVIOUS
  <2>2. n <= Len(s) - j
    BY <1>3, <2>1
  <2> QED BY <1>1, <1>4, <2>2
<1>6. (CHOOSE k \in P : \A j \in P : j <= k) \in P
  BY <1>5
<1> QED BY <1>6 DEF Position

FlushTyped ==
  /\ flush \in [Flushers -> [pc : {"idle", "waits", "drains", "counts", "returned", "failed"},
                             on : Timers \cup {None}, promised : SUBSET Uuids]]
  /\ FlushOn

RemovalTyped ==
  removal \in [pc : {"idle", "reads", "cuts", "writes", "rereads", "rewrites"},
               target : Uuids \cup {Root}, snap : Seq(Lines), pos : Nat, targets : SUBSET Uuids]

LEMMA WokenTypes ==
  ASSUME FlushTyped, flush' = flush \/ Untrack
  PROVE  FlushTyped'
<1>1. CASE flush' = flush
  BY <1>1 DEF FlushTyped, FlushOn
<1>2. CASE Untrack
  <2>1. CASE tracked - 1 > 0
    BY <1>2, <2>1 DEF FlushTyped, FlushOn, Untrack, Woken
  <2>2. CASE ~(tracked - 1 > 0)
    <3>1. flush' = [f \in Flushers |-> IF flush[f].pc = "counts" THEN [flush[f] EXCEPT !.pc = "returned"] ELSE flush[f]]
      BY <1>2, <2>2 DEF Untrack, Woken
    <3> QED BY <3>1 DEF FlushTyped, FlushOn
  <2> QED BY <2>1, <2>2
<1> QED BY <1>1, <1>2

LEMMA RemovalEndsTypes ==
  ASSUME FileInv, RemovalEnds
  PROVE  FlushTyped' /\ RemovalTyped' /\ SnapInv'
<1>1. FlushTyped'
  <2>1. FlushTyped
    BY DEF FileInv, FileTypeOK, FlushTyped
  <2> QED BY <2>1, WokenTypes DEF RemovalEnds
<1>2. removal' = [NoRemoval EXCEPT !.targets = removal.targets]
  BY DEF RemovalEnds
<1>3. RemovalTyped'
  BY <1>2, NothingTyped DEF RemovalTyped, NoRemoval, FileInv, FileTypeOK
<1>4. removal'.pc = "idle"
  BY <1>2 DEF NoRemoval
<1>5. SnapInv'
  BY <1>4 DEF SnapInv
<1> QED BY <1>1, <1>3, <1>5

LEMMA TypesAgain ==
  ASSUME FileInv, FlushTyped', RemovalTyped', SnapInv', file' \in Seq(Lines), cut' \subseteq Uuids, tracked' \in Nat,
         UNCHANGED <<setup, queue, timer, drains, active, failed, overlapped>>
  PROVE  FileInv'
BY DEF FileInv, FileTypeOK, FlushTyped, RemovalTyped

LEMMA ReadTailTypes ==
  ASSUME FileInv, ReadTail, tracked' \in Nat
  PROVE  FileInv'
<1>0. FileTypeOK /\ FlushTyped /\ RemovalTyped /\ SnapInv
  BY DEF FileInv, FileTypeOK, FlushTyped, RemovalTyped
<1>1. CASE file = <<>>
  <2>1. RemovalEnds
    BY <1>1 DEF ReadTail
  <2> QED BY <1>0, <2>1, RemovalEndsTypes, TypesAgain DEF ReadTail, FileTypeOK
<1>2. CASE file # <<>>
  <2> DEFINE P == Position(removal.target, file)
             at == CHOOSE i \in P : \A j \in P : j <= i
  <2>1. /\ removal' = [removal EXCEPT !.pc = IF P = {} THEN "rereads" ELSE "cuts", !.snap = file,
                                      !.pos = IF P = {} THEN 0 ELSE at]
        /\ UNCHANGED <<tracked, flush, setup, queue, timer, drains, active, file, failed, cut, overlapped>>
    BY <1>2 DEF ReadTail
  <2>2. file \in Seq(Lines)
    BY <1>0 DEF FileTypeOK
  <2>3. P # {} => at \in DOMAIN file /\ file[at].uuid = removal.target
    BY <2>2, LastPosition
  <2>4. DOMAIN file \subseteq Nat /\ \A i \in DOMAIN file : file[i] = file[i]
    BY <2>2, InSequence
  <2> HIDE DEF at, P
  <2>5. RemovalTyped'
    BY <1>0, <2>1, <2>2, <2>3, <2>4 DEF RemovalTyped
  <2>6. FlushTyped'
    BY <1>0, <2>1 DEF FlushTyped, FlushOn
  <2>7. Begins(file, file)
    BY <2>2, InSequence DEF Begins
  <2>8. /\ removal'.pc = IF P = {} THEN "rereads" ELSE "cuts"
        /\ removal'.snap = file /\ removal'.target = removal.target /\ removal'.targets = removal.targets
        /\ removal'.pos = IF P = {} THEN 0 ELSE at
    BY <1>0, <2>1 DEF RemovalTyped
  <2>9. removal.pc # "idle"
    BY DEF ReadTail
  <2>10. SnapInv'
    BY <1>0, <2>1, <2>3, <2>7, <2>8, <2>9 DEF SnapInv
  <2>11. file' \in Seq(Lines) /\ cut' \subseteq Uuids
    BY <1>0, <2>1 DEF FileTypeOK
  <2> QED BY <2>1, <2>5, <2>6, <2>10, <2>11, TypesAgain
<1> QED BY <1>1, <1>2

LEMMA TruncateTypes ==
  ASSUME FileInv, Truncate, tracked' \in Nat
  PROVE  FileInv'
<1>0. FileTypeOK /\ FlushTyped /\ RemovalTyped /\ SnapInv /\ removal.pc = "cuts"
  BY DEF FileInv, FileTypeOK, FlushTyped, RemovalTyped, Truncate
<1> DEFINE n == removal.pos - 1
<1>1. removal.snap \in Seq(Lines) /\ file \in Seq(Lines) /\ n \in 0..Len(removal.snap)
  BY <1>0, SnapTyped, CutAt
<1>2. Begins(removal.snap, file)
  BY <1>0 DEF SnapInv
<1>3. /\ SubSeq(file, 1, n) \in Seq(Lines) /\ Begins(SubSeq(removal.snap, 1, n), SubSeq(file, 1, n))
  BY <1>1, <1>2, BeginsCut
<1>4. file' = SubSeq(file, 1, n)
  BY DEF Truncate
<1>5. cut' \subseteq Uuids
  <2>1. OnDisk \subseteq Uuids
    BY MovingTyped
  <2> QED BY <1>0, <2>1 DEF Truncate, FileTypeOK
<1>6. FlushTyped' /\ RemovalTyped' /\ SnapInv'
  <2>1. CASE removal.pos = Len(removal.snap)
    BY <2>1, RemovalEndsTypes DEF Truncate
  <2>2. CASE removal.pos # Len(removal.snap)
    <3>1. removal' = [removal EXCEPT !.pc = "writes"] /\ flush' = flush
      BY <2>2 DEF Truncate
    <3>2. RemovalTyped' /\ FlushTyped'
      BY <1>0, <3>1 DEF RemovalTyped, FlushTyped, FlushOn
    <3>3. /\ removal'.pc = "writes" /\ removal'.snap = removal.snap /\ removal'.pos = removal.pos
          /\ removal'.target = removal.target /\ removal'.targets = removal.targets
      BY <1>0, <3>1 DEF RemovalTyped
    <3>4. Begins(SubSeq(removal'.snap, 1, removal'.pos - 1), file')
      BY <1>3, <1>4, <3>3
    <3>5. SnapInv'
      BY <1>0, <3>3, <3>4 DEF SnapInv
    <3> QED BY <3>2, <3>5
  <2> QED BY <2>1, <2>2
<1> QED BY <1>3, <1>4, <1>5, <1>6, TypesAgain DEF Truncate

\* What is written back, and what stays behind it.
LEMMA BackTyped ==
  ASSUME FileInv, removal.pc = "writes"
  PROVE  LET end == removal.pos - 1 + Len(After)
         IN /\ SubSeq(file, 1, removal.pos - 1) \in Seq(Lines) /\ After \in Seq(Lines) /\ end \in Nat
            /\ SubSeq(file, end + 1, Len(file)) \in Seq(Lines)
            /\ Len(SubSeq(file, 1, removal.pos - 1)) = removal.pos - 1
            /\ \A i \in 1..(removal.pos - 1) : SubSeq(file, 1, removal.pos - 1)[i] = file[i] /\ file[i] = removal.snap[i]
            /\ Len(After) = Len(removal.snap) - removal.pos
            /\ \A i \in 1..Len(After) : After[i] = removal.snap[removal.pos + i]
<1>0. FileTypeOK /\ SnapInv
  BY DEF FileInv
<1> DEFINE n == removal.pos - 1
           s == removal.snap
<1>1. /\ s \in Seq(Lines) /\ file \in Seq(Lines) /\ n \in 0..Len(s) /\ removal.pos \in 1..Len(s)
      /\ Begins(SubSeq(s, 1, n), file) /\ n <= Len(file) /\ n \in Nat /\ Len(s) \in Nat /\ Len(file) \in Nat
  BY <1>0, SnapTyped, CutAt, InSequence
<1> DEFINE p == SubSeq(file, 1, n)
           q == SubSeq(s, 1, n)
<1>2. n - 1 + 1 = n /\ 1 <= n + 1 /\ n <= Len(s) /\ \A i \in 1..n : 1 + i - 1 = i
  BY <1>1
<1>3. /\ p \in Seq(Lines) /\ Len(p) = n - 1 + 1 /\ \A i \in 1..(n - 1 + 1) : p[i] = file[1 + i - 1]
      /\ q \in Seq(Lines) /\ Len(q) = n - 1 + 1 /\ \A i \in 1..(n - 1 + 1) : q[i] = s[1 + i - 1]
  BY <1>1, <1>2, Cut
<1>4. removal.pos \in Nat /\ removal.pos <= Len(s)
  BY <1>1
<1>5. After \in Seq(Lines) /\ Len(After) = Len(s) - removal.pos /\ \A i \in 1..Len(After) : After[i] = s[removal.pos + i]
  <2>1. /\ SubSeq(s, removal.pos + 1, Len(s)) \in Seq(Lines)
        /\ Len(SubSeq(s, removal.pos + 1, Len(s))) = Len(s) - removal.pos
        /\ \A i \in 1..(Len(s) - removal.pos) : SubSeq(s, removal.pos + 1, Len(s))[i] = s[removal.pos + i]
    BY <1>1, <1>4, CutFrom
  <2> QED BY <2>1 DEF After
<1> HIDE DEF p, q
<1>6. Len(p) = n /\ \A i \in 1..n : p[i] = file[i]
  BY <1>2, <1>3
<1>7. Len(q) = n /\ DOMAIN q = 1..n /\ \A i \in 1..n : q[i] = s[i]
  BY <1>2, <1>3, InSequence
<1>8. \A i \in 1..n : file[i] = s[i]
  <2>1. Begins(q, file)
    BY <1>1 DEF q
  <2> QED BY <1>7, <2>1 DEF Begins
<1> DEFINE end == n + Len(After)
<1>9. end \in Nat
  BY <1>1, <1>5
<1>10. SubSeq(file, end + 1, Len(file)) \in Seq(Lines)
  BY <1>1, <1>9, CutFrom
<1> QED BY <1>3, <1>5, <1>6, <1>8, <1>9, <1>10 DEF p

LEMMA WriteBackTypes ==
  ASSUME FileInv, WriteBack, tracked' \in Nat
  PROVE  FileInv'
<1>0. FileTypeOK /\ removal.pc = "writes" /\ RemovalEnds
  BY DEF FileInv, WriteBack
<1> DEFINE end == removal.pos - 1 + Len(After)
           p == SubSeq(file, 1, removal.pos - 1)
           t == SubSeq(file, end + 1, Len(file))
<1>1. p \in Seq(Lines) /\ After \in Seq(Lines) /\ t \in Seq(Lines)
  BY <1>0, BackTyped
<1>2. file' = p \o After \o t
  BY DEF WriteBack
<1>3. cut' = cut \cup (Of(SubSeq(file, removal.pos, Len(file))) \ Of(file'))
  BY DEF WriteBack
<1> HIDE DEF p, t
<1>4. file' \in Seq(Lines)
  BY <1>1, <1>2, Joined
<1>5. cut' \subseteq Uuids
  <2>1. /\ file \in Seq(Lines) /\ removal.pos - 1 \in Nat /\ removal.pos - 1 + 1 = removal.pos
    BY <1>0, SnapTyped, CutAt DEF FileInv
  <2>2. SubSeq(file, removal.pos, Len(file)) \in Seq(Lines)
    BY <2>1, CutFrom
  <2> QED BY <1>0, <1>3, <2>2, OfTyped DEF FileTypeOK
<1> QED BY <1>0, <1>4, <1>5, RemovalEndsTypes, TypesAgain DEF WriteBack

LEMMA RereadTypes ==
  ASSUME FileInv, Reread
  PROVE  FileInv'
<1>0. FileTypeOK /\ FlushTyped /\ RemovalTyped /\ SnapInv /\ removal.pc = "rereads"
  BY DEF FileInv, FileTypeOK, FlushTyped, RemovalTyped, Reread
<1>1. removal' = [removal EXCEPT !.pc = "rewrites", !.snap = file]
  BY DEF Reread
<1>2. file \in Seq(Lines)
  BY <1>0 DEF FileTypeOK
<1>3. /\ removal'.pc = "rewrites" /\ removal'.snap = file
      /\ removal'.target = removal.target /\ removal'.targets = removal.targets
      /\ RemovalTyped'
  BY <1>0, <1>1, <1>2 DEF RemovalTyped
<1>4. Begins(file, file)
  BY <1>2, InSequence DEF Begins
<1>5. file' = file
  BY DEF Reread
<1>6. SnapInv'
  BY <1>0, <1>3, <1>4, <1>5 DEF SnapInv
<1>7. FlushTyped'
  BY <1>0 DEF FlushTyped, FlushOn, Reread
<1>8. file' \in Seq(Lines) /\ cut' \subseteq Uuids /\ tracked' \in Nat
  BY <1>0 DEF FileTypeOK, Reread
<1> QED BY <1>3, <1>6, <1>7, <1>8, TypesAgain DEF Reread

LEMMA RewriteTypes ==
  ASSUME FileInv, Rewrite, tracked' \in Nat
  PROVE  FileInv'
<1>0. FileTypeOK /\ RemovalEnds
  BY DEF FileInv, Rewrite
<1>1. file' \in Seq(Lines)
  <2>1. removal.snap \in Seq(Lines)
    BY <1>0, SnapTyped
  <2> QED BY <2>1, SelectedElements DEF Rewrite
<1>2. cut' \subseteq Uuids
  <2>1. OnDisk \subseteq Uuids
    BY MovingTyped
  <2> QED BY <1>0, <2>1 DEF Rewrite, FileTypeOK
<1> QED BY <1>0, <1>1, <1>2, RemovalEndsTypes, TypesAgain DEF Rewrite

LEMMA TypeInvIs == TypeInv <=> FileInv /\ ScreenTypes /\ CallTypes /\ Counted /\ CallsInv
BY TypeParts DEF TypeInv, FileInv, FlushOn

LEMMA TypeInvAgain ==
  ASSUME FileInv', ScreenTypes', CallTypes', Counted', CallsInv'
  PROVE  TypeInv'
<1>1. TypeOK' <=> (FileTypeOK /\ ScreenTypes /\ CallTypes /\ Counted)'
  BY DEF TypeOK, ScreenTypes, CallTypes, Call, Counted, Appending, Removing
<1> QED BY <1>1 DEF TypeInv, FileInv, FlushOn

LEMMA FileStepTypes ==
  ASSUME TypeInv, AnyFileStep
  PROVE  TypeInv'
<1>0. FileInv /\ ScreenTypes /\ CallTypes /\ Counted /\ CallsInv /\ setup \in Setups
  BY TypeInvIs DEF FileInv, FileTypeOK
<1>1. ScreenTypes' /\ CallTypes' /\ CallsInv'
  BY <1>0 DEF AnyFileStep, screenVars, callVars, ScreenTypes, CallTypes, CallsInv
<1>2. calls' = calls
  BY DEF AnyFileStep, callVars
<1>3. setup.timers \subseteq Timers /\ setup.flushers \subseteq Flushers
  BY <1>0, SetupIs
<1>4. ASSUME DrainStep \/ FlushStep \/ \E f \in setup.flushers : Flush(f) PROVE Counted' /\ FileInv'
  <2>1. removal' = removal /\ tracked' = tracked
    BY <1>4 DEF DrainStep, FlushStep, TimerFires, Written, WriteFails, FlushGoesOn, FlushWritten, FlushFails, Flush
  <2>2. Counted'
    BY <1>0, <1>2, <2>1, CountedRemoval
  <2>3. ASSUME NEW d \in setup.timers, TimerFires(d) \/ Written(d) \/ WriteFails(d) PROVE FileInv'
    <3>1. d \in Timers
      BY <1>3
    <3> QED BY <1>0, <2>3, <3>1, TimerFiresTypes, WrittenTypes, WriteFailsTypes
  <2>4. ASSUME NEW f \in setup.flushers, FlushGoesOn(f) \/ FlushWritten(f) \/ FlushFails(f) \/ Flush(f) PROVE FileInv'
    <3>1. f \in Flushers
      BY <1>3
    <3> QED BY <1>0, <2>4, <3>1, FlushGoesOnTypes, FlushWrittenTypes, FlushFailsTypes, FlushTypes
  <2> QED BY <1>4, <2>2, <2>3, <2>4 DEF DrainStep, FlushStep
<1>5. ASSUME RemovalStep PROVE Counted' /\ FileInv'
  <2>0. RemovalEnds => removal'.pc = "idle" /\ tracked' = tracked - 1
    BY DEF RemovalEnds, Untrack, NoRemoval
  <2>1. removal.pc # "idle"
    BY <1>5 DEF RemovalStep, ReadTail, Truncate, WriteBack, Reread, Rewrite
  <2>2. RemovalEnds \/ (removal'.pc # "idle" /\ tracked' = tracked)
    <3>1. CASE ReadTail
      BY <1>0, <3>1 DEF ReadTail, FileInv, FileTypeOK
    <3>2. CASE Truncate
      BY <1>0, <3>2 DEF Truncate, FileInv, FileTypeOK
    <3>3. CASE Reread
      BY <1>0, <3>3 DEF Reread, FileInv, FileTypeOK
    <3>4. CASE WriteBack \/ Rewrite
      BY <3>4 DEF WriteBack, Rewrite
    <3> QED BY <1>5, <3>1, <3>2, <3>3, <3>4 DEF RemovalStep
  <2>3. Counted'
    BY <1>0, <1>2, <2>0, <2>1, <2>2, CountedRemoval
  <2>4. tracked' \in Nat
    BY <1>1, <2>3, CountedTyped, AppendingTyped DEF Counted, Removing, CallTypes, Appending, AnyFileStep, callVars
  <2> QED BY <1>0, <1>5, <2>3, <2>4, ReadTailTypes, TruncateTypes, WriteBackTypes, RereadTypes, RewriteTypes DEF RemovalStep
<1>6. Counted' /\ FileInv'
  BY <1>4, <1>5 DEF AnyFileStep, FileStep
<1> QED BY <1>1, <1>6, TypeInvAgain

-----------------------------------------------------------------------------
(* Types: the screen and the calls                                           *)

LEMMA FileKept ==
  ASSUME FileInv, UNCHANGED fileVars
  PROVE  FileInv'
BY DEF FileInv, FileTypeOK, FlushOn, SnapInv, fileVars

LEMMA StutterTypes ==
  ASSUME TypeInv, UNCHANGED vars
  PROVE  TypeInv'
<1>0. FileInv /\ ScreenTypes /\ CallTypes /\ Counted /\ CallsInv
  BY TypeInvIs
<1>1. FileInv'
  BY <1>0, FileKept DEF vars
<1>2. ScreenTypes' /\ CallTypes' /\ Counted' /\ CallsInv'
  BY <1>0 DEF vars, fileVars, screenVars, callVars, ScreenTypes, CallTypes, CallsInv, Counted, Appending, Removing
<1> QED BY <1>1, <1>2, TypeInvAgain

LEMMA SayTypes ==
  ASSUME TypeInv, Say
  PROVE  TypeInv'
<1>0. FileInv /\ ScreenTypes /\ CallTypes /\ Counted /\ CallsInv /\ setup \in Setups
  BY TypeInvIs DEF FileInv, FileTypeOK
<1>1. FileInv'
  BY <1>0, FileKept DEF Say
<1>2. made + 1 \in Uuids /\ made \in Nat
  BY <1>0, SetupIs DEF Say, ScreenTypes
<1>3. messages' \in Seq(Uuids)
  BY <1>0, <1>2, Appended DEF Say, ScreenTypes
<1>4. ScreenTypes'
  BY <1>0, <1>2, <1>3 DEF Say, ScreenTypes
<1>5. CallTypes' /\ Counted' /\ CallsInv'
  BY <1>0 DEF Say, fileVars, callVars, CallTypes, CallsInv, Counted, Appending, Removing
<1> QED BY <1>1, <1>4, <1>5, TypeInvAgain

LEMMA TombstoneTypes ==
  ASSUME TypeInv, Tombstone
  PROVE  TypeInv'
<1>0. FileInv /\ ScreenTypes /\ CallTypes /\ Counted /\ CallsInv /\ setup \in Setups
  BY TypeInvIs DEF FileInv, FileTypeOK
<1>1. messages' \in Seq(Uuids) /\ Last(messages) \in Uuids
  BY <1>0, Ended DEF Tombstone, ScreenTypes
<1> DEFINE u == Last(messages)
<1> HIDE DEF u
<1>2. \/ /\ removal.pc = "idle" /\ tracked' = tracked + 1
         /\ removal' = [removal EXCEPT !.pc = "reads", !.target = u, !.targets = @ \cup {u}]
      \/ removal' = [removal EXCEPT !.targets = @ \cup {u}] /\ tracked' = tracked
  BY DEF Tombstone, RemoveMessage, u
<1>3. RemovalTyped
  BY <1>0 DEF FileInv, FileTypeOK, RemovalTyped
<1>4. u \in Uuids
  BY <1>1 DEF u
<1>5. RemovalTyped'
  BY <1>2, <1>3, <1>4 DEF RemovalTyped
<1>6. calls' = calls
  BY DEF Tombstone, callVars
<1>7. Counted'
  <2>1. \/ removal'.pc = removal.pc /\ tracked' = tracked
        \/ removal.pc = "idle" /\ removal'.pc # "idle" /\ tracked' = tracked + 1
    BY <1>2, <1>3 DEF RemovalTyped
  <2> QED BY <1>0, <1>6, <2>1, CountedRemoval
<1>8. SnapInv'
  <2>1. CASE removal' = [removal EXCEPT !.pc = "reads", !.target = u, !.targets = @ \cup {u}]
    <3>1. removal'.pc = "reads" /\ removal'.target \in removal'.targets
      BY <1>3, <2>1 DEF RemovalTyped
    <3> QED BY <3>1 DEF SnapInv
  <2>2. CASE removal' = [removal EXCEPT !.targets = @ \cup {u}]
    <3>1. /\ removal'.pc = removal.pc /\ removal'.target = removal.target /\ removal'.snap = removal.snap
          /\ removal'.pos = removal.pos /\ removal.targets \subseteq removal'.targets
      BY <1>3, <2>2 DEF RemovalTyped
    <3>2. SnapInv /\ file' = file
      BY <1>0 DEF FileInv, Tombstone
    <3> QED BY <3>1, <3>2 DEF SnapInv
  <2> QED BY <1>2, <2>1, <2>2
<1>9. tracked' \in Nat
  <2>1. tracked \in Nat
    BY <1>0, CountedTyped
  <2> QED BY <1>2, <2>1
<1>10. FileInv'
  BY <1>0, <1>5, <1>8, <1>9 DEF FileInv, FileTypeOK, FlushOn, RemovalTyped, Tombstone
<1>11. ScreenTypes'
  BY <1>0, <1>1 DEF ScreenTypes, Tombstone
<1>12. CallTypes' /\ CallsInv'
  BY <1>0 DEF Tombstone, callVars, CallTypes, CallsInv
<1> QED BY <1>7, <1>10, <1>11, <1>12, TypeInvAgain

\* What the effect does: there may be nothing to pass.
Passes(slice, incremental) ==
  /\ slice # <<>>
  /\ calls' = Append(calls, Called(slice, ~incremental, IF incremental THEN hook.parent ELSE Root))
  /\ handed' = handed \cup Elements(slice)
  /\ beside' = (beside \/ \E c \in DOMAIN calls : calls[c].pc # "over")
  /\ messages # <<>>

LEMMA RenderIs ==
  ASSUME ScreenTypes, Render
  PROVE  \E slice \in Seq(Uuids), incremental \in BOOLEAN, n \in 0..Len(messages) :
           /\ slice = SubSeq(messages, n + 1, Len(messages)) /\ Len(slice) = Len(messages) - n
           /\ incremental <=> messages # <<>> /\ hook.first # Root /\ hook.first = messages[1] /\ hook.length <= Len(messages)
           /\ n = IF incremental THEN hook.length ELSE 0
           /\ astray' = (astray \/ ~Elements(messages) \subseteq handed'
                           \/ ((\E c \in DOMAIN calls : calls[c].pc # "over") /\ ~incremental /\ slice # <<>>))
           /\ \/ slice = <<>> /\ UNCHANGED <<hook, calls, handed, beside>>
              \/ /\ Passes(slice, incremental)
                 /\ hook' = [length |-> Len(messages), first |-> messages[1],
                             parent |-> IF \/ incremental \/ hook.first = Root
                                           \/ hook.first = messages[1] /\ hook.length > Len(messages)
                                        THEN Last(slice) ELSE hook.parent]
<1> DEFINE first       == messages # <<>> /\ hook.first = Root
           same        == messages # <<>> /\ ~first /\ hook.first = Head(messages)
           incremental == same /\ hook.length <= Len(messages)
           shrink      == same /\ hook.length > Len(messages)
           n           == IF incremental THEN hook.length ELSE 0
           slice       == SubSeq(messages, n + 1, Len(messages))
           busy        == \E c \in DOMAIN calls : calls[c].pc # "over"
<1>1. messages \in Seq(Uuids) /\ hook.length \in Nat /\ Len(messages) \in Nat
  BY InSequence DEF ScreenTypes
<1>2. n \in 0..Len(messages) /\ incremental \in BOOLEAN
  BY <1>1
<1>3. messages # <<>> => Head(messages) = messages[1]
  BY <1>1, Behind
<1>4. /\ IF slice = <<>> THEN UNCHANGED <<hook, calls, handed, beside>>
         ELSE /\ calls' = Append(calls, Called(slice, ~incremental, IF incremental THEN hook.parent ELSE Root))
              /\ hook' = [length |-> Len(messages), first |-> Head(messages),
                          parent |-> IF SyncWalk(incremental, first, shrink) THEN Last(slice) ELSE hook.parent]
              /\ handed' = handed \cup Elements(slice)
              /\ beside' = (beside \/ busy)
      /\ astray' = (astray \/ ~Elements(messages) \subseteq handed' \/ (busy /\ ~incremental /\ slice # <<>>))
  BY DEF Render
<1>5. incremental <=> messages # <<>> /\ hook.first # Root /\ hook.first = messages[1] /\ hook.length <= Len(messages)
  BY <1>3
<1>6. slice \in Seq(Uuids) /\ Len(slice) = Len(messages) - n
  <2> HIDE DEF n
  <2>1. n + 1 \in Nat \ {0} /\ n + 1 <= Len(messages) + 1 /\ Len(messages) - (n + 1) + 1 = Len(messages) - n
    BY <1>1, <1>2
  <2> DEFINE a == n + 1
             m == Len(messages)
  <2>2. a \in Nat \ {0} /\ m \in Nat /\ m <= Len(messages) /\ a <= m + 1 /\ m - a + 1 = m - n
    BY <1>1, <2>1
  <2> HIDE DEF a, m
  <2>3. SubSeq(messages, a, m) \in Seq(Uuids) /\ Len(SubSeq(messages, a, m)) = m - a + 1
    BY <1>1, <2>2, Cut
  <2> QED BY <2>2, <2>3 DEF a, m
<1>7. slice # <<>> => messages # <<>>
  <2>1. messages = <<>> => Len(messages) = 0 /\ n = 0
    BY <1>1, <1>2
  <2> HIDE DEF n
  <2>2. messages = <<>> => Len(slice) = 0
    BY <1>6, <2>1
  <2> HIDE DEF slice
  <2> QED BY <1>6, <2>2, Nothing
<1>8. messages # <<>> =>
        (incremental \/ first \/ shrink <=>
           incremental \/ hook.first = Root \/ (hook.first = messages[1] /\ hook.length > Len(messages)))
  <2> SUFFICES ASSUME messages # <<>>
               PROVE  incremental \/ first \/ shrink <=>
                        incremental \/ hook.first = Root \/ (hook.first = messages[1] /\ hook.length > Len(messages))
    OBVIOUS
  <2>1. first <=> hook.first = Root
    OBVIOUS
  <2>2. shrink <=> hook.first # Root /\ hook.first = messages[1] /\ hook.length > Len(messages)
    BY <1>3
  <2> HIDE DEF incremental, first, shrink, same
  <2>3. incremental => hook.first # Root
    BY DEF incremental, same, first
  <2> QED BY <2>1, <2>2, <2>3
<1> HIDE DEF incremental, first, same, shrink, n, slice, busy
<1>10. SyncWalk(incremental, first, shrink) <=> incremental \/ first \/ shrink
  BY DEF SyncWalk
<1>12. ASSUME slice # <<>>
       PROVE  /\ Passes(slice, incremental)
              /\ hook' = [length |-> Len(messages), first |-> messages[1],
                             parent |-> IF \/ incremental \/ hook.first = Root
                                           \/ hook.first = messages[1] /\ hook.length > Len(messages)
                                        THEN Last(slice) ELSE hook.parent]
  <2>1. messages # <<>> /\ Head(messages) = messages[1]
    BY <1>3, <1>7, <1>12
  <2>2. beside' = (beside \/ \E c \in DOMAIN calls : calls[c].pc # "over")
    BY <1>4, <1>12 DEF busy
  <2>3. Passes(slice, incremental)
    BY <1>4, <1>12, <2>1, <2>2 DEF Passes
  <2>4. SyncWalk(incremental, first, shrink) <=>
          incremental \/ hook.first = Root \/ (hook.first = messages[1] /\ hook.length > Len(messages))
    BY <1>8, <1>10, <2>1
  <2> QED BY <1>4, <1>12, <2>1, <2>3, <2>4
<1>13. /\ IF slice = <<>> THEN UNCHANGED <<hook, calls, handed, beside>> ELSE TRUE
       /\ astray' = (astray \/ ~Elements(messages) \subseteq handed'
                       \/ ((\E c \in DOMAIN calls : calls[c].pc # "over") /\ ~incremental /\ slice # <<>>))
  BY <1>4 DEF busy
<1>9. slice = SubSeq(messages, n + 1, Len(messages)) /\ n = IF incremental THEN hook.length ELSE 0
  BY DEF slice, n
<1> QED BY <1>2, <1>5, <1>6, <1>9, <1>12, <1>13

LEMMA RenderTypes ==
  ASSUME TypeInv, Render
  PROVE  TypeInv'
<1>0. FileInv /\ ScreenTypes /\ CallTypes /\ Counted /\ CallsInv
  BY TypeInvIs
<1>1. PICK slice \in Seq(Uuids), incremental \in BOOLEAN, n \in 0..Len(messages) :
           /\ astray' = (astray \/ ~Elements(messages) \subseteq handed'
                           \/ ((\E c \in DOMAIN calls : calls[c].pc # "over") /\ ~incremental /\ slice # <<>>))
           /\ \/ slice = <<>> /\ UNCHANGED <<hook, calls, handed, beside>>
              \/ /\ Passes(slice, incremental)
                 /\ hook' = [length |-> Len(messages), first |-> messages[1],
                             parent |-> IF \/ incremental \/ hook.first = Root
                                           \/ hook.first = messages[1] /\ hook.length > Len(messages)
                                        THEN Last(slice) ELSE hook.parent]
  BY <1>0, RenderIs
<1>2. FileInv'
  BY <1>0, FileKept DEF Render
<1>3. shown' = messages /\ UNCHANGED <<messages, made, known, pending, materialized, fileVars>>
  BY DEF Render
<1>4. astray' \in BOOLEAN
  BY <1>0, <1>1 DEF ScreenTypes
<1>5. CASE UNCHANGED <<hook, calls, handed, beside>>
  <2>1. ScreenTypes' /\ CallTypes' /\ Counted' /\ CallsInv'
    BY <1>0, <1>3, <1>4, <1>5 DEF ScreenTypes, CallTypes, CallsInv, Counted, Appending, Removing, fileVars
  <2> QED BY <1>2, <2>1, TypeInvAgain
<1>6. CASE Passes(slice, incremental) /\ hook' = [length |-> Len(messages), first |-> messages[1],
                             parent |-> IF \/ incremental \/ hook.first = Root
                                           \/ hook.first = messages[1] /\ hook.length > Len(messages)
                                        THEN Last(slice) ELSE hook.parent]
  <2>1. /\ messages \in Seq(Uuids) /\ messages # <<>> /\ Len(messages) \in Nat /\ messages[1] \in Uuids
        /\ Last(slice) \in Uuids /\ Elements(slice) \subseteq Uuids
    BY <1>0, <1>6, InSequence, Behind, Ended, ElementsTyped DEF ScreenTypes, Passes
  <2>2. ScreenTypes'
    BY <1>0, <1>3, <1>4, <1>6, <2>1 DEF ScreenTypes, Passes
  <2> DEFINE call == Called(slice, ~incremental, IF incremental THEN hook.parent ELSE Root)
  <2>3. call \in Call /\ call.pc = "loads" /\ call.lines = <<>> /\ call.slice # <<>>
    BY <1>0, <1>6, NothingTyped DEF Call, Called, ScreenTypes, Passes
  <2>4. calls' = Append(calls, call) /\ calls \in Seq(Call)
    BY <1>0, <1>6 DEF Passes, CallTypes
  <2> HIDE DEF call
  <2>5. /\ calls' \in Seq(Call) /\ Len(calls') = Len(calls) + 1 /\ calls'[Len(calls) + 1] = call
        /\ \A c \in 1..Len(calls) : calls'[c] = calls[c]
        /\ DOMAIN calls = 1..Len(calls) /\ Len(calls) \in Nat /\ DOMAIN calls' = 1..(Len(calls) + 1)
    BY <2>3, <2>4, Appended, InSequence
  <2>6. \A c \in DOMAIN calls' : c \in DOMAIN calls \/ c = Len(calls) + 1
    BY <2>5
  <2>7. CallTypes'
    BY <1>0, <1>3, <2>5 DEF CallTypes
  <2>8. CallsInv'
    BY <1>0, <2>3, <2>5, <2>6 DEF CallsInv
  <2>9. Appending' = Appending
    <3>1. \A c \in DOMAIN calls : c \in DOMAIN calls'
      BY <2>5
    <3> QED BY <2>3, <2>5, <2>6, <3>1 DEF Appending
  <2>10. Counted'
    BY <1>0, <1>3, <2>9 DEF Counted, Removing, fileVars
  <2> QED BY <1>2, <2>2, <2>7, <2>8, <2>10, TypeInvAgain
<1> QED BY <1>1, <1>5, <1>6

\* The elements that are not in S are found, in their order.
FindsOthers(f, r, s, S) ==
  /\ f \in [1..Len(r) -> 1..Len(s)]
  /\ \A a \in 1..Len(r) : r[a] = s[f[a]] /\ r[a] \notin S
  /\ \A a, b \in 1..Len(r) : a < b => f[a] < f[b]
  /\ \A i \in 1..Len(s) : s[i] \notin S => \E a \in 1..Len(r) : f[a] = i

LEMMA RejectedFound ==
  ASSUME NEW T, NEW s \in Seq(T), NEW S
  PROVE  /\ Rejected(s, S) \in Seq(T) /\ \E f : FindsOthers(f, Rejected(s, S), s, S)
<1> DEFINE E == {s[i] : i \in DOMAIN s} \ S
           r == Selected(s, E)
<1>1. r \in Seq(T) /\ \E f : Finds(f, r, Len(s), s, E)
  BY SelectedFound
<1>2. PICK f : Finds(f, r, Len(s), s, E)
  BY <1>1
<1>3. \A i \in 1..Len(s) : s[i] \in E <=> s[i] \notin S
  BY InSequence
<1>4. Rejected(s, S) = r
  BY DEF Rejected
<1> HIDE DEF r, E
<1>5. /\ f \in [1..Len(r) -> 1..Len(s)]
      /\ \A a \in 1..Len(r) : r[a] = s[f[a]] /\ s[f[a]] \in E /\ f[a] \in 1..Len(s)
      /\ \A a, b \in 1..Len(r) : a < b => f[a] < f[b]
      /\ \A i \in 1..Len(s) : s[i] \in E => \E a \in 1..Len(r) : f[a] = i
  BY <1>2 DEF Finds
<1>6. FindsOthers(f, r, s, S)
  BY <1>3, <1>5 DEF FindsOthers
<1> QED BY <1>1, <1>4, <1>6

LEMMA RejectedElements ==
  ASSUME NEW T, NEW s \in Seq(T), NEW S, NEW r, r = Rejected(s, S)
  PROVE  /\ r \in Seq(T)
         /\ Elements(r) = Elements(s) \ S
<1>1. r \in Seq(T) /\ \E f : FindsOthers(f, r, s, S)
  BY RejectedFound
<1>2. PICK f : FindsOthers(f, r, s, S)
  BY <1>1
<1>3. \A a \in 1..Len(r) : r[a] \notin S /\ \E i \in 1..Len(s) : s[i] = r[a]
  BY <1>2 DEF FindsOthers
<1>4. \A i \in 1..Len(s) : s[i] \notin S => \E a \in 1..Len(r) : r[a] = s[i]
  BY <1>2 DEF FindsOthers
<1>5. /\ \A u : u \in Elements(r) <=> \E a \in 1..Len(r) : r[a] = u
      /\ \A u : u \in Elements(s) <=> \E i \in 1..Len(s) : s[i] = u
  BY <1>1, ElementsTyped
<1>6. \A u : u \in Elements(r) => u \in Elements(s) \ S
  BY <1>3, <1>5
<1>7. \A u : u \in Elements(s) \ S => u \in Elements(r)
  BY <1>4, <1>5
<1> QED BY <1>1, <1>6, <1>7

LEMMA ChainIs ==
  ASSUME NEW new \in Seq(Uuids), NEW start \in Uuids \cup {Root}
  PROVE  /\ Chain(new, start) \in Seq(Lines) /\ Len(Chain(new, start)) = Len(new)
         /\ \A i \in 1..Len(new) : /\ Chain(new, start)[i].uuid = new[i]
                                   /\ Chain(new, start)[i].parent = IF i = 1 THEN start ELSE new[i - 1]
         /\ Of(Chain(new, start)) = Elements(new)
<1> DEFINE c == Chain(new, start)
           n == Len(new)
<1>1. n \in Nat /\ DOMAIN new = 1..n /\ \A i \in 1..n : new[i] \in Uuids
  BY InSequence
<1>2. c = [i \in 1..n |-> Line(new[i], IF i = 1 THEN start ELSE new[i - 1])]
  BY <1>1 DEF Chain
<1> HIDE DEF c, n
<1>3. ASSUME NEW i \in 1..n PROVE Line(new[i], IF i = 1 THEN start ELSE new[i - 1]) \in Lines
  <2>1. i # 1 => i - 1 \in 1..n
    BY <1>1
  <2>2. new[i] \in Uuids /\ (IF i = 1 THEN start ELSE new[i - 1]) \in Uuids \cup {Root}
    BY <1>1, <2>1
  <2> QED BY <2>2 DEF Line, Lines
<1>4. c \in [1..n -> Lines]
  BY <1>2, <1>3
<1>5. c \in Seq(Lines) /\ Len(c) = n
  BY <1>1, <1>4
<1>6. \A i \in 1..n : c[i].uuid = new[i] /\ c[i].parent = IF i = 1 THEN start ELSE new[i - 1]
  BY <1>2 DEF Line
<1>7. Of(c) = Elements(new)
  <2>1. \A u : u \in Of(c) <=> \E i \in 1..n : c[i].uuid = u
    BY <1>5, OfTyped
  <2>2. \A u : u \in Elements(new) <=> \E i \in 1..n : new[i] = u
    BY ElementsTyped DEF n
  <2>3. \A u : u \in Of(c) <=> u \in Elements(new)
    BY <1>6, <2>1, <2>2
  <2> QED BY <2>3
<1> QED BY <1>5, <1>6, <1>7 DEF c, n

\* Where the known prefix ends.
LEMMA StartIs ==
  ASSUME NEW slice \in Seq(Uuids), NEW hint
  PROVE  \E k \in 0..Len(slice) :
           /\ \A i \in 1..k : slice[i] \in known
           /\ k < Len(slice) => slice[k + 1] \notin known
           /\ Start(slice, hint) = IF k = 0 THEN hint ELSE slice[k]
<1> DEFINE prefix == {i \in DOMAIN slice : \A j \in 1..i : slice[j] \in known}
           m == Len(slice)
           N == {k \in 0..m : k = m \/ slice[k + 1] \notin known}
<1>1. m \in Nat /\ DOMAIN slice = 1..m
  BY InSequence
<1>2. N \in SUBSET Nat /\ m \in N
  BY <1>1
<1> HIDE DEF N, m
<1>3. PICK k \in N : \A n \in N : k <= n
  BY <1>2, Least
<1>4. k \in 0..m /\ (k < m => slice[k + 1] \notin known)
  <2>1. \A i \in N : i \in 0..m /\ (i = m \/ slice[i + 1] \notin known)
    BY DEF N
  <2>2. k \in 0..m /\ (k = m \/ slice[k + 1] \notin known)
    BY <1>3, <2>1
  <2>3. k < m => k # m
    BY <1>1, <2>2
  <2> QED BY <2>2, <2>3
<1>5. \A i \in 1..k : slice[i] \in known
  <2> SUFFICES ASSUME NEW i \in 1..k, slice[i] \notin known PROVE FALSE
    OBVIOUS
  <2>1. i - 1 \in 0..m /\ (i - 1) + 1 = i /\ i - 1 < k /\ k \in Nat /\ i - 1 \in Nat
    BY <1>1, <1>4
  <2>2. i - 1 \in N
    BY <2>1 DEF N
  <2> QED BY <1>3, <2>1, <2>2
<1>6. prefix = 1..k
  <2>1. \A i \in 1..k : i \in prefix
    <3> SUFFICES ASSUME NEW i \in 1..k PROVE i \in prefix
      OBVIOUS
    <3>1. i \in 1..m /\ \A j \in 1..i : j \in 1..k
      BY <1>1, <1>4
    <3> QED BY <1>1, <1>5, <3>1
  <2>2. ASSUME NEW i \in prefix PROVE i \in 1..k
    <3>1. i \in 1..m /\ \A j \in 1..i : slice[j] \in known
      BY <1>1
    <3>2. ~(i > k)
      <4> SUFFICES ASSUME i > k PROVE FALSE
        BY <1>1, <1>4, <3>1
      <4>1. k + 1 \in 1..i /\ k < m
        BY <1>1, <1>4, <3>1
      <4> QED BY <1>4, <3>1, <4>1
    <3> QED BY <1>1, <1>4, <3>1, <3>2
  <2> HIDE DEF prefix
  <2> QED BY <2>1, <2>2
<1>7. Cardinality(1..k) = k
  BY <1>1, <1>4, FS_Interval
<1>8. 1..k = {} <=> k = 0
  BY <1>1, <1>4
<1>9. Start(slice, hint) = IF prefix = {} THEN hint ELSE slice[Cardinality(prefix)]
  BY DEF Start
<1> HIDE DEF prefix
<1>10. Start(slice, hint) = IF k = 0 THEN hint ELSE slice[k]
  BY <1>6, <1>7, <1>8, <1>9
<1> QED BY <1>4, <1>5, <1>10 DEF m

LEMMA StartTyped ==
  ASSUME NEW slice \in Seq(Uuids), NEW hint \in Uuids \cup {Root}
  PROVE  Start(slice, hint) \in Uuids \cup {Root}
<1>1. PICK k \in 0..Len(slice) : Start(slice, hint) = IF k = 0 THEN hint ELSE slice[k]
  BY StartIs
<1>2. k # 0 => k \in 1..Len(slice)
  BY InSequence
<1> QED BY <1>1, <1>2, InSequence

LEMMA ResolvedTyped ==
  ASSUME ScreenTypes, NEW c \in DOMAIN calls, NEW result \in Uuids \cup {Root}
  PROVE  Resolved(c, result) \in [length : Nat, parent : Uuids \cup {Root}, first : Uuids \cup {Root}]
BY DEF Resolved, ScreenTypes

\* A call when the messages are loaded: nothing is new, or it appends.
LoadedAs(c, new, start, makes, lines) ==
  /\ new = Rejected(calls[c].slice, known) /\ start = Start(calls[c].slice, calls[c].hint)
  /\ Elements(new) = Elements(calls[c].slice) \ known
  /\ makes <=> ~materialized /\ Elements(new) \ Notes # {}
  /\ lines = (IF makes THEN pending ELSE <<>>) \o Chain(new, start)
  /\ Of(lines) = (IF makes THEN Of(pending) ELSE {}) \cup Elements(new)
  /\ \/ /\ new = <<>> /\ calls' = [calls EXCEPT ![c] = Over] /\ hook' = Resolved(c, start)
        /\ UNCHANGED <<pending, materialized, tracked>>
     \/ /\ new # <<>>
        /\ calls' = [calls EXCEPT ![c] = [calls[c] EXCEPT !.pc = "appends", !.result = Last(new), !.slice = <<>>, !.lines = lines]]
        /\ materialized' = (materialized \/ makes)
        /\ pending' = IF makes THEN <<>> ELSE pending
        /\ tracked' = tracked + 1 /\ hook' = hook

LEMMA LoadedIs ==
  ASSUME CallTypes, ScreenTypes, NEW c \in DOMAIN calls, Loaded(c)
  PROVE  \E new \in Seq(Uuids), start \in Uuids \cup {Root}, makes \in BOOLEAN, lines \in Seq(Lines) :
           LoadedAs(c, new, start, makes, lines)
<1> DEFINE new == Rejected(calls[c].slice, known)
           start == Start(calls[c].slice, calls[c].hint)
           makes == ~materialized /\ Elements(new) \ Notes # {}
           lines == (IF makes THEN pending ELSE <<>>) \o Chain(new, start)
<1>0. /\ calls \in Seq(Call) /\ calls[c] \in Call /\ calls[c].slice \in Seq(Uuids) /\ calls[c].hint \in Uuids \cup {Root}
      /\ pending \in Seq(Lines)
  <2>1. calls \in Seq(Call) /\ pending \in Seq(Lines)
    BY DEF CallTypes
  <2>2. calls[c] \in Call
    BY <2>1, InSequence
  <2> QED BY <2>1, <2>2 DEF Call
<1>1. new \in Seq(Uuids) /\ Elements(new) = Elements(calls[c].slice) \ known
  BY <1>0, RejectedElements
<1>2. start \in Uuids \cup {Root}
  BY <1>0, StartTyped
<1>3. makes \in BOOLEAN
  OBVIOUS
<1> DEFINE buffered == IF makes THEN pending ELSE <<>>
           chain == Chain(new, start)
<1>4. buffered \in Seq(Lines) /\ Of(buffered) = IF makes THEN Of(pending) ELSE {}
  BY <1>0, NothingTyped, OfNothing
<1>5. chain \in Seq(Lines) /\ Of(chain) = Elements(new)
  BY <1>1, <1>2, ChainIs
<1>6. lines = buffered \o chain
  OBVIOUS
<1>7. IF new = <<>>
        THEN /\ calls' = [calls EXCEPT ![c] = Over] /\ hook' = Resolved(c, start)
             /\ UNCHANGED <<pending, materialized, tracked>>
        ELSE /\ calls' = [calls EXCEPT ![c].pc = "appends", ![c].result = Last(new), ![c].slice = <<>>,
                            ![c].lines = BufferedFirst(IF makes THEN pending ELSE <<>>, Chain(new, start))]
             /\ materialized' = (materialized \/ makes)
             /\ pending' = IF makes THEN <<>> ELSE pending
             /\ tracked' = tracked + 1
             /\ hook' = hook
  BY DEF Loaded
<1>8. BufferedFirst(buffered, chain) = lines
  BY <1>6 DEF BufferedFirst
<1>9. BufferedFirst(IF makes THEN pending ELSE <<>>, Chain(new, start)) = lines
  BY <1>8
<1> HIDE DEF lines, buffered, chain, makes, start, new
<1>10. lines \in Seq(Lines) /\ Of(lines) = Of(buffered) \cup Of(chain)
  BY <1>4, <1>5, <1>6, Joined, OfJoined
<1>11. makes <=> ~materialized /\ Elements(new) \ Notes # {}
  BY DEF makes
<1>12. new # <<>> =>
        calls' = [calls EXCEPT ![c] = [calls[c] EXCEPT !.pc = "appends", !.result = Last(new), !.slice = <<>>, !.lines = lines]]
  BY <1>0, <1>7, <1>9
<1>13. new = Rejected(calls[c].slice, known) /\ start = Start(calls[c].slice, calls[c].hint)
  BY DEF new, start
<1>14. lines = (IF makes THEN pending ELSE <<>>) \o Chain(new, start)
  BY DEF lines, buffered, chain
<1>15. Of(lines) = (IF makes THEN Of(pending) ELSE {}) \cup Elements(new)
  BY <1>4, <1>5, <1>10
<1>16. LoadedAs(c, new, start, makes, lines)
  BY <1>1, <1>7, <1>11, <1>12, <1>13, <1>14, <1>15 DEF LoadedAs
<1>17. makes \in BOOLEAN
  BY DEF makes
<1> QED BY <1>1, <1>2, <1>10, <1>16, <1>17

LEMMA CallsTyped ==
  ASSUME CallTypes
  PROVE  /\ DOMAIN calls = 1..Len(calls) /\ Len(calls) \in Nat
         /\ \A c \in DOMAIN calls :
              /\ calls[c] \in Call /\ calls[c].slice \in Seq(Uuids) /\ calls[c].lines \in Seq(Lines)
              /\ calls[c].hint \in Uuids \cup {Root} /\ calls[c].result \in Uuids \cup {Root}
              /\ calls[c].pc \in {"loads", "appends", "over"} /\ calls[c].full \in BOOLEAN
<1>1. calls \in Seq(Call)
  BY DEF CallTypes
<1>2. DOMAIN calls = 1..Len(calls) /\ Len(calls) \in Nat /\ \A c \in DOMAIN calls : calls[c] \in Call
  BY <1>1, InSequence
<1> QED BY <1>2 DEF Call

LEMMA CallReplaced ==
  ASSUME CallTypes, NEW c \in DOMAIN calls, NEW call \in Call
  PROVE  /\ [calls EXCEPT ![c] = call] \in Seq(Call) /\ DOMAIN [calls EXCEPT ![c] = call] = DOMAIN calls
         /\ Len([calls EXCEPT ![c] = call]) = Len(calls)
         /\ [calls EXCEPT ![c] = call][c] = call
         /\ \A e \in DOMAIN calls : e # c => [calls EXCEPT ![c] = call][e] = calls[e]
<1>1. calls \in Seq(Call) /\ DOMAIN calls = 1..Len(calls) /\ Len(calls) \in Nat
  BY CallsTyped DEF CallTypes
<1> DEFINE r == [calls EXCEPT ![c] = call]
<1>2. r \in Seq(Call)
  BY <1>1
<1>3. DOMAIN r = DOMAIN calls
  OBVIOUS
<1>4. Len(r) = Len(calls)
  <2>1. DOMAIN r = 1..Len(r) /\ Len(r) \in Nat
    BY <1>2, InSequence
  <2> HIDE DEF r
  <2> QED BY <1>1, <1>3, <2>1
<1> QED BY <1>1, <1>2, <1>3, <1>4

LEMMA OverIs == Over \in Call /\ Over.pc = "over" /\ Over.slice = <<>> /\ Over.lines = <<>>
<1>1. <<>> \in Seq(Uuids) /\ <<>> \in Seq(Lines)
  OBVIOUS
<1> QED BY <1>1 DEF Over, Call

\* Only one call moves, to where it is well-formed.
LEMMA CallMovedTypes ==
  ASSUME CallTypes, CallsInv, NEW c \in DOMAIN calls, NEW call \in Call, calls' = [calls EXCEPT ![c] = call],
         known' \subseteq Uuids, pending' \in Seq(Lines), materialized' \in BOOLEAN,
         call.pc # "appends" => call.lines = <<>>, call.pc # "loads" => call.slice = <<>>,
         call.pc = "loads" => call.slice # <<>>
  PROVE  /\ CallTypes' /\ CallsInv'
         /\ Appending' = IF call.pc = "appends" THEN Appending \cup {c} ELSE Appending \ {c}
<1>1. /\ calls' \in Seq(Call) /\ DOMAIN calls' = DOMAIN calls /\ calls'[c] = call
      /\ \A e \in DOMAIN calls : e # c => calls'[e] = calls[e]
  BY CallReplaced
<1>2. CallTypes'
  BY <1>1 DEF CallTypes
<1>3. CallsInv'
  BY <1>1 DEF CallsInv
<1>4. \A e : e \in Appending' <=> e \in IF call.pc = "appends" THEN Appending \cup {c} ELSE Appending \ {c}
  BY <1>1 DEF Appending
<1> QED BY <1>2, <1>3, <1>4

LEMMA LoadedTypes ==
  ASSUME TypeInv, NEW c \in DOMAIN calls, Loaded(c)
  PROVE  TypeInv'
<1>0. FileInv /\ ScreenTypes /\ CallTypes /\ Counted /\ CallsInv
  BY TypeInvIs
<1>1. PICK new \in Seq(Uuids), start \in Uuids \cup {Root}, makes \in BOOLEAN, lines \in Seq(Lines) :
           LoadedAs(c, new, start, makes, lines)
  BY <1>0, LoadedIs
<1>2. /\ UNCHANGED <<setup, queue, timer, drains, active, file, flush, removal, failed, cut, overlapped>>
      /\ UNCHANGED <<messages, made, shown, handed, beside, astray, known>>
      /\ calls[c].pc = "loads"
  BY DEF Loaded
<1>3. calls[c] \in Call /\ c \notin Appending
  BY <1>0, <1>2, CallsTyped DEF Appending
<1>4. Removing' = Removing
  BY <1>2 DEF Removing
<1>6. tracked \in Nat
  BY <1>0, CountedTyped
<1>5. /\ CallTypes' /\ CallsInv' /\ Counted' /\ tracked' \in Nat
      /\ hook' \in [length : Nat, parent : Uuids \cup {Root}, first : Uuids \cup {Root}]
  <2>1. CASE new = <<>>
    <3>1. /\ calls' = [calls EXCEPT ![c] = Over] /\ hook' = Resolved(c, start)
          /\ UNCHANGED <<pending, materialized, tracked>>
      BY <1>1, <2>1 DEF LoadedAs
    <3>2. known' \subseteq Uuids /\ pending' \in Seq(Lines) /\ materialized' \in BOOLEAN
      BY <1>0, <1>2, <3>1 DEF CallTypes
    <3>3. CallTypes' /\ CallsInv' /\ Appending' = Appending \ {c}
      BY <1>0, <3>1, <3>2, OverIs, CallMovedTypes
    <3>4. Appending' = Appending
      BY <1>3, <3>3
    <3>5. Counted'
      BY <1>0, <1>4, <3>1, <3>4 DEF Counted
    <3> QED BY <1>0, <1>6, <3>1, <3>3, <3>5, ResolvedTyped
  <2>2. CASE new # <<>>
    <3> DEFINE call == [calls[c] EXCEPT !.pc = "appends", !.result = Last(new), !.slice = <<>>, !.lines = lines]
    <3>1. /\ calls' = [calls EXCEPT ![c] = call]
          /\ materialized' = (materialized \/ makes)
          /\ pending' = IF makes THEN <<>> ELSE pending
          /\ tracked' = tracked + 1 /\ hook' = hook
      BY <1>1, <2>2 DEF LoadedAs
    <3>2. Last(new) \in Uuids
      BY <2>2, Ended
    <3>3. call \in Call /\ call.pc = "appends" /\ call.slice = <<>>
      <4> DEFINE result == Last(new)
      <4>1. result \in Uuids \cup {Root} /\ lines \in Seq(Lines) /\ <<>> \in Seq(Uuids)
        BY <1>1, <3>2
      <4>2. call = [calls[c] EXCEPT !.pc = "appends", !.result = result, !.slice = <<>>, !.lines = lines]
        OBVIOUS
      <4> HIDE DEF result, call
      <4> QED BY <1>3, <4>1, <4>2 DEF Call
    <3>4. known' \subseteq Uuids /\ pending' \in Seq(Lines) /\ materialized' \in BOOLEAN
      BY <1>0, <1>2, <3>1, NothingTyped DEF CallTypes
    <3> HIDE DEF call
    <3>5. CallTypes' /\ CallsInv' /\ Appending' = Appending \cup {c}
      BY <1>0, <3>1, <3>3, <3>4, CallMovedTypes
    <3>6. Counted'
      BY <1>0, <1>3, <1>4, <3>1, <3>5, CountedMore
    <3> QED BY <1>0, <1>6, <3>1, <3>5, <3>6 DEF ScreenTypes
  <2> QED BY <2>1, <2>2
<1>7. FileInv'
  BY <1>0, <1>2, <1>5 DEF FileInv, FileTypeOK, FlushOn, SnapInv
<1>8. ScreenTypes'
  BY <1>0, <1>2, <1>5 DEF ScreenTypes
<1> QED BY <1>5, <1>7, <1>8, TypeInvAgain

\* The first line of a call is appended somewhere.
EntryAs(c, line) ==
  /\ line = Head(calls[c].lines)
  /\ calls' = [calls EXCEPT ![c] = [calls[c] EXCEPT !.lines = Tail(calls[c].lines)]]
  /\ \/ ~materialized /\ pending' = Append(pending, line) /\ UNCHANGED <<queue, timer, known>>
     \/ /\ materialized /\ line.uuid \notin known /\ EnqueueWrite(line) /\ known' = known \cup {line.uuid}
        /\ pending' = pending
     \/ materialized /\ line.uuid \in known /\ UNCHANGED <<queue, timer, known, pending>>

LEMMA EntryIs ==
  ASSUME CallTypes, NEW c \in DOMAIN calls, AppendEntry(c)
  PROVE  /\ EntryAs(c, Head(calls[c].lines)) /\ Head(calls[c].lines) \in Lines
         /\ Tail(calls[c].lines) \in Seq(Lines)
         /\ Of(calls[c].lines) = {Head(calls[c].lines).uuid} \cup Of(Tail(calls[c].lines))
<1>1. calls[c].lines \in Seq(Lines) /\ calls[c] \in Call
  BY CallsTyped
<1>2. calls[c].lines # <<>>
  BY DEF AppendEntry
<1>3. calls' = [calls EXCEPT ![c] = [calls[c] EXCEPT !.lines = Tail(calls[c].lines)]]
  BY <1>1 DEF AppendEntry
<1>4. EntryAs(c, Head(calls[c].lines))
  BY <1>3 DEF AppendEntry, EntryAs, IsNew
<1> QED BY <1>1, <1>2, <1>4, OfBehind

LEMMA AppendEntryTypes ==
  ASSUME TypeInv, NEW c \in DOMAIN calls, AppendEntry(c)
  PROVE  TypeInv'
<1>0. FileInv /\ ScreenTypes /\ CallTypes /\ Counted /\ CallsInv
  BY TypeInvIs
<1> DEFINE line == Head(calls[c].lines)
           call == [calls[c] EXCEPT !.lines = Tail(calls[c].lines)]
<1>1. EntryAs(c, line) /\ line \in Lines /\ Tail(calls[c].lines) \in Seq(Lines)
  BY <1>0, EntryIs
<1>2. /\ UNCHANGED <<setup, drains, active, file, flush, removal, tracked, failed, cut, overlapped>>
      /\ UNCHANGED <<screenVars, materialized>> /\ calls[c].pc = "appends"
  BY DEF AppendEntry
<1>3. call \in Call /\ call.pc = "appends" /\ call.slice = <<>>
  <2>1. calls[c] \in Call /\ calls[c].slice = <<>>
    BY <1>0, <1>2, CallsTyped DEF CallsInv
  <2> QED BY <1>1, <1>2, <2>1 DEF Call
<1>4. calls' = [calls EXCEPT ![c] = call]
  BY <1>1 DEF EntryAs
<1> HIDE DEF line, call
<1>5. known' \subseteq Uuids /\ pending' \in Seq(Lines) /\ materialized' \in BOOLEAN
  <2>1. pending \in Seq(Lines) /\ Append(pending, line) \in Seq(Lines) /\ line.uuid \in Uuids
    <3>1. pending \in Seq(Lines) /\ line.uuid \in Uuids
      BY <1>0, <1>1 DEF CallTypes, Lines
    <3> QED BY <1>1, <3>1, Appended
  <2> QED BY <1>0, <1>1, <1>2, <2>1 DEF EntryAs, CallTypes
<1>6. CallTypes' /\ CallsInv' /\ Appending' = Appending \cup {c}
  BY <1>0, <1>3, <1>4, <1>5, CallMovedTypes
<1>7. Counted'
  <2>1. Appending' = Appending
    BY <1>2, <1>6 DEF Appending
  <2> QED BY <1>0, <1>2, <2>1 DEF Counted, Removing
<1>8. queue' \in Seq(Lines) /\ timer' \in BOOLEAN
  <2>1. queue \in Seq(Lines) /\ timer \in BOOLEAN
    BY <1>0 DEF FileInv, FileTypeOK
  <2>2. Append(queue, line) \in Seq(Lines)
    BY <1>1, <2>1, Appended
  <2> QED BY <1>1, <2>1, <2>2 DEF EntryAs, EnqueueWrite, Scheduled
<1>9. FileInv'
  BY <1>0, <1>2, <1>8 DEF FileInv, FileTypeOK, FlushOn, SnapInv
<1>10. ScreenTypes'
  BY <1>0, <1>2 DEF ScreenTypes, screenVars
<1> QED BY <1>6, <1>7, <1>9, <1>10, TypeInvAgain

LEMMA FinishTypes ==
  ASSUME TypeInv, NEW c \in DOMAIN calls, Finish(c)
  PROVE  TypeInv'
<1>0. FileInv /\ ScreenTypes /\ CallTypes /\ Counted /\ CallsInv
  BY TypeInvIs
<1>1. /\ UNCHANGED <<setup, queue, timer, drains, active, file, removal, failed, cut, overlapped>>
      /\ UNCHANGED <<messages, made, shown, handed, beside, astray, known, pending, materialized>>
      /\ calls[c].pc = "appends" /\ calls' = [calls EXCEPT ![c] = Over]
      /\ hook' = Resolved(c, calls[c].result) /\ Untrack
  BY DEF Finish
<1>2. known' \subseteq Uuids /\ pending' \in Seq(Lines) /\ materialized' \in BOOLEAN
  BY <1>0, <1>1 DEF CallTypes
<1>3. CallTypes' /\ CallsInv' /\ Appending' = Appending \ {c}
  BY <1>0, <1>1, <1>2, OverIs, CallMovedTypes
<1>4. c \in Appending /\ Removing' = Removing
  BY <1>1 DEF Appending, Removing
<1>5. Counted' /\ tracked' \in Nat
  <2>1. tracked' = tracked - 1
    BY <1>1 DEF Untrack
  <2>2. tracked - 1 \in Nat
    BY <1>0, <1>4, CountedTyped
  <2> QED BY <1>0, <1>3, <1>4, <2>1, <2>2, CountedLess
<1>6. FlushTyped'
  <2>1. FlushTyped
    BY <1>0 DEF FileInv, FileTypeOK, FlushTyped
  <2> QED BY <1>1, <2>1, WokenTypes
<1>7. FileInv'
  <2>1. RemovalTyped' /\ SnapInv'
    BY <1>0, <1>1 DEF FileInv, FileTypeOK, RemovalTyped, SnapInv
  <2>2. file' \in Seq(Lines) /\ cut' \subseteq Uuids
    BY <1>0, <1>1 DEF FileInv, FileTypeOK
  <2> QED BY <1>0, <1>1, <1>5, <1>6, <2>1, <2>2, TypesAgain
<1>8. hook' \in [length : Nat, parent : Uuids \cup {Root}, first : Uuids \cup {Root}]
  <2>1. calls[c].result \in Uuids \cup {Root}
    BY <1>0, CallsTyped
  <2> QED BY <1>0, <1>1, <2>1, ResolvedTyped
<1>9. ScreenTypes'
  BY <1>0, <1>1, <1>8 DEF ScreenTypes
<1> QED BY <1>3, <1>5, <1>7, <1>9, TypeInvAgain

LEMMA TypeInit == Init => TypeInv
<1> SUFFICES ASSUME Init PROVE TypeInv
  OBVIOUS
<1>1. <<>> \in Seq(Lines) /\ <<>> \in Seq(Uuids) /\ <<>> \in Seq(Call) /\ DOMAIN calls = {}
  BY DEF Init
<1>2. FileTypeOK
  BY <1>1 DEF Init, FileInit, FileTypeOK, NotCalled, NoRemoval
<1>3. FlushOn /\ SnapInv
  BY DEF Init, FileInit, FlushOn, SnapInv, NotCalled, NoRemoval
<1>4. ScreenTypes /\ CallTypes /\ CallsInv
  BY <1>1 DEF Init, ScreenTypes, CallTypes, CallsInv
<1>5. Counted
  <2>1. Appending = {}
    BY <1>1 DEF Appending
  <2>2. Cardinality(Appending) = 0
    BY <2>1, FS_EmptySet
  <2> QED BY <2>2 DEF Counted, Removing, Init, FileInit, NoRemoval
<1> QED BY <1>2, <1>3, <1>4, <1>5, TypeInvIs DEF FileInv

LEMMA TypeNext == TypeInv /\ [Next]_vars => TypeInv'
<1> SUFFICES ASSUME TypeInv, [Next]_vars PROVE TypeInv'
  OBVIOUS
<1>1. ASSUME NEW c \in DOMAIN calls, Loaded(c) \/ AppendEntry(c) \/ Finish(c) PROVE TypeInv'
  BY <1>1, LoadedTypes, AppendEntryTypes, FinishTypes
<1>2. CallStep => TypeInv'
  BY <1>1 DEF CallStep
<1> QED BY <1>2, StutterTypes, SayTypes, TombstoneTypes, RenderTypes, FileStepTypes DEF Next

\* The types of screen, calls and file; and what is counted as non-queue
\* operations is what is under way.
THEOREM TypeCorrect == Spec => []TypeOK
<1>1. Init => TypeInv
  BY TypeInit
<1>2. TypeInv /\ [Next]_vars => TypeInv'
  BY TypeNext
<1>3. TypeInv => TypeOK
  BY DEF TypeInv
<1> QED BY <1>1, <1>2, <1>3, PTL DEF Spec

-----------------------------------------------------------------------------
(* How lines move                                                            *)

\* Nothing moves, though a message may be withdrawn.
Rests ==
  /\ UNCHANGED <<queue, drains, file, failed, cut>> /\ Held' = Held
  /\ removal.targets \subseteq removal'.targets
  /\ removal'.pc = "writes" => removal.pc = "writes" /\ removal'.snap = removal.snap /\ removal'.pos = removal.pos

Waits(line) ==
  /\ queue' = Append(queue, line) /\ line.uuid \notin known /\ known' = known \cup {line.uuid}
  /\ UNCHANGED <<drains, file, failed, cut, removal>>

Takes(d) ==
  /\ drains[d] = <<>> /\ drains' = [drains EXCEPT ![d] = queue] /\ queue' = <<>>
  /\ UNCHANGED <<file, failed, cut, removal>>

Puts(d) ==
  /\ file' = file \o drains[d] /\ drains' = [drains EXCEPT ![d] = <<>>]
  /\ UNCHANGED <<queue, failed, cut, removal>>

Drops(d) ==
  /\ failed' = failed \cup Of(drains[d]) /\ drains' = [drains EXCEPT ![d] = <<>>]
  /\ UNCHANGED <<queue, file, cut, removal>>

Cuts == Truncate \/ WriteBack \/ Rewrite

LEMMA FlyingIs ==
  ASSUME FileInv, NEW d \in Drainers, NEW s, drains' = [drains EXCEPT ![d] = s]
  PROVE  /\ drains'[d] = s /\ \A e \in Drainers : e # d => drains'[e] = drains[e]
         /\ InFlight' = Of(s) \cup UNION {Of(drains[e]) : e \in Drainers \ {d}}
         /\ InFlight = Of(drains[d]) \cup UNION {Of(drains[e]) : e \in Drainers \ {d}}
<1>1. /\ drains'[d] = s /\ \A e \in Drainers : e # d => drains'[e] = drains[e]
  BY DEF FileInv, FileTypeOK
<1>2. InFlight' = UNION {Of(drains'[e]) : e \in Drainers}
  BY DEF InFlight
<1>3. \A u : u \in InFlight' <=> u \in Of(s) \cup UNION {Of(drains[e]) : e \in Drainers \ {d}}
  <2>1. \A u : u \in InFlight' <=> \E e \in Drainers : u \in Of(drains'[e])
    BY <1>2
  <2>2. \A u : u \in UNION {Of(drains[e]) : e \in Drainers \ {d}} <=> \E e \in Drainers : e # d /\ u \in Of(drains[e])
    OBVIOUS
  <2> QED BY <1>1, <2>1, <2>2
<1>4. \A u : u \in InFlight <=> u \in Of(drains[d]) \cup UNION {Of(drains[e]) : e \in Drainers \ {d}}
  BY DEF InFlight
<1> QED BY <1>1, <1>3, <1>4

LEMMA HeldIs ==
  ASSUME removal' = removal
  PROVE  Held' = Held
BY DEF Held, After

LEMMA TakesFlow ==
  ASSUME FileInv, NEW d \in Drainers, Takes(d)
  PROVE  /\ Settled' = Settled /\ InFlight' = InFlight \cup Of(queue) /\ Of(queue') = {} /\ drains'[d] = queue
         /\ \A e \in Drainers : e # d => drains'[e] = drains[e]
<1>1. drains' = [drains EXCEPT ![d] = queue] /\ drains[d] = <<>>
  BY DEF Takes
<1>2. InFlight' = InFlight \cup Of(queue)
  BY <1>1, FlyingIs, OfNothing
<1>3. Of(queue') = {}
  BY OfNothing DEF Takes
<1>4. Settled' = Settled
  BY HeldIs DEF Settled, OnDisk, Takes
<1> QED BY <1>1, <1>2, <1>3, <1>4, FlyingIs

LEMMA PutsFlow ==
  ASSUME FileInv, NEW d \in Drainers, Puts(d)
  PROVE  /\ Settled' = Settled \cup Of(drains[d]) /\ OnDisk' = OnDisk \cup Of(drains[d])
         /\ InFlight' = UNION {Of(drains[e]) : e \in Drainers \ {d}} /\ InFlight = InFlight' \cup Of(drains[d])
         /\ drains'[d] = <<>> /\ \A e \in Drainers : e # d => drains'[e] = drains[e]
<1>0. file \in Seq(Lines) /\ drains[d] \in Seq(Lines)
  BY SnapTyped DEF FileInv
<1>1. OnDisk' = OnDisk \cup Of(drains[d])
  BY <1>0, OfJoined DEF Puts, OnDisk
<1>2. Settled' = Settled \cup Of(drains[d])
  BY <1>1, HeldIs DEF Settled, Puts
<1>3. drains' = [drains EXCEPT ![d] = <<>>]
  BY DEF Puts
<1>4. /\ InFlight' = Of(<<>>) \cup UNION {Of(drains[e]) : e \in Drainers \ {d}}
      /\ InFlight = Of(drains[d]) \cup UNION {Of(drains[e]) : e \in Drainers \ {d}}
      /\ drains'[d] = <<>> /\ \A e \in Drainers : e # d => drains'[e] = drains[e]
  BY <1>3, FlyingIs
<1> QED BY <1>1, <1>2, <1>4, OfNothing

LEMMA DropsFlow ==
  ASSUME FileInv, NEW d \in Drainers, Drops(d)
  PROVE  /\ Settled' = Settled \cup Of(drains[d]) /\ OnDisk' = OnDisk
         /\ InFlight' = UNION {Of(drains[e]) : e \in Drainers \ {d}} /\ InFlight = InFlight' \cup Of(drains[d])
         /\ drains'[d] = <<>> /\ \A e \in Drainers : e # d => drains'[e] = drains[e]
<1>2. Settled' = Settled \cup Of(drains[d]) /\ OnDisk' = OnDisk
  BY HeldIs DEF Settled, OnDisk, Drops
<1>3. drains' = [drains EXCEPT ![d] = <<>>]
  BY DEF Drops
<1>4. /\ InFlight' = Of(<<>>) \cup UNION {Of(drains[e]) : e \in Drainers \ {d}}
      /\ InFlight = Of(drains[d]) \cup UNION {Of(drains[e]) : e \in Drainers \ {d}}
      /\ drains'[d] = <<>> /\ \A e \in Drainers : e # d => drains'[e] = drains[e]
  BY <1>3, FlyingIs
<1> QED BY <1>2, <1>4, OfNothing

LEMMA RestsFlow ==
  ASSUME Rests
  PROVE  Settled \subseteq Settled' /\ OnDisk' = OnDisk /\ InFlight' = InFlight /\ Of(queue') = Of(queue)
BY DEF Rests, Settled, OnDisk, InFlight

LEMMA WaitsFlow ==
  ASSUME FileInv, NEW line \in Lines, Waits(line)
  PROVE  Settled' = Settled /\ OnDisk' = OnDisk /\ InFlight' = InFlight /\ Of(queue') = Of(queue) \cup {line.uuid}
<1>1. queue \in Seq(Lines)
  BY SnapTyped DEF FileInv
<1>2. Of(queue') = Of(queue) \cup {line.uuid}
  BY <1>1, OfAppended DEF Waits
<1>3. Settled' = Settled /\ OnDisk' = OnDisk /\ InFlight' = InFlight
  BY HeldIs DEF Waits, Settled, OnDisk, InFlight
<1> QED BY <1>2, <1>3

\* The lines of snap, of the part before pos, and after it.
LEMMA SnapParts ==
  ASSUME FileInv, removal.pc \in {"cuts", "writes"}
  PROVE  /\ \A u : u \in Of(removal.snap) =>
              \/ \E i \in 1..(removal.pos - 1) : removal.snap[i].uuid = u
              \/ u = removal.target
              \/ u \in Of(After) /\ removal.pos # Len(removal.snap)
         /\ Of(After) \subseteq Of(removal.snap) /\ After \in Seq(Lines)
         /\ Len(After) = Len(removal.snap) - removal.pos
         /\ \A i \in 1..Len(After) : After[i] = removal.snap[removal.pos + i]
<1> DEFINE s == removal.snap
           p == removal.pos
<1>1. s \in Seq(Lines) /\ p \in 1..Len(s) /\ Len(s) \in Nat /\ s[p].uuid = removal.target
  BY SnapTyped, CutAt, InSequence DEF FileInv, SnapInv
<1> HIDE DEF s, p
<1>2. p \in Nat /\ p <= Len(s)
  BY <1>1
<1>3. After = SubSeq(s, p + 1, Len(s))
  BY DEF After, s, p
<1>4. After \in Seq(Lines) /\ Len(After) = Len(s) - p /\ \A i \in 1..Len(After) : After[i] = s[p + i]
  BY <1>1, <1>2, <1>3, CutFrom
<1>5. ASSUME NEW u, u \in Of(s)
      PROVE  \/ \E i \in 1..(p - 1) : s[i].uuid = u
             \/ u = removal.target
             \/ u \in Of(After) /\ p # Len(s)
  <2>1. PICK i \in 1..Len(s) : s[i].uuid = u
    BY <1>1, <1>5, OfTyped
  <2>2. CASE i < p
    <3>1. i \in 1..(p - 1)
      BY <1>1, <2>1, <2>2
    <3> QED BY <2>1, <3>1
  <2>3. CASE i = p
    BY <1>1, <2>1, <2>3
  <2>4. CASE i > p
    <3>1. i - p \in 1..Len(After) /\ p + (i - p) = i /\ p # Len(s)
      BY <1>1, <1>4, <2>1, <2>4
    <3>2. After[i - p] = s[i]
      BY <1>4, <3>1
    <3>3. u \in Of(After)
      BY <1>4, <2>1, <3>1, <3>2, OfTyped
    <3> QED BY <3>1, <3>3
  <2> QED BY <1>1, <2>1, <2>2, <2>3, <2>4
<1>6. Of(After) \subseteq Of(s)
  <2> SUFFICES ASSUME NEW i \in 1..Len(After) PROVE After[i].uuid \in Of(s)
    BY <1>4, OfTyped
  <2>1. p + i \in 1..Len(s) /\ After[i] = s[p + i]
    BY <1>1, <1>4
  <2> QED BY <1>1, <2>1, OfTyped
<1> QED BY <1>4, <1>5, <1>6 DEF s, p

LEMMA TruncateFlow ==
  ASSUME FileInv, Truncate
  PROVE  /\ OnDisk \subseteq Settled' /\ OnDisk' \subseteq OnDisk /\ Held' \subseteq Of(removal.snap)
         /\ Of(removal.snap) \subseteq OnDisk /\ Held = {}
<1>0. /\ removal.pc = "cuts" /\ Begins(removal.snap, file) /\ SnapInv /\ FileTypeOK
      /\ removal.target \in removal.targets /\ RemovalTyped
  BY DEF FileInv, Truncate, SnapInv, FileTypeOK, RemovalTyped
<1> DEFINE n == removal.pos - 1
           s == removal.snap
<1>1. s \in Seq(Lines) /\ file \in Seq(Lines) /\ n \in 0..Len(s)
  BY <1>0, SnapTyped, CutAt
<1>2. /\ file' = SubSeq(file, 1, n) /\ file' \in Seq(Lines) /\ Len(file') = n /\ \A i \in 1..n : file'[i] = s[i]
  BY <1>0, <1>1, BeginsCut DEF Truncate
<1>3. Len(s) <= Len(file) /\ \A i \in 1..Len(s) : file[i] = s[i]
  <2>1. DOMAIN s = 1..Len(s)
    BY <1>1, InSequence
  <2> QED BY <1>0, <2>1 DEF Begins
<1>4. removal'.targets = removal.targets
  BY <1>0 DEF Truncate, RemovalEnds, NoRemoval, RemovalTyped
<1>5. removal.pos # Len(removal.snap) => Held' = Of(After)
  <2> SUFFICES ASSUME removal.pos # Len(removal.snap) PROVE Held' = Of(After)
    OBVIOUS
  <2>1. removal' = [removal EXCEPT !.pc = "writes"]
    BY DEF Truncate
  <2>2. removal'.pc = "writes" /\ removal'.snap = removal.snap /\ removal'.pos = removal.pos
    BY <1>0, <2>1 DEF RemovalTyped
  <2> QED BY <2>2 DEF Held, After
<1>6. removal.pos = Len(removal.snap) => Held' = {}
  <2> SUFFICES ASSUME removal.pos = Len(removal.snap) PROVE Held' = {}
    OBVIOUS
  <2>1. removal'.pc = "idle"
    BY DEF Truncate, RemovalEnds, NoRemoval
  <2> QED BY <2>1 DEF Held
<1>7. Of(After) \subseteq Of(s)
  BY <1>0, SnapParts
<1>8. ASSUME NEW u, u \in OnDisk PROVE u \in Settled'
  <2>1. CASE u \notin Of(s)
    BY <1>8, <2>1 DEF Truncate, Settled
  <2>2. CASE \E i \in 1..n : s[i].uuid = u
    <3>1. u \in Of(file')
      BY <1>1, <1>2, <2>2, OfTyped
    <3> QED BY <3>1 DEF Settled, OnDisk
  <2>3. CASE u = removal.target
    BY <1>0, <1>4, <2>3 DEF Settled
  <2>4. CASE u \in Of(After) /\ removal.pos # Len(removal.snap)
    BY <1>5, <2>4 DEF Settled
  <2> QED BY <1>0, <2>1, <2>2, <2>3, <2>4, SnapParts
<1>9. OnDisk' \subseteq OnDisk
  <2>1. ASSUME NEW u, u \in Of(file') PROVE u \in Of(file)
    <3>1. PICK i \in 1..Len(file') : file'[i].uuid = u
      BY <1>2, <2>1, OfTyped
    <3>2. i \in 1..n
      BY <1>2, <3>1
    <3> HIDE DEF n
    <3>3. i \in 1..Len(s) /\ i \in 1..Len(file)
      BY <1>1, <1>3, <3>2, InSequence
    <3> QED BY <1>1, <1>2, <1>3, <3>1, <3>2, <3>3, OfTyped
  <2> QED BY <2>1 DEF OnDisk
<1>10. Of(s) \subseteq OnDisk
  <2> SUFFICES ASSUME NEW i \in 1..Len(s) PROVE s[i].uuid \in Of(file)
    BY <1>1, OfTyped DEF OnDisk
  <2>1. i \in 1..Len(file)
    BY <1>1, <1>3, InSequence
  <2> QED BY <1>1, <1>3, <2>1, OfTyped
<1>11. Held = {}
  BY <1>0 DEF Held
<1> QED BY <1>5, <1>6, <1>7, <1>8, <1>9, <1>10, <1>11

LEMMA WriteBackFlow ==
  ASSUME FileInv, WriteBack
  PROVE  /\ OnDisk \cup Held \subseteq Settled' /\ OnDisk' \subseteq OnDisk \cup Held
         /\ Held \subseteq Of(removal.snap) /\ Held' = {}
<1>0. removal.pc = "writes" /\ FileTypeOK
  BY DEF FileInv, WriteBack
<1> DEFINE n == removal.pos - 1
           end == n + Len(After)
           p == SubSeq(file, 1, n)
           t == SubSeq(file, end + 1, Len(file))
           r == SubSeq(file, n + 1, Len(file))
<1>1. /\ p \in Seq(Lines) /\ After \in Seq(Lines) /\ t \in Seq(Lines) /\ end \in Nat /\ file \in Seq(Lines)
      /\ Len(p) = n /\ \A i \in 1..n : p[i] = file[i]
  BY <1>0, BackTyped, SnapTyped
<1>2. n \in Nat /\ n <= Len(file) /\ n + 1 = removal.pos /\ Len(file) \in Nat
  BY <1>0, <1>1, CutAt, InSequence DEF FileInv
<1>3. r \in Seq(Lines) /\ \A i \in 1..(Len(file) - n) : r[i] = file[n + i]
  BY <1>1, <1>2, CutFrom
<1>4. Len(r) = Len(file) - n
  BY <1>1, <1>2, CutFrom
<1>5. Len(t) = (IF end <= Len(file) THEN Len(file) - end ELSE 0) /\ \A i \in 1..(Len(file) - end) : t[i] = file[end + i]
  BY <1>1, CutFrom
<1>6. file' = p \o After \o t
  BY DEF WriteBack
<1>7. cut' = cut \cup (Of(r) \ Of(file'))
  BY <1>2 DEF WriteBack
<1> HIDE DEF p, t, r, n, end
<1>8. Of(file') = Of(p) \cup Of(After) \cup Of(t)
  <2>1. p \o After \in Seq(Lines) /\ Of(p \o After) = Of(p) \cup Of(After)
    BY <1>1, Joined, OfJoined
  <2> QED BY <1>1, <1>6, <2>1, OfJoined
<1>9. Held = Of(After) /\ Held \subseteq Of(removal.snap)
  BY <1>0, SnapParts DEF Held
<1>10. OnDisk \subseteq Of(p) \cup Of(r)
  <2> SUFFICES ASSUME NEW i \in 1..Len(file) PROVE file[i].uuid \in Of(p) \cup Of(r)
    BY <1>1, OfTyped DEF OnDisk
  <2>1. CASE i <= n
    <3>1. i \in 1..n
      BY <1>2, <2>1
    <3>2. file[i].uuid \in Of(p)
      BY <1>1, <3>1, OfTyped
    <3> QED BY <3>2
  <2>2. CASE i > n
    <3>1. i - n \in 1..(Len(file) - n) /\ n + (i - n) = i
      BY <1>2, <2>2
    <3>2. file[i].uuid \in Of(r)
      BY <1>3, <1>4, <3>1, OfTyped
    <3> QED BY <3>2
  <2> QED BY <1>2, <2>1, <2>2
<1>11. Of(p) \subseteq OnDisk
  <2> SUFFICES ASSUME NEW i \in 1..n PROVE p[i].uuid \in Of(file)
    BY <1>1, OfTyped DEF OnDisk
  <2>1. i \in 1..Len(file)
    BY <1>2
  <2> QED BY <1>1, <2>1, OfTyped
<1>12. Of(t) \subseteq OnDisk
  <2> SUFFICES ASSUME NEW i \in 1..Len(t) PROVE t[i].uuid \in Of(file)
    BY <1>1, OfTyped DEF OnDisk
  <2>1. end + i \in 1..Len(file) /\ i \in 1..(Len(file) - end)
    BY <1>1, <1>2, <1>5
  <2> QED BY <1>1, <1>5, <2>1, OfTyped
<1>13. OnDisk' = Of(file') /\ Held' = {}
  BY DEF OnDisk, WriteBack, RemovalEnds, NoRemoval, Held
<1>14. OnDisk \cup Held \subseteq Settled'
  BY <1>7, <1>8, <1>9, <1>10, <1>13 DEF Settled
<1> QED BY <1>8, <1>9, <1>11, <1>12, <1>13, <1>14

LEMMA RewriteFlow ==
  ASSUME FileInv, Rewrite
  PROVE  /\ OnDisk \subseteq Settled' /\ OnDisk' \subseteq OnDisk /\ Held' = {} /\ Held = {}
         /\ Of(removal.snap) \subseteq OnDisk
<1>0. /\ removal.pc = "rewrites" /\ FileTypeOK /\ Begins(removal.snap, file) /\ removal.target \in removal.targets
      /\ removal.snap \in Seq(Lines) /\ file \in Seq(Lines)
  BY SnapTyped DEF FileInv, Rewrite, SnapInv
<1> DEFINE s == removal.snap
           S == {l \in Lines : l.uuid # removal.target}
           r == Selected(s, S)
<1>2. file' = r
  BY DEF Rewrite
<1>20. r = Selected(s, S)
  OBVIOUS
<1> HIDE DEF r
<1>1. /\ r \in Seq(Lines)
      /\ \A a \in 1..Len(r) : r[a] \in S /\ \E i \in 1..Len(s) : s[i] = r[a]
      /\ \A i \in 1..Len(s) : s[i] \in S => \E a \in 1..Len(r) : r[a] = s[i]
  <2>1. s \in Seq(Lines)
    BY <1>0
  <2> HIDE DEF s, S
  <2> QED BY <1>20, <2>1, SelectedElements
<1>3. DOMAIN s = 1..Len(s) /\ Len(s) \in Nat /\ Len(file) \in Nat /\ \A i \in 1..Len(s) : s[i] \in Lines
  BY <1>0, InSequence
<1>4. Len(s) <= Len(file) /\ \A i \in 1..Len(s) : file[i] = s[i]
  BY <1>0, <1>3 DEF Begins
<1>5. Of(s) \subseteq OnDisk
  <2> SUFFICES ASSUME NEW i \in 1..Len(s) PROVE s[i].uuid \in Of(file)
    BY <1>0, OfTyped DEF OnDisk
  <2>1. i \in 1..Len(file)
    BY <1>3, <1>4
  <2> QED BY <1>0, <1>4, <2>1, OfTyped
<1>6. Of(r) \subseteq Of(s)
  <2> SUFFICES ASSUME NEW a \in 1..Len(r) PROVE r[a].uuid \in Of(s)
    BY <1>1, OfTyped
  <2>1. PICK i \in 1..Len(s) : s[i] = r[a]
    BY <1>1
  <2> QED BY <1>0, <2>1, OfTyped
<1>7. removal'.targets = removal.targets /\ Held' = {} /\ Held = {}
  BY <1>0 DEF Rewrite, RemovalEnds, NoRemoval, Held
<1>8. ASSUME NEW u, u \in OnDisk PROVE u \in Settled'
  <2>1. CASE u \notin Of(s)
    BY <1>8, <2>1 DEF Rewrite, Settled
  <2>2. CASE u = removal.target
    BY <1>0, <1>7, <2>2 DEF Settled
  <2>3. CASE u \in Of(s) /\ u # removal.target
    <3>1. PICK i \in 1..Len(s) : s[i].uuid = u
      BY <1>0, <2>3, OfTyped
    <3>2. s[i] \in S
      BY <1>3, <2>3, <3>1
    <3>3. PICK a \in 1..Len(r) : r[a] = s[i]
      BY <1>1, <3>2
    <3>4. u \in Of(r)
      BY <1>1, <3>1, <3>3, OfTyped
    <3> QED BY <1>2, <3>4 DEF Settled, OnDisk
  <2> QED BY <2>1, <2>2, <2>3
<1> QED BY <1>2, <1>5, <1>6, <1>7, <1>8 DEF OnDisk

\* Of all that was written, or given up, nothing is lost by a removal.
LEMMA CutsFlow ==
  ASSUME FileInv, Cuts
  PROVE  /\ Settled \subseteq Settled' /\ UNCHANGED <<queue, drains, failed>>
         /\ OnDisk' \subseteq OnDisk \cup Held /\ Held' \subseteq OnDisk
         /\ removal'.targets = removal.targets /\ cut \subseteq cut'
         /\ InFlight' = InFlight /\ Of(queue') = Of(queue)
<1>0. RemovalTyped
  BY DEF FileInv, FileTypeOK, RemovalTyped
<1>1. removal'.targets = removal.targets
  BY <1>0 DEF Cuts, Truncate, WriteBack, Rewrite, RemovalEnds, NoRemoval, RemovalTyped
<1>2. cut \subseteq cut' /\ UNCHANGED <<queue, drains, failed>>
  BY DEF Cuts, Truncate, WriteBack, Rewrite
<1>3. OnDisk \cup Held \subseteq Settled' /\ OnDisk' \subseteq OnDisk \cup Held /\ Held' \subseteq OnDisk
  BY TruncateFlow, WriteBackFlow, RewriteFlow DEF Cuts
<1>4. Settled \subseteq Settled'
  BY <1>1, <1>2, <1>3 DEF Settled
<1>5. InFlight' = InFlight /\ Of(queue') = Of(queue)
  BY <1>2 DEF InFlight
<1> QED BY <1>1, <1>2, <1>3, <1>4, <1>5

-----------------------------------------------------------------------------
(* Drains                                                                    *)

DrainsApart ==
  /\ \A d \in Timers : drains[d] # <<>> => active = d
  /\ \A d, e \in Drainers : d # e => drains[d] = <<>> \/ drains[e] = <<>>
  /\ \A f \in Flushers : flush[f].pc = "waits" /\ drains[flush[f].on] = <<>> => \A d \in Timers : drains[d] = <<>>

LEMMA DrainInvIs ==
  DrainInv <=> /\ active \in Timers => drains[active] # <<>>
               /\ \A f \in Flushers : flush[f].pc = "drains" <=> drains[f] # <<>>
               /\ ~overlapped => DrainsApart
BY DEF DrainInv, DrainsApart

LEMMA DrainInvAgain ==
  ASSUME active' \in Timers => drains'[active'] # <<>>,
         \A f \in Flushers : flush'[f].pc = "drains" <=> drains'[f] # <<>>,
         ~overlapped' => DrainsApart'
  PROVE  DrainInv'
BY DEF DrainInv, DrainsApart

LEMMA FlushIs ==
  ASSUME FileInv, NEW f \in Flushers
  PROVE  /\ flush[f].pc \in {"idle", "waits", "drains", "counts", "returned", "failed"}
         /\ flush[f].on \in Timers \cup {None} /\ flush[f].promised \subseteq Uuids
         /\ flush[f].pc = "waits" => flush[f].on \in Timers
         /\ \A r : flush' = [flush EXCEPT ![f] = r] =>
              flush'[f] = r /\ \A g \in Flushers : g # f => flush'[g] = flush[g]
BY DEF FileInv, FileTypeOK, FlushOn

\* When writes end that are not of the queue, flush() may return.
Wakes ==
  \A f \in Flushers :
    /\ flush'[f].on = flush[f].on /\ flush'[f].promised = flush[f].promised
    /\ flush'[f].pc = flush[f].pc \/ (flush[f].pc = "counts" /\ flush'[f].pc = "returned")

LEMMA WokenIs ==
  ASSUME FileInv, flush' = flush \/ Untrack
  PROVE  Wakes
<1>1. flush \in [Flushers -> [pc : {"idle", "waits", "drains", "counts", "returned", "failed"},
                              on : Timers \cup {None}, promised : SUBSET Uuids]]
  BY DEF FileInv, FileTypeOK
<1>2. CASE flush' = flush
  BY <1>2 DEF Wakes
<1>3. CASE flush' = [f \in Flushers |-> IF flush[f].pc = "counts" THEN [flush[f] EXCEPT !.pc = "returned"] ELSE flush[f]]
  BY <1>1, <1>3 DEF Wakes
<1> QED BY <1>2, <1>3 DEF Untrack, Woken

LEMMA WakesDrains ==
  ASSUME FileInv, DrainInv, Wakes, UNCHANGED <<drains, active, overlapped>>
  PROVE  DrainInv'
BY DEF DrainInv, Wakes

LEMMA TimersAre ==
  /\ None \notin Timers /\ Rejection \notin Timers /\ None # Rejection
  /\ \A d \in Timers : d \notin Flushers /\ d \in Drainers
  /\ \A f \in Flushers : f \notin Timers /\ f \in Drainers
BY NumbersAre DEF Drainers

LEMMA TimerFiresDrains ==
  ASSUME FileInv, DrainInv, NEW d \in Timers, TimerFires(d)
  PROVE  Takes(d) /\ DrainInv'
<1>1. /\ drains[d] = <<>> /\ Drain(d, Drainers) /\ active' = IF queue = <<>> THEN None ELSE d
      /\ \A f \in Flushers : flush[f].on # None => drains[flush[f].on] # <<>>
      /\ UNCHANGED <<file, flush, removal, failed, cut>>
  BY DEF TimerFires
<1>2. Takes(d)
  BY <1>1 DEF Takes, Drain
<1>3. drains'[d] = queue /\ \A e \in Drainers : e # d => drains'[e] = drains[e]
  BY <1>2, TimersAre, TakesFlow
<1>4. active' \in Timers => drains'[active'] # <<>>
  BY <1>1, <1>3, TimersAre
<1>5. \A f \in Flushers : flush'[f].pc = "drains" <=> drains'[f] # <<>>
  BY <1>1, <1>3, TimersAre DEF DrainInv
<1>6. ASSUME ~overlapped' PROVE DrainsApart'
  <2>1. \A e \in Drainers : drains[e] = <<>>
    BY <1>1, <1>6 DEF Drain
  <2>2. \A e \in Drainers : e # d => drains'[e] = <<>>
    BY <1>3, <2>1
  <2>3. \A f \in Flushers : flush'[f].pc # "waits"
    <3> SUFFICES ASSUME NEW f \in Flushers, flush[f].pc = "waits" PROVE FALSE
      BY <1>1
    <3>1. flush[f].on \in Timers
      BY FlushIs
    <3> QED BY <1>1, <2>1, <3>1, TimersAre
  <2>4. drains'[d] # <<>> => active' = d
    BY <1>1, <1>3
  <2> QED BY <2>2, <2>3, <2>4, TimersAre DEF DrainsApart
<1> QED BY <1>2, <1>4, <1>5, <1>6, DrainInvAgain

LEMMA WrittenDrains ==
  ASSUME FileInv, DrainInv, NEW d \in Timers, Written(d)
  PROVE  Puts(d) /\ DrainInv'
<1>1. Puts(d) /\ active' = None /\ drains[d] # <<>> /\ UNCHANGED <<flush, overlapped>>
  BY DEF Written, Puts
<1>2. drains'[d] = <<>> /\ \A e \in Drainers : e # d => drains'[e] = drains[e]
  BY <1>1, TimersAre, PutsFlow
<1>3. ~overlapped => \A e \in Drainers : e # d => drains[e] = <<>>
  BY <1>1, TimersAre DEF DrainInv
<1>4. ~overlapped => \A e \in Drainers : drains'[e] = <<>>
  BY <1>2, <1>3, TimersAre
<1>5. \A f \in Flushers : flush'[f].pc = "drains" <=> drains'[f] # <<>>
  BY <1>1, <1>2, TimersAre DEF DrainInv
<1>6. ~overlapped' => DrainsApart'
  BY <1>1, <1>4, TimersAre DEF DrainsApart
<1> QED BY <1>1, <1>5, <1>6, DrainInvAgain, TimersAre

LEMMA WriteFailsDrains ==
  ASSUME FileInv, DrainInv, NEW d \in Timers, WriteFails(d)
  PROVE  /\ Drops(d) /\ DrainInv' /\ overlapped' = overlapped
         /\ \A f \in Flushers : flush'[f] = flush[f] \/ flush'[f].pc = "failed"
<1>1. /\ Drops(d) /\ active' = (IF active = d THEN Rejection ELSE active) /\ drains[d] # <<>> /\ overlapped' = overlapped
      /\ flush' = [f \in Flushers |-> IF flush[f].on = d THEN [flush[f] EXCEPT !.pc = "failed", !.on = None] ELSE flush[f]]
  BY DEF WriteFails, Drops
<1>2. drains'[d] = <<>> /\ \A e \in Drainers : e # d => drains'[e] = drains[e]
  BY <1>1, TimersAre, DropsFlow
<1>3. ~overlapped => \A e \in Drainers : e # d => drains[e] = <<>>
  BY <1>1, TimersAre DEF DrainInv
<1>4. ~overlapped => \A e \in Drainers : drains'[e] = <<>>
  BY <1>2, <1>3, TimersAre
<1>5. \A f \in Flushers : flush'[f] = flush[f] \/ (flush[f].on # None /\ flush'[f].pc = "failed")
  <2> TAKE f \in Flushers
  <2>1. flush[f] \in [pc : {"idle", "waits", "drains", "counts", "returned", "failed"},
                      on : Timers \cup {None}, promised : SUBSET Uuids]
    BY DEF FileInv, FileTypeOK
  <2> QED BY <1>1, <2>1, TimersAre
<1>6. \A f \in Flushers : flush'[f].pc = "drains" <=> drains'[f] # <<>>
  <2> TAKE f \in Flushers
  <2>1. drains'[f] = drains[f] /\ (flush[f].pc = "drains" <=> drains[f] # <<>>)
    BY <1>2, TimersAre DEF DrainInv
  <2>2. flush[f].on # None => flush[f].pc = "waits"
    BY DEF FileInv, FlushOn
  <2> QED BY <1>5, <2>1, <2>2
<1>7. active' \in Timers => drains'[active'] # <<>>
  BY <1>1, <1>2, TimersAre DEF DrainInv
<1>8. ~overlapped' => DrainsApart'
  BY <1>1, <1>4, TimersAre DEF DrainsApart
<1> QED BY <1>1, <1>5, <1>6, <1>7, <1>8, DrainInvAgain

\* Its drain begins when no other is under way, or overlaps.
LEMMA FlushDrainsDrains ==
  ASSUME FileInv, DrainInv, NEW f \in Flushers, NEW promised, FlushDrains(f, promised),
         drains[f] = <<>>, UNCHANGED <<active, file, removal, failed, cut>>,
         ~overlapped => \A d \in Timers : drains[d] = <<>>
  PROVE  /\ Takes(f) /\ DrainInv'
         /\ ~overlapped' => ~overlapped /\ \A e \in Drainers : drains[e] = <<>>
         /\ \A g \in Flushers : g # f => flush'[g] = flush[g]
         /\ flush'[f].promised = promised /\ flush'[f].pc = IF queue = <<>> THEN Counting ELSE "drains"
<1>1. Takes(f) /\ overlapped' = (overlapped \/ \E e \in Flushers : drains[e] # <<>>)
  BY DEF FlushDrains, Drain, Takes
<1>2. drains'[f] = queue /\ \A e \in Drainers : e # f => drains'[e] = drains[e]
  BY <1>1, TimersAre, TakesFlow
<1> DEFINE r == [pc |-> IF queue = <<>> THEN Counting ELSE "drains", on |-> None, promised |-> promised]
<1>3. flush' = [flush EXCEPT ![f] = r]
  BY DEF FlushDrains
<1>4. r.promised = promised /\ r.pc = (IF queue = <<>> THEN Counting ELSE "drains")
  OBVIOUS
<1> HIDE DEF r
<1>5. flush'[f] = r /\ \A g \in Flushers : g # f => flush'[g] = flush[g]
  BY <1>3, FlushIs
<1>6. Counting \in {"returned", "counts"}
  BY DEF Counting
<1>7. r.pc # "waits" /\ (r.pc = "drains" <=> queue # <<>>)
  BY <1>4, <1>6
<1>8. \A g \in Flushers : flush'[g].pc = "drains" <=> drains'[g] # <<>>
  BY <1>2, <1>5, <1>7, TimersAre DEF DrainInv
<1>9. active' \in Timers => drains'[active'] # <<>>
  BY <1>2, TimersAre DEF DrainInv
<1>10. ~overlapped' => ~overlapped /\ \A e \in Drainers : drains[e] = <<>>
  BY <1>1 DEF Drainers
<1>11. ASSUME ~overlapped' PROVE DrainsApart'
  <2>1. \A e \in Drainers : e # f => drains'[e] = <<>>
    BY <1>2, <1>10, <1>11
  <2> QED BY <2>1, TimersAre DEF DrainsApart
<1> QED BY <1>1, <1>4, <1>5, <1>8, <1>9, <1>10, <1>11, DrainInvAgain

LEMMA FlushDrained ==
  ASSUME FileInv, DrainInv, NEW f \in Flushers, Flush(f)
  PROVE  /\ Takes(f) \/ Rests
         /\ DrainInv'
<1>1. /\ flush[f].pc = "idle" /\ UNCHANGED <<active, file, removal, failed, cut>>
  BY DEF Flush
<1>2. drains[f] = <<>>
  BY <1>1 DEF DrainInv
<1> DEFINE promised == Of(queue) \cup InFlight
<1>3. CASE active = None
  <2>1. FlushDrains(f, promised)
    BY <1>3 DEF Flush, Awaited
  <2>2. ~overlapped => \A d \in Timers : drains[d] = <<>>
    BY <1>3, TimersAre DEF DrainInv
  <2> HIDE DEF promised
  <2> QED BY <1>1, <1>2, <2>1, <2>2, FlushDrainsDrains
<1>4. CASE active # None
  <2> DEFINE r == IF active = Rejection THEN [NotCalled EXCEPT !.pc = "failed"]
                  ELSE [pc |-> "waits", on |-> active, promised |-> promised]
  <2>1. flush' = [flush EXCEPT ![f] = r] /\ UNCHANGED <<queue, drains, overlapped>>
    BY <1>4 DEF Flush, Awaited
  <2>2. r.pc # "drains" /\ (r.pc = "waits" => active # Rejection /\ r.on = active)
    BY DEF NotCalled
  <2> HIDE DEF r
  <2>3. flush'[f] = r /\ \A g \in Flushers : g # f => flush'[g] = flush[g]
    BY <2>1, FlushIs
  <2>4. active \in Timers \cup {None, Rejection}
    BY DEF FileInv, FileTypeOK
  <2>5. r.pc = "waits" => drains[r.on] # <<>>
    BY <1>4, <2>2, <2>4 DEF DrainInv
  <2>6. \A g \in Flushers : flush'[g].pc = "drains" <=> drains'[g] # <<>>
    BY <1>2, <2>1, <2>2, <2>3 DEF DrainInv
  <2>7. ~overlapped' => DrainsApart'
    <3> SUFFICES ASSUME ~overlapped PROVE DrainsApart'
      BY <2>1
    <3>1. DrainsApart
      BY DrainInvIs
    <3> QED BY <1>1, <2>1, <2>3, <2>5, <3>1 DEF DrainsApart
  <2>8. active' \in Timers => drains'[active'] # <<>>
    BY <1>1, <2>1 DEF DrainInv
  <2>9. Rests
    BY <1>1, <2>1, HeldIs DEF Rests
  <2> QED BY <2>6, <2>7, <2>8, <2>9, DrainInvAgain
<1> QED BY <1>3, <1>4

LEMMA FlushGoesOnDrains ==
  ASSUME FileInv, DrainInv, NEW f \in Flushers, FlushGoesOn(f)
  PROVE  Takes(f) /\ DrainInv'
<1>1. /\ flush[f].pc = "waits" /\ drains[flush[f].on] = <<>> /\ FlushDrains(f, flush[f].promised)
      /\ UNCHANGED <<active, file, removal, failed, cut>>
  BY DEF FlushGoesOn
<1>2. drains[f] = <<>> /\ (~overlapped => \A d \in Timers : drains[d] = <<>>)
  BY <1>1 DEF DrainInv
<1> DEFINE promised == flush[f].promised
<1>3. FlushDrains(f, promised)
  BY <1>1
<1> HIDE DEF promised
<1> QED BY <1>1, <1>2, <1>3, FlushDrainsDrains

\* Its drain is over.
LEMMA FlushEndsDrains ==
  ASSUME FileInv, DrainInv, NEW f \in Flushers, UNCHANGED <<active, overlapped>>,
         drains' = [drains EXCEPT ![f] = <<>>], NEW pc, flush' = [flush EXCEPT ![f].pc = pc], pc \notin {"drains", "waits"}
  PROVE  /\ DrainInv' /\ \A g \in Flushers : g # f => flush'[g] = flush[g]
         /\ flush'[f].pc = pc /\ flush'[f].promised = flush[f].promised
<1>1. drains'[f] = <<>> /\ \A e \in Drainers : e # f => drains'[e] = drains[e]
  BY TimersAre, FlyingIs
<1>2. flush[f] \in [pc : {"idle", "waits", "drains", "counts", "returned", "failed"},
                    on : Timers \cup {None}, promised : SUBSET Uuids]
  BY DEF FileInv, FileTypeOK
<1> DEFINE r == [flush[f] EXCEPT !.pc = pc]
<1>3. r.pc = pc /\ r.promised = flush[f].promised
  BY <1>2
<1>4. flush' = [flush EXCEPT ![f] = r]
  OBVIOUS
<1> HIDE DEF r
<1>5. flush'[f] = r /\ \A g \in Flushers : g # f => flush'[g] = flush[g]
  BY <1>4, FlushIs
<1>6. \A g \in Flushers : flush'[g].pc = "drains" <=> drains'[g] # <<>>
  BY <1>1, <1>3, <1>5, TimersAre DEF DrainInv
<1>7. active' \in Timers => drains'[active'] # <<>>
  BY <1>1, TimersAre DEF DrainInv
<1>8. ASSUME ~overlapped' PROVE DrainsApart'
  <2>1. DrainsApart
    BY <1>8, DrainInvIs
  <2>2. \A d \in Timers : drains'[d] = drains[d]
    BY <1>1, TimersAre
  <2>3. \A d, e \in Drainers : d # e => drains'[d] = <<>> \/ drains'[e] = <<>>
    BY <1>1, <2>1 DEF DrainsApart
  <2>4. \A g \in Flushers : flush'[g].pc = "waits" => g # f /\ flush[g].on \in Timers
    BY <1>3, <1>5, FlushIs
  <2> QED BY <1>5, <2>1, <2>2, <2>3, <2>4 DEF DrainsApart
<1> QED BY <1>3, <1>5, <1>6, <1>7, <1>8, DrainInvAgain

LEMMA FlushWrittenDrains ==
  ASSUME FileInv, DrainInv, NEW f \in Flushers, FlushWritten(f)
  PROVE  /\ Puts(f) /\ DrainInv' /\ overlapped' = overlapped /\ flush[f].pc = "drains"
         /\ \A g \in Flushers : g # f => flush'[g] = flush[g]
         /\ flush'[f].pc = Counting /\ flush'[f].promised = flush[f].promised
<1> DEFINE pc == Counting
<1>1. /\ Puts(f) /\ flush[f].pc = "drains" /\ drains' = [drains EXCEPT ![f] = <<>>]
      /\ flush' = [flush EXCEPT ![f].pc = pc] /\ UNCHANGED <<active, overlapped>>
  BY DEF FlushWritten, Puts
<1>2. pc \notin {"drains", "waits"}
  BY DEF Counting
<1> HIDE DEF pc
<1>3. /\ DrainInv' /\ \A g \in Flushers : g # f => flush'[g] = flush[g]
      /\ flush'[f].pc = pc /\ flush'[f].promised = flush[f].promised
  BY <1>1, <1>2, FlushEndsDrains
<1> QED BY <1>1, <1>3 DEF pc

LEMMA FlushFailsDrains ==
  ASSUME FileInv, DrainInv, NEW f \in Flushers, FlushFails(f)
  PROVE  /\ Drops(f) /\ DrainInv' /\ overlapped' = overlapped
         /\ \A g \in Flushers : g # f => flush'[g] = flush[g]
         /\ flush'[f].pc = "failed"
<1> DEFINE pc == "failed"
<1>1. /\ Drops(f) /\ drains' = [drains EXCEPT ![f] = <<>>]
      /\ flush' = [flush EXCEPT ![f].pc = pc] /\ UNCHANGED <<active, overlapped>>
  BY DEF FlushFails, Drops
<1>2. pc \notin {"drains", "waits"}
  OBVIOUS
<1> HIDE DEF pc
<1>3. /\ DrainInv' /\ \A g \in Flushers : g # f => flush'[g] = flush[g]
      /\ flush'[f].pc = pc /\ flush'[f].promised = flush[f].promised
  BY <1>1, <1>2, FlushEndsDrains
<1> QED BY <1>1, <1>3 DEF pc

\* Steps of others than drains.
Aside ==
  /\ (Rests /\ known' = known) \/ \E line \in Lines : Waits(line)
  /\ Wakes /\ UNCHANGED <<drains, active, overlapped>>

Moves ==
  \/ Rests \/ Cuts
  \/ \E line \in Lines : Waits(line)
  \/ \E d \in Drainers : Takes(d) \/ Puts(d) \/ Drops(d)

LEMMA TombstoneAside ==
  ASSUME FileInv, Tombstone
  PROVE  Rests /\ flush' = flush /\ UNCHANGED <<drains, active, overlapped>>
<1>1. UNCHANGED <<queue, drains, active, file, flush, failed, cut, overlapped>>
  BY DEF Tombstone
<1>2. RemovalTyped
  BY DEF FileInv, FileTypeOK, RemovalTyped
<1>3. \/ removal.pc = "idle" /\ removal' = [removal EXCEPT !.pc = "reads", !.target = Last(messages), !.targets = @ \cup {Last(messages)}]
      \/ removal' = [removal EXCEPT !.targets = @ \cup {Last(messages)}]
  BY DEF Tombstone, RemoveMessage
<1>4. /\ removal.targets \subseteq removal'.targets
      /\ \/ removal.pc = "idle" /\ removal'.pc = "reads"
         \/ removal'.pc = removal.pc /\ removal'.snap = removal.snap /\ removal'.pos = removal.pos
  BY <1>2, <1>3 DEF RemovalTyped
<1>5. Held' = Held
  BY <1>4 DEF Held, After
<1>6. removal'.pc = "writes" => removal.pc = "writes" /\ removal'.snap = removal.snap /\ removal'.pos = removal.pos
  BY <1>4
<1> QED BY <1>1, <1>4, <1>5, <1>6 DEF Rests

LEMMA EntryAside ==
  ASSUME TypeInv, NEW c \in DOMAIN calls, AppendEntry(c)
  PROVE  Aside
<1>1. EntryAs(c, Head(calls[c].lines)) /\ Head(calls[c].lines) \in Lines
  BY TypeInvIs, EntryIs
<1>2. UNCHANGED <<drains, active, file, flush, removal, failed, cut, overlapped>>
  BY DEF AppendEntry
<1> DEFINE line == Head(calls[c].lines)
<1> HIDE DEF line
<1>3. \/ queue' = queue /\ known' = known
      \/ queue' = Append(queue, line) /\ line.uuid \notin known /\ known' = known \cup {line.uuid}
  BY <1>1 DEF EntryAs, EnqueueWrite, line
<1>4. (Rests /\ known' = known) \/ Waits(line)
  BY <1>2, <1>3, HeldIs DEF Rests, Waits
<1>5. Wakes
  BY <1>2, TypeInvIs, WokenIs
<1> QED BY <1>1, <1>2, <1>4, <1>5 DEF Aside, line

LEMMA AsideIs ==
  ASSUME TypeInv, Say \/ Tombstone \/ Render \/ CallStep \/ UNCHANGED vars
  PROVE  Aside
<1>0. FileInv
  BY TypeInvIs
<1>1. CASE Say \/ Render \/ UNCHANGED vars \/ \E c \in DOMAIN calls : Loaded(c)
  <2>1. UNCHANGED <<queue, drains, active, file, flush, removal, failed, cut, overlapped, known>>
    BY <1>1 DEF Say, Render, Loaded, vars, fileVars, callVars
  <2> QED BY <1>0, <2>1, HeldIs, WokenIs DEF Rests, Aside
<1>2. CASE Tombstone
  <2>1. known' = known
    BY <1>2 DEF Tombstone, callVars
  <2> QED BY <1>0, <1>2, <2>1, TombstoneAside, WokenIs DEF Aside
<1>3. ASSUME NEW c \in DOMAIN calls, Finish(c) PROVE Aside
  <2>1. UNCHANGED <<queue, drains, active, file, removal, failed, cut, overlapped, known>> /\ Untrack
    BY <1>3 DEF Finish
  <2> QED BY <1>0, <2>1, HeldIs, WokenIs DEF Rests, Aside
<1> QED BY <1>1, <1>2, <1>3, EntryAside DEF CallStep

LEMMA RemovalAside ==
  ASSUME FileInv, RemovalStep
  PROVE  (Rests \/ Cuts) /\ Wakes /\ UNCHANGED <<queue, drains, active, overlapped>>
<1>0. RemovalTyped
  BY DEF FileInv, FileTypeOK, RemovalTyped
<1>1. CASE Cuts
  <2>1. UNCHANGED <<queue, drains, active, overlapped>> /\ (flush' = flush \/ Untrack)
    BY <1>1 DEF Cuts, Truncate, WriteBack, Rewrite, RemovalEnds
  <2> QED BY <1>1, <2>1, WokenIs
<1>2. CASE ReadTail
  <2>1. UNCHANGED <<queue, drains, active, overlapped, file, failed, cut>> /\ (flush' = flush \/ Untrack)
    BY <1>2 DEF ReadTail, RemovalEnds
  <2>2. removal.pc # "writes" /\ removal'.pc # "writes" /\ removal'.targets = removal.targets
    BY <1>0, <1>2 DEF ReadTail, RemovalEnds, NoRemoval, RemovalTyped
  <2>3. Held' = Held
    BY <2>2 DEF Held
  <2> QED BY <2>1, <2>2, <2>3, WokenIs DEF Rests
<1>3. CASE Reread
  <2>1. UNCHANGED <<queue, drains, active, overlapped, file, failed, cut, flush>>
    BY <1>3 DEF Reread
  <2>2. removal.pc # "writes" /\ removal'.pc # "writes" /\ removal'.targets = removal.targets
    BY <1>0, <1>3 DEF Reread, RemovalTyped
  <2>3. Held' = Held
    BY <2>2 DEF Held
  <2> QED BY <2>1, <2>2, <2>3, WokenIs DEF Rests
<1> QED BY <1>1, <1>2, <1>3 DEF RemovalStep, Cuts

LEMMA TypeSetup ==
  ASSUME FileInv
  PROVE  setup.timers \subseteq Timers /\ setup.flushers \subseteq Flushers
BY SetupIs DEF FileInv, FileTypeOK

\* What a step does to the lines.
LEMMA MovesNext ==
  ASSUME TypeInv, DrainInv, [Next]_vars
  PROVE  Moves /\ DrainInv' /\ (known' = known \/ \E line \in Lines : Waits(line))
<1>0. FileInv
  BY TypeInvIs
<1>1. ASSUME Aside PROVE Moves /\ DrainInv'
  BY <1>0, <1>1, WakesDrains DEF Aside, Moves
<1>2. ASSUME RemovalStep PROVE Moves /\ DrainInv'
  BY <1>0, <1>2, RemovalAside, WakesDrains DEF Moves
<1>3. ASSUME NEW d \in setup.timers, TimerFires(d) \/ Written(d) \/ WriteFails(d) PROVE Moves /\ DrainInv'
  <2>1. d \in Timers /\ d \in Drainers
    BY <1>0, TypeSetup, TimersAre
  <2> QED BY <1>0, <1>3, <2>1, TimerFiresDrains, WrittenDrains, WriteFailsDrains DEF Moves
<1>4. ASSUME NEW f \in setup.flushers, Flush(f) \/ FlushGoesOn(f) \/ FlushWritten(f) \/ FlushFails(f)
      PROVE  Moves /\ DrainInv'
  <2>1. f \in Flushers /\ f \in Drainers
    BY <1>0, TypeSetup, TimersAre
  <2> QED BY <1>0, <1>4, <2>1, FlushDrained, FlushGoesOnDrains, FlushWrittenDrains, FlushFailsDrains DEF Moves
<1>5. AnyFileStep => Moves /\ DrainInv'
  BY <1>2, <1>3, <1>4 DEF AnyFileStep, FileStep, DrainStep, FlushStep
<1>6. AnyFileStep => known' = known
  BY DEF AnyFileStep, callVars
<1>7. Aside => (known' = known \/ \E line \in Lines : Waits(line))
  BY DEF Aside
<1> QED BY <1>1, <1>5, <1>6, <1>7, AsideIs DEF Next

\* What was written, or given up, stays so; and so does what is on its way to it.
LEMMA MovesKeep ==
  ASSUME FileInv, Moves
  PROVE  Settled \subseteq Settled' /\ Settled \cup Moving \subseteq (Settled \cup Moving)'
<1>1. CASE Rests \/ Cuts
  BY <1>1, RestsFlow, CutsFlow DEF Moving
<1>2. ASSUME NEW line \in Lines, Waits(line)
      PROVE  Settled \subseteq Settled' /\ Settled \cup Moving \subseteq (Settled \cup Moving)'
  BY <1>2, WaitsFlow DEF Moving
<1>3. ASSUME NEW d \in Drainers, Takes(d)
      PROVE  Settled \subseteq Settled' /\ Settled \cup Moving \subseteq (Settled \cup Moving)'
  BY <1>3, TakesFlow DEF Moving
<1>4. ASSUME NEW d \in Drainers, Puts(d) \/ Drops(d)
      PROVE  Settled \subseteq Settled' /\ Settled \cup Moving \subseteq (Settled \cup Moving)'
  <2>1. Of(queue') = Of(queue)
    BY <1>4 DEF Puts, Drops
  <2>2. Settled' = Settled \cup Of(drains[d]) /\ InFlight = InFlight' \cup Of(drains[d])
    BY <1>4, PutsFlow, DropsFlow
  <2> QED BY <2>1, <2>2 DEF Moving
<1> QED BY <1>1, <1>2, <1>3, <1>4 DEF Moves

-----------------------------------------------------------------------------
(* What flush() promises                                                     *)

PromiseKept(f) ==
  /\ flush[f].pc = "waits" => flush[f].promised \subseteq Settled \cup Moving
  /\ flush[f].pc = "drains" => flush[f].promised \subseteq Settled \cup Of(drains[f])
  /\ flush[f].pc \in {"counts", "returned"} => flush[f].promised \subseteq Settled

LEMMA PromiseInvIs == PromiseInv <=> (~overlapped => \A f \in Flushers : PromiseKept(f))
BY DEF PromiseInv, PromiseKept, Moving

LEMMA PromiseInvAgain ==
  ASSUME ~overlapped' => \A f \in Flushers : PromiseKept(f)'
  PROVE  PromiseInv'
BY DEF PromiseInv, PromiseKept, Moving

\* A call that stays where it is keeps its promise.
LEMMA PromiseStays ==
  ASSUME FileInv, Moves, NEW f \in Flushers, PromiseKept(f), drains'[f] = drains[f],
         flush'[f].promised = flush[f].promised,
         flush'[f].pc = flush[f].pc \/ (flush[f].pc = "counts" /\ flush'[f].pc = "returned") \/ flush'[f].pc = "failed"
  PROVE  PromiseKept(f)'
<1>1. Settled \subseteq Settled' /\ Settled \cup Moving \subseteq (Settled \cup Moving)'
  BY MovesKeep
<1> QED BY <1>1 DEF PromiseKept

\* The drain of f begins, when no other is under way.
LEMMA FlushDrainsPromise ==
  ASSUME FileInv, DrainInv, PromiseInv, NEW f \in Flushers, NEW promised, promised \subseteq Settled \cup Moving,
         FlushDrains(f, promised), drains[f] = <<>>, UNCHANGED <<active, file, removal, failed, cut>>,
         ~overlapped => \A d \in Timers : drains[d] = <<>>
  PROVE  PromiseInv'
<1>1. /\ Takes(f)
      /\ ~overlapped' => ~overlapped /\ \A e \in Drainers : drains[e] = <<>>
      /\ \A g \in Flushers : g # f => flush'[g] = flush[g]
      /\ flush'[f].promised = promised /\ flush'[f].pc = IF queue = <<>> THEN Counting ELSE "drains"
  BY FlushDrainsDrains
<1>2. /\ Settled' = Settled /\ drains'[f] = queue /\ \A e \in Drainers : e # f => drains'[e] = drains[e]
  BY <1>1, TimersAre, TakesFlow
<1> SUFFICES ASSUME ~overlapped', NEW g \in Flushers PROVE PromiseKept(g)'
  BY PromiseInvAgain
<1>3. PromiseKept(g) /\ Moves
  BY <1>1, TimersAre, PromiseInvIs DEF Moves
<1>4. CASE g # f
  BY <1>1, <1>2, <1>3, <1>4, TimersAre, PromiseStays
<1>5. CASE g = f
  <2>1. InFlight = {}
    BY <1>1, OfNothing DEF InFlight
  <2>2. promised \subseteq Settled' \cup Of(queue)
    BY <1>2, <2>1 DEF Moving
  <2>3. Counting \in {"returned", "counts"}
    BY DEF Counting
  <2>4. CASE queue = <<>>
    <3>1. promised \subseteq Settled' /\ flush'[f].pc \in {"returned", "counts"}
      BY <1>1, <2>2, <2>3, <2>4, OfNothing
    <3> QED BY <1>1, <1>5, <3>1 DEF PromiseKept
  <2>5. CASE queue # <<>>
    <3>1. flush'[f].pc = "drains" /\ promised \subseteq Settled' \cup Of(drains'[f])
      BY <1>1, <1>2, <2>2, <2>5
    <3> QED BY <1>1, <1>5, <3>1 DEF PromiseKept
  <2> QED BY <2>4, <2>5
<1> QED BY <1>4, <1>5

LEMMA FlushPromise ==
  ASSUME FileInv, DrainInv, PromiseInv, NEW f \in Flushers, Flush(f)
  PROVE  PromiseInv'
<1>1. flush[f].pc = "idle" /\ UNCHANGED <<active, file, removal, failed, cut>>
  BY DEF Flush
<1>2. drains[f] = <<>>
  BY <1>1 DEF DrainInv
<1> DEFINE promised == Of(queue) \cup InFlight
<1>3. promised \subseteq Settled \cup Moving
  BY DEF Moving
<1>4. CASE active = None
  <2>1. FlushDrains(f, promised)
    BY <1>4 DEF Flush, Awaited
  <2>2. ~overlapped => \A d \in Timers : drains[d] = <<>>
    BY <1>4, TimersAre DEF DrainInv
  <2> HIDE DEF promised
  <2> QED BY <1>1, <1>2, <1>3, <2>1, <2>2, FlushDrainsPromise
<1>5. CASE active # None
  <2> DEFINE r == IF active = Rejection THEN [NotCalled EXCEPT !.pc = "failed"]
                  ELSE [pc |-> "waits", on |-> active, promised |-> promised]
  <2>1. flush' = [flush EXCEPT ![f] = r] /\ UNCHANGED <<queue, drains, overlapped>>
    BY <1>5 DEF Flush, Awaited
  <2>2. r.pc = "failed" \/ (r.pc = "waits" /\ r.promised = promised)
    BY DEF NotCalled
  <2> HIDE DEF r
  <2>3. flush'[f] = r /\ \A g \in Flushers : g # f => flush'[g] = flush[g]
    BY <2>1, FlushIs
  <2>4. Rests
    BY <1>1, <2>1, HeldIs DEF Rests
  <2>5. Settled \cup Moving \subseteq (Settled \cup Moving)' /\ Moves
    BY <2>4, MovesKeep DEF Moves
  <2> SUFFICES ASSUME ~overlapped', NEW g \in Flushers PROVE PromiseKept(g)'
    BY PromiseInvAgain
  <2>6. PromiseKept(g)
    BY <2>1, PromiseInvIs
  <2>7. CASE g # f
    BY <2>1, <2>3, <2>5, <2>6, <2>7, PromiseStays
  <2>8. CASE g = f
    <3> HIDE DEF promised
    <3>1. promised \subseteq (Settled \cup Moving)'
      BY <1>3, <2>5
    <3>2. flush'[g].pc = "failed" \/ (flush'[g].pc = "waits" /\ flush'[g].promised = promised)
      BY <2>2, <2>3, <2>8
    <3> QED BY <3>1, <3>2 DEF PromiseKept
  <2> QED BY <2>7, <2>8
<1> QED BY <1>4, <1>5

LEMMA FlushGoesOnPromise ==
  ASSUME FileInv, DrainInv, PromiseInv, NEW f \in Flushers, FlushGoesOn(f)
  PROVE  PromiseInv'
<1>1. /\ flush[f].pc = "waits" /\ drains[flush[f].on] = <<>> /\ FlushDrains(f, flush[f].promised)
      /\ UNCHANGED <<active, file, removal, failed, cut>>
  BY DEF FlushGoesOn
<1>2. drains[f] = <<>> /\ (~overlapped => \A d \in Timers : drains[d] = <<>>)
  BY <1>1 DEF DrainInv
<1> DEFINE promised == flush[f].promised
<1>3. FlushDrains(f, promised)
  BY <1>1
<1>4. ~overlapped => promised \subseteq Settled \cup Moving
  BY <1>1, PromiseInvIs DEF PromiseKept
<1> HIDE DEF promised
<1>5. overlapped => overlapped'
  BY <1>3 DEF FlushDrains, Drain
<1>6. CASE overlapped
  BY <1>5, <1>6, PromiseInvAgain
<1> QED BY <1>1, <1>2, <1>3, <1>4, <1>6, FlushDrainsPromise

LEMMA FlushWrittenPromise ==
  ASSUME FileInv, DrainInv, PromiseInv, NEW f \in Flushers, FlushWritten(f)
  PROVE  PromiseInv'
<1>1. /\ Puts(f) /\ overlapped' = overlapped /\ flush[f].pc = "drains"
      /\ \A g \in Flushers : g # f => flush'[g] = flush[g]
      /\ flush'[f].pc = Counting /\ flush'[f].promised = flush[f].promised
  BY FlushWrittenDrains
<1>2. Settled' = Settled \cup Of(drains[f]) /\ \A e \in Drainers : e # f => drains'[e] = drains[e]
  BY <1>1, TimersAre, PutsFlow
<1> SUFFICES ASSUME ~overlapped', NEW g \in Flushers PROVE PromiseKept(g)'
  BY PromiseInvAgain
<1>3. PromiseKept(g) /\ Moves
  BY <1>1, TimersAre, PromiseInvIs DEF Moves
<1>4. CASE g # f
  BY <1>1, <1>2, <1>3, <1>4, TimersAre, PromiseStays
<1>5. CASE g = f
  <2>1. flush'[f].promised \subseteq Settled'
    BY <1>1, <1>2, <1>3, <1>5 DEF PromiseKept
  <2>2. flush'[f].pc \in {"returned", "counts"}
    BY <1>1 DEF Counting
  <2> QED BY <1>5, <2>1, <2>2 DEF PromiseKept
<1> QED BY <1>4, <1>5

LEMMA OthersPromise ==
  ASSUME FileInv, PromiseInv, Moves, overlapped => overlapped',
         \A f \in Flushers :
           \/ flush'[f].pc = "failed"
           \/ /\ drains'[f] = drains[f] /\ flush'[f].promised = flush[f].promised
              /\ flush'[f].pc = flush[f].pc \/ (flush[f].pc = "counts" /\ flush'[f].pc = "returned")
  PROVE  PromiseInv'
<1> SUFFICES ASSUME ~overlapped', NEW f \in Flushers PROVE PromiseKept(f)'
  BY PromiseInvAgain
<1>1. PromiseKept(f)
  BY PromiseInvIs
<1>2. CASE flush'[f].pc = "failed"
  BY <1>2 DEF PromiseKept
<1> QED BY <1>1, <1>2, PromiseStays

LEMMA PromiseNext ==
  ASSUME TypeInv, DrainInv, PromiseInv, [Next]_vars
  PROVE  PromiseInv'
<1>0. FileInv /\ Moves
  BY TypeInvIs, MovesNext
<1>1. CASE Wakes /\ UNCHANGED <<drains, overlapped>>
  BY <1>0, <1>1, OthersPromise DEF Wakes
<1>2. CASE Aside \/ RemovalStep
  BY <1>0, <1>1, <1>2, RemovalAside DEF Aside
<1>3. ASSUME NEW d \in setup.timers, TimerFires(d) \/ Written(d) \/ WriteFails(d) PROVE PromiseInv'
  <2>1. d \in Timers /\ d \in Drainers
    BY <1>0, TypeSetup, TimersAre
  <2>2. \A e \in Drainers : e # d => drains'[e] = drains[e]
    <3>1. Takes(d) \/ Puts(d) \/ Drops(d)
      BY <1>0, <1>3, <2>1, TimerFiresDrains, WrittenDrains, WriteFailsDrains
    <3> QED BY <1>0, <2>1, <3>1, TakesFlow, PutsFlow, DropsFlow
  <2>3. \A f \in Flushers : drains'[f] = drains[f]
    BY <2>1, <2>2, TimersAre
  <2>4. overlapped => overlapped'
    BY <1>3 DEF TimerFires, Drain, Written, WriteFails
  <2>5. CASE TimerFires(d) \/ Written(d)
    <3>1. flush' = flush
      BY <2>5 DEF TimerFires, Written
    <3> QED BY <1>0, <2>3, <2>4, <3>1, OthersPromise
  <2>6. CASE WriteFails(d)
    <3>1. \A f \in Flushers : flush'[f] = flush[f] \/ flush'[f].pc = "failed"
      BY <1>0, <2>1, <2>6, WriteFailsDrains
    <3>2. \A f \in Flushers :
           \/ flush'[f].pc = "failed"
           \/ /\ drains'[f] = drains[f] /\ flush'[f].promised = flush[f].promised
              /\ flush'[f].pc = flush[f].pc \/ (flush[f].pc = "counts" /\ flush'[f].pc = "returned")
      BY <2>3, <3>1
    <3> QED BY <1>0, <2>4, <3>2, OthersPromise
  <2> QED BY <1>3, <2>5, <2>6
<1>4. ASSUME NEW f \in setup.flushers, Flush(f) \/ FlushGoesOn(f) \/ FlushWritten(f) \/ FlushFails(f)
      PROVE  PromiseInv'
  <2>1. f \in Flushers /\ f \in Drainers
    BY <1>0, TypeSetup, TimersAre
  <2>2. CASE FlushFails(f)
    <3>1. /\ Drops(f) /\ overlapped' = overlapped /\ flush'[f].pc = "failed"
          /\ \A g \in Flushers : g # f => flush'[g] = flush[g]
      BY <1>0, <2>1, <2>2, FlushFailsDrains
    <3>2. \A g \in Flushers : g # f => drains'[g] = drains[g]
      BY <1>0, <2>1, <3>1, TimersAre, DropsFlow
    <3>3. \A g \in Flushers :
           \/ flush'[g].pc = "failed"
           \/ /\ drains'[g] = drains[g] /\ flush'[g].promised = flush[g].promised
              /\ flush'[g].pc = flush[g].pc \/ (flush[g].pc = "counts" /\ flush'[g].pc = "returned")
      BY <3>1, <3>2
    <3> QED BY <1>0, <3>1, <3>3, OthersPromise
  <2> QED BY <1>0, <1>4, <2>1, <2>2, FlushPromise, FlushGoesOnPromise, FlushWrittenPromise
<1>5. AnyFileStep => PromiseInv'
  BY <1>2, <1>3, <1>4 DEF AnyFileStep, FileStep, DrainStep, FlushStep
<1> QED BY <1>2, <1>5, AsideIs DEF Next

LEMMA DrainInit ==
  ASSUME Init
  PROVE  DrainInv /\ PromiseInv
<1>1. \A d \in Drainers : drains[d] = <<>>
  BY DEF Init, FileInit
<1>2. \A f \in Flushers : flush[f].pc = "idle"
  BY DEF Init, FileInit, NotCalled
<1>3. active = None
  BY DEF Init, FileInit
<1> QED BY <1>1, <1>2, <1>3, TimersAre DEF DrainInv, PromiseInv

\* When flush() returns (sessionStorage.ts), what was enqueued before its call
\* is on disk, unless some drain began beside another: of all the drains that
\* may be under way, the one that activeDrain names is then the only one.
THEOREM FlushReturnsAfter == Spec => []FlushCovers
<1>1. Init => TypeInv /\ DrainInv /\ PromiseInv
  BY TypeInit, DrainInit
<1>2. TypeInv /\ DrainInv /\ PromiseInv /\ [Next]_vars => (TypeInv /\ DrainInv /\ PromiseInv)'
  BY TypeNext, MovesNext, PromiseNext
<1>3. PromiseInv => FlushCovers
  BY DEF PromiseInv, FlushCovers
<1> QED BY <1>1, <1>2, <1>3, PTL DEF Spec

-----------------------------------------------------------------------------
(* Each message once                                                         *)

LEMMA DistinctIs ==
  ASSUME NEW s \in Seq(Lines)
  PROVE  Distinct(s) <=> \A i, j \in 1..Len(s) : s[i].uuid = s[j].uuid => i = j
BY InSequence DEF Distinct

LEMMA NothingDistinct == Distinct(<<>>)
BY DEF Distinct

LEMMA DistinctAppended ==
  ASSUME NEW s \in Seq(Lines), Distinct(s), NEW l \in Lines, l.uuid \notin Of(s)
  PROVE  Distinct(Append(s, l))
<1> DEFINE t == Append(s, l)
           n == Len(s)
<1>1. t \in Seq(Lines) /\ Len(t) = n + 1 /\ t[n + 1] = l /\ \A i \in 1..n : t[i] = s[i]
  BY Appended
<1>2. n \in Nat /\ \A i, j \in 1..n : s[i].uuid = s[j].uuid => i = j
  BY InSequence, DistinctIs
<1>3. \A i \in 1..n : s[i].uuid # l.uuid
  BY OfTyped
<1> HIDE DEF t, n
<1>4. \A i, j \in 1..(n + 1) : t[i].uuid = t[j].uuid => i = j
  <2> TAKE i, j \in 1..(n + 1)
  <2>1. (i \in 1..n \/ i = n + 1) /\ (j \in 1..n \/ j = n + 1)
    BY <1>2
  <2> QED BY <1>1, <1>2, <1>3, <2>1
<1> QED BY <1>1, <1>4, DistinctIs DEF t

LEMMA DistinctJoined ==
  ASSUME NEW s \in Seq(Lines), Distinct(s), NEW t \in Seq(Lines), Distinct(t), Of(s) \cap Of(t) = {}
  PROVE  Distinct(s \o t)
<1> DEFINE r == s \o t
           n == Len(s)
           m == Len(t)
<1>1. /\ r \in Seq(Lines) /\ Len(r) = n + m
      /\ \A i \in 1..n : r[i] = s[i]
      /\ \A i \in 1..m : r[n + i] = t[i]
      /\ \A i \in 1..(n + m) : i \in 1..n \/ i - n \in 1..m
  BY Joined
<1>2. /\ n \in Nat /\ \A i, j \in 1..n : s[i].uuid = s[j].uuid => i = j
      /\ m \in Nat /\ \A i, j \in 1..m : t[i].uuid = t[j].uuid => i = j
  BY InSequence, DistinctIs
<1>3. \A i \in 1..n, j \in 1..m : s[i].uuid # t[j].uuid
  BY OfTyped
<1> HIDE DEF r, n, m
<1>4. \A i, j \in 1..(n + m) : r[i].uuid = r[j].uuid => i = j
  <2> TAKE i, j \in 1..(n + m)
  <2> DEFINE a == i - n
             b == j - n
  <2>1. (i \in 1..n \/ a \in 1..m) /\ (j \in 1..n \/ b \in 1..m) /\ i = n + a /\ j = n + b
    BY <1>1, <1>2
  <2> HIDE DEF a, b
  <2>2. (i \in 1..n => r[i] = s[i]) /\ (a \in 1..m => r[i] = t[a])
        /\ (j \in 1..n => r[j] = s[j]) /\ (b \in 1..m => r[j] = t[b])
    BY <1>1, <2>1
  <2> QED BY <1>2, <1>3, <2>1, <2>2
<1> QED BY <1>1, <1>4, DistinctIs DEF r

\* The lines of r are among those of s.
LEMMA DistinctPicked ==
  ASSUME NEW s \in Seq(Lines), Distinct(s), NEW r \in Seq(Lines), NEW f,
         \A a \in 1..Len(r) : f[a] \in 1..Len(s) /\ r[a] = s[f[a]],
         \A a, b \in 1..Len(r) : f[a] = f[b] => a = b
  PROVE  Distinct(r) /\ Of(r) \subseteq Of(s)
<1>1. Distinct(r)
  BY DistinctIs
<1>2. Of(r) \subseteq Of(s)
  BY OfTyped
<1> QED BY <1>1, <1>2

LEMMA DistinctBegins ==
  ASSUME NEW s \in Seq(Lines), NEW t \in Seq(Lines), Begins(s, t), Distinct(t)
  PROVE  Distinct(s)
<1>1. DOMAIN s = 1..Len(s) /\ Len(s) \in Nat /\ Len(t) \in Nat
  BY InSequence
<1>2. \A i \in 1..Len(s) : i \in 1..Len(t) /\ t[i] = s[i]
  BY <1>1 DEF Begins
<1> QED BY <1>2, DistinctIs

\* What a removal that writes back holds is nowhere else.
HeldOnce ==
  removal.pc = "writes" =>
    /\ Distinct(removal.snap) /\ Of(removal.snap) \cap Moving = {} /\ Of(removal.snap) \subseteq known
    /\ \A i \in DOMAIN file : i >= removal.pos => file[i].uuid \notin Of(removal.snap)

LEMMA OnceInvIs ==
  OnceInv <=> /\ Distinct(file) /\ Distinct(queue) /\ \A d \in Drainers : Distinct(drains[d])
              /\ OnDisk \cap Moving = {} /\ Of(queue) \cap InFlight = {}
              /\ \A d, e \in Drainers : d # e => Of(drains[d]) \cap Of(drains[e]) = {}
              /\ HeldOnce
              /\ Moving \cup OnDisk \subseteq known
BY DEF OnceInv, HeldOnce

LEMMA OnceInvAgain ==
  ASSUME Distinct(file'), Distinct(queue'), \A d \in Drainers : Distinct(drains'[d]),
         OnDisk' \cap Moving' = {}, Of(queue') \cap InFlight' = {},
         \A d, e \in Drainers : d # e => Of(drains'[d]) \cap Of(drains'[e]) = {},
         HeldOnce', Moving' \cup OnDisk' \subseteq known'
  PROVE  OnceInv'
BY DEF OnceInv, HeldOnce

LEMMA RestsOnce ==
  ASSUME FileInv, OnceInv, Rests, known' = known
  PROVE  OnceInv'
<1>1. OnDisk' = OnDisk /\ InFlight' = InFlight /\ Moving' = Moving
  BY RestsFlow DEF Moving
<1>2. HeldOnce'
  BY <1>1, OnceInvIs DEF HeldOnce, Rests
<1> QED BY <1>1, <1>2, OnceInvIs, OnceInvAgain DEF Rests

LEMMA WaitsOnce ==
  ASSUME FileInv, OnceInv, NEW line \in Lines, Waits(line)
  PROVE  OnceInv'
<1>1. OnDisk' = OnDisk /\ InFlight' = InFlight /\ Of(queue') = Of(queue) \cup {line.uuid}
  BY WaitsFlow
<1>2. line.uuid \notin Moving \cup OnDisk /\ known \subseteq known' /\ line.uuid \in known' /\ line.uuid \notin known
  BY OnceInvIs DEF Waits
<1>3. Moving' = Moving \cup {line.uuid}
  BY <1>1 DEF Moving
<1>4. Distinct(queue')
  <2>1. queue \in Seq(Lines) /\ line.uuid \notin Of(queue)
    BY <1>2, SnapTyped DEF FileInv, Moving
  <2> QED BY <2>1, OnceInvIs, DistinctAppended DEF Waits
<1>5. HeldOnce'
  BY <1>2, <1>3, OnceInvIs DEF HeldOnce, Waits
<1>6. Of(queue') \cap InFlight' = {} /\ OnDisk' \cap Moving' = {} /\ Moving' \cup OnDisk' \subseteq known'
  BY <1>1, <1>2, <1>3, OnceInvIs DEF Moving
<1> QED BY <1>4, <1>5, <1>6, OnceInvIs, OnceInvAgain DEF Waits

LEMMA TakesOnce ==
  ASSUME FileInv, OnceInv, NEW d \in Drainers, Takes(d), known' = known
  PROVE  OnceInv'
<1>1. /\ InFlight' = InFlight \cup Of(queue) /\ Of(queue') = {} /\ drains'[d] = queue
      /\ \A e \in Drainers : e # d => drains'[e] = drains[e]
  BY TakesFlow
<1>2. Moving' = Moving /\ OnDisk' = OnDisk
  BY <1>1 DEF Moving, OnDisk, Takes
<1>3. HeldOnce'
  BY <1>2, OnceInvIs DEF HeldOnce, Takes
<1>4. \A e \in Drainers : Of(drains[e]) \cap Of(queue) = {}
  BY OnceInvIs DEF InFlight
<1>5. \A e, g \in Drainers : e # g => Of(drains'[e]) \cap Of(drains'[g]) = {}
  BY <1>1, <1>4, OnceInvIs
<1>6. Distinct(file') /\ Distinct(queue') /\ \A e \in Drainers : Distinct(drains'[e])
  BY <1>1, OnceInvIs, NothingDistinct DEF Takes
<1> QED BY <1>1, <1>2, <1>3, <1>5, <1>6, OnceInvIs, OnceInvAgain

\* A drain is over: what it took is no longer in flight.
LEMMA EndsOnce ==
  ASSUME FileInv, OnceInv, NEW d \in Drainers, Puts(d) \/ Drops(d)
  PROVE  /\ Moving' \subseteq Moving /\ Moving' \cap Of(drains[d]) = {} /\ Of(drains[d]) \subseteq Moving
         /\ Distinct(queue') /\ \A e \in Drainers : Distinct(drains'[e])
         /\ Of(queue') \cap InFlight' = {}
         /\ \A e, g \in Drainers : e # g => Of(drains'[e]) \cap Of(drains'[g]) = {}
<1>1. /\ InFlight' = UNION {Of(drains[e]) : e \in Drainers \ {d}} /\ InFlight = InFlight' \cup Of(drains[d])
      /\ drains'[d] = <<>> /\ \A e \in Drainers : e # d => drains'[e] = drains[e]
  BY PutsFlow, DropsFlow
<1>2. queue' = queue
  BY DEF Puts, Drops
<1>3. \A e \in Drainers : e # d => Of(drains[e]) \cap Of(drains[d]) = {}
  BY OnceInvIs
<1>4. InFlight' \cap Of(drains[d]) = {}
  BY <1>1, <1>3
<1>5. Of(queue) \cap InFlight = {}
  BY OnceInvIs
<1>6. Moving' = Of(queue) \cup InFlight' /\ Moving = Of(queue) \cup InFlight
  BY <1>2 DEF Moving
<1>7. Moving' \subseteq Moving /\ Moving' \cap Of(drains[d]) = {} /\ Of(drains[d]) \subseteq Moving
  BY <1>1, <1>4, <1>5, <1>6
<1>8. Of(queue') \cap InFlight' = {}
  BY <1>1, <1>2, <1>5
<1>9. Distinct(queue') /\ \A e \in Drainers : Distinct(drains'[e])
  BY <1>1, <1>2, OnceInvIs, NothingDistinct
<1>10. \A e, g \in Drainers : e # g => Of(drains'[e]) \cap Of(drains'[g]) = {}
  BY <1>1, OnceInvIs, OfNothing
<1> QED BY <1>7, <1>8, <1>9, <1>10

LEMMA PutsOnce ==
  ASSUME FileInv, OnceInv, NEW d \in Drainers, Puts(d), known' = known
  PROVE  OnceInv'
<1>1. /\ Moving' \subseteq Moving /\ Moving' \cap Of(drains[d]) = {} /\ Of(drains[d]) \subseteq Moving
      /\ Distinct(queue') /\ \A e \in Drainers : Distinct(drains'[e])
      /\ Of(queue') \cap InFlight' = {}
      /\ \A e, g \in Drainers : e # g => Of(drains'[e]) \cap Of(drains'[g]) = {}
  BY EndsOnce
<1>2. OnDisk' = OnDisk \cup Of(drains[d])
  BY PutsFlow
<1>3. OnDisk \cap Moving = {} /\ Moving \cup OnDisk \subseteq known /\ HeldOnce
  BY OnceInvIs
<1>4. OnDisk' \cap Moving' = {} /\ Moving' \cup OnDisk' \subseteq known'
  BY <1>1, <1>2, <1>3
<1>5. file' = file \o drains[d] /\ removal' = removal /\ file \in Seq(Lines) /\ drains[d] \in Seq(Lines)
  BY SnapTyped DEF Puts, FileInv
<1>6. Distinct(file')
  <2>1. Of(file) \cap Of(drains[d]) = {}
    BY <1>1, <1>3 DEF OnDisk
  <2> QED BY <1>5, <2>1, OnceInvIs, DistinctJoined
<1>7. HeldOnce'
  <2> SUFFICES ASSUME removal.pc = "writes"
               PROVE  /\ Of(removal.snap) \cap Moving' = {}
                      /\ \A i \in DOMAIN file' : i >= removal.pos => file'[i].uuid \notin Of(removal.snap)
    BY <1>3, <1>5 DEF HeldOnce
  <2>1. Of(removal.snap) \cap Moving = {} /\ \A i \in DOMAIN file : i >= removal.pos => file[i].uuid \notin Of(removal.snap)
    BY <1>3 DEF HeldOnce
  <2> DEFINE n == Len(file)
             s == drains[d]
  <2>2. /\ DOMAIN file' = 1..(n + Len(s)) /\ n \in Nat /\ DOMAIN file = 1..n
        /\ \A i \in 1..n : file'[i] = file[i]
        /\ \A i \in 1..Len(s) : file'[n + i] = s[i]
        /\ \A i \in 1..(n + Len(s)) : i \in 1..n \/ i - n \in 1..Len(s)
    BY <1>5, Joined, InSequence
  <2>3. \A i \in 1..Len(s) : s[i].uuid \in Moving
    BY <1>1, <1>5, OfTyped
  <2> HIDE DEF n, s
  <2>4. ASSUME NEW i \in DOMAIN file', i >= removal.pos PROVE file'[i].uuid \notin Of(removal.snap)
    <3>1. CASE i \in 1..n
      BY <2>1, <2>2, <2>4, <3>1
    <3>2. CASE i - n \in 1..Len(s)
      <4> DEFINE j == i - n
      <4>1. j \in 1..Len(s) /\ i = n + j
        BY <2>2, <3>2
      <4> HIDE DEF j
      <4> QED BY <2>1, <2>2, <2>3, <4>1
    <3> QED BY <2>2, <3>1, <3>2
  <2> QED BY <1>1, <2>1, <2>4
<1> QED BY <1>1, <1>4, <1>6, <1>7, OnceInvAgain

LEMMA DropsOnce ==
  ASSUME FileInv, OnceInv, NEW d \in Drainers, Drops(d), known' = known
  PROVE  OnceInv'
<1>1. /\ Moving' \subseteq Moving
      /\ Distinct(queue') /\ \A e \in Drainers : Distinct(drains'[e])
      /\ Of(queue') \cap InFlight' = {}
      /\ \A e, g \in Drainers : e # g => Of(drains'[e]) \cap Of(drains'[g]) = {}
  BY EndsOnce
<1>2. OnDisk' = OnDisk /\ file' = file /\ removal' = removal
  BY DEF Drops, OnDisk
<1>3. HeldOnce'
  BY <1>1, <1>2, OnceInvIs DEF HeldOnce
<1> QED BY <1>1, <1>2, <1>3, OnceInvIs, OnceInvAgain

LEMMA TruncateOnce ==
  ASSUME FileInv, OnceInv, Truncate, known' = known
  PROVE  Distinct(file') /\ HeldOnce'
<1>0. /\ removal.pc = "cuts" /\ Begins(removal.snap, file) /\ SnapInv /\ FileTypeOK /\ RemovalTyped
      /\ removal.snap \in Seq(Lines) /\ file \in Seq(Lines)
  BY SnapTyped DEF FileInv, Truncate, SnapInv, FileTypeOK, RemovalTyped
<1>1. Distinct(removal.snap) /\ Of(removal.snap) \subseteq OnDisk
  BY <1>0, OnceInvIs, DistinctBegins, TruncateFlow
<1> DEFINE n == removal.pos - 1
<1>2. /\ file' = SubSeq(file, 1, n) /\ file' \in Seq(Lines) /\ Len(file') = n /\ \A i \in 1..n : file'[i] = removal.snap[i]
      /\ n \in 0..Len(removal.snap)
  BY <1>0, CutAt, BeginsCut DEF Truncate
<1>3. Distinct(file')
  <2> DEFINE f == [i \in 1..Len(file') |-> i]
  <2>1. \A a \in 1..Len(file') : f[a] \in 1..Len(removal.snap) /\ file'[a] = removal.snap[f[a]]
    <3> TAKE a \in 1..Len(file')
    <3>1. f[a] = a
      OBVIOUS
    <3>2. a \in 1..n /\ Len(removal.snap) \in Nat
      BY <1>0, <1>2, InSequence
    <3> HIDE DEF f, n
    <3> QED BY <1>2, <3>1, <3>2
  <2>2. \A a, b \in 1..Len(file') : f[a] = f[b] => a = b
    OBVIOUS
  <2>3. removal.snap \in Seq(Lines) /\ Distinct(removal.snap) /\ file' \in Seq(Lines)
    BY <1>0, <1>1, <1>2
  <2> HIDE DEF f
  <2> QED BY <2>1, <2>2, <2>3, DistinctPicked
<1>4. HeldOnce'
  <2> SUFFICES ASSUME removal'.pc = "writes" PROVE HeldOnce'
    BY DEF HeldOnce
  <2>1. removal'.snap = removal.snap /\ removal'.pos = removal.pos
    BY <1>0 DEF Truncate, RemovalEnds, NoRemoval, RemovalTyped
  <2>2. Moving' = Moving
    BY DEF Moving, InFlight, Truncate
  <2>3. Of(removal.snap) \cap Moving = {} /\ Of(removal.snap) \subseteq known
    BY <1>1, OnceInvIs
  <2>4. \A i \in DOMAIN file' : ~(i >= removal.pos)
    <3>1. DOMAIN file' = 1..n
      BY <1>2, InSequence
    <3> QED BY <1>0, <1>2, <3>1, SnapTyped
  <2> QED BY <1>1, <2>1, <2>2, <2>3, <2>4 DEF HeldOnce
<1> QED BY <1>3, <1>4

LEMMA RewriteOnce ==
  ASSUME FileInv, OnceInv, Rewrite
  PROVE  Distinct(file') /\ HeldOnce'
<1>0. /\ removal.pc = "rewrites" /\ Begins(removal.snap, file)
      /\ removal.snap \in Seq(Lines) /\ file \in Seq(Lines)
  BY SnapTyped DEF FileInv, Rewrite, SnapInv
<1>1. Distinct(removal.snap)
  BY <1>0, OnceInvIs, DistinctBegins
<1> DEFINE s == removal.snap
           S == {l \in Lines : l.uuid # removal.target}
<1>2. file' = Selected(s, S)
  BY DEF Rewrite
<1> HIDE DEF S
<1>3. file' \in Seq(Lines) /\ \E f : Finds(f, file', Len(s), s, S)
  BY <1>0, <1>2, SelectedFound
<1>4. PICK f : Finds(f, file', Len(s), s, S)
  BY <1>3
<1>5. /\ \A a \in 1..Len(file') : f[a] \in 1..Len(s) /\ file'[a] = s[f[a]]
      /\ \A a, b \in 1..Len(file') : a < b => f[a] < f[b]
  BY <1>4 DEF Finds
<1>6. \A a, b \in 1..Len(file') : f[a] = f[b] => a = b
  <2> TAKE a, b \in 1..Len(file')
  <2>1. a < b \/ b < a \/ a = b
    OBVIOUS
  <2>2. f[a] \in Nat /\ f[b] \in Nat
    <3>1. Len(s) \in Nat
      BY <1>0, InSequence
    <3> QED BY <1>5, <3>1
  <2> QED BY <1>5, <2>1, <2>2
<1>7. Distinct(file')
  BY <1>0, <1>1, <1>3, <1>5, <1>6, DistinctPicked
<1>8. removal'.pc # "writes"
  BY DEF Rewrite, RemovalEnds, NoRemoval
<1> QED BY <1>7, <1>8 DEF HeldOnce

LEMMA WriteBackOnce ==
  ASSUME FileInv, OnceInv, WriteBack
  PROVE  Distinct(file') /\ HeldOnce'
<1>0. removal.pc = "writes" /\ FileTypeOK
  BY DEF FileInv, WriteBack
<1> DEFINE n == removal.pos - 1
           end == n + Len(After)
           p == SubSeq(file, 1, n)
           t == SubSeq(file, end + 1, Len(file))
           s == removal.snap
<1>1. /\ p \in Seq(Lines) /\ After \in Seq(Lines) /\ t \in Seq(Lines) /\ end \in Nat /\ file \in Seq(Lines)
      /\ Len(p) = n /\ \A i \in 1..n : p[i] = s[i]
      /\ Len(After) = Len(s) - removal.pos /\ \A i \in 1..Len(After) : After[i] = s[removal.pos + i]
      /\ s \in Seq(Lines)
  <2>1. /\ p \in Seq(Lines) /\ After \in Seq(Lines) /\ t \in Seq(Lines) /\ end \in Nat /\ Len(p) = n
        /\ \A i \in 1..n : p[i] = file[i] /\ file[i] = s[i]
        /\ Len(After) = Len(s) - removal.pos /\ \A i \in 1..Len(After) : After[i] = s[removal.pos + i]
    BY <1>0, BackTyped
  <2>2. s \in Seq(Lines) /\ file \in Seq(Lines)
    BY <1>0, SnapTyped
  <2> HIDE DEF n, end, p, t, s
  <2> QED BY <2>1, <2>2
<1>2. n \in Nat /\ n + 1 = removal.pos /\ removal.pos \in Nat /\ removal.pos <= Len(s) /\ Len(s) \in Nat
  <2>1. removal.pos \in 1..Len(removal.snap)
    BY <1>0, CutAt DEF FileInv
  <2>2. Len(s) \in Nat
    BY <1>1, InSequence
  <2> QED BY <2>1, <2>2
<1>3. Len(t) = (IF end <= Len(file) THEN Len(file) - end ELSE 0) /\ \A i \in 1..(Len(file) - end) : t[i] = file[end + i]
  BY <1>1, CutFrom
<1>4. file' = p \o After \o t
  BY DEF WriteBack
<1>5. end >= n /\ Len(After) \in Nat /\ Len(file) \in Nat /\ DOMAIN file = 1..Len(file)
  <2>1. Len(After) \in Nat /\ Len(file) \in Nat /\ DOMAIN file = 1..Len(file)
    BY <1>1, InSequence
  <2> QED BY <1>2, <2>1
<1>6. /\ Distinct(s) /\ Distinct(file)
      /\ \A i \in DOMAIN file : i >= removal.pos => file[i].uuid \notin Of(s)
  BY <1>0, OnceInvIs DEF HeldOnce
<1>7. \A i, j \in 1..Len(s) : s[i].uuid = s[j].uuid => i = j
  BY <1>1, <1>6, DistinctIs
<1> HIDE DEF n, end, p, t, s
<1>8. Distinct(p) /\ Of(p) \subseteq Of(s)
  <2> DEFINE f == [i \in 1..Len(p) |-> i]
  <2>1. \A a \in 1..Len(p) : f[a] \in 1..Len(s) /\ p[a] = s[f[a]]
    <3> TAKE a \in 1..Len(p)
    <3>1. f[a] = a
      OBVIOUS
    <3>2. a \in 1..n /\ a \in 1..Len(s)
      BY <1>1, <1>2
    <3> HIDE DEF f
    <3> QED BY <1>1, <3>1, <3>2
  <2>2. \A a, b \in 1..Len(p) : f[a] = f[b] => a = b
    OBVIOUS
  <2>3. s \in Seq(Lines) /\ Distinct(s) /\ p \in Seq(Lines)
    BY <1>1, <1>6
  <2> HIDE DEF f
  <2> QED BY <2>1, <2>2, <2>3, DistinctPicked
<1>9. Distinct(After) /\ Of(After) \subseteq Of(s)
  <2> DEFINE f == [i \in 1..Len(After) |-> removal.pos + i]
  <2>1. \A a \in 1..Len(After) : f[a] \in 1..Len(s) /\ After[a] = s[f[a]]
    <3> TAKE a \in 1..Len(After)
    <3>1. f[a] = removal.pos + a
      OBVIOUS
    <3>2. removal.pos + a \in 1..Len(s)
      BY <1>1, <1>2
    <3> HIDE DEF f
    <3> QED BY <1>1, <3>1, <3>2
  <2>2. \A a, b \in 1..Len(After) : f[a] = f[b] => a = b
    BY <1>2
  <2>3. s \in Seq(Lines) /\ Distinct(s) /\ After \in Seq(Lines)
    BY <1>1, <1>6
  <2> HIDE DEF f
  <2> QED BY <2>1, <2>2, <2>3, DistinctPicked
<1>10. Distinct(t) /\ Of(t) \cap Of(s) = {}
  <2> DEFINE f == [i \in 1..Len(t) |-> end + i]
  <2>1. \A a \in 1..Len(t) : f[a] \in 1..Len(file) /\ t[a] = file[f[a]] /\ f[a] >= removal.pos
    <3> TAKE a \in 1..Len(t)
    <3>1. f[a] = end + a
      OBVIOUS
    <3>2. end + a \in 1..Len(file) /\ a \in 1..(Len(file) - end) /\ end + a >= removal.pos
      <4> DEFINE m == Len(t)
                 k == Len(file)
      <4>1. m = (IF end <= k THEN k - end ELSE 0) /\ end \in Nat /\ k \in Nat /\ a \in 1..m /\ end >= n
        BY <1>1, <1>3, <1>5
      <4> HIDE DEF m, k
      <4>2. end + a \in 1..k /\ a \in 1..(k - end) /\ end + a >= removal.pos
        BY <1>2, <4>1
      <4> QED BY <4>2 DEF k
    <3> HIDE DEF f
    <3> QED BY <1>3, <3>1, <3>2
  <2>2. \A a, b \in 1..Len(t) : f[a] = f[b] => a = b
    BY <1>1
  <2>3. file \in Seq(Lines) /\ Distinct(file) /\ t \in Seq(Lines)
    BY <1>1, <1>6
  <2> HIDE DEF f
  <2>4. Distinct(t)
    BY <2>1, <2>2, <2>3, DistinctPicked
  <2>5. \A a \in 1..Len(t) : t[a].uuid \notin Of(s)
    BY <1>5, <1>6, <2>1
  <2> QED BY <2>3, <2>4, <2>5, OfTyped
<1>11. Of(p) \cap Of(After) = {}
  <2> SUFFICES ASSUME NEW i \in 1..n, NEW j \in 1..Len(After), p[i].uuid = After[j].uuid PROVE FALSE
    BY <1>1, OfTyped
  <2>1. i \in 1..Len(s) /\ i < removal.pos /\ i \in Nat
    BY <1>2
  <2>2. j \in Nat /\ j >= 1 /\ j <= Len(s) - removal.pos
    BY <1>1, <1>2
  <2>3. removal.pos + j \in 1..Len(s) /\ i # removal.pos + j
    BY <1>2, <2>1, <2>2
  <2> QED BY <1>1, <1>7, <2>1, <2>3
<1>12. p \o After \in Seq(Lines) /\ Distinct(p \o After) /\ Of(p \o After) \subseteq Of(s)
  BY <1>1, <1>8, <1>9, <1>11, Joined, OfJoined, DistinctJoined
<1>13. Distinct(file')
  <2> DEFINE q == p \o After
  <2>1. q \in Seq(Lines) /\ Distinct(q) /\ Of(q) \cap Of(t) = {} /\ file' = q \o t
    BY <1>4, <1>10, <1>12
  <2> HIDE DEF q
  <2> QED BY <1>1, <1>10, <2>1, DistinctJoined
<1>14. removal'.pc # "writes"
  BY DEF WriteBack, RemovalEnds, NoRemoval
<1> QED BY <1>13, <1>14 DEF HeldOnce

LEMMA CutsOnce ==
  ASSUME FileInv, OnceInv, Cuts, known' = known
  PROVE  OnceInv'
<1>1. /\ UNCHANGED <<queue, drains, failed>> /\ OnDisk' \subseteq OnDisk \cup Held
      /\ InFlight' = InFlight /\ Of(queue') = Of(queue)
  BY CutsFlow
<1>2. Moving' = Moving
  BY <1>1 DEF Moving
<1>3. Held \cap Moving = {} /\ Held \subseteq known
  <2>1. CASE removal.pc = "writes"
    <3>1. Held \subseteq Of(removal.snap)
      BY <2>1, SnapParts DEF Held
    <3> QED BY <2>1, <3>1, OnceInvIs DEF HeldOnce
  <2>2. CASE removal.pc # "writes"
    BY <2>2 DEF Held
  <2> QED BY <2>1, <2>2
<1>4. OnDisk' \cap Moving' = {} /\ Moving' \cup OnDisk' \subseteq known'
  BY <1>1, <1>2, <1>3, OnceInvIs
<1>5. Distinct(file') /\ HeldOnce'
  BY TruncateOnce, WriteBackOnce, RewriteOnce DEF Cuts
<1> QED BY <1>1, <1>4, <1>5, OnceInvIs, OnceInvAgain

LEMMA OnceNext ==
  ASSUME TypeInv, DrainInv, OnceInv, [Next]_vars
  PROVE  OnceInv'
<1>0. FileInv /\ Moves /\ (known' = known \/ \E line \in Lines : Waits(line))
  BY TypeInvIs, MovesNext
<1>1. CASE \E line \in Lines : Waits(line)
  BY <1>0, <1>1, WaitsOnce
<1>2. CASE known' = known
  BY <1>0, <1>1, <1>2, RestsOnce, TakesOnce, PutsOnce, DropsOnce, CutsOnce DEF Moves
<1> QED BY <1>0, <1>1, <1>2

-----------------------------------------------------------------------------
(* Where each message is                                                     *)

LEMMA TodoIs ==
  /\ \A u : u \in Todo <=> \E c \in DOMAIN calls : u \in Of(calls[c].lines) \/ u \in Elements(calls[c].slice)
  /\ \A u : u \in Todo' <=> \E c \in DOMAIN calls' : u \in Of(calls'[c].lines) \/ u \in Elements(calls'[c].slice)
BY DEF Todo

\* One call goes on.
LEMMA TodoMoved ==
  ASSUME CallTypes, NEW c \in DOMAIN calls, NEW call \in Call, calls' = [calls EXCEPT ![c] = call]
  PROVE  \E rest :
           /\ Todo = rest \cup Of(calls[c].lines) \cup Elements(calls[c].slice)
           /\ Todo' = rest \cup Of(call.lines) \cup Elements(call.slice)
<1>1. /\ DOMAIN calls' = DOMAIN calls /\ calls'[c] = call
      /\ \A e \in DOMAIN calls : e # c => calls'[e] = calls[e]
  BY CallReplaced
<1> DEFINE rest == UNION {Of(calls[e].lines) \cup Elements(calls[e].slice) : e \in DOMAIN calls \ {c}}
<1>2. \A u : u \in rest <=> \E e \in DOMAIN calls : e # c /\ (u \in Of(calls[e].lines) \/ u \in Elements(calls[e].slice))
  OBVIOUS
<1>3. \A u : u \in Todo' <=> \E e \in DOMAIN calls' : u \in Of(calls'[e].lines) \/ u \in Elements(calls'[e].slice)
  BY TodoIs
<1> HIDE DEF rest
<1>4. \A u : u \in Todo <=> u \in rest \/ u \in Of(calls[c].lines) \/ u \in Elements(calls[c].slice)
  BY <1>2, TodoIs
<1>5. \A u : u \in Todo' <=> u \in rest \/ u \in Of(call.lines) \/ u \in Elements(call.slice)
  BY <1>1, <1>2, <1>3
<1> QED BY <1>4, <1>5

NotesWait ==
  \A u \in handed \ Notes : materialized \/ \E c \in DOMAIN calls : u \in Elements(calls[c].slice)

LEMMA HandInvIs ==
  HandInv <=> /\ known \subseteq Moving \cup Settled
              /\ handed = Todo \cup Of(pending) \cup known
              /\ IF materialized THEN pending = <<>> ELSE known = {}
              /\ NotesWait
BY DEF HandInv, NotesWait

LEMMA HandInvAgain ==
  ASSUME known' \subseteq Moving' \cup Settled', handed' = Todo' \cup Of(pending') \cup known',
         IF materialized' THEN pending' = <<>> ELSE known' = {}, NotesWait'
  PROVE  HandInv'
BY DEF HandInv, NotesWait

LEMMA KnownKept ==
  ASSUME TypeInv, DrainInv, HandInv, [Next]_vars
  PROVE  known' \subseteq Moving' \cup Settled'
<1>0. FileInv /\ Moves /\ (known' = known \/ \E line \in Lines : Waits(line))
  BY TypeInvIs, MovesNext
<1>1. Settled \cup Moving \subseteq (Settled \cup Moving)'
  BY <1>0, MovesKeep
<1>2. ASSUME NEW line \in Lines, Waits(line) PROVE known' \subseteq Moving' \cup Settled'
  <2>1. known' = known \cup {line.uuid} /\ line.uuid \in Moving'
    BY <1>0, <1>2, WaitsFlow DEF Waits, Moving
  <2> QED BY <1>1, <2>1, HandInvIs
<1> QED BY <1>0, <1>1, <1>2, HandInvIs

LEMMA SetupStays ==
  ASSUME [Next]_vars
  PROVE  setup' = setup
<1>1. ASSUME NEW c \in DOMAIN calls, Loaded(c) \/ AppendEntry(c) \/ Finish(c) PROVE setup' = setup
  BY <1>1 DEF Loaded, AppendEntry, Finish
<1>2. CallStep => setup' = setup
  BY <1>1 DEF CallStep
<1>3. FileStep => setup' = setup
  BY DEF FileStep, DrainStep, FlushStep, RemovalStep, TimerFires, Written, WriteFails, FlushGoesOn, FlushWritten,
         FlushFails, Flush, ReadTail, Truncate, WriteBack, Reread, Rewrite
<1>4. Say \/ Tombstone \/ Render \/ UNCHANGED vars => setup' = setup
  BY DEF Say, Tombstone, Render, vars, fileVars
<1> QED BY <1>2, <1>3, <1>4 DEF Next, AnyFileStep

LEMMA RenderHands ==
  ASSUME TypeInv, HandInv, Render, setup' = setup, known' \subseteq Moving' \cup Settled'
  PROVE  HandInv'
<1>0. ScreenTypes /\ CallTypes
  BY TypeInvIs
<1>1. UNCHANGED <<known, pending, materialized>>
  BY DEF Render
<1>2. PICK slice \in Seq(Uuids), incremental \in BOOLEAN, n \in 0..Len(messages) :
        \/ slice = <<>> /\ UNCHANGED <<hook, calls, handed, beside>>
        \/ Passes(slice, incremental)
  BY <1>0, RenderIs
<1>3. CASE UNCHANGED <<calls, handed>>
  <2>1. Todo' = Todo /\ NotesWait'
    BY <1>1, <1>3, HandInvIs DEF Todo, NotesWait, Notes
  <2> QED BY <1>1, <1>3, <2>1, HandInvIs, HandInvAgain
<1>4. CASE Passes(slice, incremental)
  <2> DEFINE call == Called(slice, ~incremental, IF incremental THEN hook.parent ELSE Root)
  <2>1. calls' = Append(calls, call) /\ handed' = handed \cup Elements(slice)
    BY <1>4 DEF Passes
  <2>2. call.slice = slice /\ Of(call.lines) = {} /\ call \in Call
    <3>1. hook.parent \in Uuids \cup {Root}
      BY <1>0 DEF ScreenTypes
    <3> QED BY <3>1, OfNothing, NothingTyped DEF Called, Call
  <2> HIDE DEF call
  <2> DEFINE m == Len(calls)
  <2>3. /\ m \in Nat /\ DOMAIN calls = 1..m /\ DOMAIN calls' = 1..(m + 1)
        /\ calls'[m + 1] = call /\ \A c \in 1..m : calls'[c] = calls[c]
    BY <1>0, <2>1, <2>2, Appended, InSequence DEF CallTypes
  <2> HIDE DEF m
  <2>4. \A u : u \in Todo' <=> \E c \in DOMAIN calls' : u \in Of(calls'[c].lines) \/ u \in Elements(calls'[c].slice)
    BY TodoIs
  <2>5. \A u : u \in Todo' <=> u \in Todo \/ u \in Elements(slice)
    <3>1. \A c \in 1..(m + 1) : c \in 1..m \/ c = m + 1
      BY <2>3
    <3>2. m + 1 \in 1..(m + 1) /\ \A c \in 1..m : c \in 1..(m + 1)
      BY <2>3
    <3> QED BY <2>2, <2>3, <2>4, <3>1, <3>2, TodoIs
  <2>6. NotesWait'
    <3>1. m + 1 \in 1..(m + 1) /\ \A c \in 1..m : c \in 1..(m + 1)
      BY <2>3
    <3>2. Notes' = Notes /\ materialized' = materialized
      BY <1>1 DEF Notes
    <3> QED BY <2>1, <2>2, <2>3, <3>1, <3>2, HandInvIs DEF NotesWait
  <2>7. handed' = Todo' \cup Of(pending') \cup known'
    BY <1>1, <2>1, <2>5, HandInvIs
  <2> QED BY <1>1, <2>6, <2>7, HandInvIs, HandInvAgain
<1> QED BY <1>2, <1>3, <1>4

LEMMA LoadedHands ==
  ASSUME TypeInv, HandInv, NEW c \in DOMAIN calls, Loaded(c), setup' = setup, known' \subseteq Moving' \cup Settled'
  PROVE  HandInv'
<1>0. ScreenTypes /\ CallTypes /\ CallsInv
  BY TypeInvIs
<1>1. UNCHANGED <<known, handed>> /\ calls[c].pc = "loads" /\ Notes' = Notes
  BY DEF Loaded, Notes
<1>2. PICK new \in Seq(Uuids), start \in Uuids \cup {Root}, makes \in BOOLEAN, lines \in Seq(Lines) :
           LoadedAs(c, new, start, makes, lines)
  BY <1>0, LoadedIs
<1>3. Of(calls[c].lines) = {} /\ calls[c] \in Call /\ Elements(new) = Elements(calls[c].slice) \ known
  BY <1>0, <1>1, <1>2, CallsTyped, OfNothing DEF CallsInv, LoadedAs
<1>4. CASE new = <<>>
  <2>1. calls' = [calls EXCEPT ![c] = Over] /\ UNCHANGED <<pending, materialized>>
    BY <1>2, <1>4 DEF LoadedAs
  <2>2. Elements(<<>>) = {} /\ Over.slice = <<>> /\ Of(Over.lines) = {} /\ Over \in Call
    BY OverIs, OfNothing DEF Elements
  <2>3. PICK rest : /\ Todo = rest \cup Of(calls[c].lines) \cup Elements(calls[c].slice)
                    /\ Todo' = rest \cup Of(Over.lines) \cup Elements(Over.slice)
    BY <1>0, <2>1, <2>2, TodoMoved
  <2>4. Elements(calls[c].slice) \subseteq known
    BY <1>3, <1>4, <2>2
  <2>5. handed' = Todo' \cup Of(pending') \cup known'
    BY <1>1, <1>3, <2>1, <2>2, <2>3, <2>4, HandInvIs
  <2>6. NotesWait'
    <3>1. /\ DOMAIN calls' = DOMAIN calls
          /\ \A e \in DOMAIN calls : e # c => calls'[e] = calls[e]
      BY <1>0, <2>1, <2>2, CallReplaced
    <3>2. ~materialized => Elements(calls[c].slice) = {}
      BY <2>4, HandInvIs
    <3> QED BY <1>1, <2>1, <3>1, <3>2, HandInvIs DEF NotesWait
  <2> QED BY <1>1, <2>1, <2>5, <2>6, HandInvIs, HandInvAgain
<1>5. CASE new # <<>>
  <2> DEFINE call == [calls[c] EXCEPT !.pc = "appends", !.result = Last(new), !.slice = <<>>, !.lines = lines]
  <2>1. /\ calls' = [calls EXCEPT ![c] = call]
        /\ materialized' = (materialized \/ makes)
        /\ pending' = IF makes THEN <<>> ELSE pending
        /\ makes <=> ~materialized /\ Elements(new) \ Notes # {}
        /\ Of(lines) = (IF makes THEN Of(pending) ELSE {}) \cup Elements(new)
    BY <1>2, <1>5 DEF LoadedAs
  <2>2. call \in Call /\ call.slice = <<>> /\ call.lines = lines
    <3> DEFINE result == Last(new)
    <3>1. result \in Uuids \cup {Root} /\ <<>> \in Seq(Uuids)
      BY <1>5, Ended
    <3>2. call = [calls[c] EXCEPT !.pc = "appends", !.result = result, !.slice = <<>>, !.lines = lines]
      OBVIOUS
    <3>3. lines \in Seq(Lines) /\ calls[c] \in Call
      BY <1>3
    <3> DEFINE old == calls[c]
    <3>4. call = [old EXCEPT !.pc = "appends", !.result = result, !.slice = <<>>, !.lines = lines]
      BY <3>2
    <3>5. old \in Call
      BY <1>3
    <3> HIDE DEF result, call, old
    <3> QED BY <3>1, <3>3, <3>4, <3>5 DEF Call
  <2> HIDE DEF call
  <2>3. PICK rest : /\ Todo = rest \cup Of(calls[c].lines) \cup Elements(calls[c].slice)
                    /\ Todo' = rest \cup Of(call.lines) \cup Elements(call.slice)
    BY <1>0, <2>1, <2>2, TodoMoved
  <2>4. Elements(<<>>) = {}
    BY DEF Elements
  <2>5. handed' = Todo' \cup Of(pending') \cup known'
    BY <1>1, <1>3, <2>1, <2>2, <2>3, <2>4, OfNothing, HandInvIs
  <2>6. IF materialized' THEN pending' = <<>> ELSE known' = {}
    BY <1>1, <2>1, HandInvIs
  <2>7. NotesWait'
    <3>1. /\ DOMAIN calls' = DOMAIN calls
          /\ \A e \in DOMAIN calls : e # c => calls'[e] = calls[e]
      BY <1>0, <2>1, <2>2, CallReplaced
    <3>2. ~materialized' => Elements(calls[c].slice) \subseteq Notes
      BY <1>3, <2>1, HandInvIs
    <3> QED BY <1>1, <2>1, <3>1, <3>2, HandInvIs DEF NotesWait
  <2> QED BY <2>5, <2>6, <2>7, HandInvAgain
<1> QED BY <1>4, <1>5

LEMMA EntryHands ==
  ASSUME TypeInv, HandInv, NEW c \in DOMAIN calls, AppendEntry(c), setup' = setup,
         known' \subseteq Moving' \cup Settled'
  PROVE  HandInv'
<1>0. ScreenTypes /\ CallTypes /\ CallsInv
  BY TypeInvIs
<1>1. handed' = handed /\ materialized' = materialized /\ Notes' = Notes
  BY DEF AppendEntry, screenVars, Notes
<1> DEFINE line == Head(calls[c].lines)
           rem == Tail(calls[c].lines)
           call == [calls[c] EXCEPT !.lines = rem]
<1>2. /\ EntryAs(c, line) /\ line \in Lines /\ rem \in Seq(Lines)
      /\ Of(calls[c].lines) = {line.uuid} \cup Of(rem)
  BY <1>0, EntryIs
<1>3. calls' = [calls EXCEPT ![c] = call]
  BY <1>2 DEF EntryAs
<1>4. call \in Call /\ call.slice = calls[c].slice /\ call.lines = rem
  <2>1. calls[c] \in Call
    BY <1>0, CallsTyped
  <2> HIDE DEF rem
  <2> QED BY <1>2, <2>1 DEF Call
<1> HIDE DEF line, rem, call
<1>5. PICK rest : /\ Todo = rest \cup Of(calls[c].lines) \cup Elements(calls[c].slice)
                  /\ Todo' = rest \cup Of(call.lines) \cup Elements(call.slice)
  BY <1>0, <1>3, <1>4, TodoMoved
<1>6. NotesWait'
  <2>1. DOMAIN calls' = DOMAIN calls /\ \A e \in DOMAIN calls : calls'[e].slice = calls[e].slice
    BY <1>0, <1>3, <1>4, CallReplaced
  <2> QED BY <1>1, <2>1, HandInvIs DEF NotesWait
<1>7. CASE ~materialized
  <2>1. pending' = Append(pending, line) /\ known' = known
    BY <1>2, <1>7 DEF EntryAs
  <2>2. Of(pending') = Of(pending) \cup {line.uuid}
    <3>1. pending \in Seq(Lines)
      BY <1>0 DEF CallTypes
    <3> QED BY <1>2, <2>1, <3>1, OfAppended
  <2>3. handed' = Todo' \cup Of(pending') \cup known'
    BY <1>1, <1>2, <1>4, <1>5, <2>1, <2>2, HandInvIs
  <2> QED BY <1>1, <1>6, <1>7, <2>1, <2>3, HandInvIs, HandInvAgain
<1>8. CASE materialized
  <2>1. known' = known \cup {line.uuid} /\ pending' = pending
    BY <1>2, <1>8 DEF EntryAs
  <2>2. handed' = Todo' \cup Of(pending') \cup known'
    BY <1>1, <1>2, <1>4, <1>5, <2>1, HandInvIs
  <2> QED BY <1>1, <1>6, <1>8, <2>1, <2>2, HandInvIs, HandInvAgain
<1> QED BY <1>7, <1>8

LEMMA FinishHands ==
  ASSUME TypeInv, HandInv, NEW c \in DOMAIN calls, Finish(c), setup' = setup, known' \subseteq Moving' \cup Settled'
  PROVE  HandInv'
<1>0. CallTypes /\ CallsInv
  BY TypeInvIs
<1>1. /\ UNCHANGED <<handed, known, pending, materialized>> /\ calls[c].pc = "appends" /\ calls[c].lines = <<>>
      /\ calls' = [calls EXCEPT ![c] = Over] /\ Notes' = Notes
  BY DEF Finish, Notes
<1>2. calls[c].slice = <<>> /\ Over \in Call /\ Over.slice = <<>> /\ Over.lines = <<>>
  BY <1>0, <1>1, OverIs DEF CallsInv
<1>3. PICK rest : /\ Todo = rest \cup Of(calls[c].lines) \cup Elements(calls[c].slice)
                  /\ Todo' = rest \cup Of(Over.lines) \cup Elements(Over.slice)
  BY <1>0, <1>1, <1>2, TodoMoved
<1>4. Todo' = Todo
  BY <1>1, <1>2, <1>3
<1>5. NotesWait'
  <2>1. DOMAIN calls' = DOMAIN calls /\ \A e \in DOMAIN calls : calls'[e].slice = calls[e].slice
    BY <1>0, <1>1, <1>2, CallReplaced
  <2> QED BY <1>1, <2>1, HandInvIs DEF NotesWait
<1> QED BY <1>1, <1>4, <1>5, HandInvIs, HandInvAgain

LEMMA HandNext ==
  ASSUME TypeInv, DrainInv, HandInv, [Next]_vars
  PROVE  HandInv'
<1>0. setup' = setup /\ known' \subseteq Moving' \cup Settled'
  BY SetupStays, KnownKept
<1>1. ASSUME UNCHANGED callVars, handed' = handed PROVE HandInv'
  <2>1. UNCHANGED <<calls, known, pending, materialized>>
    BY <1>1 DEF callVars
  <2>2. Todo' = Todo /\ NotesWait'
    BY <1>0, <1>1, <2>1, HandInvIs DEF Todo, NotesWait, Notes
  <2> QED BY <1>0, <1>1, <2>1, <2>2, HandInvIs, HandInvAgain
<1>2. CASE Say \/ Tombstone \/ AnyFileStep \/ UNCHANGED vars
  <2>1. UNCHANGED callVars /\ handed' = handed
    BY <1>2 DEF Say, Tombstone, AnyFileStep, screenVars, vars
  <2> QED BY <1>1, <2>1
<1>3. CallStep => HandInv'
  BY <1>0, LoadedHands, EntryHands, FinishHands DEF CallStep
<1> QED BY <1>0, <1>2, <1>3, RenderHands DEF Next

LEMMA OnceInit ==
  ASSUME Init
  PROVE  OnceInv /\ HandInv
<1>1. /\ \A d \in Drainers : drains[d] = <<>>
      /\ file = <<>> /\ queue = <<>> /\ pending = <<>> /\ known = {} /\ handed = {} /\ calls = <<>>
      /\ ~materialized /\ removal.pc = "idle"
  BY DEF Init, FileInit, NoRemoval
<1>2. Moving = {} /\ OnDisk = {} /\ InFlight = {} /\ Of(queue) = {}
  BY <1>1, OfNothing DEF Moving, OnDisk, InFlight
<1>3. OnceInv
  BY <1>1, <1>2, OfNothing, NothingDistinct, OnceInvIs DEF HeldOnce
<1>4. Todo = {}
  <2>1. DOMAIN calls = {}
    BY <1>1
  <2> QED BY <2>1 DEF Todo
<1>5. HandInv
  BY <1>1, <1>2, <1>4, OfNothing, HandInvIs DEF NotesWait
<1> QED BY <1>3, <1>5

\* A message that was passed to the transcript is still to be appended, or
\* waits, or is being written, or on disk, unless its write failed, or it was
\* withdrawn, or a removal took it along; and none is in the file, or on its
\* way to it, twice (the messageSet of sessionStorage.ts).
THEOREM RecordedOnce == Spec => []ExactlyOnce
<1>1. Init => TypeInv /\ DrainInv /\ OnceInv /\ HandInv
  BY TypeInit, DrainInit, OnceInit
<1>2. TypeInv /\ DrainInv /\ OnceInv /\ HandInv /\ [Next]_vars => (TypeInv /\ DrainInv /\ OnceInv /\ HandInv)'
  BY TypeNext, MovesNext, OnceNext, HandNext
<1>3. OnceInv /\ HandInv => ExactlyOnce
  <2> SUFFICES ASSUME OnceInv, HandInv PROVE ExactlyOnce
    OBVIOUS
  <2>1. handed \subseteq Todo \cup Of(pending) \cup Of(queue) \cup InFlight \cup Settled
    BY HandInvIs DEF Moving
  <2>2. \A s \in {file, queue} \cup {drains[d] : d \in Drainers} : Distinct(s)
    BY OnceInvIs
  <2> QED BY <2>1, <2>2, OnceInvIs DEF ExactlyOnce, Moving
<1> QED BY <1>1, <1>2, <1>3, PTL DEF Spec

-----------------------------------------------------------------------------
(* The screen                                                                *)

LEMMA ElementsOver ==
  ASSUME NEW T, NEW s \in Seq(T), s # <<>>
  PROVE  Elements(s) = Elements(Front(s)) \cup {Last(s)}
<1> DEFINE n == Len(s)
           r == Front(s)
<1>1. /\ Last(s) = s[n] /\ n \in 1..n /\ n \in Nat /\ r \in Seq(T) /\ Len(r) = n - 1
      /\ \A i \in 1..(n - 1) : r[i] = s[i]
  BY Ended, InSequence
<1>2. (\A u : u \in Elements(s) <=> \E i \in 1..n : s[i] = u) /\ (\A u : u \in Elements(r) <=> \E i \in 1..(n - 1) : r[i] = u)
  BY <1>1, ElementsTyped
<1>3. \A i \in 1..n : i \in 1..(n - 1) \/ i = n
  BY <1>1
<1>4. \A i \in 1..(n - 1) : i \in 1..n
  BY <1>1
<1> HIDE DEF n, r
<1>5. \A u : u \in Elements(s) <=> u \in Elements(r) \/ u = Last(s)
  BY <1>1, <1>2, <1>3, <1>4
<1> QED BY <1>5 DEF r

LEMMA IncreasingIs ==
  ASSUME NEW s \in Seq(Uuids)
  PROVE  Increasing(s) <=> \A i, j \in 1..Len(s) : i < j => s[i] < s[j]
BY InSequence DEF Increasing

LEMMA SetupMore ==
  ASSUME FileInv
  PROVE  setup.uuids \subseteq Uuids /\ 1 \notin Partials /\ Partials \cap Notes = {} /\ Partials \subseteq Uuids
BY SetupIs DEF FileInv, FileTypeOK, Partials

ScreenAt ==
  /\ 1..made \subseteq setup.uuids /\ handed \subseteq 1..made
  /\ removal.targets \subseteq Partials
  /\ Elements(messages) \subseteq 1..made /\ 1..made \subseteq Elements(messages) \cup removal.targets
  /\ Increasing(messages) /\ Increasing(shown)
  /\ made > 0 => messages # <<>> /\ messages[1] = 1

HookAt ==
  /\ hook.length = Len(shown)
  /\ IF shown = <<>> THEN hook.first = Root /\ handed = {} /\ calls = <<>> ELSE hook.first = 1 /\ shown[1] = 1 /\ made > 0

LEMMA ScreenInvIs == (ScreenInv <=> ScreenAt /\ HookAt) /\ (ScreenInv' <=> ScreenAt' /\ HookAt')
BY DEF ScreenInv, ScreenAt, HookAt

LEMMA SayScreen ==
  ASSUME TypeInv, ScreenInv, ForkInv, Say
  PROVE  ScreenInv' /\ ForkInv'
<1>0. FileInv /\ ScreenTypes /\ ScreenAt /\ HookAt
  BY TypeInvIs, ScreenInvIs
<1>1. /\ made + 1 \in setup.uuids /\ made' = made + 1 /\ messages' = Append(messages, made')
      /\ UNCHANGED <<setup, removal, calls, shown, hook, handed, astray>>
  BY DEF Say, fileVars, callVars
<1> DEFINE n == Len(messages)
           x == made + 1
<1>2. x \in Uuids /\ made \in Nat /\ messages \in Seq(Uuids) /\ shown \in Seq(Uuids)
  BY <1>0, <1>1, SetupMore DEF ScreenTypes
<1>3. /\ n \in Nat /\ messages' \in Seq(Uuids) /\ Len(messages') = n + 1 /\ messages'[n + 1] = x
      /\ \A i \in 1..n : messages'[i] = messages[i]
      /\ DOMAIN messages = 1..n /\ DOMAIN messages' = 1..(n + 1)
  BY <1>1, <1>2, Appended, InSequence
<1>4. \A i \in 1..n : messages[i] \in 1..made
  <2>1. \A i \in 1..n : messages[i] \in Elements(messages)
    BY <1>2, ElementsTyped
  <2> QED BY <1>0, <2>1 DEF ScreenAt
<1>5. n = 0 <=> messages = <<>>
  BY <1>2, Nothing
<1> HIDE DEF n
<1>6. \A i \in 1..(n + 1) : i \in 1..n \/ i = n + 1
  BY <1>3
<1>7. Elements(messages') = Elements(messages) \cup {x}
  <2>1. (\A u : u \in Elements(messages) <=> \E i \in 1..n : messages[i] = u)
        /\ (\A u : u \in Elements(messages') <=> \E i \in 1..(n + 1) : messages'[i] = u)
    BY <1>2, <1>3, ElementsTyped DEF n
  <2>2. n + 1 \in 1..(n + 1) /\ \A i \in 1..n : i \in 1..(n + 1)
    BY <1>3
  <2>3. \A u : u \in Elements(messages') <=> u \in Elements(messages) \/ u = x
    BY <1>3, <1>6, <2>1, <2>2
  <2> QED BY <2>3
<1>8. Increasing(messages')
  <2>1. \A i, j \in 1..n : i < j => messages[i] < messages[j]
    BY <1>0, <1>2, IncreasingIs DEF ScreenAt, n
  <2>2. \A i, j \in 1..(n + 1) : i < j => messages'[i] < messages'[j]
    <3> SUFFICES ASSUME NEW i \in 1..(n + 1), NEW j \in 1..(n + 1), i < j PROVE messages'[i] < messages'[j]
      OBVIOUS
    <3>1. i \in 1..n
      BY <1>3
    <3>2. CASE j \in 1..n
      BY <1>3, <2>1, <3>1, <3>2
    <3>3. CASE j = n + 1
      <4>1. messages'[i] \in 1..made /\ messages'[j] = made + 1
        BY <1>3, <1>4, <3>1, <3>3
      <4> QED BY <1>2, <4>1
    <3> QED BY <1>6, <3>2, <3>3
  <2> QED BY <1>3, <2>2, IncreasingIs
<1>9. messages' # <<>> /\ messages'[1] = 1
  <2>1. messages' # <<>>
    BY <1>2, <1>3, Nothing
  <2>2. CASE made = 0
    <3>1. n = 0
      BY <1>3, <1>4, <2>2
    <3> QED BY <1>3, <2>1, <2>2, <3>1
  <2>3. CASE made > 0
    <3>1. 1 \in 1..n /\ messages[1] = 1
      BY <1>0, <1>3, <1>5, <2>3 DEF ScreenAt
    <3> QED BY <1>3, <2>1, <3>1
  <2> QED BY <1>2, <2>2, <2>3
<1>10. 1..made' = 1..made \cup {x}
  BY <1>1, <1>2
<1>11. ScreenAt'
  <2>1. 1..made' \subseteq setup'.uuids /\ handed' \subseteq 1..made'
    BY <1>0, <1>1, <1>10 DEF ScreenAt
  <2>2. removal'.targets \subseteq Partials'
    BY <1>0, <1>1 DEF ScreenAt, Partials
  <2>3. Elements(messages') \subseteq 1..made' /\ 1..made' \subseteq Elements(messages') \cup removal'.targets
    BY <1>0, <1>1, <1>7, <1>10 DEF ScreenAt
  <2>4. Increasing(shown')
    BY <1>0, <1>1 DEF ScreenAt
  <2> QED BY <1>8, <1>9, <2>1, <2>2, <2>3, <2>4 DEF ScreenAt
<1>12. HookAt'
  BY <1>0, <1>1, <1>2 DEF HookAt
<1>13. ASSUME ~astray PROVE Elements(shown') \subseteq handed' /\ \E k \in 0..Len(shown') : Fork(k)'
  <2>1. Elements(shown) \subseteq handed
    BY <1>13 DEF ForkInv
  <2>2. PICK k \in 0..Len(shown) : Fork(k)
    BY <1>13 DEF ForkInv
  <2>3. k \in Nat
    BY <1>2, <2>2, InSequence
  <2>4. k <= n /\ \A i \in 1..k : messages[i] = shown[i]
    BY <2>2 DEF Fork, n
  <2>5. \A u \in handed : u < x
    BY <1>0, <1>2 DEF ScreenAt
  <2>6. k <= n + 1 /\ \A i \in 1..k : i \in 1..n
    BY <1>3, <2>3, <2>4
  <2>7. \A i \in 1..(n + 1) : i > k => \A u \in handed' : u < messages'[i]
    <3> TAKE i \in 1..(n + 1)
    <3> HAVE i > k
    <3>1. CASE i \in 1..n
      BY <1>1, <1>3, <2>2, <3>1 DEF Fork
    <3>2. CASE i = n + 1
      BY <1>1, <1>3, <2>5, <3>2
    <3> QED BY <1>6, <3>1, <3>2
  <2>8. Fork(k)'
    BY <1>1, <1>3, <2>2, <2>4, <2>6, <2>7 DEF Fork
  <2> QED BY <1>1, <2>1, <2>2, <2>8
<1>14. ForkInv'
  BY <1>1, <1>13 DEF ForkInv
<1> QED BY <1>11, <1>12, <1>14, ScreenInvIs

LEMMA TombstoneScreen ==
  ASSUME TypeInv, ScreenInv, ForkInv, Tombstone
  PROVE  ScreenInv' /\ ForkInv'
<1>0. FileInv /\ ScreenTypes /\ ScreenAt /\ HookAt /\ RemovalTyped
  BY TypeInvIs, ScreenInvIs DEF FileInv, FileTypeOK, RemovalTyped
<1> DEFINE x == Last(messages)
           n == Len(messages)
<1>1. /\ messages # <<>> /\ x \in Partials /\ messages' = Front(messages)
      /\ UNCHANGED <<setup, made, shown, hook, handed, astray, calls>>
  BY DEF Tombstone, callVars
<1>2. removal'.targets = removal.targets \cup {x}
  BY <1>0 DEF Tombstone, RemoveMessage, RemovalTyped
<1>3. made \in Nat /\ messages \in Seq(Uuids) /\ shown \in Seq(Uuids)
  BY <1>0 DEF ScreenTypes
<1>4. /\ x = messages[n] /\ n \in Nat /\ n >= 1 /\ messages' \in Seq(Uuids) /\ Len(messages') = n - 1
      /\ \A i \in 1..(n - 1) : messages'[i] = messages[i]
      /\ DOMAIN messages = 1..n /\ DOMAIN messages' = 1..(n - 1)
      /\ Elements(messages) = Elements(messages') \cup {x}
  <2>1. /\ Last(messages) = messages[Len(messages)] /\ Len(messages) \in 1..Len(messages)
        /\ Front(messages) \in Seq(Uuids) /\ Len(Front(messages)) = Len(messages) - 1
        /\ \A i \in 1..(Len(messages) - 1) : Front(messages)[i] = messages[i]
    BY <1>1, <1>3, Ended
  <2>2. Elements(messages) = Elements(Front(messages)) \cup {x}
    BY <1>1, <1>3, ElementsOver
  <2>3. Len(messages) \in Nat /\ DOMAIN messages = 1..Len(messages)
    BY <1>3, InSequence
  <2>4. DOMAIN messages' = 1..Len(messages')
    BY <1>1, <2>1, InSequence
  <2> QED BY <1>1, <2>1, <2>2, <2>3, <2>4
<1> HIDE DEF x, n
<1>5. \A i \in 1..(n - 1) : i \in 1..n
  BY <1>4
<1>6. Increasing(messages')
  <2>1. \A i, j \in 1..n : i < j => messages[i] < messages[j]
    BY <1>0, <1>3, IncreasingIs DEF ScreenAt, n
  <2> QED BY <1>4, <1>5, <2>1, IncreasingIs
<1>7. made > 0 => messages' # <<>> /\ messages'[1] = 1
  <2> SUFFICES ASSUME made > 0 PROVE messages' # <<>> /\ messages'[1] = 1
    OBVIOUS
  <2>1. messages[1] = 1 /\ x # 1
    BY <1>0, <1>1, SetupMore DEF ScreenAt
  <2>2. n # 1
    BY <1>4, <2>1
  <2>3. 1 \in 1..(n - 1) /\ Len(messages') # 0
    BY <1>4, <2>2
  <2> QED BY <1>4, <2>1, <2>3, Nothing
<1>8. ScreenAt'
  <2>1. 1..made' \subseteq setup'.uuids /\ handed' \subseteq 1..made'
    BY <1>0, <1>1 DEF ScreenAt
  <2>2. removal'.targets \subseteq Partials'
    BY <1>0, <1>1, <1>2 DEF ScreenAt, Partials
  <2>3. Elements(messages') \subseteq 1..made' /\ 1..made' \subseteq Elements(messages') \cup removal'.targets
    BY <1>0, <1>1, <1>2, <1>4 DEF ScreenAt
  <2>4. Increasing(shown')
    BY <1>0, <1>1 DEF ScreenAt
  <2> QED BY <1>1, <1>6, <1>7, <2>1, <2>2, <2>3, <2>4 DEF ScreenAt
<1>9. HookAt'
  BY <1>0, <1>1 DEF HookAt
<1>10. ASSUME ~astray PROVE Elements(shown') \subseteq handed' /\ \E k \in 0..Len(shown') : Fork(k)'
  <2>1. Elements(shown) \subseteq handed
    BY <1>10 DEF ForkInv
  <2>2. PICK k \in 0..Len(shown) : Fork(k)
    BY <1>10 DEF ForkInv
  <2> DEFINE m == Len(shown)
  <2>3. k \in 0..m /\ m \in Nat /\ DOMAIN shown = 1..m
    BY <1>3, <2>2, InSequence
  <2>4. /\ k <= n /\ \A i \in 1..k : messages[i] = shown[i]
        /\ \A i \in 1..n : i > k => \A u \in handed : u < messages[i]
        /\ \A i \in 1..m : i > k => shown[i] \in removal.targets
    BY <1>4, <2>2, <2>3 DEF Fork, n
  <2> HIDE DEF m
  <2>5. CASE k < n
    <3>1. k <= n - 1 /\ \A i \in 1..k : i \in 1..(n - 1)
      BY <1>4, <2>3, <2>5
    <3>2. Fork(k)'
      BY <1>1, <1>2, <1>4, <1>5, <2>3, <2>4, <3>1 DEF Fork
    <3> QED BY <1>1, <2>1, <2>3, <3>2 DEF m
  <2>6. CASE k = n
    <3> DEFINE j == k - 1
    <3>1. j \in 0..m /\ j <= n - 1 /\ \A i \in 1..j : i \in 1..(n - 1) /\ i \in 1..k
      BY <1>4, <2>3, <2>6
    <3>2. \A i \in 1..m : i > j => i > k \/ i = k
      BY <2>3
    <3>3. k \in 1..k /\ messages[k] = x
      BY <1>4, <2>6
    <3>4. shown[k] = x
      BY <2>4, <3>3
    <3>5. \A i \in 1..(n - 1) : ~(i > j)
      BY <1>4, <2>6
    <3> HIDE DEF j
    <3>6. Fork(j)'
      BY <1>1, <1>2, <1>4, <2>3, <2>4, <3>1, <3>2, <3>4, <3>5 DEF Fork
    <3> QED BY <1>1, <2>1, <3>1, <3>6 DEF m
  <2>7. k < n \/ k = n
    BY <1>4, <2>3, <2>4
  <2> QED BY <2>5, <2>6, <2>7
<1>11. ForkInv'
  BY <1>1, <1>10 DEF ForkInv
<1> QED BY <1>8, <1>9, <1>11, ScreenInvIs

\* What an effect passes, and how it goes on.
Shows(slice, incremental, n) ==
  /\ slice \in Seq(Uuids) /\ incremental \in BOOLEAN /\ n \in 0..Len(messages)
  /\ Len(slice) = Len(messages) - n /\ \A i \in 1..(Len(messages) - n) : slice[i] = messages[n + i]
  /\ incremental <=> shown # <<>> /\ Len(shown) <= Len(messages)
  /\ n = IF incremental THEN Len(shown) ELSE 0
  /\ messages # <<>> /\ messages[1] = 1 /\ made > 0 /\ shown' = messages /\ messages # shown
  /\ hook'.length = Len(messages) /\ hook'.first = 1
  /\ astray' = (astray \/ ~Elements(messages) \subseteq handed'
                  \/ ((\E c \in DOMAIN calls : calls[c].pc # "over") /\ ~incremental /\ slice # <<>>))
  /\ \/ slice = <<>> /\ UNCHANGED <<hook, calls, handed, beside>>
     \/ Passes(slice, incremental) /\ hook'.parent = Last(slice)

LEMMA RenderShows ==
  ASSUME TypeInv, ScreenInv, Render
  PROVE  \E slice \in Seq(Uuids), incremental \in BOOLEAN, n \in 0..Len(messages) : Shows(slice, incremental, n)
<1>0. ScreenTypes /\ ScreenAt /\ HookAt
  BY TypeInvIs, ScreenInvIs
<1>1. messages # shown /\ shown' = messages
  BY DEF Render
<1>2. made \in Nat /\ messages \in Seq(Uuids) /\ shown \in Seq(Uuids)
  BY <1>0 DEF ScreenTypes
<1>3. messages # <<>> /\ messages[1] = 1 /\ made > 0
  <2>1. CASE shown # <<>>
    BY <1>0, <2>1 DEF HookAt, ScreenAt
  <2>2. CASE messages # <<>>
    <3>1. 1 \in 1..Len(messages) /\ messages[1] \in Elements(messages)
      <4>1. Len(messages) \in Nat /\ Len(messages) # 0
        BY <1>2, <2>2, Nothing, InSequence
      <4>2. 1 \in 1..Len(messages)
        BY <4>1
      <4> QED BY <1>2, <4>2, ElementsTyped
    <3>2. messages[1] \in 1..made
      BY <1>0, <3>1 DEF ScreenAt
    <3>3. made > 0
      BY <1>2, <3>2
    <3> QED BY <1>0, <3>3 DEF ScreenAt
  <2> QED BY <1>1, <2>1, <2>2
<1>4. PICK slice \in Seq(Uuids), incremental \in BOOLEAN, n \in 0..Len(messages) :
           /\ slice = SubSeq(messages, n + 1, Len(messages)) /\ Len(slice) = Len(messages) - n
           /\ incremental <=> messages # <<>> /\ hook.first # Root /\ hook.first = messages[1] /\ hook.length <= Len(messages)
           /\ n = IF incremental THEN hook.length ELSE 0
           /\ astray' = (astray \/ ~Elements(messages) \subseteq handed'
                           \/ ((\E c \in DOMAIN calls : calls[c].pc # "over") /\ ~incremental /\ slice # <<>>))
           /\ \/ slice = <<>> /\ UNCHANGED <<hook, calls, handed, beside>>
              \/ /\ Passes(slice, incremental)
                 /\ hook' = [length |-> Len(messages), first |-> messages[1],
                             parent |-> IF \/ incremental \/ hook.first = Root
                                           \/ hook.first = messages[1] /\ hook.length > Len(messages)
                                        THEN Last(slice) ELSE hook.parent]
  BY <1>0, RenderIs
<1>5. (hook.first = Root <=> shown = <<>>) /\ (shown # <<>> => hook.first = 1) /\ hook.length = Len(shown)
  BY <1>0 DEF HookAt, Root
<1>6. incremental <=> shown # <<>> /\ Len(shown) <= Len(messages)
  BY <1>3, <1>4, <1>5
<1>7. \A i \in 1..(Len(messages) - n) : slice[i] = messages[n + i]
  <2> DEFINE m == Len(messages)
  <2>1. m \in Nat /\ n + 1 \in Nat \ {0} /\ n + 1 <= m + 1 /\ m - (n + 1) + 1 = m - n /\ n \in Nat
    BY <1>2, <1>4, InSequence
  <2> DEFINE a == n + 1
  <2>2. a \in Nat \ {0} /\ a <= m + 1 /\ m <= m /\ m - a + 1 = m - n /\ \A i \in 1..(m - n) : a + i - 1 = n + i
    BY <2>1
  <2> HIDE DEF a
  <2>3. \A i \in 1..(m - a + 1) : SubSeq(messages, a, m)[i] = messages[a + i - 1]
    BY <1>2, <2>1, <2>2, Cut
  <2>4. slice = SubSeq(messages, a, m)
    BY <1>4 DEF a
  <2>5. \A i \in 1..(m - n) : a + i - 1 = n + i /\ i \in 1..(m - a + 1)
    BY <2>2
  <2> HIDE DEF m
  <2>6. \A i \in 1..(m - n) : slice[i] = messages[n + i]
    BY <2>3, <2>4, <2>5
  <2> QED BY <2>6 DEF m
<1>8. CASE slice = <<>> /\ UNCHANGED <<hook, calls, handed, beside>>
  <2>1. Len(messages) - n = 0 /\ Len(messages) # 0 /\ Len(messages) \in Nat
    <3>1. Len(slice) = 0
      BY <1>8
    <3>2. Len(messages) \in Nat /\ Len(messages) # 0
      BY <1>2, <1>3, Nothing, InSequence
    <3> QED BY <1>4, <3>1, <3>2
  <2>2. incremental /\ hook.length = Len(messages)
    BY <1>4, <2>1
  <2>3. hook'.length = Len(messages) /\ hook'.first = 1
    BY <1>5, <1>6, <1>8, <2>2
  <2> QED BY <1>1, <1>3, <1>4, <1>5, <1>6, <1>7, <1>8, <2>3 DEF Shows
<1>9. CASE Passes(slice, incremental) /\ hook' = [length |-> Len(messages), first |-> messages[1],
                             parent |-> IF \/ incremental \/ hook.first = Root
                                           \/ hook.first = messages[1] /\ hook.length > Len(messages)
                                        THEN Last(slice) ELSE hook.parent]
  <2>1. incremental \/ hook.first = Root \/ (hook.first = messages[1] /\ hook.length > Len(messages))
    <3>1. Len(messages) \in Nat /\ Len(shown) \in Nat
      BY <1>2, InSequence
    <3> QED BY <1>3, <1>5, <1>6, <3>1
  <2>2. hook'.length = Len(messages) /\ hook'.first = 1 /\ hook'.parent = Last(slice)
    BY <1>3, <1>9, <2>1
  <2> QED BY <1>1, <1>3, <1>4, <1>5, <1>6, <1>7, <1>9, <2>2 DEF Shows
<1>11. \/ slice = <<>> /\ UNCHANGED <<hook, calls, handed, beside>>
       \/ Passes(slice, incremental) /\ hook' = [length |-> Len(messages), first |-> messages[1],
                             parent |-> IF \/ incremental \/ hook.first = Root
                                           \/ hook.first = messages[1] /\ hook.length > Len(messages)
                                        THEN Last(slice) ELSE hook.parent]
  BY <1>4
<1> QED BY <1>8, <1>9, <1>11

LEMMA ShowsHanded ==
  ASSUME ScreenTypes, NEW slice, NEW incremental, NEW n, Shows(slice, incremental, n)
  PROVE  handed' = handed \cup Elements(slice) /\ Elements(slice) \subseteq Elements(messages)
<1>1. slice \in Seq(Uuids) /\ n \in 0..Len(messages) /\ messages \in Seq(Uuids)
  BY DEF Shows, ScreenTypes
<1>2. Len(messages) \in Nat /\ Len(slice) = Len(messages) - n /\ \A i \in 1..(Len(messages) - n) : slice[i] = messages[n + i]
  BY <1>1, InSequence DEF Shows
<1>3. Elements(slice) \subseteq Elements(messages)
  <2> SUFFICES ASSUME NEW i \in 1..Len(slice) PROVE slice[i] \in Elements(messages)
    BY <1>1, ElementsTyped
  <2>1. n + i \in 1..Len(messages) /\ slice[i] = messages[n + i]
    BY <1>1, <1>2
  <2> QED BY <1>1, <2>1, ElementsTyped
<1>4. slice = <<>> => Elements(slice) = {}
  BY DEF Elements
<1>5. handed' = handed \cup Elements(slice)
  <2>1. CASE slice = <<>> /\ UNCHANGED <<hook, calls, handed, beside>>
    BY <1>4, <2>1
  <2>2. CASE Passes(slice, incremental)
    BY <2>2 DEF Passes
  <2> QED BY <2>1, <2>2 DEF Shows
<1> QED BY <1>3, <1>5

LEMMA RenderScreen ==
  ASSUME TypeInv, ScreenInv, Render
  PROVE  ScreenInv' /\ ForkInv'
<1>0. FileInv /\ ScreenTypes /\ ScreenAt /\ HookAt
  BY TypeInvIs, ScreenInvIs
<1>1. UNCHANGED <<setup, removal, messages, made>> /\ shown' = messages
  BY DEF Render, fileVars
<1>2. PICK slice \in Seq(Uuids), incremental \in BOOLEAN, n \in 0..Len(messages) : Shows(slice, incremental, n)
  BY RenderShows
<1>3. handed' = handed \cup Elements(slice) /\ Elements(slice) \subseteq Elements(messages)
  BY <1>0, <1>2, ShowsHanded
<1>4. /\ messages # <<>> /\ messages[1] = 1 /\ made > 0
      /\ hook'.length = Len(messages) /\ hook'.first = 1
      /\ ~astray' => Elements(messages) \subseteq handed'
  BY <1>2 DEF Shows
<1>5. ScreenAt'
  <2>1. handed' \subseteq 1..made'
    BY <1>0, <1>1, <1>3 DEF ScreenAt
  <2>2. 1..made' \subseteq setup'.uuids /\ removal'.targets \subseteq Partials'
    BY <1>0, <1>1 DEF ScreenAt, Partials
  <2>3. Elements(messages') \subseteq 1..made' /\ 1..made' \subseteq Elements(messages') \cup removal'.targets
    BY <1>0, <1>1 DEF ScreenAt
  <2>4. Increasing(shown') /\ Increasing(messages')
    BY <1>0, <1>1 DEF ScreenAt
  <2> QED BY <1>1, <1>4, <2>1, <2>2, <2>3, <2>4 DEF ScreenAt
<1>6. HookAt'
  BY <1>1, <1>4 DEF HookAt
<1>7. ASSUME ~astray' PROVE Elements(shown') \subseteq handed' /\ \E k \in 0..Len(shown') : Fork(k)'
  <2>6. Len(messages) \in Nat /\ DOMAIN messages = 1..Len(messages)
    BY <1>0, InSequence DEF ScreenTypes
  <2>7. PICK k \in Nat : k = Len(messages)
    BY <2>6
  <2>1. k \in Nat /\ DOMAIN messages = 1..k
    BY <2>6, <2>7
  <2>2. Len(messages') = k /\ Len(shown') = k /\ DOMAIN messages' = 1..k /\ DOMAIN shown' = 1..k
    BY <1>1, <2>1, <2>7
  <2>3. k <= k /\ \A i \in 1..k : ~(i > k)
    BY <2>1
  <2>4. Fork(k)'
    BY <1>1, <2>2, <2>3 DEF Fork
  <2>5. k \in 0..k
    BY <2>1
  <2> QED BY <1>1, <1>4, <1>7, <2>2, <2>4, <2>5
<1>8. ForkInv'
  BY <1>7 DEF ForkInv
<1> QED BY <1>5, <1>6, <1>8, ScreenInvIs

\* Steps that leave the screen alone.
ScreenStays ==
  /\ UNCHANGED <<setup, messages, made, shown, handed, astray, beside>>
  /\ removal'.targets = removal.targets
  /\ hook'.length = hook.length /\ hook'.first = hook.first
  /\ calls = <<>> => calls' = <<>>

LEMMA StaysScreen ==
  ASSUME ScreenInv, ForkInv, ScreenStays
  PROVE  ScreenInv' /\ ForkInv'
<1>0. ScreenAt /\ HookAt
  BY ScreenInvIs
<1>1. ScreenAt'
  BY <1>0 DEF ScreenAt, ScreenStays, Partials
<1>2. HookAt'
  BY <1>0 DEF HookAt, ScreenStays
<1>3. ForkInv'
  <2> SUFFICES ASSUME ~astray PROVE Elements(shown) \subseteq handed /\ \E k \in 0..Len(shown) : Fork(k)'
    BY DEF ScreenStays, ForkInv
  <2>1. PICK k \in 0..Len(shown) : Fork(k)
    BY DEF ForkInv
  <2>2. Fork(k)'
    BY <2>1 DEF Fork, ScreenStays
  <2> QED BY <2>1, <2>2 DEF ForkInv
<1> QED BY <1>1, <1>2, <1>3, ScreenInvIs

LEMMA CallStays ==
  ASSUME TypeInv, NEW c \in DOMAIN calls, Loaded(c) \/ AppendEntry(c) \/ Finish(c)
  PROVE  ScreenStays /\ removal' = removal
<1>0. ScreenTypes /\ CallTypes
  BY TypeInvIs
<1>1. UNCHANGED <<setup, messages, made, shown, handed, astray, beside, removal>>
  BY DEF Loaded, AppendEntry, Finish, screenVars
<1>2. calls # <<>>
  BY <1>0, CallsTyped
<1>3. hook \in [length : Nat, parent : Uuids \cup {Root}, first : Uuids \cup {Root}]
  BY <1>0 DEF ScreenTypes
<1>4. \A result : Resolved(c, result).length = hook.length /\ Resolved(c, result).first = hook.first
  BY <1>3 DEF Resolved
<1>5. hook' = hook \/ \E result : hook' = Resolved(c, result)
  <2>1. CASE Loaded(c)
    BY <2>1 DEF Loaded
  <2>2. CASE AppendEntry(c) \/ Finish(c)
    BY <2>2 DEF AppendEntry, Finish, screenVars
  <2> QED BY <2>1, <2>2
<1> QED BY <1>1, <1>2, <1>4, <1>5 DEF ScreenStays

LEMMA FileTargets ==
  ASSUME FileInv, FileStep
  PROVE  removal'.targets = removal.targets
<1>0. RemovalTyped
  BY DEF FileInv, FileTypeOK, RemovalTyped
<1>1. CASE RemovalStep
  BY <1>0, <1>1 DEF RemovalStep, ReadTail, Truncate, WriteBack, Reread, Rewrite, RemovalEnds, NoRemoval, RemovalTyped
<1>2. CASE ~RemovalStep
  <2>1. removal' = removal
    BY <1>2 DEF FileStep, DrainStep, FlushStep, TimerFires, Written, WriteFails, FlushGoesOn, FlushWritten,
         FlushFails, Flush
  <2> QED BY <2>1
<1> QED BY <1>1, <1>2

LEMMA FileStays ==
  ASSUME FileInv, AnyFileStep \/ UNCHANGED vars
  PROVE  ScreenStays
<1>1. CASE AnyFileStep
  <2>1. removal'.targets = removal.targets
    BY <1>1, FileTargets DEF AnyFileStep
  <2>2. setup' = setup
    BY <1>1, SetupStays DEF Next
  <2> QED BY <1>1, <2>1, <2>2 DEF AnyFileStep, screenVars, callVars, ScreenStays
<1>2. CASE UNCHANGED vars
  BY <1>2 DEF vars, fileVars, screenVars, callVars, ScreenStays
<1> QED BY <1>1, <1>2

LEMMA ScreenNext ==
  ASSUME TypeInv, ScreenInv, ForkInv, [Next]_vars
  PROVE  ScreenInv' /\ ForkInv'
<1>1. CallStep => ScreenInv' /\ ForkInv'
  BY CallStays, StaysScreen DEF CallStep
<1>2. AnyFileStep \/ UNCHANGED vars => ScreenInv' /\ ForkInv'
  BY TypeInvIs, FileStays, StaysScreen
<1> QED BY <1>1, <1>2, SayScreen, TombstoneScreen, RenderScreen DEF Next

LEMMA ScreenInit ==
  ASSUME Init
  PROVE  ScreenInv /\ ForkInv
<1>1. /\ messages = <<>> /\ shown = <<>> /\ made = 0 /\ handed = {} /\ calls = <<>> /\ removal.targets = {}
      /\ hook.length = 0 /\ hook.first = Root
  BY DEF Init, FileInit, NoRemoval
<1>2. Elements(messages) = {} /\ Elements(shown) = {} /\ 1..made = {}
  BY <1>1 DEF Elements
<1>3. Increasing(messages) /\ Increasing(shown)
  BY <1>1 DEF Increasing
<1>4. ScreenAt
  BY <1>1, <1>2, <1>3 DEF ScreenAt
<1>5. HookAt
  BY <1>1 DEF HookAt
<1>6. Fork(0) /\ Len(shown) = 0
  BY <1>1 DEF Fork
<1>7. ForkInv
  BY <1>1, <1>2, <1>6 DEF ForkInv
<1> QED BY <1>4, <1>5, <1>7, ScreenInvIs

-----------------------------------------------------------------------------
(* The lines, wherever they are                                              *)

LEMMA RangeIs ==
  ASSUME NEW s \in Seq(Lines)
  PROVE  /\ \A l : l \in Range(s) <=> \E i \in 1..Len(s) : s[i] = l
         /\ \A u : u \in Of(s) <=> \E l \in Range(s) : l.uuid = u
         /\ Range(s) \subseteq Lines
<1>1. DOMAIN s = 1..Len(s) /\ \A i \in 1..Len(s) : s[i] \in Lines
  BY InSequence
<1> QED BY <1>1 DEF Range, Of

LEMMA RangeNothing == Range(<<>>) = {}
BY DEF Range

LEMMA RangeAppended ==
  ASSUME NEW s \in Seq(Lines), NEW l \in Lines
  PROVE  Range(Append(s, l)) = Range(s) \cup {l}
<1> DEFINE t == Append(s, l)
           n == Len(s)
<1>1. /\ t \in Seq(Lines) /\ Len(t) = n + 1 /\ n \in Nat /\ t[n + 1] = l
      /\ \A i \in 1..n : t[i] = s[i]
  BY Appended, InSequence
<1>2. n + 1 \in 1..(n + 1) /\ (\A i \in 1..n : i \in 1..(n + 1)) /\ \A i \in 1..(n + 1) : i \in 1..n \/ i = n + 1
  BY <1>1
<1>3. \A x : x \in Range(s) <=> \E i \in 1..n : s[i] = x
  BY RangeIs
<1>5. t \in Seq(Lines)
  BY <1>1
<1> HIDE DEF t, n
<1>6. \A x : x \in Range(t) <=> \E i \in 1..(n + 1) : t[i] = x
  <2>1. \A x : x \in Range(t) <=> \E i \in 1..Len(t) : t[i] = x
    BY <1>5, RangeIs
  <2> QED BY <1>1, <2>1
<1>4. \A x : x \in Range(t) <=> x \in Range(s) \/ x = l
  BY <1>1, <1>2, <1>3, <1>6
<1> QED BY <1>4 DEF t

LEMMA RangeJoined ==
  ASSUME NEW s \in Seq(Lines), NEW t \in Seq(Lines)
  PROVE  Range(s \o t) \subseteq Range(s) \cup Range(t)
<1> DEFINE r == s \o t
           n == Len(s)
           m == Len(t)
<1>1. /\ r \in Seq(Lines) /\ Len(r) = n + m
      /\ \A i \in 1..n : r[i] = s[i]
      /\ \A i \in 1..m : r[n + i] = t[i]
      /\ \A i \in 1..(n + m) : i \in 1..n \/ i - n \in 1..m
      /\ n \in Nat /\ m \in Nat
  BY Joined, InSequence
<1>5. \A x : x \in Range(s) <=> \E i \in 1..n : s[i] = x
  BY RangeIs
<1>6. \A x : x \in Range(t) <=> \E i \in 1..m : t[i] = x
  BY RangeIs
<1> HIDE DEF r, n, m
<1>7. \A x : x \in Range(r) <=> \E i \in 1..(n + m) : r[i] = x
  <2>1. \A x : x \in Range(r) <=> \E i \in 1..Len(r) : r[i] = x
    BY <1>1, RangeIs
  <2> QED BY <1>1, <2>1
<1>2. /\ \A x : x \in Range(s) <=> \E i \in 1..n : s[i] = x
      /\ \A x : x \in Range(t) <=> \E i \in 1..m : t[i] = x
      /\ \A x : x \in Range(r) <=> \E i \in 1..(n + m) : r[i] = x
  BY <1>5, <1>6, <1>7
<1>3. \A i \in 1..(n + m) : r[i] \in Range(s) \cup Range(t)
  <2> TAKE i \in 1..(n + m)
  <2> DEFINE j == i - n
  <2>1. CASE i \in 1..n
    BY <1>1, <1>2, <2>1
  <2>2. CASE j \in 1..m
    <3>1. i = n + j
      BY <1>1
    <3> HIDE DEF j
    <3> QED BY <1>1, <1>2, <2>2, <3>1
  <2> QED BY <1>1, <2>1, <2>2
<1> QED BY <1>2, <1>3 DEF r

LEMMA RangeBehind ==
  ASSUME NEW s \in Seq(Lines), s # <<>>
  PROVE  Range(Tail(s)) \subseteq Range(s) /\ Head(s) \in Range(s)
<1> DEFINE n == Len(s)
           t == Tail(s)
<1>1. /\ t \in Seq(Lines) /\ Len(t) = n - 1 /\ n >= 1 /\ n \in Nat
      /\ \A i \in 1..(n - 1) : t[i] = s[i + 1]
      /\ Head(s) = s[1]
  BY Behind, InSequence
<1>2. \A x : x \in Range(s) <=> \E i \in 1..n : s[i] = x
  BY RangeIs
<1>3. 1 \in 1..n /\ \A i \in 1..(n - 1) : i + 1 \in 1..n
  BY <1>1
<1> HIDE DEF n, t
<1>4. \A x : x \in Range(t) <=> \E i \in 1..(n - 1) : t[i] = x
  <2>1. \A x : x \in Range(t) <=> \E i \in 1..Len(t) : t[i] = x
    BY <1>1, RangeIs
  <2> QED BY <1>1, <2>1
<1> QED BY <1>1, <1>2, <1>3, <1>4 DEF t

\* r has only lines of s.
LEMMA RangePart ==
  ASSUME NEW s \in Seq(Lines), NEW r \in Seq(Lines), \A i \in 1..Len(r) : \E j \in 1..Len(s) : s[j] = r[i]
  PROVE  Range(r) \subseteq Range(s)
BY RangeIs

FileLines ==
  Range(file) \cup Range(queue) \cup (UNION {Range(drains[d]) : d \in Drainers})
    \cup (IF removal.pc = "writes" THEN Range(removal.snap) ELSE {})

CallLines == Range(pending) \cup (UNION {Range(calls[c].lines) : c \in DOMAIN calls})

LEMMA AllLinesAre == AllLines = FileLines \cup CallLines /\ AllLines' = FileLines' \cup CallLines'
BY DEF AllLines, FileLines, CallLines

LEMMA FileLinesAre ==
  /\ \A l : l \in FileLines <=> \/ l \in Range(file) \/ l \in Range(queue)
                                \/ \E d \in Drainers : l \in Range(drains[d])
                                \/ removal.pc = "writes" /\ l \in Range(removal.snap)
  /\ \A l : l \in FileLines' <=> \/ l \in Range(file') \/ l \in Range(queue')
                                 \/ \E d \in Drainers : l \in Range(drains'[d])
                                 \/ removal'.pc = "writes" /\ l \in Range(removal'.snap)
BY DEF FileLines

LEMMA CallLinesAre ==
  /\ \A l : l \in CallLines <=> l \in Range(pending) \/ \E c \in DOMAIN calls : l \in Range(calls[c].lines)
  /\ \A l : l \in CallLines' <=> l \in Range(pending') \/ \E c \in DOMAIN calls' : l \in Range(calls'[c].lines)
BY DEF CallLines

LEMMA CutsLines ==
  ASSUME FileInv, Cuts
  PROVE  FileLines' \subseteq FileLines
<1>0. /\ RemovalTyped /\ FileTypeOK /\ SnapInv /\ removal.snap \in Seq(Lines) /\ file \in Seq(Lines)
      /\ UNCHANGED <<queue, drains>>
  BY SnapTyped, CutsFlow DEF FileInv, FileTypeOK, RemovalTyped
<1>1. removal.pc \in {"cuts", "rewrites"} => Range(removal.snap) \subseteq Range(file)
  <2> SUFFICES ASSUME removal.pc \in {"cuts", "rewrites"} PROVE Range(removal.snap) \subseteq Range(file)
    OBVIOUS
  <2>1. Begins(removal.snap, file)
    BY <1>0 DEF SnapInv
  <2>2. DOMAIN removal.snap = 1..Len(removal.snap) /\ Len(removal.snap) \in Nat /\ Len(file) \in Nat
    BY <1>0, InSequence
  <2>3. \A i \in 1..Len(removal.snap) : i \in 1..Len(file) /\ file[i] = removal.snap[i]
    BY <2>1, <2>2 DEF Begins
  <2> QED BY <1>0, <2>3, RangePart
<1>2. CASE Truncate
  <2>1. removal.pc = "cuts" /\ Range(removal.snap) \subseteq Range(file)
    BY <1>1, <1>2 DEF Truncate
  <2> DEFINE n == removal.pos - 1
  <2>2. /\ n \in 0..Len(removal.snap) /\ file' = SubSeq(file, 1, n)
        /\ file' \in Seq(Lines) /\ Len(file') = n /\ \A i \in 1..n : file'[i] = removal.snap[i]
    <3>1. n \in 0..Len(removal.snap) /\ Begins(removal.snap, file)
      BY <1>0, <2>1, CutAt DEF SnapInv
    <3>2. file' = SubSeq(file, 1, n)
      BY <1>2 DEF Truncate
    <3> HIDE DEF n
    <3> QED BY <1>0, <3>1, <3>2, BeginsCut
  <2>3. Len(removal.snap) \in Nat
    BY <1>0, InSequence
  <2> HIDE DEF n
  <2>4. \A i \in 1..n : i \in 1..Len(removal.snap)
    BY <2>2, <2>3
  <2>5. Range(file') \subseteq Range(file)
    BY <1>0, <2>1, <2>2, <2>4, RangePart
  <2>6. removal'.pc = "writes" => removal'.snap = removal.snap
    BY <1>0, <1>2 DEF Truncate, RemovalEnds, NoRemoval, RemovalTyped
  <2> QED BY <1>0, <2>1, <2>5, <2>6, FileLinesAre
<1>3. CASE WriteBack
  <2>1. removal.pc = "writes" /\ removal'.pc = "idle"
    BY <1>3 DEF WriteBack, RemovalEnds, NoRemoval
  <2> DEFINE end == removal.pos - 1 + Len(After)
             p == SubSeq(file, 1, removal.pos - 1)
             t == SubSeq(file, end + 1, Len(file))
  <2>2. /\ p \in Seq(Lines) /\ After \in Seq(Lines) /\ t \in Seq(Lines) /\ end \in Nat
        /\ Len(p) = removal.pos - 1
        /\ \A i \in 1..(removal.pos - 1) : p[i] = file[i]
    BY <1>0, <2>1, BackTyped
  <2>3. Len(t) = (IF end <= Len(file) THEN Len(file) - end ELSE 0) /\ \A i \in 1..(Len(file) - end) : t[i] = file[end + i]
    BY <1>0, <2>2, CutFrom
  <2>4. file' = p \o After \o t
    BY <1>3 DEF WriteBack
  <2> HIDE DEF p, t, end
  <2>5. Len(file) \in Nat /\ removal.pos - 1 <= Len(file) /\ removal.pos - 1 \in Nat
    BY <1>0, <2>1, CutAt, InSequence
  <2>6. Range(p) \subseteq Range(file)
    <3>1. \A i \in 1..Len(p) : i \in 1..Len(file) /\ file[i] = p[i]
      BY <2>2, <2>5
    <3> QED BY <1>0, <2>2, <3>1, RangePart
  <2>7. Range(t) \subseteq Range(file)
    <3>1. ASSUME NEW i \in 1..Len(t) PROVE \E j \in 1..Len(file) : file[j] = t[i]
      <4> DEFINE m == Len(t)
                 k == Len(file)
      <4>1. m = (IF end <= k THEN k - end ELSE 0) /\ end \in Nat /\ k \in Nat /\ i \in 1..m
        BY <2>2, <2>3, <2>5
      <4> HIDE DEF m, k
      <4>2. end + i \in 1..k /\ i \in 1..(k - end)
        BY <4>1
      <4> QED BY <2>3, <4>2 DEF k
    <3> QED BY <1>0, <2>2, <3>1, RangePart
  <2>8. Range(After) \subseteq Range(removal.snap)
    <3>1. Len(After) = Len(removal.snap) - removal.pos /\ \A i \in 1..Len(After) : After[i] = removal.snap[removal.pos + i]
      BY <1>0, <2>1, BackTyped
    <3>2. Len(removal.snap) \in Nat /\ removal.pos \in Nat
      BY <1>0, InSequence, SnapTyped
    <3>3. \A i \in 1..Len(After) : removal.pos + i \in 1..Len(removal.snap)
      BY <3>1, <3>2
    <3> QED BY <1>0, <2>2, <3>1, <3>3, RangePart
  <2>9. Range(file') \subseteq Range(p) \cup Range(After) \cup Range(t)
    <3>1. p \o After \in Seq(Lines) /\ Range(p \o After) \subseteq Range(p) \cup Range(After)
      BY <2>2, Joined, RangeJoined
    <3> DEFINE q == p \o After
    <3>2. q \in Seq(Lines) /\ file' = q \o t
      BY <2>4, <3>1
    <3> HIDE DEF q
    <3>3. Range(file') \subseteq Range(q) \cup Range(t)
      BY <2>2, <3>2, RangeJoined
    <3> QED BY <3>1, <3>3 DEF q
  <2> QED BY <1>0, <2>1, <2>6, <2>7, <2>8, <2>9, FileLinesAre
<1>4. CASE Rewrite
  <2>1. removal.pc = "rewrites" /\ removal'.pc = "idle"
    BY <1>4 DEF Rewrite, RemovalEnds, NoRemoval
  <2> DEFINE S == {l \in Lines : l.uuid # removal.target}
  <2>2. file' = Selected(removal.snap, S)
    BY <1>4 DEF Rewrite
  <2> HIDE DEF S
  <2>3. file' \in Seq(Lines) /\ \A a \in 1..Len(file') : \E i \in 1..Len(removal.snap) : removal.snap[i] = file'[a]
    BY <1>0, <2>2, SelectedElements
  <2>4. Range(file') \subseteq Range(removal.snap)
    BY <1>0, <2>3, RangePart
  <2> QED BY <1>0, <1>1, <2>1, <2>4, FileLinesAre
<1> QED BY <1>2, <1>3, <1>4 DEF Cuts

LEMMA WaitsLines ==
  ASSUME FileInv, NEW line \in Lines, Waits(line)
  PROVE  FileLines' \subseteq FileLines \cup {line}
<1>1. queue \in Seq(Lines)
  BY SnapTyped DEF FileInv
<1>2. Range(queue') = Range(queue) \cup {line}
  BY <1>1, RangeAppended DEF Waits
<1> QED BY <1>2, FileLinesAre DEF Waits

\* A line comes to the queue, or none comes.
LEMMA MovesLines ==
  ASSUME FileInv, Moves
  PROVE  FileLines' \subseteq FileLines \/ \E line \in Lines : Waits(line) /\ FileLines' \subseteq FileLines \cup {line}
<1>0. queue \in Seq(Lines) /\ file \in Seq(Lines) /\ \A d \in Drainers : drains[d] \in Seq(Lines)
  BY SnapTyped DEF FileInv
<1>1. CASE Rests
  BY <1>1, FileLinesAre DEF Rests
<1>2. ASSUME NEW line \in Lines, Waits(line) PROVE FileLines' \subseteq FileLines \cup {line}
  BY <1>2, WaitsLines
<1>3. ASSUME NEW d \in Drainers, Takes(d) PROVE FileLines' \subseteq FileLines
  <2>1. drains'[d] = queue /\ \A e \in Drainers : e # d => drains'[e] = drains[e]
    BY <1>3, TakesFlow
  <2> QED BY <1>3, <2>1, FileLinesAre, RangeNothing DEF Takes
<1>4. ASSUME NEW d \in Drainers, Puts(d) PROVE FileLines' \subseteq FileLines
  <2>1. drains'[d] = <<>> /\ \A e \in Drainers : e # d => drains'[e] = drains[e]
    BY <1>4, PutsFlow
  <2>2. Range(file') \subseteq Range(file) \cup Range(drains[d])
    BY <1>0, <1>4, RangeJoined DEF Puts
  <2> QED BY <1>4, <2>1, <2>2, FileLinesAre, RangeNothing DEF Puts
<1>5. ASSUME NEW d \in Drainers, Drops(d) PROVE FileLines' \subseteq FileLines
  <2>1. drains'[d] = <<>> /\ \A e \in Drainers : e # d => drains'[e] = drains[e]
    BY <1>5, DropsFlow
  <2> QED BY <1>5, <2>1, FileLinesAre, RangeNothing DEF Drops
<1> QED BY <1>1, <1>2, <1>3, <1>4, <1>5, CutsLines DEF Moves

-----------------------------------------------------------------------------
(* The chain of a call                                                       *)

LEMMA IncreasingOrder ==
  ASSUME NEW s \in Seq(Uuids), Increasing(s)
  PROVE  /\ \A i, j \in 1..Len(s) : (i <= j => s[i] <= s[j]) /\ (s[i] < s[j] => i < j) /\ (i < j => s[i] < s[j])
         /\ \A i \in 1..Len(s) : s[i] \in Nat /\ s[i] # 0
         /\ s # <<>> => Last(s) = s[Len(s)] /\ 1 \in 1..Len(s) /\ Len(s) \in 1..Len(s)
<1>1. \A i, j \in 1..Len(s) : i < j => s[i] < s[j]
  BY IncreasingIs
<1>2. \A i \in 1..Len(s) : s[i] \in Nat /\ s[i] # 0
  BY InSequence, NumbersAre
<1>3. \A i, j \in 1..Len(s) : (i <= j => s[i] <= s[j]) /\ (s[i] < s[j] => i < j)
  <2> TAKE i, j \in 1..Len(s)
  <2>1. i < j \/ i = j \/ j < i
    OBVIOUS
  <2> QED BY <1>1, <1>2, <2>1
<1>4. s # <<>> => Last(s) = s[Len(s)] /\ 1 \in 1..Len(s) /\ Len(s) \in 1..Len(s)
  <2> SUFFICES ASSUME s # <<>> PROVE Last(s) = s[Len(s)] /\ 1 \in 1..Len(s) /\ Len(s) \in 1..Len(s)
    OBVIOUS
  <2>1. Last(s) = s[Len(s)] /\ Len(s) \in 1..Len(s)
    BY Ended
  <2> QED BY <2>1
<1> QED BY <1>1, <1>2, <1>3, <1>4

\* Of a slice the messages that are known come first, and nothing between its
\* first and its last was recorded and left out.
LEMMA ChainOfSlice ==
  ASSUME NEW slice \in Seq(Uuids), NEW hint \in Uuids \cup {Root}, NEW new, NEW start, NEW E, NEW H,
         new = Rejected(slice, known), start = Start(slice, hint), slice # <<>>, H \subseteq Uuids,
         SliceAt(slice, hint, known, E, H)
  PROVE  /\ new \in Seq(Uuids)
         /\ new = <<>> => start = Last(slice)
         /\ new # <<>> => Last(new) = Last(slice)
         /\ \A i \in 1..Len(new) : \A u \in H : ~((IF i = 1 THEN start ELSE new[i - 1]) < u /\ u < new[i])
<1> DEFINE m == Len(slice)
           q == Len(new)
<1>0. /\ Increasing(slice)
      /\ \A u \in H : slice[1] <= u /\ u <= Last(slice) => u \in Elements(slice)
      /\ \A u \in H : ~(hint < u /\ u < slice[1])
      /\ \A i, j \in DOMAIN slice : i < j /\ slice[j] \in known => slice[i] \in known
  BY DEF SliceAt, Adjacent
<1>1. new \in Seq(Uuids) /\ \E f : FindsOthers(f, new, slice, known)
  BY RejectedFound
<1>2. PICK f : FindsOthers(f, new, slice, known)
  BY <1>1
<1>3. /\ \A a \in 1..q : f[a] \in 1..m /\ new[a] = slice[f[a]] /\ new[a] \notin known
      /\ \A a, b \in 1..q : a < b => f[a] < f[b]
      /\ \A i \in 1..m : slice[i] \notin known => \E a \in 1..q : f[a] = i
  BY <1>2 DEF FindsOthers
<1>4. PICK k \in 0..m :
           /\ \A i \in 1..k : slice[i] \in known
           /\ k < m => slice[k + 1] \notin known
           /\ start = IF k = 0 THEN hint ELSE slice[k]
  BY StartIs
<1>5. m \in Nat /\ q \in Nat /\ DOMAIN slice = 1..m /\ k \in 0..m
  BY <1>1, <1>4, InSequence
<1>6. /\ \A i, j \in 1..m : (i <= j => slice[i] <= slice[j]) /\ (slice[i] < slice[j] => i < j) /\ (i < j => slice[i] < slice[j])
      /\ \A i \in 1..m : slice[i] \in Nat /\ slice[i] # 0
      /\ Last(slice) = slice[m] /\ 1 \in 1..m /\ m \in 1..m
  BY <1>0, IncreasingOrder
<1>7. \A u : u \in Elements(slice) <=> \E i \in 1..m : slice[i] = u
  BY ElementsTyped
<1>8. new # <<>> => Last(new) = new[q] /\ q \in 1..q
  BY <1>1, Ended
<1>9. q = 0 <=> new = <<>>
  BY <1>1, Nothing
<1>20. H \subseteq Nat
  BY NumbersAre
<1> HIDE DEF m, q
<1>10. ASSUME NEW i \in 1..m, i > k PROVE slice[i] \notin known
  <2>1. k + 1 \in 1..m /\ k < m
    BY <1>5, <1>10
  <2>2. CASE i = k + 1
    BY <1>4, <2>1, <2>2
  <2>3. CASE i # k + 1
    <3>1. k + 1 < i
      BY <1>5, <1>10, <2>3
    <3> QED BY <1>0, <1>4, <1>5, <2>1, <3>1
  <2> QED BY <2>2, <2>3
<1>11. ASSUME NEW a \in 1..q PROVE f[a] > k
  <2>1. f[a] \in 1..m /\ slice[f[a]] \notin known
    BY <1>3
  <2>2. ~(f[a] \in 1..k)
    BY <1>4, <2>1
  <2> QED BY <1>5, <2>1, <2>2
<1>12. new = <<>> => start = Last(slice)
  <2> SUFFICES ASSUME q = 0 PROVE start = Last(slice)
    BY <1>9
  <2>1. ~(k < m)
    <3> SUFFICES ASSUME k < m PROVE FALSE
      OBVIOUS
    <3>1. k + 1 \in 1..m
      BY <1>5
    <3> QED BY <1>3, <1>4, <3>1
  <2>2. k = m /\ k # 0
    BY <1>5, <1>6, <2>1
  <2> QED BY <1>4, <1>6, <2>2
<1>13. new # <<>> => Last(new) = Last(slice)
  <2> SUFFICES ASSUME new # <<>> PROVE Last(new) = Last(slice)
    OBVIOUS
  <2>1. q \in 1..q /\ f[q] > k /\ f[q] \in 1..m
    BY <1>3, <1>8, <1>11
  <2>2. m > k
    BY <1>5, <2>1
  <2>3. slice[m] \notin known
    BY <1>6, <1>10, <2>2
  <2>4. PICK b \in 1..q : f[b] = m
    BY <1>3, <1>6, <2>3
  <2>5. ~(b < q)
    BY <1>3, <1>5, <2>1, <2>4
  <2>6. b = q
    BY <1>5, <2>4, <2>5
  <2> QED BY <1>3, <1>6, <1>8, <2>1, <2>4, <2>6
<1>14. ASSUME NEW i \in 1..q, NEW u \in H, (IF i = 1 THEN start ELSE new[i - 1]) < u, u < new[i] PROVE FALSE
  <2>1. f[i] \in 1..m /\ f[i] > k /\ new[i] = slice[f[i]] /\ u \in Nat
    BY <1>3, <1>11, <1>20
  <2>2. CASE i = 1 /\ k = 0
    <3>1. 1 \in 1..m /\ 1 > k
      BY <1>6, <2>2
    <3>2. PICK b \in 1..q : f[b] = 1
      BY <1>3, <1>10, <3>1
    <3>3. f[1] = 1
      <4>1. 1 < b \/ b = 1
        BY <1>5, <3>2
      <4> QED BY <1>3, <1>5, <2>1, <2>2, <3>2, <4>1
    <3>4. start = hint /\ new[1] = slice[1]
      BY <1>4, <2>1, <2>2, <3>3
    <3> QED BY <1>0, <1>14, <2>2, <3>4
  <2> DEFINE a == IF i = 1 THEN k ELSE f[i - 1]
  <2>3. CASE ~(i = 1 /\ k = 0)
    <3>1. a \in 1..m /\ slice[a] < u /\ a >= k
      <4>1. CASE i = 1
        <5>1. k \in 1..m
          BY <1>5, <2>3, <4>1
        <5> QED BY <1>4, <1>5, <1>14, <2>3, <4>1, <5>1
      <4>2. CASE i # 1
        <5>1. i - 1 \in 1..q
          BY <1>5, <4>2
        <5>2. f[i - 1] \in 1..m /\ f[i - 1] > k /\ new[i - 1] = slice[f[i - 1]]
          BY <1>3, <1>11, <5>1
        <5> QED BY <1>5, <1>14, <4>2, <5>2
      <4> QED BY <4>1, <4>2
    <3>2. slice[1] <= slice[a] /\ slice[f[i]] <= slice[m] /\ slice[1] \in Nat /\ slice[a] \in Nat
          /\ slice[f[i]] \in Nat /\ slice[m] \in Nat
      <4>1. 1 <= a /\ f[i] <= m
        BY <2>1, <3>1
      <4> QED BY <1>6, <2>1, <3>1, <4>1
    <3>3. slice[1] <= u /\ u <= Last(slice)
      <4>1. u < slice[f[i]] /\ slice[a] < u
        BY <1>14, <2>1, <3>1
      <4> HIDE DEF a
      <4> QED BY <1>6, <2>1, <3>2, <4>1
    <3>4. PICK j \in 1..m : slice[j] = u
      BY <1>0, <1>7, <3>3
    <3>5. a < j /\ j < f[i]
      BY <1>6, <1>14, <2>1, <3>1, <3>4
    <3>6. j > k
      BY <1>5, <3>1, <3>4, <3>5
    <3>7. PICK b \in 1..q : f[b] = j
      BY <1>3, <1>10, <3>4, <3>6
    <3>8. ~(i <= b)
      <4>1. i < b => f[i] < f[b]
        BY <1>3
      <4> QED BY <1>5, <2>1, <3>4, <3>5, <3>7, <4>1
    <3>9. i # 1 /\ i - 1 \in 1..q /\ (b < i - 1 \/ b = i - 1)
      BY <1>5, <3>7, <3>8
    <3>10. b < i - 1 => f[b] < f[i - 1]
      BY <1>3, <3>9
    <3>11. a = f[i - 1]
      BY <3>9
    <3> QED BY <1>5, <2>1, <3>1, <3>4, <3>5, <3>7, <3>9, <3>10, <3>11
  <2> QED BY <2>2, <2>3
<1> QED BY <1>1, <1>12, <1>13, <1>14 DEF q

-----------------------------------------------------------------------------
(* The chain skips nothing: steps that are not a render                      *)

LEMMA SliceStays ==
  ASSUME NEW slice, NEW hint, NEW K, NEW E, NEW H, NEW K2, NEW E2, NEW H2, SliceAt(slice, hint, K, E, H),
         K \subseteq K2, K2 \subseteq K \cup E, E2 \subseteq E, H2 \subseteq H
  PROVE  SliceAt(slice, hint, K2, E2, H2)
<1>1. \A u \in H2 : slice[1] <= u /\ u <= Last(slice) => u \in Elements(slice)
  BY DEF SliceAt
<1>2. Adjacent(hint, slice[1], H2)
  BY DEF SliceAt, Adjacent
<1>3. \A i, j \in DOMAIN slice : i < j /\ slice[j] \in K2 => slice[i] \in K2
  <2>1. \A i, j \in DOMAIN slice : i < j /\ slice[j] \in K => slice[i] \in K
    BY DEF SliceAt
  <2>2. \A j \in DOMAIN slice : slice[j] \in K2 => slice[j] \in K
    BY DEF SliceAt
  <2> QED BY <2>1, <2>2
<1>4. \A i \in DOMAIN slice : slice[i] \in K2 \/ slice[i] \notin E2
  BY DEF SliceAt
<1> QED BY <1>1, <1>2, <1>3, <1>4 DEF SliceAt

LEMMA ElsewhereIs ==
  ASSUME NEW c, NEW cs, NEW p
  PROVE  \A u : u \in Elsewhere(c, cs, p) <=>
           \/ u \in Of(p)
           \/ \E e \in DOMAIN cs : u \in Of(cs[e].lines)
           \/ \E e \in DOMAIN cs \ {c} : u \in Elements(cs[e].slice)
BY DEF Elsewhere

LEMMA ChainInvAgain ==
  ASSUME ~astray' => HookInv' /\ LinesInv' /\ SlicesInv' /\ LatestInv'
  PROVE  ChainInv'
BY DEF ChainInv

LEMMA SlicesInvAgain ==
  ASSUME \A c \in DOMAIN calls' :
           calls'[c].pc = "loads" => SliceAt(calls'[c].slice, calls'[c].hint, known', Elsewhere(c, calls', pending'), Standing')
  PROVE  SlicesInv'
BY DEF SlicesInv

LEMMA LinesStay ==
  ASSUME LinesInv, handed \subseteq handed', Standing' \subseteq Standing,
         \A l \in AllLines' : l \in AllLines \/ (Adjacent(l.parent, l.uuid, Standing) /\ l.uuid \in handed)
  PROVE  LinesInv'
BY DEF LinesInv, Adjacent

LEMMA StandingStays ==
  ASSUME handed' = handed, removal.targets \subseteq removal'.targets
  PROVE  Standing' \subseteq Standing
BY DEF Standing

LEMMA FileLinesStay ==
  ASSUME FileInv, Moves, known' = known
  PROVE  FileLines' \subseteq FileLines
<1>1. \A line \in Lines : ~Waits(line)
  BY DEF Waits
<1> QED BY <1>1, MovesLines

\* Only lines move, and a message may be withdrawn.
LEMMA MoveChain ==
  ASSUME TypeInv, ChainInv, Moves, UNCHANGED <<calls, known, pending, shown, handed, astray>>,
         hook'.parent = hook.parent, removal.targets \subseteq removal'.targets
  PROVE  ChainInv'
<1> SUFFICES ASSUME ~astray PROVE HookInv' /\ LinesInv' /\ SlicesInv' /\ LatestInv'
  BY ChainInvAgain
<1>0. FileInv /\ HookInv /\ LinesInv /\ SlicesInv /\ LatestInv
  BY TypeInvIs DEF ChainInv
<1>1. Standing' \subseteq Standing
  BY StandingStays
<1>2. LinesInv'
  <2>1. AllLines' \subseteq AllLines
    <3>1. FileLines' \subseteq FileLines
      BY <1>0, FileLinesStay
    <3>2. CallLines' = CallLines
      BY CallLinesAre
    <3> QED BY <3>1, <3>2, AllLinesAre
  <2> QED BY <1>0, <1>1, <2>1, LinesStay
<1>3. SlicesInv'
  <2>1. \A c \in DOMAIN calls : Elsewhere(c, calls', pending') = Elsewhere(c, calls, pending)
    OBVIOUS
  <2>2. ASSUME NEW c \in DOMAIN calls', calls'[c].pc = "loads"
        PROVE  SliceAt(calls'[c].slice, calls'[c].hint, known', Elsewhere(c, calls', pending'), Standing')
    <3>1. SliceAt(calls[c].slice, calls[c].hint, known, Elsewhere(c, calls, pending), Standing)
      BY <1>0, <2>2 DEF SlicesInv
    <3> QED BY <1>1, <2>1, <3>1, SliceStays
  <2> QED BY <2>2, SlicesInvAgain
<1>4. HookInv' /\ LatestInv'
  BY <1>0 DEF HookInv, LatestInv
<1> QED BY <1>2, <1>3, <1>4

\* A call goes on: what other calls have does not grow.
LEMMA CallElsewhere ==
  ASSUME CallTypes, NEW c \in DOMAIN calls, NEW call \in Call, calls' = [calls EXCEPT ![c] = call],
         Of(pending') \cup Of(call.lines) \subseteq Of(pending) \cup Of(calls[c].lines) \cup Elements(calls[c].slice),
         Elements(call.slice) \subseteq Elements(calls[c].slice)
  PROVE  \A e \in DOMAIN calls : e # c => Elsewhere(e, calls', pending') \subseteq Elsewhere(e, calls, pending)
<1>1. /\ DOMAIN calls' = DOMAIN calls /\ calls'[c] = call
      /\ \A e \in DOMAIN calls : e # c => calls'[e] = calls[e]
  BY CallReplaced
<1> SUFFICES ASSUME NEW e \in DOMAIN calls, e # c, NEW u \in Elsewhere(e, calls', pending')
             PROVE  u \in Elsewhere(e, calls, pending)
  OBVIOUS
<1>2. u \in Of(pending) \cup Of(calls[c].lines) \cup Elements(calls[c].slice) => u \in Elsewhere(e, calls, pending)
  BY ElsewhereIs
<1>3. CASE u \in Of(pending')
  BY <1>2, <1>3
<1>4. ASSUME NEW g \in DOMAIN calls', u \in Of(calls'[g].lines) PROVE u \in Elsewhere(e, calls, pending)
  <2>1. CASE g = c
    BY <1>1, <1>2, <1>4, <2>1
  <2>2. CASE g # c
    BY <1>1, <1>4, <2>2, ElsewhereIs
  <2> QED BY <2>1, <2>2
<1>5. ASSUME NEW g \in DOMAIN calls' \ {e}, u \in Elements(calls'[g].slice) PROVE u \in Elsewhere(e, calls, pending)
  <2>1. CASE g = c
    BY <1>1, <1>2, <1>5, <2>1
  <2>2. CASE g # c
    BY <1>1, <1>5, <2>2, ElsewhereIs
  <2> QED BY <2>1, <2>2
<1> QED BY <1>3, <1>4, <1>5, ElsewhereIs

\* A call goes on: the slices of the others stay right.
LEMMA CallSlices ==
  ASSUME CallTypes, SlicesInv, NEW c \in DOMAIN calls, NEW call \in Call, calls' = [calls EXCEPT ![c] = call],
         call.pc # "loads", Elements(call.slice) \subseteq Elements(calls[c].slice),
         Of(pending') \cup Of(call.lines) \subseteq Of(pending) \cup Of(calls[c].lines) \cup Elements(calls[c].slice),
         handed' = handed, removal' = removal, known \subseteq known', known' \subseteq known \cup Of(calls[c].lines)
  PROVE  SlicesInv'
<1>1. /\ DOMAIN calls' = DOMAIN calls /\ calls'[c] = call
      /\ \A e \in DOMAIN calls : e # c => calls'[e] = calls[e]
  BY CallReplaced
<1>2. \A e \in DOMAIN calls : e # c => Elsewhere(e, calls', pending') \subseteq Elsewhere(e, calls, pending)
  BY CallElsewhere
<1>3. Standing' = Standing
  BY DEF Standing
<1>4. ASSUME NEW e \in DOMAIN calls', calls'[e].pc = "loads"
      PROVE  SliceAt(calls'[e].slice, calls'[e].hint, known', Elsewhere(e, calls', pending'), Standing')
  <2>1. e # c /\ calls'[e] = calls[e] /\ e \in DOMAIN calls
    BY <1>1, <1>4
  <2>2. SliceAt(calls[e].slice, calls[e].hint, known, Elsewhere(e, calls, pending), Standing)
    BY <1>4, <2>1 DEF SlicesInv
  <2>3. known' \subseteq known \cup Elsewhere(e, calls, pending)
    BY ElsewhereIs
  <2> QED BY <1>2, <1>3, <2>1, <2>2, <2>3, SliceStays
<1> QED BY <1>4, SlicesInvAgain

-----------------------------------------------------------------------------
(* The chain skips nothing: a call of recordTranscript() goes on             *)

LEMMA CallLinesMoved ==
  ASSUME CallTypes, NEW c \in DOMAIN calls, NEW call \in Call, calls' = [calls EXCEPT ![c] = call]
  PROVE  \A l \in CallLines' : l \in CallLines \/ l \in Range(pending') \/ l \in Range(call.lines)
<1>1. /\ DOMAIN calls' = DOMAIN calls /\ calls'[c] = call
      /\ \A e \in DOMAIN calls : e # c => calls'[e] = calls[e]
  BY CallReplaced
<1>2. ASSUME NEW l, NEW e \in DOMAIN calls', l \in Range(calls'[e].lines)
      PROVE  l \in CallLines \/ l \in Range(call.lines)
  <2>1. CASE e = c
    BY <1>1, <1>2, <2>1
  <2>2. CASE e # c
    <3>1. e \in DOMAIN calls /\ l \in Range(calls[e].lines)
      BY <1>1, <1>2, <2>2
    <3> QED BY <3>1, CallLinesAre
  <2> QED BY <2>1, <2>2
<1> QED BY <1>2, CallLinesAre

LEMMA StandingIs ==
  ASSUME ScreenTypes
  PROVE  Standing \subseteq Uuids /\ (handed' = handed /\ removal' = removal => Standing' = Standing)
BY DEF Standing, ScreenTypes

\* The latest call is the one that goes on, or another.
LEMMA LatestStays ==
  ASSUME CallTypes, LatestInv, NEW c \in DOMAIN calls, NEW call \in Call, calls' = [calls EXCEPT ![c] = call],
         shown' = shown, call.pc # "loads",
         c = Len(calls) /\ call.full /\ call.pc = "appends" => call.result = Last(shown)
  PROVE  LatestInv'
<1>1. /\ DOMAIN calls' = DOMAIN calls /\ calls'[c] = call /\ Len(calls') = Len(calls)
      /\ \A e \in DOMAIN calls : e # c => calls'[e] = calls[e]
  BY CallReplaced
<1>2. DOMAIN calls = 1..Len(calls) /\ Len(calls) \in Nat
  BY CallsTyped
<1>3. Len(calls) \in DOMAIN calls /\ calls # <<>>
  BY <1>2
<1> DEFINE n == Len(calls)
<1>4. n \in DOMAIN calls /\ Len(calls') = n
  BY <1>1, <1>3
<1>5. calls[n].full => /\ calls[n].pc = "loads" => calls[n].slice = shown
                       /\ calls[n].pc = "appends" => calls[n].result = Last(shown)
  BY <1>3 DEF LatestInv
<1> HIDE DEF n
<1>6. calls'[n].full => /\ calls'[n].pc = "loads" => calls'[n].slice = shown
                        /\ calls'[n].pc = "appends" => calls'[n].result = Last(shown)
  <2>1. CASE n = c
    BY <1>1, <2>1 DEF n
  <2>2. CASE n # c
    BY <1>1, <1>4, <1>5, <2>2
  <2> QED BY <2>1, <2>2
<1> QED BY <1>4, <1>6 DEF LatestInv

LEMMA EntryChain ==
  ASSUME TypeInv, ChainInv, NEW c \in DOMAIN calls, AppendEntry(c)
  PROVE  ChainInv'
<1> SUFFICES ASSUME ~astray PROVE HookInv' /\ LinesInv' /\ SlicesInv' /\ LatestInv'
  BY ChainInvAgain DEF AppendEntry, screenVars
<1>0. /\ FileInv /\ CallTypes /\ ScreenTypes /\ HookInv /\ LinesInv /\ SlicesInv /\ LatestInv
      /\ UNCHANGED <<hook, shown, handed, removal>> /\ calls[c].pc = "appends" /\ calls[c].lines # <<>>
  BY TypeInvIs DEF ChainInv, AppendEntry, screenVars
<1> DEFINE line == Head(calls[c].lines)
           rest == Tail(calls[c].lines)
<1>1. /\ EntryAs(c, line) /\ line \in Lines /\ rest \in Seq(Lines)
      /\ Of(calls[c].lines) = {line.uuid} \cup Of(rest)
  BY <1>0, EntryIs
<1>2. /\ calls[c] \in Call /\ calls[c].lines \in Seq(Lines) /\ pending \in Seq(Lines)
  BY <1>0, CallsTyped DEF CallTypes
<1>3. Range(rest) \subseteq Range(calls[c].lines) /\ line \in Range(calls[c].lines)
  BY <1>0, <1>2, RangeBehind
<1> HIDE DEF line, rest
<1> DEFINE call == [calls[c] EXCEPT !.lines = rest]
<1>4. /\ calls' = [calls EXCEPT ![c] = call]
      /\ \/ pending' = Append(pending, line) /\ UNCHANGED <<queue, timer, known>>
         \/ EnqueueWrite(line) /\ line.uuid \notin known /\ known' = known \cup {line.uuid} /\ pending' = pending
         \/ UNCHANGED <<queue, known, pending>>
  BY <1>1 DEF EntryAs, line, rest
<1>5. /\ call \in Call /\ call.lines = rest /\ call.slice = calls[c].slice /\ call.pc = "appends"
      /\ call.full = calls[c].full /\ call.result = calls[c].result
  BY <1>0, <1>1, <1>2 DEF Call
<1> HIDE DEF call
<1>6. Standing' = Standing
  BY <1>0, StandingIs
<1>7. LinesInv'
  <2>1. FileLines' \subseteq FileLines \cup {line}
    <3>1. CASE UNCHANGED <<queue, known>>
      <4>1. UNCHANGED <<queue, drains, file, removal>>
        BY <1>0, <3>1 DEF AppendEntry
      <4> QED BY <4>1, FileLinesAre
    <3>2. CASE EnqueueWrite(line) /\ line.uuid \notin known /\ known' = known \cup {line.uuid}
      <4>1. Waits(line)
        BY <1>0, <3>2 DEF Waits, AppendEntry, EnqueueWrite
      <4> QED BY <1>0, <1>1, <4>1, WaitsLines DEF line
    <3> QED BY <1>4, <3>1, <3>2
  <2>2. Range(pending') \subseteq Range(pending) \cup {line}
    BY <1>1, <1>2, <1>4, RangeAppended DEF line
  <2>3. \A l : l \in Range(pending) \/ l \in Range(calls[c].lines) => l \in CallLines
    BY CallLinesAre
  <2>4. CallLines' \subseteq CallLines
    <3>1. \A l \in CallLines' : l \in CallLines \/ l \in Range(pending') \/ l \in Range(call.lines)
      BY <1>0, <1>4, <1>5, CallLinesMoved
    <3> QED BY <1>3, <1>5, <2>2, <2>3, <3>1
  <2>5. line \in CallLines
    BY <1>3, <2>3
  <2>6. AllLines' \subseteq AllLines
    BY <2>1, <2>4, <2>5, AllLinesAre
  <2> QED BY <1>0, <1>6, <2>6, LinesStay
<1>8. SlicesInv'
  <2>1. Of(pending') \subseteq Of(pending) \cup {line.uuid}
    BY <1>1, <1>2, <1>4, OfAppended DEF line
  <2>2. known \subseteq known' /\ known' \subseteq known \cup {line.uuid}
    BY <1>4
  <2> QED BY <1>0, <1>1, <1>4, <1>5, <2>1, <2>2, CallSlices
<1>9. HookInv'
  BY <1>0 DEF HookInv
<1>10. LatestInv'
  <2>1. c = Len(calls) /\ call.full => call.result = Last(shown)
    <3>1. calls # <<>>
      OBVIOUS
    <3> QED BY <1>0, <1>5, <3>1 DEF LatestInv
  <2> QED BY <1>0, <1>4, <1>5, <2>1, LatestStays
<1> QED BY <1>7, <1>8, <1>9, <1>10

LEMMA ResolvedIs ==
  ASSUME ScreenTypes, NEW c, NEW result, hook' = Resolved(c, result)
  PROVE  hook'.parent = IF c = Len(calls) /\ calls[c].full /\ result # Root THEN result ELSE hook.parent
BY DEF Resolved, ScreenTypes

\* A call is over.
LEMMA OverChain ==
  ASSUME TypeInv, HookInv, LinesInv, SlicesInv, LatestInv, NEW c \in DOMAIN calls, calls' = [calls EXCEPT ![c] = Over],
         NEW result, hook' = Resolved(c, result), c = Len(calls) /\ calls[c].full => result = Last(shown),
         UNCHANGED <<pending, known, shown, handed, removal>>, FileLines' \subseteq FileLines
  PROVE  HookInv' /\ LinesInv' /\ SlicesInv' /\ LatestInv'
<1>0. /\ FileInv /\ CallTypes /\ ScreenTypes
      /\ Over \in Call /\ Over.pc = "over" /\ Over.slice = <<>> /\ Over.lines = <<>>
  BY TypeInvIs, OverIs
<1>1. Standing' = Standing
  BY <1>0, StandingIs
<1>2. LinesInv'
  <2>1. \A l \in CallLines' : l \in CallLines \/ l \in Range(pending') \/ l \in Range(Over.lines)
    BY <1>0, CallLinesMoved
  <2>2. CallLines' \subseteq CallLines
    BY <1>0, <2>1, CallLinesAre, RangeNothing
  <2>3. AllLines' \subseteq AllLines
    BY <2>2, AllLinesAre
  <2> QED BY <1>1, <2>3, LinesStay
<1>3. SlicesInv'
  <2>1. Elements(Over.slice) = {} /\ Of(Over.lines) = {}
    BY <1>0, OfNothing DEF Elements
  <2> QED BY <1>0, <2>1, CallSlices
<1>4. HookInv'
  BY <1>0, ResolvedIs DEF HookInv
<1>5. LatestInv'
  BY <1>0, LatestStays
<1> QED BY <1>2, <1>3, <1>4, <1>5

LEMMA FinishChain ==
  ASSUME TypeInv, ChainInv, Moves, NEW c \in DOMAIN calls, Finish(c)
  PROVE  ChainInv'
<1> SUFFICES ASSUME ~astray PROVE HookInv' /\ LinesInv' /\ SlicesInv' /\ LatestInv'
  BY ChainInvAgain DEF Finish
<1>0. /\ FileInv /\ HookInv /\ LinesInv /\ SlicesInv /\ LatestInv /\ calls[c].pc = "appends"
      /\ calls' = [calls EXCEPT ![c] = Over] /\ hook' = Resolved(c, calls[c].result)
      /\ UNCHANGED <<pending, known, shown, handed, removal>>
  BY TypeInvIs DEF ChainInv, Finish
<1>1. FileLines' \subseteq FileLines
  BY <1>0, FileLinesStay DEF Finish
<1>2. c = Len(calls) /\ calls[c].full => calls[c].result = Last(shown)
  <2>1. calls # <<>>
    OBVIOUS
  <2> QED BY <1>0, <2>1 DEF LatestInv
<1> QED BY <1>0, <1>1, <1>2, OverChain DEF Finish

\* The lines of a chain are right, when its slice is.
LEMMA ChainRight ==
  ASSUME NEW slice \in Seq(Uuids), NEW hint \in Uuids \cup {Root}, NEW new, NEW start \in Uuids \cup {Root}, NEW E, NEW H,
         H \subseteq Uuids, new = Rejected(slice, known), start = Start(slice, hint), slice # <<>>,
         SliceAt(slice, hint, known, E, H)
  PROVE  /\ new = <<>> => start = Last(slice)
         /\ new # <<>> => Last(new) = Last(slice)
         /\ \A l \in Range(Chain(new, start)) : Adjacent(l.parent, l.uuid, H) /\ l.uuid \in Elements(slice)
<1>1. /\ new \in Seq(Uuids)
      /\ new = <<>> => start = Last(slice)
      /\ new # <<>> => Last(new) = Last(slice)
      /\ \A i \in 1..Len(new) : \A u \in H : ~((IF i = 1 THEN start ELSE new[i - 1]) < u /\ u < new[i])
  BY ChainOfSlice
<1> DEFINE chain == Chain(new, start)
           n == Len(new)
<1>2. /\ chain \in Seq(Lines) /\ Len(chain) = n
      /\ \A i \in 1..n : chain[i].uuid = new[i] /\ chain[i].parent = IF i = 1 THEN start ELSE new[i - 1]
      /\ Of(chain) = Elements(new)
  BY <1>1, ChainIs
<1>3. Elements(new) \subseteq Elements(slice)
  BY RejectedElements
<1> HIDE DEF chain, n
<1>4. ASSUME NEW l \in Range(chain) PROVE Adjacent(l.parent, l.uuid, H) /\ l.uuid \in Elements(slice)
  <2>1. PICK i \in 1..n : chain[i] = l
    <3>1. \E i \in 1..Len(chain) : chain[i] = l
      BY <1>2, <1>4, RangeIs
    <3> QED BY <1>2, <3>1
  <2>2. l.uuid \in Of(chain)
    BY <1>2, <1>4, RangeIs
  <2>3. \A u \in H : ~((IF i = 1 THEN start ELSE new[i - 1]) < u /\ u < new[i])
    BY <1>1 DEF n
  <2>4. Adjacent(l.parent, l.uuid, H)
    BY <1>2, <2>1, <2>3 DEF Adjacent
  <2> QED BY <1>2, <1>3, <2>2, <2>4
<1> QED BY <1>1, <1>4 DEF chain

LEMMA LoadedChain ==
  ASSUME TypeInv, ChainInv, HandInv, Moves, NEW c \in DOMAIN calls, Loaded(c)
  PROVE  ChainInv'
<1> SUFFICES ASSUME ~astray PROVE HookInv' /\ LinesInv' /\ SlicesInv' /\ LatestInv'
  BY ChainInvAgain DEF Loaded
<1>0. /\ FileInv /\ CallTypes /\ ScreenTypes /\ HookInv /\ LinesInv /\ SlicesInv /\ LatestInv
      /\ UNCHANGED <<known, shown, handed, removal>> /\ calls[c].pc = "loads" /\ calls[c].slice # <<>>
  BY TypeInvIs DEF ChainInv, Loaded, CallsInv
<1>1. PICK new \in Seq(Uuids), start \in Uuids \cup {Root}, makes \in BOOLEAN, lines \in Seq(Lines) :
        LoadedAs(c, new, start, makes, lines)
  BY <1>0, LoadedIs
<1> DEFINE slice == calls[c].slice
           hint == calls[c].hint
<1>2. /\ calls[c] \in Call /\ slice \in Seq(Uuids) /\ hint \in Uuids \cup {Root} /\ pending \in Seq(Lines)
  BY <1>0, CallsTyped DEF CallTypes
<1>3. SliceAt(slice, hint, known, Elsewhere(c, calls, pending), Standing)
  BY <1>0 DEF SlicesInv
<1>4. Standing \subseteq Uuids /\ Standing' = Standing
  BY <1>0, StandingIs
<1>5. /\ new = <<>> => start = Last(slice)
      /\ new # <<>> => Last(new) = Last(slice)
      /\ \A l \in Range(Chain(new, start)) : Adjacent(l.parent, l.uuid, Standing) /\ l.uuid \in Elements(slice)
  <2>1. new = Rejected(slice, known) /\ start = Start(slice, hint)
    BY <1>1 DEF LoadedAs
  <2>2. slice # <<>>
    BY <1>0
  <2> HIDE DEF slice, hint
  <2> QED BY <1>2, <1>3, <1>4, <2>1, <2>2, ChainRight
<1>6. FileLines' \subseteq FileLines
  BY <1>0, FileLinesStay
<1>7. c = Len(calls) /\ calls[c].full => slice = shown
  <2>1. calls # <<>>
    OBVIOUS
  <2> QED BY <1>0, <2>1 DEF LatestInv
<1>8. CASE new = <<>>
  <2>1. calls' = [calls EXCEPT ![c] = Over] /\ hook' = Resolved(c, start) /\ pending' = pending
    BY <1>1, <1>8 DEF LoadedAs
  <2>2. c = Len(calls) /\ calls[c].full => start = Last(shown)
    BY <1>5, <1>7, <1>8
  <2> QED BY <1>0, <1>6, <2>1, <2>2, OverChain
<1>9. CASE new # <<>>
  <2> DEFINE call == [calls[c] EXCEPT !.pc = "appends", !.result = Last(new), !.slice = <<>>, !.lines = lines]
  <2>1. /\ calls' = [calls EXCEPT ![c] = call] /\ pending' = (IF makes THEN <<>> ELSE pending) /\ hook' = hook
        /\ lines = (IF makes THEN pending ELSE <<>>) \o Chain(new, start)
        /\ Of(lines) = (IF makes THEN Of(pending) ELSE {}) \cup Elements(new)
    BY <1>1, <1>9 DEF LoadedAs
  <2>2. Last(new) \in Uuids
    BY <1>9, Ended
  <2>3. /\ call \in Call /\ call.pc = "appends" /\ call.result = Last(new) /\ call.slice = <<>> /\ call.lines = lines
        /\ call.full = calls[c].full
    <3> DEFINE result == Last(new)
               made0 == calls[c]
    <3>1. made0 \in Call /\ result \in Uuids \cup {Root} /\ <<>> \in Seq(Uuids)
      BY <1>2, <2>2
    <3> HIDE DEF result, made0
    <3>2. call = [made0 EXCEPT !.pc = "appends", !.result = result, !.slice = <<>>, !.lines = lines]
      BY DEF result, made0
    <3>3. /\ call \in Call /\ call.pc = "appends" /\ call.result = result /\ call.slice = <<>> /\ call.lines = lines
          /\ call.full = made0.full
      <4> HIDE DEF call
      <4> QED BY <3>1, <3>2 DEF Call
    <3> QED BY <3>3 DEF result, made0
  <2> HIDE DEF call
  <2>4. Of(pending') \cup Of(lines) \subseteq Of(pending) \cup Elements(slice)
    <3>1. Elements(new) \subseteq Elements(slice)
      BY <1>1, <1>2, RejectedElements DEF LoadedAs
    <3> QED BY <2>1, <3>1, OfNothing
  <2>5. SlicesInv'
    <3>1. Elements(call.slice) = {}
      BY <2>3 DEF Elements
    <3> QED BY <1>0, <2>1, <2>3, <2>4, <3>1, CallSlices DEF slice
  <2>6. LinesInv'
    <3>1. \A l \in CallLines' : l \in CallLines \/ l \in Range(pending') \/ l \in Range(lines)
      BY <1>0, <2>1, <2>3, CallLinesMoved
    <3>2. Range(pending') \subseteq Range(pending)
      BY <2>1, RangeNothing
    <3>3. Range(lines) \subseteq Range(pending) \cup Range(Chain(new, start))
      <4> DEFINE first == IF makes THEN pending ELSE <<>>
      <4>1. first \in Seq(Lines) /\ Range(first) \subseteq Range(pending)
        BY <1>2, RangeNothing, NothingTyped
      <4>2. Chain(new, start) \in Seq(Lines) /\ lines = first \o Chain(new, start)
        BY <2>1, ChainIs
      <4> HIDE DEF first
      <4> QED BY <4>1, <4>2, RangeJoined
    <3>4. Elements(slice) \subseteq handed
      <4>1. handed = Todo \cup Of(pending) \cup known
        BY HandInvIs
      <4>2. Elements(slice) \subseteq Todo
        BY TodoIs
      <4> QED BY <4>1, <4>2
    <3>5. \A l \in Range(pending) : l \in CallLines
      BY CallLinesAre
    <3>6. \A l \in AllLines' : l \in AllLines \/ (Adjacent(l.parent, l.uuid, Standing) /\ l.uuid \in handed)
      BY <1>5, <1>6, <3>1, <3>2, <3>3, <3>4, <3>5, AllLinesAre
    <3> QED BY <1>0, <1>4, <3>6, LinesStay
  <2>7. HookInv'
    BY <1>0, <2>1 DEF HookInv
  <2>8. LatestInv'
    BY <1>0, <1>5, <1>7, <1>9, <2>1, <2>3, LatestStays
  <2> QED BY <2>5, <2>6, <2>7, <2>8
<1> QED BY <1>8, <1>9

-----------------------------------------------------------------------------
(* The chain skips nothing: a render                                         *)

\* Calls and lines have only what was handed.
LEMMA HandedHas ==
  ASSUME HandInv
  PROVE  /\ \A c \in DOMAIN calls : Elements(calls[c].slice) \subseteq handed
         /\ \A c : Elsewhere(c, calls, pending) \subseteq handed
         /\ known \subseteq handed /\ Of(pending) \subseteq handed
<1>1. handed = Todo \cup Of(pending) \cup known
  BY HandInvIs
<1>2. \A c \in DOMAIN calls : Elements(calls[c].slice) \subseteq handed /\ Of(calls[c].lines) \subseteq handed
  BY <1>1, TodoIs
<1>3. ASSUME NEW c, NEW u \in Elsewhere(c, calls, pending) PROVE u \in handed
  BY <1>1, <1>2, ElsewhereIs
<1> QED BY <1>1, <1>2, <1>3

\* The call that a render makes comes last.
LEMMA CallsMore ==
  ASSUME CallTypes, NEW call \in Call, calls' = Append(calls, call)
  PROVE  \E n \in Nat : /\ n = Len(calls) + 1 /\ Len(calls') = n /\ n \notin DOMAIN calls /\ calls'[n] = call
                        /\ DOMAIN calls' = DOMAIN calls \cup {n} /\ calls' # <<>>
                        /\ \A c \in DOMAIN calls : calls'[c] = calls[c] /\ c # n
<1> DEFINE m == Len(calls)
<1>1. calls \in Seq(Call)
  BY DEF CallTypes
<1>2. /\ calls' \in Seq(Call) /\ Len(calls') = m + 1 /\ calls' # <<>> /\ m \in Nat
      /\ \A i \in 1..m : calls'[i] = calls[i]
      /\ calls'[m + 1] = call
      /\ DOMAIN calls = 1..m
  BY <1>1, Appended, InSequence
<1>3. DOMAIN calls' = 1..Len(calls')
  BY <1>2, InSequence
<1> HIDE DEF m
<1>4. /\ 1..(m + 1) = 1..m \cup {m + 1} /\ m + 1 \notin 1..m /\ m + 1 \in Nat /\ \A c \in 1..m : c # m + 1
  BY <1>2
<1>5. /\ Len(calls') = m + 1 /\ m + 1 \notin DOMAIN calls /\ calls'[m + 1] = call
      /\ DOMAIN calls' = DOMAIN calls \cup {m + 1}
      /\ \A c \in DOMAIN calls : calls'[c] = calls[c] /\ c # m + 1
  BY <1>2, <1>3, <1>4
<1> QED BY <1>2, <1>4, <1>5 DEF m

\* A call that was just made has no lines.
LEMMA CalledIs ==
  ASSUME NEW slice \in Seq(Uuids), NEW full \in BOOLEAN, NEW hint \in Uuids \cup {Root}
  PROVE  LET call == Called(slice, full, hint)
         IN /\ call \in Call /\ call.pc = "loads" /\ call.slice = slice /\ call.hint = hint /\ call.full = full
            /\ call.lines = <<>>
<1>1. <<>> \in Seq(Lines)
  BY NothingTyped
<1> QED BY <1>1 DEF Called, Call

\* Where the new messages begin.
LEMMA ShowsFork ==
  ASSUME TypeInv, ScreenInv, ForkInv, NEW slice, NEW incremental, NEW n, Shows(slice, incremental, n), ~astray'
  PROVE  /\ ~astray /\ Elements(messages) \subseteq handed' /\ (incremental \/ slice # <<>>)
         /\ ~incremental => \A c \in DOMAIN calls : calls[c].pc = "over"
         /\ \E k \in 0..Len(shown) : Fork(k) /\ (incremental => k = n)
<1>1. /\ ~astray /\ Elements(messages) \subseteq handed'
      /\ ~((\E c \in DOMAIN calls : calls[c].pc # "over") /\ ~incremental /\ slice # <<>>)
      /\ n \in 0..Len(messages) /\ Len(slice) = Len(messages) - n /\ messages # <<>> /\ slice \in Seq(Uuids)
      /\ \A i \in 1..(Len(messages) - n) : slice[i] = messages[n + i]
      /\ n = (IF incremental THEN Len(shown) ELSE 0) /\ incremental \in BOOLEAN
      /\ incremental => Len(shown) <= Len(messages)
  BY TypeInvIs DEF Shows, ScreenTypes
<1>2. /\ messages \in Seq(Uuids) /\ shown \in Seq(Uuids) /\ Increasing(messages) /\ ScreenTypes
  BY TypeInvIs, ScreenInvIs DEF ScreenAt, ScreenTypes
<1> DEFINE m == Len(messages)
           s == Len(shown)
<1>3. m \in Nat /\ s \in Nat /\ DOMAIN messages = 1..m
  BY <1>2, InSequence
<1>4. m # 0
  BY <1>1, <1>2, Nothing
<1>5. slice = <<>> <=> m - n = 0
  BY <1>1, Nothing
<1>6. PICK k \in 0..s : Fork(k)
  BY <1>1 DEF ForkInv
<1>7. /\ k <= m /\ \A i \in 1..m : i > k => \A u \in handed : u < messages[i]
  BY <1>3, <1>6 DEF Fork
<1>8. \A i, j \in 1..m : i < j => messages[i] < messages[j]
  BY <1>2, IncreasingIs
<1>9. handed' = handed \cup Elements(slice)
  BY <1>2, ShowsHanded
<1>10. \A u : u \in Elements(slice) <=> \E i \in 1..(m - n) : slice[i] = u
  BY <1>1, ElementsTyped
<1>11. \A i \in 1..m : messages[i] \in Nat /\ messages[i] \in Elements(messages)
  BY <1>2, ElementsTyped, InSequence, NumbersAre
<1>12. handed \subseteq Nat
  BY TypeInvIs, NumbersAre DEF ScreenTypes
<1>20. /\ n \in 0..m /\ (\A i \in 1..(m - n) : slice[i] = messages[n + i]) /\ n = (IF incremental THEN s ELSE 0)
  BY <1>1
<1> HIDE DEF m, s
<1>13. incremental \/ slice # <<>>
  BY <1>1, <1>3, <1>4, <1>5, <1>20
<1>14. ASSUME incremental PROVE k = n
  <2>1. n = s
    BY <1>14, <1>20
  <2> SUFFICES ASSUME k < n PROVE FALSE
    BY <1>3, <1>6, <2>1
  <2>2. k + 1 \in 1..m /\ k + 1 > k /\ k + 1 <= n
    BY <1>3, <1>6, <1>20, <2>1
  <2>3. \A u \in handed : u < messages[k + 1]
    BY <1>7, <2>2
  <2>4. messages[k + 1] \notin handed
    BY <1>11, <1>12, <2>2, <2>3
  <2>5. PICK i \in 1..(m - n) : slice[i] = messages[k + 1]
    BY <1>1, <1>9, <1>10, <1>11, <2>2, <2>4
  <2>6. n + i \in 1..m /\ k + 1 < n + i
    BY <1>3, <1>20, <2>2, <2>5
  <2>7. messages[k + 1] < messages[n + i]
    BY <1>8, <2>2, <2>6
  <2> QED BY <1>11, <1>20, <2>2, <2>5, <2>7
<1> QED BY <1>1, <1>6, <1>13, <1>14 DEF s

LEMMA SameSequence ==
  ASSUME NEW T, NEW s \in Seq(T), NEW t \in Seq(T), Len(s) = Len(t), \A i \in 1..Len(s) : s[i] = t[i]
  PROVE  s = t
OBVIOUS

\* When all messages are passed while no call is under way, what was handed is known.
LEMMA PassedAll ==
  ASSUME TypeInv, ScreenInv, ForkInv, HandInv, NEW slice, NEW n, Shows(slice, FALSE, n), ~astray'
  PROVE  handed = known /\ Of(pending) = {} /\ \A c : Elsewhere(c, calls, pending) = {}
<1>1. ~astray /\ slice # <<>> /\ (\A c \in DOMAIN calls : calls[c].pc = "over") /\ \E k \in 0..Len(shown) : Fork(k)
  BY ShowsFork
<1>2. \A c \in DOMAIN calls : calls[c].lines = <<>> /\ calls[c].slice = <<>>
  BY <1>1 DEF TypeInv, CallsInv
<1>3. Of(<<>>) = {} /\ Elements(<<>>) = {}
  BY OfNothing DEF Elements
<1>4. handed = Of(pending) \cup known
  <2>1. Todo = {}
    BY <1>2, <1>3, TodoIs
  <2> QED BY <2>1, HandInvIs
<1>5. Of(pending) = {}
  <2> SUFFICES ASSUME Of(pending) # {} PROVE FALSE
    OBVIOUS
  <2>1. ~materialized /\ \A u \in handed \ Notes : materialized \/ \E c \in DOMAIN calls : u \in Elements(calls[c].slice)
    BY <1>3, HandInvIs DEF NotesWait
  <2>2. handed \subseteq Notes
    BY <1>2, <1>3, <2>1
  <2>3. handed # {}
    BY <1>4
  <2>4. shown # <<>> /\ Elements(shown) \subseteq handed /\ removal.targets \subseteq Partials
    BY <1>1, <2>3, ScreenInvIs DEF ForkInv, ScreenAt, HookAt
  <2>5. /\ shown \in Seq(Uuids) /\ messages \in Seq(Uuids)
        /\ ~(Len(shown) <= Len(messages))
    BY <2>4, TypeInvIs DEF Shows, ScreenTypes
  <2> DEFINE s == Len(shown)
             m == Len(messages)
  <2>6. s \in Nat /\ m \in Nat /\ s \in 1..s /\ DOMAIN shown = 1..s
    BY <2>4, <2>5, InSequence, Ended
  <2>7. ~(s <= m) /\ Elements(shown) \subseteq handed
    BY <2>4, <2>5
  <2>8. PICK k \in 0..s : Fork(k)
    BY <1>1
  <2>9. k <= m /\ (\A i \in 1..s : i > k => shown[i] \in removal.targets)
    BY <2>6, <2>8 DEF Fork
  <2>10. shown[s] \in Elements(shown)
    BY <2>5, <2>6, ElementsTyped
  <2> HIDE DEF s, m
  <2>11. shown[s] \in Partials \cap Notes
    <3>1. s > k
      BY <2>6, <2>7, <2>8, <2>9
    <3> QED BY <2>2, <2>4, <2>6, <2>7, <2>9, <2>10, <3>1
  <2> QED BY <2>11, SetupMore, TypeInvIs
<1>6. \A c : Elsewhere(c, calls, pending) = {}
  BY <1>2, <1>3, <1>5, ElsewhereIs
<1> QED BY <1>4, <1>5, <1>6

\* Each of N is newer than all of S.
Newer(N, S) == \A u \in N : \A v \in S : v < u

LEMMA SliceGrows ==
  ASSUME NEW s \in Seq(Uuids), s # <<>>, NEW hint, NEW K, NEW E, NEW H, NEW N, NEW E2, NEW H2,
         SliceAt(s, hint, K, E, H), H2 \subseteq H \cup N, E2 \subseteq E \cup N, N \subseteq Uuids,
         Newer(N, Elements(s))
  PROVE  SliceAt(s, hint, K, E2, H2)
<1> DEFINE m == Len(s)
<1>1. /\ Increasing(s) /\ (\A u \in H : s[1] <= u /\ u <= Last(s) => u \in Elements(s))
      /\ (\A u \in H : ~(hint < u /\ u < s[1]))
      /\ (\A i, j \in DOMAIN s : i < j /\ s[j] \in K => s[i] \in K)
      /\ (\A i \in DOMAIN s : s[i] \in K \/ s[i] \notin E)
      /\ \A u \in N : \A x \in Elements(s) : x < u
  BY DEF SliceAt, Adjacent, Newer
<1>2. /\ DOMAIN s = 1..m /\ 1 \in 1..m /\ m \in 1..m /\ Last(s) = s[m]
      /\ \A i \in 1..m : s[i] \in Nat /\ s[i] \in Elements(s)
  BY <1>1, IncreasingOrder, InSequence, ElementsTyped
<1>3. N \subseteq Nat
  BY NumbersAre
<1> HIDE DEF m
<1>4. \A u \in H2 : s[1] <= u /\ u <= Last(s) => u \in Elements(s)
  <2> SUFFICES ASSUME NEW u \in N, u <= Last(s) PROVE FALSE
    BY <1>1
  <2> QED BY <1>1, <1>2, <1>3
<1>5. \A u \in H2 : ~(hint < u /\ u < s[1])
  <2> SUFFICES ASSUME NEW u \in N, u < s[1] PROVE FALSE
    BY <1>1
  <2> QED BY <1>1, <1>2, <1>3
<1>6. \A i \in DOMAIN s : s[i] \in K \/ s[i] \notin E2
  <2> SUFFICES ASSUME NEW i \in 1..m, s[i] \in N PROVE FALSE
    BY <1>1, <1>2
  <2> QED BY <1>1, <1>2, <1>3
<1> QED BY <1>1, <1>4, <1>5, <1>6 DEF SliceAt, Adjacent

\* slice is what of s comes after the first n.
Rest(slice, s, n) == Len(slice) = Len(s) - n /\ \A i \in 1..(Len(s) - n) : slice[i] = s[n + i]

\* What is on the screen is in the slice, or was shown before.
LEMMA SlicePassed ==
  ASSUME NEW s \in Seq(Uuids), NEW slice \in Seq(Uuids), NEW n \in 0..Len(s), Increasing(s), slice # <<>>, Rest(slice, s, n)
  PROVE  /\ Increasing(slice) /\ Last(slice) = Last(s) /\ s # <<>> /\ slice[1] = s[n + 1] /\ n + 1 \in 1..Len(s)
         /\ \A u \in Elements(s) : slice[1] <= u /\ u <= Last(slice) => u \in Elements(slice)
         /\ n # 0 => Adjacent(s[n], s[n + 1], Elements(s))
<1> DEFINE m == Len(s)
           q == Len(slice)
<1>1. /\ \A i, j \in 1..m : (i < j => s[i] < s[j]) /\ (i <= j => s[i] <= s[j]) /\ (s[i] < s[j] => i < j)
      /\ \A i \in 1..m : s[i] \in Nat
  BY IncreasingOrder
<1>2. /\ m \in Nat /\ n \in 0..m /\ q = m - n /\ q \in 1..q /\ Last(slice) = slice[q]
      /\ \A i \in 1..(m - n) : slice[i] = s[n + i]
  BY InSequence, Ended DEF Rest
<1>3. (m = 0 <=> s = <<>>) /\ (s # <<>> => Last(s) = s[m])
  BY Nothing, Ended
<1>4. (\A u : u \in Elements(s) <=> \E i \in 1..m : s[i] = u) /\ (\A u : u \in Elements(slice) <=> \E i \in 1..q : slice[i] = u)
  BY ElementsTyped
<1>5. Increasing(slice) <=> \A i, j \in 1..q : i < j => slice[i] < slice[j]
  BY IncreasingIs
<1> HIDE DEF m, q
<1>6. Increasing(slice)
  <2> SUFFICES ASSUME NEW i \in 1..q, NEW j \in 1..q, i < j PROVE slice[i] < slice[j]
    BY <1>5
  <2>1. n + i \in 1..m /\ n + j \in 1..m /\ n + i < n + j
    BY <1>2
  <2> QED BY <1>1, <1>2, <2>1
<1>7. Last(slice) = Last(s) /\ s # <<>> /\ slice[1] = s[n + 1] /\ n + 1 \in 1..m
  <2>1. n + q = m /\ m # 0 /\ 1 \in 1..(m - n) /\ n + 1 \in 1..m
    BY <1>2
  <2> QED BY <1>2, <1>3, <2>1
<1>8. ASSUME NEW u \in Elements(s), slice[1] <= u PROVE u \in Elements(slice)
  <2>1. PICK j \in 1..m : s[j] = u
    BY <1>4
  <2>2. ~(j < n + 1)
    BY <1>1, <1>7, <1>8, <2>1
  <2>3. j - n \in 1..q /\ n + (j - n) = j
    BY <1>2, <2>2
  <2> QED BY <1>2, <1>4, <2>1, <2>3
<1>9. ASSUME n # 0, NEW u \in Elements(s), s[n] < u, u < s[n + 1] PROVE FALSE
  <2>1. PICK j \in 1..m : s[j] = u
    BY <1>4
  <2>2. n \in 1..m
    BY <1>2, <1>9
  <2>3. n < j /\ j < n + 1
    BY <1>1, <1>7, <1>9, <2>1, <2>2
  <2> QED BY <1>2, <2>1, <2>3
<1> QED BY <1>6, <1>7, <1>8, <1>9 DEF m, Adjacent

LEMMA RenderChain ==
  ASSUME TypeInv, ScreenInv, ForkInv, HandInv, ChainInv, Moves, Render
  PROVE  ChainInv'
<1> SUFFICES ASSUME ~astray' PROVE HookInv' /\ LinesInv' /\ SlicesInv' /\ LatestInv'
  BY ChainInvAgain
<1>1. /\ FileInv /\ ScreenTypes /\ CallTypes /\ CallsInv /\ messages \in Seq(Uuids) /\ shown \in Seq(Uuids)
      /\ UNCHANGED <<setup, removal, queue, drains, file, made, messages, known, pending, materialized>>
  BY TypeInvIs DEF ScreenTypes, Render, fileVars
<1>2. PICK slice \in Seq(Uuids), incremental \in BOOLEAN, n \in 0..Len(messages) : Shows(slice, incremental, n)
  BY RenderShows
<1>3. /\ ~astray /\ Elements(messages) \subseteq handed' /\ (incremental \/ slice # <<>>)
      /\ ~incremental => \A c \in DOMAIN calls : calls[c].pc = "over"
      /\ \E k \in 0..Len(shown) : Fork(k) /\ (incremental => k = n)
  BY <1>2, ShowsFork
<1>4. PICK k \in 0..Len(shown) : Fork(k) /\ (incremental => k = n)
  BY <1>3
<1>5. /\ HookInv /\ LinesInv /\ SlicesInv /\ LatestInv
      /\ Elements(shown) \subseteq handed
  BY <1>3 DEF ChainInv, ForkInv
<1>6. /\ Len(slice) = Len(messages) - n /\ \A i \in 1..(Len(messages) - n) : slice[i] = messages[n + i]
      /\ incremental <=> shown # <<>> /\ Len(shown) <= Len(messages)
      /\ n = (IF incremental THEN Len(shown) ELSE 0)
      /\ messages[1] = 1 /\ shown' = messages /\ messages # shown
      /\ \/ slice = <<>> /\ UNCHANGED <<hook, calls, handed, beside>>
         \/ Passes(slice, incremental) /\ hook'.parent = Last(slice)
  BY <1>2 DEF Shows
<1>7. /\ k <= Len(messages) /\ (\A i \in 1..k : messages[i] = shown[i])
      /\ \A i \in 1..Len(messages) : i > k => \A u \in handed : u < messages[i]
  BY <1>1, <1>4, InSequence DEF Fork
<1>8. slice # <<>>
  <2> SUFFICES ASSUME slice = <<>> PROVE FALSE
    OBVIOUS
  <2> DEFINE m == Len(messages)
             s == Len(shown)
  <2>1. m - n = 0 /\ n = k /\ n = s /\ m \in Nat /\ n \in 0..m
    BY <1>1, <1>3, <1>4, <1>6, Nothing, InSequence
  <2>2. m = s /\ \A i \in 1..m : messages[i] = shown[i]
    <3> HIDE DEF m, s
    <3> QED BY <1>7, <2>1
  <2> HIDE DEF m
  <2>3. messages = shown
    BY <1>1, <2>2, SameSequence DEF m
  <2> QED BY <1>6, <2>3
<1> DEFINE hint == IF incremental THEN hook.parent ELSE Root
           full == ~incremental
           call == Called(slice, full, hint)
<1>9. /\ Passes(slice, incremental) /\ hook'.parent = Last(slice)
      /\ calls' = Append(calls, call) /\ handed' = handed \cup Elements(slice)
  BY <1>6, <1>8 DEF Passes
<1>10. hint \in Uuids \cup {Root}
  BY <1>1 DEF ScreenTypes
<1>11. /\ call \in Call /\ call.pc = "loads" /\ call.slice = slice /\ call.hint = hint /\ call.full = ~incremental
       /\ call.lines = <<>>
  <2>1. full \in BOOLEAN
    OBVIOUS
  <2> HIDE DEF full, hint
  <2>2. /\ call \in Call /\ call.pc = "loads" /\ call.slice = slice /\ call.hint = hint /\ call.full = full
        /\ call.lines = <<>>
    BY <1>2, <1>10, <2>1, CalledIs
  <2> QED BY <2>2 DEF full
<1> HIDE DEF call, full
<1>12. PICK g \in Nat : /\ Len(calls') = g /\ g \notin DOMAIN calls /\ calls'[g] = call
                        /\ DOMAIN calls' = DOMAIN calls \cup {g} /\ calls' # <<>>
                        /\ \A c \in DOMAIN calls : calls'[c] = calls[c] /\ c # g
  BY <1>1, <1>9, <1>11, CallsMore
\* What is new comes after all that was handed.
<1> DEFINE N == handed' \ handed
<1>13. \A u \in N : \A v \in handed : v < u
  <2> SUFFICES ASSUME NEW u \in N PROVE \A v \in handed : v < u
    OBVIOUS
  <2>1. u \in Elements(messages) /\ u \notin handed
    BY <1>1, <1>2, <1>9, ShowsHanded
  <2>2. PICK i \in 1..Len(messages) : messages[i] = u
    BY <1>1, <2>1, ElementsTyped
  <2>3. i > k
    <3> SUFFICES ASSUME ~(i > k) PROVE FALSE
      OBVIOUS
    <3>1. i \in 1..k
      OBVIOUS
    <3>2. i \in 1..Len(shown)
      <4> DEFINE s == Len(shown)
      <4>1. s \in Nat
        BY <1>1, InSequence
      <4> QED BY <3>1, <4>1
    <3>3. shown[i] \in Elements(shown)
      BY <1>1, <3>2, ElementsTyped
    <3> QED BY <1>5, <1>7, <2>1, <2>2, <3>1, <3>3
  <2> QED BY <1>7, <2>2, <2>3
<1>14. Standing' \subseteq Standing \cup N /\ Standing' \subseteq Elements(messages) /\ N \subseteq Uuids
  <2>1. /\ handed \subseteq 1..made /\ 1..made \subseteq Elements(messages) \cup removal.targets
    BY ScreenInvIs DEF ScreenAt
  <2>2. Elements(slice) \subseteq Elements(messages) /\ Elements(slice) \subseteq Uuids
    BY <1>1, <1>2, ShowsHanded, ElementsTyped
  <2> QED BY <1>1, <1>9, <2>1, <2>2 DEF Standing
<1>15. /\ Increasing(slice) /\ Last(slice) = Last(messages) /\ slice[1] = messages[n + 1]
       /\ \A u \in Standing' : slice[1] <= u /\ u <= Last(slice) => u \in Elements(slice)
       /\ n # 0 => Adjacent(messages[n], messages[n + 1], Standing')
  <2>1. Increasing(messages)
    BY ScreenInvIs DEF ScreenAt
  <2>2. /\ Increasing(slice) /\ Last(slice) = Last(messages) /\ slice[1] = messages[n + 1]
        /\ \A u \in Elements(messages) : slice[1] <= u /\ u <= Last(slice) => u \in Elements(slice)
        /\ n # 0 => Adjacent(messages[n], messages[n + 1], Elements(messages))
    <3>1. Rest(slice, messages, n)
      BY <1>6 DEF Rest
    <3> QED BY <1>1, <1>2, <1>8, <2>1, <3>1, SlicePassed
  <2> QED BY <1>14, <2>2 DEF Adjacent
<1>16. HookInv'
  BY <1>6, <1>9, <1>15 DEF HookInv
<1>17. LatestInv'
  <2>1. ~incremental => slice = messages
    <3> DEFINE m == Len(messages)
    <3> SUFFICES ASSUME ~incremental PROVE slice = messages
      OBVIOUS
    <3>1. n = 0 /\ Len(slice) = m - n /\ (\A i \in 1..(m - n) : slice[i] = messages[n + i]) /\ m \in Nat
      BY <1>1, <1>6, InSequence
    <3> HIDE DEF m
    <3>2. Len(slice) = m /\ \A i \in 1..m : slice[i] = messages[i]
      BY <3>1
    <3> QED BY <1>1, <3>2, SameSequence DEF m
  <2> QED BY <1>6, <1>11, <1>12, <2>1 DEF LatestInv
<1>18. LinesInv'
  <2>1. AllLines' \subseteq AllLines
    <3>1. FileLines' \subseteq FileLines
      BY <1>1, FileLinesStay
    <3>2. CallLines' \subseteq CallLines
      BY <1>1, <1>11, <1>12, CallLinesAre, RangeNothing
    <3> QED BY <3>1, <3>2, AllLinesAre
  <2>2. ASSUME NEW l \in AllLines' PROVE Adjacent(l.parent, l.uuid, Standing') /\ l.uuid \in handed'
    <3>1. Adjacent(l.parent, l.uuid, Standing) /\ l.uuid \in handed
      BY <1>5, <2>1, <2>2 DEF LinesInv
    <3>2. ASSUME NEW u \in N, u < l.uuid PROVE FALSE
      <4>1. l.uuid < u /\ u \in Nat /\ l.uuid \in Nat
        BY <1>1, <1>13, <1>14, <3>1, NumbersAre DEF ScreenTypes
      <4> QED BY <3>2, <4>1
    <3> QED BY <1>9, <1>14, <3>1, <3>2 DEF Adjacent
  <2> QED BY <2>2 DEF LinesInv
<1>19. \A c : Elsewhere(c, calls', pending') \subseteq Elsewhere(c, calls, pending) \cup (IF c = g THEN {} ELSE Elements(slice))
  <2> SUFFICES ASSUME NEW c, NEW u \in Elsewhere(c, calls', pending')
               PROVE  u \in Elsewhere(c, calls, pending) \cup (IF c = g THEN {} ELSE Elements(slice))
    OBVIOUS
  <2>1. \/ u \in Of(pending)
        \/ \E e \in DOMAIN calls' : u \in Of(calls'[e].lines)
        \/ \E e \in DOMAIN calls' \ {c} : u \in Elements(calls'[e].slice)
    BY <1>1, ElsewhereIs
  <2>2. ASSUME NEW e \in DOMAIN calls', u \in Of(calls'[e].lines) PROVE e \in DOMAIN calls /\ u \in Of(calls[e].lines)
    BY <1>11, <1>12, <2>2, OfNothing
  <2>3. ASSUME NEW e \in DOMAIN calls' \ {c}, u \in Elements(calls'[e].slice)
        PROVE  (e \in DOMAIN calls \ {c} /\ u \in Elements(calls[e].slice)) \/ (c # g /\ u \in Elements(slice))
    BY <1>11, <1>12, <2>3
  <2> QED BY <2>1, <2>2, <2>3, ElsewhereIs
<1>20. /\ \A c \in DOMAIN calls : Elements(calls[c].slice) \subseteq handed
       /\ \A c : Elsewhere(c, calls, pending) \subseteq handed
       /\ known \subseteq handed
  BY HandedHas
<1>21. \A i \in 1..Len(slice) : slice[i] \in Elements(slice)
  BY ElementsTyped
<1>22. incremental => Elements(slice) \cap handed = {}
  <2> SUFFICES ASSUME incremental, NEW i \in 1..Len(slice), slice[i] \in handed PROVE FALSE
    BY ElementsTyped
  <2> DEFINE m == Len(messages)
  <2>1. m \in Nat /\ i \in 1..(m - n) /\ n = k /\ slice[i] = messages[n + i]
    BY <1>1, <1>4, <1>6, InSequence
  <2>2. n + i \in 1..m /\ n + i > k
    <3> HIDE DEF m
    <3> QED BY <2>1
  <2>3. \A u \in handed : u < messages[n + i]
    BY <1>7, <2>2
  <2>4. slice[i] \in Nat
    BY InSequence, NumbersAre
  <2> QED BY <2>1, <2>3, <2>4
<1>23. ASSUME NEW c \in DOMAIN calls, calls[c].pc = "loads"
       PROVE  SliceAt(calls[c].slice, calls[c].hint, known, Elsewhere(c, calls', pending'), Standing')
  <2>1. SliceAt(calls[c].slice, calls[c].hint, known, Elsewhere(c, calls, pending), Standing)
    BY <1>5, <1>23 DEF SlicesInv
  <2>2. incremental /\ calls[c].slice # <<>> /\ calls[c].slice \in Seq(Uuids)
    BY <1>1, <1>3, <1>23, CallsTyped DEF CallsInv
  <2>3. Elements(slice) \subseteq N
    BY <1>9, <1>22, <2>2
  <2>4. Elsewhere(c, calls', pending') \subseteq Elsewhere(c, calls, pending) \cup N
    BY <1>12, <1>19, <2>3
  <2>5. Newer(N, Elements(calls[c].slice))
    BY <1>13, <1>20 DEF Newer
  <2>6. Standing' \subseteq Standing \cup N /\ N \subseteq Uuids
    BY <1>14
  <2> DEFINE s == calls[c].slice
             new == Elsewhere(c, calls', pending')
             old == Elsewhere(c, calls, pending)
             after == Standing'
             before == Standing
  <2> HIDE DEF N, s, new, old, after, before
  <2>7. SliceAt(s, calls[c].hint, known, new, after)
    <3>1. /\ s \in Seq(Uuids) /\ s # <<>> /\ SliceAt(s, calls[c].hint, known, old, before)
          /\ after \subseteq before \cup N /\ new \subseteq old \cup N /\ N \subseteq Uuids
          /\ Newer(N, Elements(s))
      BY <2>1, <2>2, <2>4, <2>5, <2>6 DEF s, new, old, after, before
    <3> QED BY <3>1, SliceGrows
  <2> QED BY <2>7 DEF s, new, after
<1>24. SliceAt(slice, hint, known, Elsewhere(g, calls', pending'), Standing')
  <2>1. Elsewhere(g, calls', pending') \subseteq Elsewhere(g, calls, pending)
    BY <1>19
  <2>2. DOMAIN slice = 1..Len(slice)
    BY InSequence
  <2>3. CASE incremental
    <3>1. \A i \in DOMAIN slice : slice[i] \notin handed
      BY <1>21, <1>22, <2>2, <2>3
    <3>2. /\ \A i, j \in DOMAIN slice : i < j /\ slice[j] \in known => slice[i] \in known
          /\ \A i \in DOMAIN slice : slice[i] \in known \/ slice[i] \notin Elsewhere(g, calls', pending')
      BY <1>20, <2>1, <3>1
    <3>3. hint = messages[n] /\ n # 0
      <4> DEFINE s == Len(shown)
      <4>1. s \in Nat /\ s # 0 /\ n = s /\ Last(shown) = shown[s] /\ k = n
        BY <1>1, <1>4, <1>6, <2>3, Nothing, InSequence, Ended
      <4>2. hint = shown[n]
        BY <1>5, <1>6, <2>3, <4>1 DEF HookInv
      <4>3. n \in 1..k
        <5> HIDE DEF s
        <5> QED BY <4>1
      <4> QED BY <1>7, <4>1, <4>2, <4>3
    <3> QED BY <1>15, <3>2, <3>3 DEF SliceAt
  <2>4. CASE ~incremental
    <3>1. handed = known /\ Elsewhere(g, calls, pending) = {}
      BY <1>2, <2>4, PassedAll
    <3>2. hint = 0 /\ n = 0 /\ slice[1] = 1
      BY <1>6, <1>15, <2>4 DEF Root
    <3>3. Adjacent(hint, slice[1], Standing')
      <4>1. Standing' \subseteq Nat
        BY <1>1, <1>14, NumbersAre, ElementsTyped
      <4> QED BY <3>2, <4>1 DEF Adjacent
    <3>4. ASSUME NEW i \in 1..Len(slice), NEW j \in 1..Len(slice), i < j, slice[j] \in handed PROVE slice[i] \in handed
      <4> DEFINE m == Len(messages)
                 q == Len(slice)
                 s == Len(shown)
      <4>1. q = m /\ m \in Nat /\ s \in Nat
        BY <1>1, <1>6, <3>2, InSequence
      <4>2. slice[i] = messages[i] /\ slice[j] = messages[j] /\ slice[j] \in Nat
        <5>1. \A a \in 1..m : a \in 1..(m - n) /\ n + a = a
          <6> HIDE DEF m
          <6> QED BY <3>2, <4>1
        <5>2. \A a \in 1..m : slice[a] = messages[a]
          BY <1>6, <5>1
        <5>3. i \in 1..m /\ j \in 1..m
          BY <4>1
        <5>4. slice[j] \in Nat
          BY <1>2, InSequence, NumbersAre
        <5> QED BY <5>2, <5>3, <5>4
      <4>3. \A u \in handed : j > k => u < slice[j]
        BY <1>7, <4>1, <4>2
      <4>4. ~(j > k)
        BY <3>4, <4>2, <4>3
      <4>5. i \in 1..k /\ i \in 1..s
        <5> HIDE DEF q, s
        <5> QED BY <3>4, <4>1, <4>4 DEF s
      <4>6. slice[i] = shown[i] /\ shown[i] \in Elements(shown)
        BY <1>1, <1>7, <4>2, <4>5, ElementsTyped
      <4> QED BY <1>5, <4>6
    <3> QED BY <1>15, <2>1, <2>2, <3>1, <3>3, <3>4 DEF SliceAt
  <2> QED BY <2>3, <2>4
<1>25. SlicesInv'
  <2>1. ASSUME NEW c \in DOMAIN calls', calls'[c].pc = "loads"
        PROVE  SliceAt(calls'[c].slice, calls'[c].hint, known', Elsewhere(c, calls', pending'), Standing')
    <3>1. CASE c = g
      BY <1>1, <1>11, <1>12, <1>24, <3>1
    <3>2. CASE c # g
      <4>1. c \in DOMAIN calls /\ calls'[c] = calls[c]
        BY <1>12, <3>2
      <4> QED BY <1>1, <1>23, <2>1, <4>1
    <3> QED BY <3>1, <3>2
  <2> QED BY <2>1, SlicesInvAgain
<1> QED BY <1>16, <1>17, <1>18, <1>25

LEMMA ChainNext ==
  ASSUME TypeInv, DrainInv, HandInv, ScreenInv, ForkInv, ChainInv, [Next]_vars
  PROVE  ChainInv'
<1>0. FileInv /\ Moves
  BY TypeInvIs, MovesNext
<1>1. CASE Say
  BY <1>0, <1>1, MoveChain DEF Say, callVars, fileVars
<1>2. CASE Tombstone
  <2>1. Rests
    BY <1>0, <1>2, TombstoneAside
  <2> QED BY <1>0, <1>2, <2>1, MoveChain DEF Tombstone, callVars, Rests
<1>3. CASE Render
  BY <1>0, <1>3, RenderChain
<1>4. CASE CallStep
  <2>1. PICK c \in DOMAIN calls : Loaded(c) \/ AppendEntry(c) \/ Finish(c)
    BY <1>4 DEF CallStep
  <2> QED BY <1>0, <2>1, LoadedChain, EntryChain, FinishChain
<1>5. CASE AnyFileStep
  <2>1. removal'.targets = removal.targets
    BY <1>0, <1>5, FileTargets DEF AnyFileStep
  <2> QED BY <1>0, <1>5, <2>1, MoveChain DEF AnyFileStep, callVars, screenVars
<1>6. CASE UNCHANGED vars
  BY <1>0, <1>6, MoveChain DEF vars, callVars, screenVars, fileVars
<1> QED BY <1>1, <1>2, <1>3, <1>4, <1>5, <1>6 DEF Next

LEMMA ChainInit ==
  ASSUME Init
  PROVE  ChainInv
<1>1. /\ shown = <<>> /\ calls = <<>> /\ pending = <<>> /\ file = <<>> /\ queue = <<>> /\ removal.pc = "idle"
      /\ \A d \in Drainers : drains[d] = <<>>
  BY DEF Init, FileInit, NoRemoval
<1>2. DOMAIN calls = {}
  BY <1>1
<1>3. AllLines = {}
  BY <1>1, <1>2, AllLinesAre, FileLinesAre, CallLinesAre, RangeNothing
<1> QED BY <1>1, <1>2, <1>3 DEF ChainInv, HookInv, LinesInv, SlicesInv, LatestInv

\* The chain skips nothing: with lines, slices and the ref of the hook as above,
\* each line follows the last message that was recorded before its own and not
\* withdrawn, however drains, removals, renders and calls of recordTranscript()
\* interleave, as long as the effect missed no message and did not pass all of
\* them while an earlier call was under way.
THEOREM ChainIsWhole == Spec => []ChainSkipsNothing
<1> DEFINE Inv == TypeInv /\ DrainInv /\ HandInv /\ ScreenInv /\ ForkInv /\ ChainInv
<1>1. Init => Inv
  BY TypeInit, DrainInit, OnceInit, ScreenInit, ChainInit
<1>2. Inv /\ [Next]_vars => Inv'
  BY TypeNext, MovesNext, HandNext, ScreenNext, ChainNext
<1>3. Inv => ChainSkipsNothing
  <2> SUFFICES ASSUME Inv, ~astray PROVE ChainSkipsNothing
    BY DEF ChainSkipsNothing
  <2>1. HookInv /\ LinesInv
    BY DEF ChainInv
  <2>2. Range(file) \cup Range(queue) \cup (UNION {Range(drains[d]) : d \in Drainers}) \subseteq AllLines
    BY AllLinesAre, FileLinesAre
  <2> QED BY <2>1, <2>2 DEF ChainSkipsNothing, HookInv, LinesInv, Adjacent, Standing
<1> QED BY <1>1, <1>2, <1>3, PTL DEF Spec

-----------------------------------------------------------------------------
(* Lines that follow others                                                  *)

LEMMA FollowsIs ==
  ASSUME NEW s \in Seq(Lines), NEW S
  PROVE  Follows(s, S) <=> \A i \in 1..Len(s) : s[i].parent \in S \/ \E j \in 1..(i - 1) : s[j].uuid = s[i].parent
<1>1. DOMAIN s = 1..Len(s)
  BY InSequence
<1> QED BY <1>1 DEF Follows, Before

LEMMA FollowsMore ==
  ASSUME NEW s, NEW S, NEW T, Follows(s, S), S \subseteq T
  PROVE  Follows(s, T)
BY DEF Follows

LEMMA FollowsNothing ==
  ASSUME NEW S
  PROVE  Follows(<<>>, S)
BY DEF Follows

\* t follows s, and r is the two, in whatever way it was put together.
LEMMA FollowsTwo ==
  ASSUME NEW s \in Seq(Lines), NEW t \in Seq(Lines), NEW r \in Seq(Lines), NEW S, NEW T,
         Follows(s, S), Follows(t, T), T \subseteq S \cup Of(s), Len(r) = Len(s) + Len(t),
         \A i \in 1..Len(s) : r[i] = s[i], \A i \in 1..Len(t) : r[Len(s) + i] = t[i]
  PROVE  Follows(r, S)
<1> DEFINE n == Len(s)
           m == Len(t)
<1>1. n \in Nat /\ m \in Nat
  BY InSequence
<1>2. \A i \in 1..n : s[i].parent \in S \/ \E j \in 1..(i - 1) : s[j].uuid = s[i].parent
  BY FollowsIs
<1>3. \A i \in 1..m : t[i].parent \in T \/ \E j \in 1..(i - 1) : t[j].uuid = t[i].parent
  BY FollowsIs
<1>4. \A u : u \in Of(s) <=> \E i \in 1..n : s[i].uuid = u
  BY OfTyped
<1>5. (\A i \in 1..n : r[i] = s[i]) /\ (\A i \in 1..m : r[n + i] = t[i]) /\ Len(r) = n + m
  OBVIOUS
<1> HIDE DEF n, m
<1>6. ASSUME NEW i \in 1..(n + m) PROVE r[i].parent \in S \/ \E j \in 1..(i - 1) : r[j].uuid = r[i].parent
  <2>1. CASE i \in 1..n
    <3>1. \A j \in 1..(i - 1) : r[j] = s[j]
      BY <1>1, <1>5, <2>1
    <3> QED BY <1>2, <1>5, <2>1, <3>1
  <2>2. CASE i \notin 1..n
    <3>1. PICK a \in 1..m : i = n + a
      <4>1. i - n \in 1..m /\ i = n + (i - n)
        BY <1>1, <2>2
      <4> QED BY <4>1
    <3>2. r[i] = t[a]
      BY <1>5, <3>1
    <3>3. CASE t[a].parent \in S
      BY <3>2, <3>3
    <3>4. CASE t[a].parent \in Of(s)
      <4>1. PICK j \in 1..n : s[j].uuid = t[a].parent
        BY <1>4, <3>4
      <4>2. j \in 1..(i - 1)
        BY <1>1, <3>1, <4>1
      <4> QED BY <1>5, <3>2, <4>1, <4>2
    <3>5. CASE \E j \in 1..(a - 1) : t[j].uuid = t[a].parent
      <4>1. PICK j \in 1..(a - 1) : t[j].uuid = t[a].parent
        BY <3>5
      <4>2. j \in 1..m /\ n + j \in 1..(i - 1)
        BY <1>1, <3>1, <4>1
      <4>3. r[n + j] = t[j]
        BY <1>5, <4>2
      <4> QED BY <3>2, <4>1, <4>2, <4>3
    <3> QED BY <1>3, <3>1, <3>3, <3>4, <3>5
  <2> QED BY <2>1, <2>2
<1> QED BY <1>5, <1>6, FollowsIs

LEMMA FollowsJoined ==
  ASSUME NEW s \in Seq(Lines), NEW t \in Seq(Lines), NEW S, NEW T,
         Follows(s, S), Follows(t, T), T \subseteq S \cup Of(s)
  PROVE  Follows(s \o t, S)
<1> DEFINE r == s \o t
<1>1. /\ r \in Seq(Lines) /\ Len(r) = Len(s) + Len(t)
      /\ \A i \in 1..Len(s) : r[i] = s[i]
      /\ \A i \in 1..Len(t) : r[Len(s) + i] = t[i]
  BY Joined
<1> HIDE DEF r
<1>2. Follows(r, S)
  BY <1>1, FollowsTwo
<1> QED BY <1>2 DEF r

LEMMA FollowsAppended ==
  ASSUME NEW s \in Seq(Lines), NEW l \in Lines, NEW S, Follows(s, S), l.parent \in S \cup Of(s)
  PROVE  Follows(Append(s, l), S)
<1> DEFINE t == <<l>>
           r == Append(s, l)
<1>1. t \in Seq(Lines) /\ Len(t) = 1 /\ t[1] = l
  OBVIOUS
<1>2. r \in Seq(Lines) /\ Len(r) = Len(s) + 1 /\ (\A i \in 1..Len(s) : r[i] = s[i]) /\ r[Len(s) + 1] = l
  BY Appended
<1> HIDE DEF t, r
<1>3. Follows(t, {l.parent})
  <2>1. \A i \in 1..Len(t) : t[i].parent \in {l.parent}
    BY <1>1
  <2> QED BY <1>1, <2>1, FollowsIs
<1>4. (\A i \in 1..Len(t) : r[Len(s) + i] = t[i]) /\ Len(r) = Len(s) + Len(t)
  BY <1>1, <1>2
<1> DEFINE T == {l.parent}
<1>6. Follows(t, T) /\ T \subseteq S \cup Of(s)
  BY <1>3
<1> HIDE DEF T
<1>5. Follows(r, S)
  BY <1>1, <1>2, <1>4, <1>6, FollowsTwo
<1> QED BY <1>5 DEF r

LEMMA FollowsBehind ==
  ASSUME NEW s \in Seq(Lines), s # <<>>, NEW S, Follows(s, S)
  PROVE  Follows(Tail(s), S \cup {Head(s).uuid}) /\ Head(s).parent \in S
<1> DEFINE n == Len(s)
           t == Tail(s)
<1>1. /\ t \in Seq(Lines) /\ Len(t) = n - 1 /\ n >= 1 /\ n \in Nat
      /\ \A i \in 1..(n - 1) : t[i] = s[i + 1]
      /\ Head(s) = s[1]
  BY Behind, InSequence
<1>2. \A i \in 1..n : s[i].parent \in S \/ \E j \in 1..(i - 1) : s[j].uuid = s[i].parent
  BY FollowsIs
<1> HIDE DEF n, t
<1>3. s[1].parent \in S
  <2>1. 1 \in 1..n /\ 1..(1 - 1) = {}
    BY <1>1
  <2> QED BY <1>2, <2>1
<1>4. ASSUME NEW i \in 1..(n - 1)
      PROVE  t[i].parent \in S \cup {s[1].uuid} \/ \E j \in 1..(i - 1) : t[j].uuid = t[i].parent
  <2>1. i + 1 \in 1..n /\ t[i] = s[i + 1]
    BY <1>1
  <2>2. CASE \E j \in 1..i : s[j].uuid = s[i + 1].parent
    <3>1. PICK j \in 1..i : s[j].uuid = s[i + 1].parent
      BY <2>2
    <3>2. CASE j = 1
      BY <2>1, <3>1, <3>2
    <3>3. CASE j # 1
      <4>1. j - 1 \in 1..(i - 1) /\ j - 1 \in 1..(n - 1) /\ (j - 1) + 1 = j
        BY <1>1, <3>1, <3>3
      <4>2. t[j - 1] = s[j]
        BY <1>1, <4>1
      <4> QED BY <2>1, <3>1, <4>1, <4>2
    <3> QED BY <3>2, <3>3
  <2>3. (i + 1) - 1 = i
    BY <1>1
  <2> QED BY <1>2, <2>1, <2>2, <2>3
<1>5. Follows(t, S \cup {s[1].uuid})
  BY <1>1, <1>4, FollowsIs
<1> QED BY <1>1, <1>3, <1>5 DEF t

LEMMA FollowsBegins ==
  ASSUME NEW s \in Seq(Lines), NEW t \in Seq(Lines), Begins(s, t), NEW S, Follows(t, S)
  PROVE  Follows(s, S)
<1> DEFINE n == Len(s)
           m == Len(t)
<1>1. n \in Nat /\ m \in Nat /\ n <= m /\ \A i \in 1..n : t[i] = s[i]
  BY InSequence DEF Begins
<1>2. \A i \in 1..m : t[i].parent \in S \/ \E j \in 1..(i - 1) : t[j].uuid = t[i].parent
  BY FollowsIs
<1> HIDE DEF n, m
<1>3. ASSUME NEW i \in 1..n PROVE s[i].parent \in S \/ \E j \in 1..(i - 1) : s[j].uuid = s[i].parent
  <2>1. i \in 1..m /\ \A j \in 1..(i - 1) : j \in 1..n
    BY <1>1
  <2> QED BY <1>1, <1>2, <2>1
<1> QED BY <1>3, FollowsIs DEF n

\* What is left of s without a line that others may follow.
LEMMA FollowsSelected ==
  ASSUME NEW s \in Seq(Lines), NEW x, NEW r, r = Selected(s, {l \in Lines : l.uuid # x}), NEW S, Follows(s, S), x \in S
  PROVE  r \in Seq(Lines) /\ Follows(r, S)
<1> DEFINE L == {l \in Lines : l.uuid # x}
           n == Len(s)
           m == Len(r)
<1>1. r \in Seq(Lines) /\ \E f : Finds(f, r, n, s, L)
  BY SelectedFound
<1>2. PICK f : Finds(f, r, n, s, L)
  BY <1>1
<1>3. /\ \A a \in 1..m : f[a] \in 1..n /\ r[a] = s[f[a]]
      /\ \A a, b \in 1..m : a < b => f[a] < f[b]
      /\ \A i \in 1..n : s[i].uuid # x => \E a \in 1..m : f[a] = i
  <2>1. \A i \in 1..n : s[i] \in Lines
    BY InSequence
  <2> QED BY <1>2, <2>1 DEF Finds
<1>4. \A i \in 1..n : s[i].parent \in S \/ \E j \in 1..(i - 1) : s[j].uuid = s[i].parent
  BY FollowsIs
<1>5. n \in Nat /\ m \in Nat
  BY <1>1, InSequence
<1> HIDE DEF n, m, L
<1>6. ASSUME NEW a \in 1..m PROVE r[a].parent \in S \/ \E b \in 1..(a - 1) : r[b].uuid = r[a].parent
  <2>1. f[a] \in 1..n /\ r[a] = s[f[a]]
    BY <1>3
  <2>2. CASE \E j \in 1..(f[a] - 1) : s[j].uuid = s[f[a]].parent
    <3>1. PICK j \in 1..(f[a] - 1) : s[j].uuid = s[f[a]].parent
      BY <2>2
    <3>2. j \in 1..n /\ j < f[a]
      BY <1>5, <2>1, <3>1
    <3>3. CASE s[j].uuid = x
      BY <2>1, <3>1, <3>3
    <3>4. CASE s[j].uuid # x
      <4>1. PICK b \in 1..m : f[b] = j
        BY <1>3, <3>2, <3>4
      <4>2. ~(a < b) /\ a # b
        <5>1. a < b => f[a] < f[b]
          BY <1>3
        <5> QED BY <1>5, <2>1, <3>2, <4>1, <5>1
      <4>3. b \in 1..(a - 1) /\ r[b] = s[j]
        BY <1>3, <1>5, <4>1, <4>2
      <4> QED BY <2>1, <3>1, <4>3
    <3> QED BY <3>3, <3>4
  <2> QED BY <1>4, <2>1, <2>2
<1>7. Follows(r, S)
  BY <1>1, <1>6, FollowsIs DEF m
<1> QED BY <1>1, <1>7

LEMMA BeforeIs ==
  ASSUME NEW s, NEW n \in Nat
  PROVE  \A u : u \in Before(s, n + 1) <=> \E j \in 1..n : s[j].uuid = u
<1>1. (n + 1) - 1 = n
  OBVIOUS
<1> QED BY <1>1 DEF Before

\* What of s comes after the first n.
LEMMA FollowsAfter ==
  ASSUME NEW s \in Seq(Lines), NEW t \in Seq(Lines), NEW n \in Nat, Rest(t, s, n), n <= Len(s), NEW S, Follows(s, S)
  PROVE  Follows(t, S \cup Before(s, n + 1))
<1> DEFINE m == Len(s)
           q == Len(t)
<1>1. /\ m \in Nat /\ n <= m /\ q = m - n /\ q \in Nat
      /\ \A i \in 1..(m - n) : t[i] = s[n + i]
  BY InSequence DEF Rest
<1>2. \A i \in 1..m : s[i].parent \in S \/ \E j \in 1..(i - 1) : s[j].uuid = s[i].parent
  BY FollowsIs
<1>3. \A u : u \in Before(s, n + 1) <=> \E j \in 1..n : s[j].uuid = u
  BY BeforeIs
<1> HIDE DEF m, q
<1>4. ASSUME NEW i \in 1..q
      PROVE  t[i].parent \in S \cup Before(s, n + 1) \/ \E j \in 1..(i - 1) : t[j].uuid = t[i].parent
  <2>1. n + i \in 1..m /\ t[i] = s[n + i]
    BY <1>1
  <2>2. CASE \E j \in 1..((n + i) - 1) : s[j].uuid = s[n + i].parent
    <3>1. PICK j \in 1..((n + i) - 1) : s[j].uuid = s[n + i].parent
      BY <2>2
    <3>2. CASE j \in 1..n
      BY <1>3, <2>1, <3>1, <3>2
    <3>3. CASE j \notin 1..n
      <4>1. j - n \in 1..(i - 1) /\ j - n \in 1..(m - n) /\ n + (j - n) = j
        BY <1>1, <3>1, <3>3
      <4> QED BY <1>1, <2>1, <3>1, <4>1
    <3> QED BY <3>2, <3>3
  <2> QED BY <1>2, <2>1, <2>2
<1> QED BY <1>4, FollowsIs DEF q

FileFollows ==
  Follows(file, Gone \cup Held) /\ (removal.pc = "writes" => Follows(removal.snap, Gone))

LEMMA GoneGrows ==
  ASSUME FileInv, Moves
  PROVE  Gone \subseteq Gone'
<1>1. failed \subseteq failed' /\ cut \subseteq cut' /\ removal.targets \subseteq removal'.targets
  BY CutsFlow DEF Moves, Rests, Waits, Takes, Puts, Drops
<1> QED BY <1>1 DEF Gone

LEMMA TruncateFollows ==
  ASSUME FileInv, FileFollows, Truncate, Gone \subseteq Gone'
  PROVE  FileFollows'
<1>0. /\ RemovalTyped /\ FileTypeOK /\ SnapInv /\ removal.snap \in Seq(Lines) /\ file \in Seq(Lines)
  BY SnapTyped DEF FileInv, FileTypeOK, RemovalTyped
<1>1. removal.pc = "cuts" /\ Held = {} /\ Begins(removal.snap, file)
  BY <1>0, TruncateFlow DEF Truncate, SnapInv
<1>2. Follows(file, Gone) /\ Follows(removal.snap, Gone)
  <2>1. Follows(file, Gone)
    BY <1>1, FollowsMore DEF FileFollows
  <2> QED BY <1>0, <1>1, <2>1, FollowsBegins
<1> DEFINE n == removal.pos - 1
<1>3. /\ n \in 0..Len(removal.snap) /\ file' = SubSeq(file, 1, n)
      /\ file' \in Seq(Lines) /\ Len(file') = n /\ \A i \in 1..n : file'[i] = removal.snap[i]
  BY <1>0, <1>1, CutAt, BeginsCut DEF Truncate
<1>4. Len(removal.snap) \in Nat /\ DOMAIN file' = 1..Len(file')
  BY <1>0, <1>3, InSequence
<1> HIDE DEF n
<1>5. Begins(file', removal.snap)
  BY <1>3, <1>4 DEF Begins
<1>6. Follows(file', Gone)
  BY <1>0, <1>2, <1>3, <1>5, FollowsBegins
<1>7. Follows(file', Gone' \cup Held')
  BY <1>6, FollowsMore
<1>8. removal'.pc = "writes" => removal'.snap = removal.snap
  BY <1>0 DEF Truncate, RemovalEnds, NoRemoval, RemovalTyped
<1>9. removal'.pc = "writes" => Follows(removal'.snap, Gone')
  BY <1>2, <1>8, FollowsMore
<1> QED BY <1>7, <1>9 DEF FileFollows

LEMMA RewriteFollows ==
  ASSUME FileInv, FileFollows, Rewrite, Gone \subseteq Gone'
  PROVE  FileFollows'
<1>0. /\ FileTypeOK /\ SnapInv /\ removal.snap \in Seq(Lines) /\ file \in Seq(Lines)
  BY SnapTyped DEF FileInv
<1>1. removal.pc = "rewrites" /\ Held = {} /\ Begins(removal.snap, file) /\ removal.target \in removal.targets
      /\ removal'.pc # "writes"
  BY <1>0, RewriteFlow DEF Rewrite, SnapInv, RemovalEnds, NoRemoval
<1>2. Follows(removal.snap, Gone)
  <2>1. Follows(file, Gone)
    BY <1>1, FollowsMore DEF FileFollows
  <2> QED BY <1>0, <1>1, <2>1, FollowsBegins
<1>3. Follows(file', Gone)
  <2>1. removal.target \in Gone
    BY <1>1 DEF Gone
  <2>2. file' = Selected(removal.snap, {l \in Lines : l.uuid # removal.target})
    BY DEF Rewrite
  <2> QED BY <1>0, <1>2, <2>1, <2>2, FollowsSelected
<1>4. Follows(file', Gone' \cup Held')
  BY <1>3, FollowsMore
<1> QED BY <1>1, <1>4 DEF FileFollows

LEMMA WriteBackFollows ==
  ASSUME FileInv, OnceInv, FileFollows, WriteBack, Gone \subseteq Gone'
  PROVE  FileFollows'
<1>0. /\ FileTypeOK /\ SnapInv /\ removal.snap \in Seq(Lines) /\ file \in Seq(Lines) /\ Distinct(file)
  BY SnapTyped, OnceInvIs DEF FileInv
<1>1. /\ removal.pc = "writes" /\ removal'.pc # "writes" /\ Held = Of(After) /\ removal.target \in removal.targets
      /\ removal.snap[removal.pos].uuid = removal.target
      /\ Follows(removal.snap, Gone) /\ Follows(file, Gone \cup Held)
  BY <1>0 DEF WriteBack, RemovalEnds, NoRemoval, Held, SnapInv, FileFollows
<1> DEFINE pos == removal.pos
           n == pos - 1
           q == Len(removal.snap)
           m == Len(file)
           after == After
           end == n + Len(after)
           p == SubSeq(file, 1, n)
           t == SubSeq(file, end + 1, m)
<1>2. /\ p \in Seq(Lines) /\ after \in Seq(Lines) /\ t \in Seq(Lines) /\ end \in Nat
      /\ Len(p) = n /\ Len(after) = q - pos
      /\ \A i \in 1..n : p[i] = file[i] /\ file[i] = removal.snap[i]
      /\ \A i \in 1..(q - pos) : after[i] = removal.snap[pos + i]
  BY <1>0, <1>1, BackTyped
<1>3. /\ t \in Seq(Lines) /\ Len(t) = (IF end <= m THEN m - end ELSE 0) /\ \A i \in 1..(m - end) : t[i] = file[end + i]
  BY <1>0, <1>2, CutFrom
<1>4. file' = p \o after \o t /\ cut' = cut \cup (Of(SubSeq(file, pos, m)) \ Of(file'))
  BY DEF WriteBack
<1>5. pos \in 1..q /\ n \in 0..q /\ n <= m /\ n \in Nat /\ q \in Nat /\ m \in Nat
  BY <1>0, <1>1, CutAt, InSequence
<1>6. DOMAIN p = 1..Len(p)
  BY <1>2, InSequence
<1>7. Begins(p, removal.snap)
  <2>1. Len(p) <= q /\ \A i \in DOMAIN p : removal.snap[i] = p[i]
    <3> HIDE DEF p, q, n, m, pos
    <3> QED BY <1>2, <1>5, <1>6
  <2> QED BY <2>1 DEF Begins
<1>8. Rest(after, removal.snap, pos)
  BY <1>2 DEF Rest
<1>9. Of(SubSeq(file, pos, m)) = {file[j].uuid : j \in pos..m}
  <2> DEFINE r == SubSeq(file, pos, m)
  <2>1. CASE pos <= m + 1
    <3>1. r \in Seq(Lines) /\ Len(r) = m - pos + 1 /\ \A i \in 1..(m - pos + 1) : r[i] = file[pos + i - 1]
      <4>1. pos \in Nat \ {0} /\ m \in Nat /\ m <= Len(file) /\ pos <= m + 1
        BY <1>5, <2>1
      <4> QED BY <1>0, <4>1, Cut
    <3>2. \A u : u \in Of(r) <=> \E i \in 1..Len(r) : r[i].uuid = u
      BY <3>1, OfTyped
    <3> HIDE DEF r, m, pos
    <3>3. /\ \A i \in 1..(m - pos + 1) : pos + i - 1 \in pos..m
          /\ \A j \in pos..m : j - pos + 1 \in 1..(m - pos + 1) /\ pos + (j - pos + 1) - 1 = j
      BY <1>5
    <3>4. \A j \in pos..m : r[j - pos + 1] = file[j]
      BY <3>1, <3>3
    <3>5. \A u : (\E i \in 1..Len(r) : r[i].uuid = u) <=> \E j \in pos..m : file[j].uuid = u
      <4>1. ASSUME NEW i \in 1..Len(r) PROVE pos + i - 1 \in pos..m /\ r[i] = file[pos + i - 1]
        BY <3>1, <3>3
      <4>2. ASSUME NEW j \in pos..m PROVE j - pos + 1 \in 1..Len(r) /\ r[j - pos + 1] = file[j]
        BY <3>1, <3>3, <3>4
      <4> QED BY <4>1, <4>2
    <3> QED BY <3>2, <3>5 DEF r
  <2>2. CASE ~(pos <= m + 1)
    BY <1>5, <2>2
  <2> QED BY <2>1, <2>2
<1>10. Follows(p, Gone)
  BY <1>0, <1>1, <1>2, <1>7, FollowsBegins
<1>11. Follows(after, Gone \cup Before(removal.snap, pos + 1))
  <2>1. pos \in Nat /\ pos <= Len(removal.snap) /\ after \in Seq(Lines)
    BY <1>2, <1>5
  <2> DEFINE snap == removal.snap
  <2>2. snap \in Seq(Lines) /\ pos <= Len(snap) /\ Rest(after, snap, pos) /\ Follows(snap, Gone)
    BY <1>0, <1>1, <1>8, <2>1
  <2> HIDE DEF pos, after, snap
  <2>3. Follows(after, Gone \cup Before(snap, pos + 1))
    BY <2>1, <2>2, FollowsAfter
  <2> QED BY <2>3 DEF snap
<1>12. \A u : u \in Of(p) <=> \E i \in 1..n : p[i].uuid = u
  <2> HIDE DEF p, n
  <2>1. \A u : u \in Of(p) <=> \E i \in 1..Len(p) : p[i].uuid = u
    BY <1>2, OfTyped
  <2> QED BY <1>2, <2>1
<1>13. Before(removal.snap, pos + 1) \subseteq Gone \cup Of(p)
  <2>1. ASSUME NEW j \in 1..pos PROVE removal.snap[j].uuid \in Gone \cup Of(p)
    <3>1. CASE j = pos
      BY <1>1, <3>1 DEF Gone
    <3>2. CASE j # pos
      <4>1. j \in 1..n
        <5> HIDE DEF pos
        <5> QED BY <1>5, <3>2
      <4> QED BY <1>2, <1>12, <4>1
    <3> QED BY <3>1, <3>2
  <2>2. pos \in Nat
    BY <1>5
  <2> HIDE DEF pos, p
  <2> QED BY <2>1, <2>2, BeforeIs
<1> DEFINE both == p \o after
<1>14. both \in Seq(Lines) /\ Of(both) = Of(p) \cup Of(after) /\ Follows(both, Gone)
  <2>1. Gone \cup Before(removal.snap, pos + 1) \subseteq Gone \cup Of(p)
    BY <1>13
  <2> HIDE DEF p, after, pos
  <2> QED BY <1>2, <1>10, <1>11, <2>1, FollowsJoined, Joined, OfJoined
<1> DEFINE T == Gone \cup Held \cup Before(file, end + 1)
<1>15. Follows(t, T)
  <2>1. CASE end <= m
    <3>1. Rest(t, file, end)
      BY <1>3, <2>1 DEF Rest
    <3> HIDE DEF t, end
    <3> QED BY <1>0, <1>1, <1>2, <1>3, <2>1, <3>1, FollowsAfter
  <2>2. CASE ~(end <= m)
    <3>1. t = <<>>
      <4>1. Len(t) = 0 /\ t \in Seq(Lines)
        BY <1>3, <2>2
      <4> QED BY <4>1, Nothing
    <3> QED BY <3>1, FollowsNothing
  <2> QED BY <2>1, <2>2
<1>16. end < m \/ t = <<>>
  <2> SUFFICES ASSUME ~(end < m) PROVE t = <<>>
    OBVIOUS
  <2>1. Len(t) = 0 /\ t \in Seq(Lines)
    <3> HIDE DEF t, end, m
    <3> QED BY <1>2, <1>3, <1>5
  <2> QED BY <2>1, Nothing
\* What was overwritten is gone, unless it was written back.
<1>17. end < m => T \subseteq Gone' \cup Of(both)
  <2>0. end \in Nat /\ Held \subseteq Of(both)
    BY <1>1, <1>2, <1>14
  <2> SUFFICES ASSUME end < m, NEW j \in 1..end PROVE file[j].uuid \in Gone' \cup Of(both)
    <3> HIDE DEF end, m, both
    <3> QED BY <2>0, BeforeIs
  <2>1. CASE j \in 1..n
    BY <1>2, <1>12, <1>14, <2>1
  <2>2. CASE j \notin 1..n
    <3>1. j \in pos..m /\ j \in 1..m
      <4> HIDE DEF pos, m, end
      <4> QED BY <1>2, <1>5, <2>2
    <3>2. file[j].uuid \in cut' \/ file[j].uuid \in Of(file')
      BY <1>4, <1>9, <3>1
    <3>3. file[j].uuid \in Of(file') => file[j].uuid \in Of(both)
      <4>1. Of(file') = Of(both) \cup Of(t)
        BY <1>3, <1>4, <1>14, OfJoined
      <4>2. file[j].uuid \notin Of(t)
        <5> SUFFICES ASSUME file[j].uuid \in Of(t) PROVE FALSE
          OBVIOUS
        <5>1. PICK i \in 1..Len(t) : t[i].uuid = file[j].uuid
          BY <1>3, OfTyped
        <5>2. end + i \in 1..m /\ end + i # j /\ t[i] = file[end + i]
          <6> HIDE DEF t, end, m
          <6>1. m \in Nat /\ end \in Nat /\ i \in Nat /\ i >= 1 /\ j <= end
            BY <1>5, <2>0
          <6>2. i <= m - end
            BY <1>3, <6>1
          <6>3. i \in 1..(m - end) /\ end + i \in 1..m /\ end + i # j
            BY <6>1, <6>2
          <6> QED BY <1>3, <6>3
        <5>3. \A a, b \in 1..m : file[a].uuid = file[b].uuid => a = b
          BY <1>0, DistinctIs
        <5> QED BY <3>1, <5>1, <5>2, <5>3
      <4> QED BY <4>1, <4>2
    <3> QED BY <3>2, <3>3 DEF Gone
  <2> QED BY <2>1, <2>2
<1>18. Follows(file', Gone')
  <2>1. Follows(both, Gone') /\ file' = both \o t
    BY <1>4, <1>14, FollowsMore
  <2> HIDE DEF both, t, T
  <2>2. CASE t = <<>>
    <3>1. Follows(t, {}) /\ t \in Seq(Lines)
      BY <1>3, <2>2, FollowsNothing
    <3> QED BY <1>14, <2>1, <3>1, FollowsJoined
  <2>3. CASE end < m
    BY <1>3, <1>14, <1>15, <1>17, <2>1, <2>3, FollowsJoined
  <2> QED BY <1>16, <2>2, <2>3
<1>19. Follows(file', Gone' \cup Held')
  BY <1>18, FollowsMore
<1> QED BY <1>1, <1>19 DEF FileFollows

LEMMA RestsFollows ==
  ASSUME FileFollows, Rests, Gone \subseteq Gone'
  PROVE  FileFollows'
BY FollowsMore DEF FileFollows, Rests

LEMMA CutsFollows ==
  ASSUME FileInv, OnceInv, FileFollows, Cuts, Gone \subseteq Gone'
  PROVE  FileFollows'
BY TruncateFollows, WriteBackFollows, RewriteFollows DEF Cuts

LEMMA FollowInvIs ==
  FollowInv <=> /\ FileFollows /\ \A d \in Drainers : Follows(drains[d], {Root} \cup Settled)
                /\ Follows(queue, {Root} \cup Settled \cup InFlight)
BY DEF FollowInv, FileFollows

LEMMA FollowInvAgain ==
  ASSUME FileFollows', \A d \in Drainers : Follows(drains'[d], {Root} \cup Settled'),
         Follows(queue', {Root} \cup Settled' \cup InFlight')
  PROVE  FollowInv'
BY DEF FollowInv, FileFollows

\* What the lines of the file, and those on their way to it, follow.
LEMMA FollowMoves ==
  ASSUME FileInv, OnceInv, FollowInv, Moves, DrainInv', ~overlapped',
         \A line \in Lines : Waits(line) => line.parent \in {Root} \cup Settled \cup Moving
  PROVE  FollowInv'
<1>0. /\ Gone \subseteq Gone' /\ Settled \subseteq Settled' /\ FileFollows
      /\ queue \in Seq(Lines) /\ file \in Seq(Lines) /\ \A d \in Drainers : drains[d] \in Seq(Lines)
      /\ \A d \in Drainers : Follows(drains[d], {Root} \cup Settled)
      /\ Follows(queue, {Root} \cup Settled \cup InFlight)
  BY GoneGrows, MovesKeep, FollowInvIs, SnapTyped DEF FileInv
<1>1. ASSUME Rests PROVE FollowInv'
  <2>1. FileFollows'
    BY <1>0, <1>1, RestsFollows
  <2>2. InFlight' = InFlight /\ UNCHANGED <<queue, drains>>
    BY <1>1, RestsFlow DEF Rests
  <2> QED BY <1>0, <2>1, <2>2, FollowsMore, FollowInvAgain
<1>2. ASSUME Cuts PROVE FollowInv'
  <2>1. FileFollows'
    BY <1>0, <1>2, CutsFollows
  <2>2. InFlight' = InFlight /\ UNCHANGED <<queue, drains>>
    BY <1>2, CutsFlow
  <2> QED BY <1>0, <2>1, <2>2, FollowsMore, FollowInvAgain
<1>3. ASSUME NEW line \in Lines, Waits(line) PROVE FollowInv'
  <2>1. /\ Settled' = Settled /\ InFlight' = InFlight /\ queue' = Append(queue, line)
        /\ UNCHANGED <<drains, file, failed, cut, removal>>
    BY <1>3, WaitsFlow DEF Waits
  <2>2. Held' = Held /\ Gone' = Gone
    BY <2>1, HeldIs DEF Gone
  <2>3. FileFollows'
    BY <1>0, <2>1, <2>2 DEF FileFollows
  <2> DEFINE S == {Root} \cup Settled \cup InFlight
  <2>4. line.parent \in S \cup Of(queue) /\ Follows(queue, S)
    BY <1>0, <1>3 DEF Moving
  <2> HIDE DEF S
  <2>5. Follows(Append(queue, line), S)
    BY <1>0, <2>4, FollowsAppended
  <2> QED BY <1>0, <2>1, <2>3, <2>5, FollowInvAgain DEF S
<1>4. ASSUME NEW d \in Drainers, Takes(d) PROVE FollowInv'
  <2>1. /\ Settled' = Settled /\ queue' = <<>> /\ drains'[d] = queue /\ drains[d] = <<>>
        /\ \A e \in Drainers : e # d => drains'[e] = drains[e]
        /\ UNCHANGED <<file, failed, cut, removal>>
    BY <1>4, TakesFlow DEF Takes
  <2>2. Held' = Held /\ Gone' = Gone
    BY <2>1, HeldIs DEF Gone
  <2>3. FileFollows'
    BY <1>0, <2>1, <2>2 DEF FileFollows
  <2>4. Follows(queue, {Root} \cup Settled)
    <3>1. CASE queue = <<>>
      BY <3>1, FollowsNothing
    <3>2. CASE queue # <<>>
      <4>1. \A e, g \in Drainers : e # g => drains'[e] = <<>> \/ drains'[g] = <<>>
        BY DEF DrainInv
      <4>2. \A e \in Drainers : drains[e] = <<>>
        BY <2>1, <3>2, <4>1
      <4>3. InFlight = {}
        BY <4>2, OfNothing DEF InFlight
      <4> QED BY <1>0, <4>3
    <3> QED BY <3>1, <3>2
  <2>5. \A e \in Drainers : Follows(drains'[e], {Root} \cup Settled')
    BY <1>0, <2>1, <2>4
  <2>6. Follows(queue', {Root} \cup Settled' \cup InFlight')
    BY <2>1, FollowsNothing
  <2> QED BY <2>3, <2>5, <2>6, FollowInvAgain
<1>5. ASSUME NEW d \in Drainers, Puts(d) PROVE FollowInv'
  <2>1. /\ Settled' = Settled \cup Of(drains[d]) /\ InFlight = InFlight' \cup Of(drains[d]) /\ drains'[d] = <<>>
        /\ \A e \in Drainers : e # d => drains'[e] = drains[e]
        /\ file' = file \o drains[d] /\ UNCHANGED <<queue, failed, cut, removal>>
    BY <1>5, PutsFlow DEF Puts
  <2>2. Held' = Held /\ Gone' = Gone
    BY <2>1, HeldIs DEF Gone
  <2>3. FileFollows'
    <3> DEFINE S == Gone \cup Held
               T == {Root} \cup Settled
               t == drains[d]
    <3>1. Follows(file, S) /\ Follows(t, T) /\ T \subseteq S \cup Of(file) /\ t \in Seq(Lines)
      BY <1>0 DEF FileFollows, Gone, Settled, OnDisk
    <3> HIDE DEF S, T, t
    <3>2. Follows(file \o t, S)
      BY <1>0, <3>1, FollowsJoined
    <3> QED BY <1>0, <2>1, <2>2, <3>2 DEF FileFollows, S, t
  <2>4. \A e \in Drainers : Follows(drains'[e], {Root} \cup Settled')
    BY <1>0, <2>1, FollowsMore, FollowsNothing
  <2>5. Follows(queue', {Root} \cup Settled' \cup InFlight')
    <3>1. {Root} \cup Settled \cup InFlight \subseteq {Root} \cup Settled' \cup InFlight'
      BY <2>1
    <3> QED BY <1>0, <2>1, <3>1, FollowsMore
  <2> QED BY <2>3, <2>4, <2>5, FollowInvAgain
<1>6. ASSUME NEW d \in Drainers, Drops(d) PROVE FollowInv'
  <2>1. /\ Settled' = Settled \cup Of(drains[d]) /\ InFlight = InFlight' \cup Of(drains[d]) /\ drains'[d] = <<>>
        /\ \A e \in Drainers : e # d => drains'[e] = drains[e]
        /\ UNCHANGED <<queue, file, removal>>
    BY <1>6, DropsFlow DEF Drops
  <2>2. Held' = Held
    BY <2>1, HeldIs
  <2>3. FileFollows'
    <3>1. Gone \cup Held \subseteq Gone' \cup Held'
      BY <1>0, <2>2
    <3> QED BY <1>0, <2>1, <3>1, FollowsMore DEF FileFollows
  <2>4. \A e \in Drainers : Follows(drains'[e], {Root} \cup Settled')
    BY <1>0, <2>1, FollowsMore, FollowsNothing
  <2>5. Follows(queue', {Root} \cup Settled' \cup InFlight')
    <3>1. {Root} \cup Settled \cup InFlight \subseteq {Root} \cup Settled' \cup InFlight'
      BY <2>1
    <3> QED BY <1>0, <2>1, <3>1, FollowsMore
  <2> QED BY <2>3, <2>4, <2>5, FollowInvAgain
<1> QED BY <1>1, <1>2, <1>3, <1>4, <1>5, <1>6 DEF Moves

-----------------------------------------------------------------------------
(* What the next lines will follow                                           *)

LEMMA OverlapStays ==
  ASSUME [Next]_vars
  PROVE  overlapped => overlapped'
<1>1. ASSUME FileStep PROVE overlapped => overlapped'
  BY <1>1 DEF FileStep, DrainStep, FlushStep, RemovalStep, TimerFires, Written, WriteFails, FlushGoesOn, FlushWritten, FlushFails,
              ReadTail, Truncate, WriteBack, Reread, Rewrite, Flush, FlushDrains, Drain
<1>2. CallStep => overlapped' = overlapped
  BY DEF CallStep, Loaded, AppendEntry, Finish
<1>3. Say \/ Tombstone \/ Render \/ UNCHANGED vars => overlapped' = overlapped
  BY DEF Say, Tombstone, Render, vars, fileVars
<1> QED BY <1>1, <1>2, <1>3 DEF Next, AnyFileStep

\* Nothing is passed or appended.
LEMMA ParentsStay ==
  ASSUME AloneInv, ParentsInv, Gone \subseteq Gone', UNCHANGED <<calls, known, pending, handed>>, hook'.parent = hook.parent
  PROVE  AloneInv' /\ ParentsInv'
<1>1. AloneInv' /\ hook'.parent \in {Root} \cup handed'
  BY DEF AloneInv, ParentsInv
<1>2. Follows(pending', Gone')
  BY FollowsMore DEF ParentsInv
<1>3. ASSUME NEW c \in DOMAIN calls, calls[c].pc = "appends"
      PROVE  Follows(calls[c].lines, Gone' \cup known \cup Of(pending))
  <2>1. Follows(calls[c].lines, Gone \cup known \cup Of(pending))
    BY <1>3 DEF ParentsInv
  <2> QED BY <2>1, FollowsMore
<1>4. Of(pending') = Of(pending)
  OBVIOUS
<1> QED BY <1>1, <1>2, <1>3, <1>4 DEF ParentsInv

\* A call is made while no other is under way.
LEMMA RenderParents ==
  ASSUME TypeInv, ScreenInv, HandInv, AloneInv, ParentsInv, Gone \subseteq Gone', Render, ~beside'
  PROVE  AloneInv' /\ ParentsInv'
<1>0. CallTypes /\ ScreenTypes /\ UNCHANGED <<known, pending>>
  BY TypeInvIs DEF Render
<1>1. PICK slice \in Seq(Uuids), incremental \in BOOLEAN, n \in 0..Len(messages) : Shows(slice, incremental, n)
  BY RenderShows
<1>2. CASE slice = <<>> /\ UNCHANGED <<hook, calls, handed, beside>>
  BY <1>0, <1>2, ParentsStay
<1>3. CASE Passes(slice, incremental) /\ hook'.parent = Last(slice)
  <2> DEFINE full == ~incremental
             hint == IF incremental THEN hook.parent ELSE Root
             call == Called(slice, full, hint)
  <2>1. /\ slice # <<>> /\ calls' = Append(calls, call) /\ handed' = handed \cup Elements(slice)
        /\ \A c \in DOMAIN calls : calls[c].pc = "over"
    BY <1>3 DEF Passes
  <2>2. full \in BOOLEAN /\ hint \in Uuids \cup {Root} /\ hint \in {Root} \cup handed
    BY <1>0 DEF ScreenTypes, ParentsInv
  <2> HIDE DEF full, hint
  <2>3. call \in Call /\ call.pc = "loads" /\ call.hint = hint
    BY <1>1, <2>2, CalledIs
  <2> HIDE DEF call
  <2>4. PICK g \in Nat : /\ calls'[g] = call /\ DOMAIN calls' = DOMAIN calls \cup {g}
                         /\ \A c \in DOMAIN calls : calls'[c] = calls[c] /\ c # g
    BY <1>0, <2>1, <2>3, CallsMore
  <2>5. \A c \in DOMAIN calls' : calls'[c].pc = "over" \/ c = g
    BY <2>1, <2>4
  <2>6. handed = Of(pending) \cup known
    <3>1. \A c \in DOMAIN calls : calls[c].lines = <<>> /\ calls[c].slice = <<>>
      BY <2>1 DEF TypeInv, CallsInv
    <3>2. Todo = {}
      BY <3>1, TodoIs, OfNothing DEF Elements
    <3> QED BY <3>2, HandInvIs
  <2>7. AloneInv'
    BY <2>5 DEF AloneInv
  <2>8. hook'.parent \in {Root} \cup handed'
    <3>1. Last(slice) = slice[Len(slice)] /\ Len(slice) \in 1..Len(slice)
      BY <1>1, <2>1, Ended
    <3>2. Last(slice) \in Elements(slice)
      BY <1>1, <3>1, ElementsTyped
    <3> QED BY <1>3, <2>1, <3>2
  <2>9. Follows(pending', Gone')
    BY <1>0, FollowsMore DEF ParentsInv
  <2>10. \A c \in DOMAIN calls' : calls'[c].pc = "loads" => calls'[c].hint \in {Root} \cup known' \cup Of(pending')
    BY <1>0, <2>2, <2>3, <2>4, <2>5, <2>6
  <2>11. \A c \in DOMAIN calls' : calls'[c].pc # "appends"
    BY <2>3, <2>4, <2>5
  <2> QED BY <2>7, <2>8, <2>9, <2>10, <2>11 DEF ParentsInv
<1> QED BY <1>1, <1>2, <1>3 DEF Shows

\* The call that goes on is the only one that is not over.
LEMMA CallAlone ==
  ASSUME CallTypes, AloneInv, NEW c \in DOMAIN calls, calls[c].pc # "over", NEW call \in Call,
         calls' = [calls EXCEPT ![c] = call], hook'.parent \in {Root} \cup handed', Follows(pending', Gone'),
         call.pc # "loads",
         call.pc = "appends" => Follows(call.lines, Gone' \cup known' \cup Of(pending')) /\ call.result \in handed'
  PROVE  AloneInv' /\ ParentsInv'
<1>1. /\ DOMAIN calls' = DOMAIN calls /\ calls'[c] = call
      /\ \A e \in DOMAIN calls : e # c => calls'[e] = calls[e]
  BY CallReplaced
<1>2. \A e \in DOMAIN calls' : calls'[e].pc = "over" \/ e = c
  BY <1>1 DEF AloneInv
<1>3. AloneInv'
  BY <1>2 DEF AloneInv
<1>4. \A e \in DOMAIN calls' : calls'[e].pc # "loads"
  BY <1>1, <1>2
<1>5. \A e \in DOMAIN calls' : calls'[e].pc = "appends" =>
        Follows(calls'[e].lines, Gone' \cup known' \cup Of(pending')) /\ calls'[e].result \in handed'
  BY <1>1, <1>2
<1> QED BY <1>3, <1>4, <1>5 DEF ParentsInv

LEMMA LoadedParents ==
  ASSUME TypeInv, HandInv, AloneInv, ParentsInv, Gone \subseteq Gone', NEW c \in DOMAIN calls, Loaded(c)
  PROVE  AloneInv' /\ ParentsInv'
<1>0. /\ CallTypes /\ ScreenTypes /\ UNCHANGED <<known, handed>> /\ calls[c].pc = "loads"
      /\ calls[c].slice # <<>>
  BY TypeInvIs DEF Loaded, CallsInv
<1>1. PICK new \in Seq(Uuids), start \in Uuids \cup {Root}, makes \in BOOLEAN, lines \in Seq(Lines) :
        LoadedAs(c, new, start, makes, lines)
  BY <1>0, LoadedIs
<1> DEFINE slice == calls[c].slice
           hint == calls[c].hint
<1>2. /\ calls[c] \in Call /\ slice \in Seq(Uuids) /\ hint \in Uuids \cup {Root} /\ pending \in Seq(Lines)
  BY <1>0, CallsTyped DEF CallTypes
<1>3. /\ hook.parent \in {Root} \cup handed /\ Follows(pending, Gone) /\ hint \in {Root} \cup known \cup Of(pending)
  BY <1>0 DEF ParentsInv
<1>4. known \cup Of(pending) \subseteq handed /\ Elements(slice) \subseteq handed
  BY HandedHas
<1>5. start \in {Root} \cup known \cup Of(pending)
  <2>1. start = Start(slice, hint)
    BY <1>1 DEF LoadedAs
  <2> DEFINE m == Len(slice)
  <2>2. PICK k \in 0..m : (\A i \in 1..k : slice[i] \in known) /\ start = IF k = 0 THEN hint ELSE slice[k]
    BY <1>2, <2>1, StartIs
  <2>3. k = 0 \/ k \in 1..k
    <3>1. m \in Nat
      BY <1>2, InSequence
    <3> QED BY <2>2, <3>1
  <2> QED BY <1>3, <2>2, <2>3
<1>6. CASE new = <<>>
  <2>1. calls' = [calls EXCEPT ![c] = Over] /\ hook' = Resolved(c, start) /\ pending' = pending
    BY <1>1, <1>6 DEF LoadedAs
  <2>2. hook'.parent \in {Root} \cup handed'
    BY <1>0, <1>3, <1>4, <1>5, <2>1, ResolvedIs
  <2>3. Follows(pending', Gone')
    BY <1>3, <2>1, FollowsMore
  <2> QED BY <1>0, <2>1, <2>2, <2>3, OverIs, CallAlone
<1>7. CASE new # <<>>
  <2> DEFINE result == Last(new)
             made0 == calls[c]
             call == [made0 EXCEPT !.pc = "appends", !.result = result, !.slice = <<>>, !.lines = lines]
             first == IF makes THEN pending ELSE <<>>
             chain == Chain(new, start)
  <2>1. /\ calls' = [calls EXCEPT ![c] = call] /\ pending' = (IF makes THEN <<>> ELSE pending) /\ hook' = hook
        /\ lines = first \o chain
    BY <1>1, <1>7 DEF LoadedAs
  <2>2. result \in Elements(new) /\ result \in Uuids \cup {Root}
    <3>1. Last(new) = new[Len(new)] /\ Len(new) \in 1..Len(new) /\ Last(new) \in Uuids
      BY <1>7, Ended
    <3> QED BY <3>1, ElementsTyped
  <2>3. Elements(new) \subseteq handed
    BY <1>1, <1>4 DEF LoadedAs
  <2>4. made0 \in Call
    BY <1>2
  <2> HIDE DEF result, made0
  <2>5. call \in Call /\ call.pc = "appends" /\ call.result = result /\ call.lines = lines
    <3>1. call = [made0 EXCEPT !.pc = "appends", !.result = result, !.slice = <<>>, !.lines = lines]
      OBVIOUS
    <3>2. <<>> \in Seq(Uuids)
      OBVIOUS
    <3> HIDE DEF call
    <3> QED BY <2>2, <2>4, <3>1, <3>2 DEF Call
  <2>6. /\ chain \in Seq(Lines) /\ Len(chain) = Len(new)
        /\ \A i \in 1..Len(new) : chain[i].uuid = new[i] /\ chain[i].parent = IF i = 1 THEN start ELSE new[i - 1]
    BY ChainIs
  <2> HIDE DEF chain, call
  <2>7. Follows(chain, {start})
    <3> DEFINE q == Len(new)
    <3>1. q \in Nat
      BY InSequence
    <3>2. Len(chain) = q /\ \A i \in 1..q : chain[i].uuid = new[i] /\ chain[i].parent = IF i = 1 THEN start ELSE new[i - 1]
      BY <2>6
    <3> HIDE DEF q
    <3>3. ASSUME NEW i \in 1..q PROVE chain[i].parent \in {start} \/ \E j \in 1..(i - 1) : chain[j].uuid = chain[i].parent
      <4>1. CASE i = 1
        BY <3>2, <4>1
      <4>2. CASE i # 1
        <5>1. i - 1 \in 1..(i - 1) /\ i - 1 \in 1..q
          BY <3>1, <4>2
        <5> QED BY <3>2, <4>2, <5>1
      <4> QED BY <4>1, <4>2
    <3> QED BY <2>6, <3>2, <3>3, FollowsIs
  <2> DEFINE S == Gone' \cup known' \cup Of(pending')
             T == {start}
  <2>8. /\ first \in Seq(Lines) /\ Follows(first, S) /\ T \subseteq S \cup Of(first)
    <3>1. CASE makes
      BY <1>0, <1>2, <1>3, <1>5, <2>1, <3>1, FollowsMore DEF Gone
    <3>2. CASE ~makes
      BY <1>0, <1>2, <1>3, <1>5, <2>1, <3>2, FollowsNothing, NothingTyped DEF Gone
    <3> QED BY <3>1, <3>2
  <2>9. Follows(lines, S)
    <3>1. Follows(chain, T)
      BY <2>7
    <3> HIDE DEF first, S, T
    <3> QED BY <2>1, <2>6, <2>8, <3>1, FollowsJoined
  <2>10. Follows(pending', Gone')
    BY <1>3, <2>1, FollowsMore, FollowsNothing
  <2> QED BY <1>0, <1>3, <2>1, <2>2, <2>3, <2>5, <2>9, <2>10, CallAlone DEF S
<1> QED BY <1>6, <1>7

LEMMA EntryParents ==
  ASSUME TypeInv, HandInv, AloneInv, ParentsInv, Gone \subseteq Gone', NEW c \in DOMAIN calls, AppendEntry(c)
  PROVE  /\ AloneInv' /\ ParentsInv'
         /\ \A line \in Lines : Waits(line) => line.parent \in {Root} \cup Settled \cup Moving
<1>0. /\ CallTypes /\ calls[c].pc = "appends" /\ calls[c].lines # <<>>
      /\ UNCHANGED <<hook, handed, materialized>>
      /\ calls[c] \in Call /\ calls[c].lines \in Seq(Lines) /\ pending \in Seq(Lines) /\ queue \in Seq(Lines)
  <2>1. CallTypes /\ FileInv
    BY TypeInvIs
  <2> QED BY <2>1, CallsTyped, SnapTyped DEF AppendEntry, screenVars, CallTypes, FileInv
<1> DEFINE line == Head(calls[c].lines)
           rest == Tail(calls[c].lines)
           S == Gone \cup known \cup Of(pending)
<1>1. /\ EntryAs(c, line) /\ line \in Lines /\ rest \in Seq(Lines)
  BY <1>0, EntryIs
<1>2. Follows(calls[c].lines, S) /\ Follows(pending, Gone) /\ calls[c].result \in handed /\ hook.parent \in {Root} \cup handed
  BY <1>0 DEF ParentsInv
<1>3. Follows(rest, S \cup {line.uuid}) /\ line.parent \in S
  BY <1>0, <1>2, FollowsBehind
<1> HIDE DEF line, rest
<1> DEFINE call == [calls[c] EXCEPT !.lines = rest]
<1>4. /\ calls' = [calls EXCEPT ![c] = call]
      /\ \/ ~materialized /\ pending' = Append(pending, line) /\ UNCHANGED <<queue, known>>
         \/ /\ materialized /\ queue' = Append(queue, line) /\ known' = known \cup {line.uuid} /\ pending' = pending
         \/ materialized /\ line.uuid \in known /\ UNCHANGED <<queue, known, pending>>
  BY <1>1 DEF EntryAs, EnqueueWrite, line, rest
<1>5. call \in Call /\ call.lines = rest /\ call.pc = "appends" /\ call.result = calls[c].result
  BY <1>0, <1>1 DEF Call
<1> HIDE DEF call
<1>6. IF materialized THEN pending = <<>> ELSE known = {}
  BY HandInvIs
<1>7. Of(Append(pending, line)) = Of(pending) \cup {line.uuid}
  BY <1>0, <1>1, OfAppended DEF line
<1>8. S \cup {line.uuid} \subseteq Gone' \cup known' \cup Of(pending')
  BY <1>4, <1>7
<1>9. Follows(pending', Gone')
  <2>1. Follows(pending', Gone)
    <3>1. CASE ~materialized /\ pending' = Append(pending, line)
      <4>1. line.parent \in Gone \cup Of(pending)
        BY <1>3, <1>6, <3>1
      <4>2. line \in Lines
        BY <1>1 DEF line
      <4> QED BY <1>0, <1>2, <3>1, <4>1, <4>2, FollowsAppended
    <3>2. CASE pending' = pending
      BY <1>2, <3>2
    <3> QED BY <1>4, <3>1, <3>2
  <2> QED BY <2>1, FollowsMore
<1>10. AloneInv' /\ ParentsInv'
  <2> DEFINE U == Gone' \cup known' \cup Of(pending')
             V == S \cup {line.uuid}
  <2>1. Follows(rest, V) /\ V \subseteq U
    BY <1>3, <1>8
  <2> HIDE DEF U, V
  <2>2. Follows(call.lines, U)
    BY <1>5, <2>1, FollowsMore
  <2> QED BY <1>0, <1>2, <1>4, <1>5, <1>9, <2>2, CallAlone DEF U
<1>11. ASSUME NEW l \in Lines, Waits(l) PROVE l.parent \in {Root} \cup Settled \cup Moving
  <2>1. queue' = Append(queue, l) /\ l.uuid \notin known /\ known' = known \cup {l.uuid}
    BY <1>11 DEF Waits
  <2>2. materialized /\ queue' = Append(queue, line)
    BY <1>4, <2>1
  <2>3. l = line
    <3>1. Append(queue, l)[Len(queue) + 1] = l
      BY <1>0, Appended
    <3>2. Append(queue, line)[Len(queue) + 1] = line
      BY <1>0, <1>1, Appended DEF line
    <3> QED BY <2>1, <2>2, <3>1, <3>2
  <2>4. line.parent \in Gone \cup known
    BY <1>3, <1>6, <2>2, OfNothing
  <2>5. known \subseteq Moving \cup Settled
    BY HandInvIs
  <2> QED BY <2>3, <2>4, <2>5 DEF Gone, Settled
<1> QED BY <1>10, <1>11

LEMMA FinishParents ==
  ASSUME TypeInv, AloneInv, ParentsInv, Gone \subseteq Gone', NEW c \in DOMAIN calls, Finish(c)
  PROVE  AloneInv' /\ ParentsInv'
<1>0. /\ CallTypes /\ ScreenTypes /\ UNCHANGED <<handed, pending>> /\ calls[c].pc = "appends"
      /\ calls' = [calls EXCEPT ![c] = Over] /\ hook' = Resolved(c, calls[c].result)
  BY TypeInvIs DEF Finish
<1>1. hook'.parent \in {Root} \cup handed'
  BY <1>0, ResolvedIs DEF ParentsInv
<1>2. Follows(pending', Gone')
  BY <1>0, FollowsMore DEF ParentsInv
<1> QED BY <1>0, <1>1, <1>2, OverIs, CallAlone

LEMMA CrashInvAgain ==
  ASSUME ~beside' => AloneInv' /\ ParentsInv' /\ (~overlapped' => FollowInv')
  PROVE  CrashInv'
BY DEF CrashInv

LEMMA CrashNext ==
  ASSUME TypeInv, DrainInv, OnceInv, HandInv, ScreenInv, CrashInv, [Next]_vars
  PROVE  CrashInv'
<1>0. /\ FileInv /\ CallTypes /\ ScreenTypes /\ Moves /\ DrainInv' /\ Gone \subseteq Gone' /\ (overlapped => overlapped')
  BY TypeInvIs, MovesNext, GoneGrows, OverlapStays
<1>1. beside => beside'
  <2>1. CallStep => beside' = beside
    BY DEF CallStep, Loaded, AppendEntry, Finish, screenVars
  <2>2. Render => (beside => beside')
    BY DEF Render
  <2> QED BY <2>1, <2>2 DEF Next, Say, Tombstone, AnyFileStep, screenVars, vars
<1> SUFFICES ASSUME ~beside, ~beside' PROVE AloneInv' /\ ParentsInv' /\ (~overlapped' => FollowInv')
  BY <1>1, CrashInvAgain
<1>2. AloneInv /\ ParentsInv /\ (~overlapped => FollowInv)
  BY DEF CrashInv
<1>3. /\ AloneInv' /\ ParentsInv'
      /\ \A line \in Lines : Waits(line) => line.parent \in {Root} \cup Settled \cup Moving
  <2>1. known' = known => \A line \in Lines : ~Waits(line)
    BY DEF Waits
  <2>2. CASE Say \/ Tombstone \/ AnyFileStep \/ UNCHANGED vars
    <3>1. UNCHANGED <<calls, known, pending, handed, hook>>
      BY <2>2 DEF Say, Tombstone, AnyFileStep, screenVars, callVars, vars
    <3> QED BY <1>0, <1>2, <2>1, <3>1, ParentsStay
  <2>3. CASE Render
    <3>1. known' = known
      BY <2>3 DEF Render
    <3> QED BY <1>0, <1>2, <2>1, <2>3, <3>1, RenderParents
  <2>4. CASE CallStep
    <3>1. PICK c \in DOMAIN calls : Loaded(c) \/ AppendEntry(c) \/ Finish(c)
      BY <2>4 DEF CallStep
    <3>2. CASE Loaded(c)
      <4>1. known' = known
        BY <3>2 DEF Loaded
      <4> QED BY <1>0, <1>2, <2>1, <3>2, <4>1, LoadedParents
    <3>3. CASE AppendEntry(c)
      BY <1>0, <1>2, <3>3, EntryParents
    <3>4. CASE Finish(c)
      <4>1. known' = known
        BY <3>4 DEF Finish
      <4> QED BY <1>0, <1>2, <2>1, <3>4, <4>1, FinishParents
    <3> QED BY <3>1, <3>2, <3>3, <3>4
  <2> QED BY <2>2, <2>3, <2>4 DEF Next
<1>4. ~overlapped' => FollowInv'
  BY <1>0, <1>2, <1>3, FollowMoves
<1> QED BY <1>3, <1>4

LEMMA CrashInit ==
  ASSUME Init
  PROVE  CrashInv
<1>1. /\ calls = <<>> /\ pending = <<>> /\ file = <<>> /\ queue = <<>> /\ removal.pc = "idle" /\ hook.parent = Root
      /\ \A d \in Drainers : drains[d] = <<>>
  BY DEF Init, FileInit, NoRemoval
<1>2. DOMAIN calls = {}
  BY <1>1
<1>3. AloneInv /\ ParentsInv
  BY <1>1, <1>2, FollowsNothing DEF AloneInv, ParentsInv
<1>4. FollowInv
  BY <1>1, FollowsNothing DEF FollowInv
<1> QED BY <1>3, <1>4 DEF CrashInv

\* Whenever the program stops, each message in the file follows one that is in
\* the file before it, unless that one was withdrawn or lost, or a removal is
\* about to write it back: whatever appends, truncations and rewrites
\* interleave, as long as neither calls of recordTranscript() nor drains run
\* beside each other.
THEOREM StopsWhole == Spec => []CrashSafe
<1> DEFINE Inv == TypeInv /\ DrainInv /\ OnceInv /\ HandInv /\ ScreenInv /\ ForkInv /\ CrashInv
<1>1. Init => Inv
  BY TypeInit, DrainInit, OnceInit, ScreenInit, CrashInit
<1>2. Inv /\ [Next]_vars => Inv'
  BY TypeNext, MovesNext, OnceNext, HandNext, ScreenNext, CrashNext
<1>3. Inv => CrashSafe
  <2> SUFFICES ASSUME Inv, ~beside, ~overlapped, NEW i \in DOMAIN file
               PROVE  file[i].parent \in {Root} \cup failed \cup cut \cup removal.targets \cup Held \cup Of(SubSeq(file, 1, i - 1))
    BY DEF CrashSafe
  <2>1. file \in Seq(Lines)
    BY TypeInvIs, SnapTyped DEF FileInv
  <2>2. file[i].parent \in Gone \cup Held \/ \E j \in 1..(i - 1) : file[j].uuid = file[i].parent
    <3>1. Follows(file, Gone \cup Held)
      BY DEF CrashInv, FollowInv
    <3> QED BY <2>1, <3>1, FollowsIs, InSequence
  <2>3. ASSUME NEW j \in 1..(i - 1) PROVE file[j].uuid \in Of(SubSeq(file, 1, i - 1))
    <3> DEFINE r == SubSeq(file, 1, i - 1)
               n == Len(file)
    <3>1. i \in 1..n /\ n \in Nat
      BY <2>1, InSequence
    <3>2. i - 1 \in Nat /\ i - 1 <= n /\ 1 <= (i - 1) + 1 /\ 1 \in Nat \ {0}
      BY <3>1
    <3>3. r \in Seq(Lines) /\ Len(r) = (i - 1) - 1 + 1 /\ \A a \in 1..((i - 1) - 1 + 1) : r[a] = file[1 + a - 1]
      BY <2>1, <3>2, Cut
    <3> HIDE DEF r, n
    <3>4. (i - 1) - 1 + 1 = i - 1 /\ 1 + j - 1 = j
      BY <3>1, <2>3
    <3>5. j \in 1..Len(r) /\ r[j] = file[j]
      BY <3>3, <3>4
    <3> QED BY <3>3, <3>5, OfTyped DEF r
  <2> QED BY <2>2, <2>3 DEF Gone
<1> QED BY <1>1, <1>2, <1>3, PTL DEF Spec
=============================================================================
