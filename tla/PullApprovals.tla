---------------------------- MODULE PullApprovals ----------------------------
(***************************************************************************)
(* The GitHub approval provider (cmd/bach-github-approval-provider) and    *)
(* the daemon's approval poller over it (internal/factorydaemon            *)
(* approvals.go), beside the intake of the issues that the Work Items come *)
(* from.  A poll asks for the open pull requests page by page, then for    *)
(* the reviews and for the comments of each, while people review, comment, *)
(* dismiss and close; the records it makes are then applied one by one to  *)
(* a list of waiting items that ages.                                      *)
(***************************************************************************)
EXTENDS FactoryIntake

CONSTANTS
  Pulls,       \* pull request numbers
  Served,      \* the provider's phases, in order
  Gated,       \* phases for which the workflow requires an approval
  Lanes,       \* what may follow the item in bach/factory/<item>/<lane>
  Feed,        \* entries of a feed that one request returns: 100
  MaxVoices,   \* bound on the reviews and comments of a pull request
  MaxTroubles  \* bound on the requests that fail

ASSUME PullAssumption ==
  /\ Pulls \subseteq Nat /\ IsFiniteSet(Pulls)
  /\ "implement" \in Phases /\ Served \in Seq(Phases) /\ Gated \subseteq Phases
  /\ Feed \in Nat \ {0} /\ MaxVoices \in Nat /\ MaxTroubles \in Nat

VARIABLES
  pulls,    \* GitHub's pull requests
  plan,     \* by item: the hash of the plan under its path
  asker,    \* the provider's and the poller's locals in a poll
  stood,    \* history: pulls whose latest signal was an approval during this poll
  troubles  \* requests that have failed

pullVars == <<pulls, plan, asker, stood, troubles>>
approvalVars == <<intakeVars, pullVars>>

Voice == [by : {"review", "comment"}, says : {"approve", "deny"}, at : Second]
ASSUME VoiceAssumption == None \notin Voice

\* <<i, lane>> is bach/factory/<i>/<lane>; another branch with the prefix, or without it.
Heads == (Items \X Lanes) \cup {<<None, "prefixed">>, <<None, "other">>}
Pull ==
  [state : {"none", "draft", "open", "closed"}, marker : Issues \cup {None},
   head : Heads, updated : Second, voices : Seq(Voice)]
Found == [pull : Pulls, marker : Issues \cup {None}, head : Heads]
Record == [pull : Pulls, phase : Phases, marker : Issues \cup {None}, head : Heads]
Match == [record : Record, items : SUBSET Items]
Asker ==
  [pc : {"off", "idle", "pulls", "reviews", "comments", "match", "approve"},
   page : 1 .. MaxPages, left : Seq(Found), best : Voice \cup {None},
   records : Seq(Record), todo : Seq(Match), hash : Hashes \cup {None}]

PullTypeOK ==
  /\ IntakeTypeOK
  /\ pulls \in [Pulls -> Pull]
  /\ plan \in [Items -> Hashes \cup {None}]
  /\ asker \in Asker /\ stood \subseteq Pulls /\ troubles \in 0 .. MaxTroubles

NoPull ==
  [state |-> "none", marker |-> None, head |-> <<None, "other">>, updated |-> 0, voices |-> <<>>]
Resting ==
  [pc |-> "idle", page |-> 1, left |-> <<>>, best |-> None, records |-> <<>>,
   todo |-> <<>>, hash |-> None]

PullStart ==
  /\ asker \in {Resting, [Resting EXCEPT !.pc = "off"]}  \* is a provider configured?
  /\ pulls = [x \in Pulls |-> NoPull]
  /\ plan = [i \in Items |-> None]
  /\ stood = {} /\ troubles = 0

PullInit == IntakeInit /\ PullStart

-----------------------------------------------------------------------------
(* GitHub *)

Configured == asker.pc # "off"

\* The most recent signal, of whichever kind, is an approval.
Approving(pull) == pull.voices # <<>> /\ Last(pull.voices).says = "approve"

\* What people do to pull request x takes effect at once.
Change(x, pull) ==
  /\ Configured
  /\ pulls' = [pulls EXCEPT ![x] = [pull EXCEPT !.updated = clock']]
  /\ stood' = IF Approving(pull) THEN stood \cup {x} ELSE stood
  /\ UNCHANGED <<queueVars, issues, cursor, poller, plan, asker, troubles>>

OpenPull(x) ==
  /\ pulls[x].state = "none" /\ UNCHANGED clock
  /\ \E marker \in Issues \cup {None}, head \in Heads, state \in {"draft", "open"} :
       Change(x, [NoPull EXCEPT !.state = state, !.marker = marker, !.head = head])

\* Marked as ready, or merged or closed: either way it is listed no longer.
MovePull(x) ==
  /\ UNCHANGED clock
  /\ \/ pulls[x].state = "draft" /\ Change(x, [pulls[x] EXCEPT !.state = "open"])
     \/ pulls[x].state = "open" /\ Change(x, [pulls[x] EXCEPT !.state = "closed"])

\* A review that approves or requests changes, or a comment with /approve or /deny.
Speak(x) ==
  /\ pulls[x].state # "none" /\ Len(pulls[x].voices) < MaxVoices
  /\ clock' \in (IF SameSecond THEN {clock, clock + 1} ELSE {clock + 1}) /\ clock' <= MaxTime
  /\ \E by \in {"review", "comment"}, says \in {"approve", "deny"} :
       Change(x, [pulls[x] EXCEPT !.voices =
                    Append(@, [by |-> by, says |-> says, at |-> clock'])])

\* A dismissed review keeps its time.
Dismiss(x) ==
  /\ UNCHANGED clock
  /\ \E k \in DOMAIN pulls[x].voices :
       /\ pulls[x].voices[k].by = "review" /\ pulls[x].voices[k].says = "approve"
       /\ Change(x, [pulls[x] EXCEPT !.voices[k].says = "deny"])

\* sort=updated, direction=desc
Fresher(x, y) ==
  \/ pulls[x].updated > pulls[y].updated
  \/ pulls[x].updated = pulls[y].updated /\ x > y
Listings(S) ==
  {list \in [1 .. Cardinality(S) -> S] :
     \A j, k \in DOMAIN list : j < k => Fresher(list[j], list[k])}

\* The places of the first entries of a feed, oldest first; no further page is asked for.
FirstOfFeed(x, kind) ==
  LET feed == {k \in DOMAIN pulls[x].voices : pulls[x].voices[k].by = kind} IN
  {k \in feed : Cardinality({j \in feed : j <= k}) <= Feed}

-----------------------------------------------------------------------------
(* The provider *)

Asks(pc) ==
  /\ asker.pc = pc
  /\ UNCHANGED <<intakeVars, pulls, plan, troubles>>

BeginAsk ==
  /\ Asks("idle")
  /\ asker' = [Resting EXCEPT !.pc = "pulls"]
  /\ stood' = {x \in Pulls : Approving(pulls[x])}

\* Slip: only the marker associates.
EligibleWithMarker(pull) == pull.state = "open" /\ pull.head # <<None, "other">> /\ pull.marker # None

\* eligible, and associated by a marker in its text or by the name of its branch.
Eligible(pull) ==
  /\ pull.state = "open" /\ pull.head # <<None, "other">>
  /\ pull.marker # None \/ pull.head[1] # None

AskPulls ==
  /\ Asks("pulls")
  /\ \E list \in Listings({x \in Pulls : pulls[x].state \in {"draft", "open"}}) :
       LET page == Page(list, asker.page)
           more == Len(page) = PerPage /\ asker.page < MaxPages
       IN \E found \in Listings({x \in ToSet(page) : Eligible(pulls[x])}) :
            asker' = [asker EXCEPT
              !.pc = IF more THEN "pulls" ELSE "reviews",
              !.page = IF more THEN @ + 1 ELSE @,
              !.left = @ \o [k \in DOMAIN found |->
                 [pull |-> found[k], marker |-> pulls[found[k]].marker,
                  head |-> pulls[found[k]].head]]]
  /\ UNCHANGED stood

\* latestDecision, first request: the last review there is, whoever wrote it.
AskReviews ==
  /\ Asks("reviews") /\ asker.left # <<>>
  /\ LET x == Head(asker.left).pull
         reviews == FirstOfFeed(x, "review")
     IN asker' = [asker EXCEPT !.pc = "comments",
          !.best = IF reviews = {} THEN None ELSE pulls[x].voices[Max(reviews)]]
  /\ UNCHANGED stood

\* Slip: a comment counts only where there is no review.
ReviewBeforeComments(best, x) ==
  LET comments == FirstOfFeed(x, "comment") IN
  IF best # None \/ comments = {} THEN best ELSE pulls[x].voices[Max(comments)]

\* latestDecision, second request: a comment later than what was best takes its place,
\* so that the latest is left, of those in one second the first.
LatestDecision(best, x) ==
  LET voices == pulls[x].voices
      later == {k \in FirstOfFeed(x, "comment") : best # None => voices[k].at > best.at}
      Wins(k) == \A j \in later : voices[k].at > voices[j].at \/ (voices[k].at = voices[j].at /\ k <= j)
  IN IF later = {} THEN best ELSE voices[CHOOSE k \in later : Wins(k)]

\* Poll: an approval makes one record for each phase; anything else makes none.
AskComments ==
  /\ Asks("comments")
  /\ LET it == Head(asker.left)
         decision == LatestDecision(asker.best, it.pull)
         approved == decision # None /\ decision.says = "approve"
     IN asker' = [asker EXCEPT
          !.pc = "reviews", !.left = Tail(@), !.best = None,
          !.records = IF ~approved THEN @
                      ELSE @ \o [k \in DOMAIN Served |->
                        [pull |-> it.pull, phase |-> Served[k], marker |-> it.marker,
                         head |-> it.head]]]
  /\ UNCHANGED stood

\* A failed request for reviews or comments passes over its pull request, one for pulls
\* ends the poll.
AskFails ==
  /\ asker.pc \in {"pulls", "reviews", "comments"} /\ troubles < MaxTroubles
  /\ asker.pc = "reviews" => asker.left # <<>>
  /\ asker' = IF asker.pc = "pulls" THEN Resting
              ELSE [asker EXCEPT !.pc = "reviews", !.left = Tail(@), !.best = None]
  /\ troubles' = troubles + 1
  /\ UNCHANGED <<intakeVars, pulls, plan, stood>>

-----------------------------------------------------------------------------
(* The poller *)

\* The issue a Work Item was taken in from.
SourceOf(i) == items[i].dedupe_key[1]

\* matchingItems: by the issue if the record names one, else by the plan branch.
Matches(record, i) ==
  /\ items[i].lifecycle = "waiting_approval" /\ items[i].current_phase = record.phase
  /\ IF record.marker # None THEN SourceOf(i) = record.marker
     ELSE record.head = <<i, "plan">>

\* List the waiting items, once for all records.
ListWaiting ==
  /\ Asks("reviews") /\ asker.left = <<>>
  /\ asker' = [Resting EXCEPT !.pc = "match",
       !.todo = [n \in DOMAIN asker.records |->
          [record |-> asker.records[n],
           items |-> {i \in Items : Matches(asker.records[n], i)}]]]
  /\ UNCHANGED stood

This == Head(asker.todo)
ThisItem == Min(This.items)

\* processRecord is done, or returns the error and leaves out what it has left.
NextRecord == Tail(asker.todo)
NextMatch == <<[This EXCEPT !.items = @ \ {ThisItem}]>> \o Tail(asker.todo)

EndRecord ==
  /\ Asks("match") /\ asker.todo # <<>> /\ This.items = {}
  /\ asker' = [asker EXCEPT !.todo = NextRecord]
  /\ UNCHANGED stood

\* approveOptions: the plan's hash is taken from the file as it is now.
TakeEvidence ==
  /\ Asks("match") /\ asker.todo # <<>> /\ This.items # {}
  /\ LET phase == This.record.phase IN
     asker' = IF phase \notin Gated \/ (phase = "plan" /\ plan[ThisItem] = None)
              THEN [asker EXCEPT !.todo = NextRecord]
              ELSE [asker EXCEPT !.pc = "approve",
                      !.hash = IF phase = "plan" THEN plan[ThisItem] ELSE None]
  /\ UNCHANGED stood

\* Service.Approve: recorded, there already, or refused because the item has moved on.
Approve ==
  /\ asker.pc = "approve"
  /\ LET i == ThisItem
         phase == This.record.phase
         refused == /\ ~Approved(i, phase)
                    /\ items[i].lifecycle # "waiting_approval" \/ items[i].current_phase # phase
     IN /\ \/ RecordFactoryApproval(i, phase, asker.hash)
           \/ (refused \/ Approved(i, phase)) /\ UNCHANGED queueVars
        /\ asker' = [asker EXCEPT !.pc = "match", !.hash = None,
                       !.todo = IF refused THEN NextRecord ELSE NextMatch]
  /\ UNCHANGED <<clock, issues, cursor, poller, pulls, plan, stood, troubles>>

EndAsk ==
  /\ Asks("match") /\ asker.todo = <<>>
  /\ asker' = Resting
  /\ UNCHANGED stood

Ask ==
  \/ BeginAsk \/ AskPulls \/ AskReviews \/ AskComments \/ ListWaiting
  \/ EndRecord \/ TakeEvidence \/ Approve \/ EndAsk

-----------------------------------------------------------------------------
(* The items meanwhile *)

\* An item meets its next gate; the planner has written the plan by the first.
WaitAtGate(i) ==
  /\ Configured /\ items[i].lifecycle = "running"
  /\ \E p \in Gated :
       /\ p = "plan" <=> items[i].current_phase = "plan"
       /\ ~Approved(i, p)
       /\ UpdateFactoryWorkItemPhase(i, p, "waiting_approval")
       /\ IF p = "plan"
          THEN \E h \in Hashes : plan' = [plan EXCEPT ![i] = h]
          ELSE UNCHANGED plan
  /\ UNCHANGED <<clock, issues, cursor, poller, pulls, asker, stood, troubles>>

\* Somebody writes or removes the file while the item waits.
EditPlan(i) ==
  /\ Configured /\ items[i].lifecycle = "waiting_approval"
  /\ \E h \in (Hashes \cup {None}) \ {plan[i]} :
       plan' = [plan EXCEPT ![i] = h]
  /\ UNCHANGED <<queueVars, clock, issues, cursor, poller, pulls, asker, stood, troubles>>

\* The text is not the one that was approved.
StaleApproval(i) ==
  \E a \in approvals : a.item = i /\ a.phase = "plan" /\ a.plan_hash # plan[i]

\* An approved item goes on: past the plan it is implemented, past the last gate it ends.
PassGate(i) ==
  /\ Configured /\ items[i].lifecycle = "waiting_approval"
  /\ Approved(i, items[i].current_phase)
  /\ \/ StaleApproval(i) /\ FailFactoryWorkItem(i, "phase")
     \/ /\ ~StaleApproval(i) /\ items[i].current_phase = "plan"
        /\ UpdateFactoryWorkItemPhase(i, "implement", "running")
     \/ /\ ~StaleApproval(i) /\ items[i].current_phase # "plan"
        /\ CompleteFactoryWorkItem(i)
  /\ UNCHANGED <<clock, issues, cursor, poller, pullVars>>

\* Issues are opened and taken in beside all this; without gates items just end.
TakesIn ==
  /\ \/ \E x \in Issues : EditIssue(x)
     \/ \E p \in Pollers : Poll(p) \/ PollFails(p)
     \/ \E i \in Items : Take(i) \/ (~Configured /\ Finish(i)) \/ Cancel(i)
  /\ UNCHANGED pullVars

PullNext ==
  \/ TakesIn \/ Ask \/ AskFails
  \/ \E x \in Pulls : OpenPull(x) \/ MovePull(x) \/ Speak(x) \/ Dismiss(x)
  \/ \E i \in Items : WaitAtGate(i) \/ EditPlan(i) \/ PassGate(i)

PullSpec == PullInit /\ [][PullNext]_approvalVars

\* The poller of approvals ticks for ever.
AsksForEver == WF_approvalVars(Ask)

-----------------------------------------------------------------------------
\* Pull request x speaks for item i.
SpeaksFor(x, i) ==
  IF pulls[x].marker # None THEN SourceOf(i) = pulls[x].marker ELSE pulls[x].head = <<i, "plan">>

\* "The most recent signal wins": what a poll approves was the latest word on a pull
\* request of the item at some moment of that poll, though reviews and comments come in
\* two requests and people go on meanwhile (latestDecision, processRecord).
ApprovalsAreDecided ==
  []PullTypeOK /\ [][\A a \in approvals' \ approvals : \E x \in stood : SpeaksFor(x, a.item)]_approvalVars

\* An item whose pull request stays approved passes its gate, also when another item of
\* the batch cannot be approved or a request fails (poll, processRecord).
ReadyFor(x, i) ==
  /\ items[i].lifecycle = "waiting_approval" /\ items[i].current_phase \in ToSet(Served)
  /\ SpeaksFor(x, i) /\ Approving(pulls[x])
  /\ pulls[x].state = "open" /\ pulls[x].head # <<None, "other">>
  /\ items[i].current_phase = "plan" => plan[i] # None
ApprovedItemsGoOn ==
  \A x \in Pulls, i \in Items :
    ReadyFor(x, i) ~> (~ReadyFor(x, i) \/ Approved(i, items[i].current_phase))
=============================================================================
