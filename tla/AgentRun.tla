------------------------------- MODULE AgentRun -------------------------------
(***************************************************************************)
(* Agent targets (internal/target/agent*.go, policy.go, internal/          *)
(* agentprovider): an implementer works in its own clone, attempt after    *)
(* attempt; a generated policy target runs required targets and reviewers  *)
(* on the commit; a merge agent takes the reviewed commit to main.         *)
(* Providers, reviewers and required targets are programs nobody trusts:   *)
(* they may do anything to the workspace, to the main checkout and to      *)
(* Bach's own evidence, and what they did is found out afterwards.         *)
(* A commit is the set of the commits it contains.                         *)
(***************************************************************************)
EXTENDS Naturals

CONSTANTS
  Implementers, \* invocations of the implementer that may overlap
  Mergers,      \* invocations of the merge agent that may overlap
  Reviewers,    \* reviewers of the attached policy
  MaxCommits,   \* bound: commits made in all
  MaxAttempts,  \* improve.max_attempts
  Providers,    \* types of the implementer's provider, as they may be
  Relaxed,      \* BACH_CHECKOUT_GUARD=relaxed
  None          \* no commit, no workspace, no report

ASSUME AgentAssumption ==
  /\ MaxCommits \in Nat /\ MaxAttempts \in Nat \ {0}
  /\ Implementers \cap Mergers = {}
  /\ Providers \subseteq {"agent", "opencode"} /\ Relaxed \in BOOLEAN
  /\ \A commit \in SUBSET (1 .. MaxCommits) : commit # None

VARIABLES
  provider,  \* type of the implementer's provider; it does not change
  made,      \* commits made so far
  main,      \* the main checkout
  ws,        \* the clone of the implementer, None before the first
  verdicts,  \* latest applied-policy artifact of each commit, with the status of its run
  run,       \* by invocation: the locals of Execute and of the policy target below it
  reviewed   \* history: commits at which every reviewer was content

agentVars == <<provider, made, main, ws, verdicts, run, reviewed>>

Runs == Implementers \cup Mergers

OpenCode == provider = "opencode"

Commits == SUBSET (1 .. MaxCommits)

\* Its HEAD, and damage that a snapshot compares: its branch, its git status, what
\* status does not show (git metadata, ignored files).
Checkouts == [head : Commits, damage : {"none", "branch", "status", "hidden"}]

\* The tip of the configured branch; what is checked out; uncommitted changes.
Clones == [tip : Commits, head : Commits, on : BOOLEAN, dirty : BOOLEAN]

ASSUME NoneAssumption == None \notin Clones

\* The verdict of a policy run, and whether that run has ended with success.
Artifacts == [commit : Commits, by : Runs, passed : BOOLEAN, success : BOOLEAN]

Phases ==
  {"idle", "prepare", "attempt", "provider", "judge", "policy", "required", "reviews", "review",
   "collect", "close", "decide", "evidence", "merge", "judge_merge", "returned"}

AgentState ==
  [pc : Phases,
   attempt : 1 .. MaxAttempts,
   source : Commits,             \* the project's HEAD at the start
   before : Commits, after : Commits,
   snap : {None} \cup Checkouts, \* projectCheckoutSnapshot
   touched : BOOLEAN,            \* Bach's evidence has changed since trustedEvidenceSnapshot
   meddled : BOOLEAN,            \* history: the program did that, or changed the checkout
   session : BOOLEAN,            \* the last attempt left an opencode session
   report : {None} \cup Commits, \* commit reported as passed, with an exit code to match
   subject : Commits,            \* what the policy target judges
   review : [Reviewers -> {"todo", "running", "fooled", "content", "finding"}],
   passed : BOOLEAN,             \* verdict of the policy
   status : {"none", "success", "failed"}]

AgentTypeOK ==
  /\ provider \in Providers
  /\ made \in 0 .. MaxCommits
  /\ main \in Checkouts
  /\ ws \in {None} \cup Clones
  /\ verdicts \subseteq Artifacts
  /\ run \in [Runs -> AgentState]
  /\ reviewed \subseteq Commits

Unreviewed == [v \in Reviewers |-> "todo"]

Fresh ==
  [pc |-> "idle", attempt |-> 1, source |-> {}, before |-> {}, after |-> {},
   snap |-> None, touched |-> FALSE, meddled |-> FALSE, session |-> FALSE,
   report |-> None, subject |-> {}, review |-> Unreviewed, passed |-> FALSE, status |-> "none"]

AgentInit ==
  /\ provider \in Providers
  /\ made = 0
  /\ main = [head |-> {}, damage |-> "none"]
  /\ ws = None
  /\ verdicts = {}
  /\ run = [r \in Runs |-> Fresh]
  /\ reviewed = {}

IsAncestor(c, d) == c \subseteq d

Step(r, f) == run' = [run EXCEPT ![r] = f]

\* Returning drops the locals that no property looks at.
Succeeded(x) ==
  [Fresh EXCEPT !.pc = "returned", !.after = x.after, !.report = x.report, !.meddled = x.meddled,
                !.status = "success"]

Fail(r) == Step(r, [Fresh EXCEPT !.pc = "returned", !.status = "failed"])

\* Who holds a snapshot of the evidence will see that it has changed: the policies'
\* artifacts and the rows of policy runs, targets, ledgers and approvals.
Sees(x) ==
  CASE x.pc \in {"provider", "merge"} -> [x EXCEPT !.touched = TRUE]
    [] x.pc = "review" ->
         [x EXCEPT !.review =
            [v \in Reviewers |-> IF @[v] = "running" THEN "fooled" ELSE @[v]]]
    [] OTHER -> x

\* Run r goes on as f and has changed Bach's evidence.
StepAndRecord(r, f) == run' = [q \in Runs |-> IF q = r THEN f ELSE Sees(run[q])]

-----------------------------------------------------------------------------
(* What a program nobody trusts may do *)

Made == made' = made + 1
New == made + 1

ChangeClone ==
  \/ \* a commit, after which nothing is left uncommitted
     /\ made < MaxCommits /\ Made
     /\ ws' = [ws EXCEPT !.head = @ \cup {New}, !.tip = IF ws.on THEN ws.head \cup {New} ELSE @,
                         !.dirty = FALSE]
  \/ \* a history of its own
     /\ made < MaxCommits /\ Made
     /\ ws' = [ws EXCEPT !.head = {New}, !.tip = IF ws.on THEN {New} ELSE @, !.dirty = FALSE]
  \/ ~ws.dirty /\ ws' = [ws EXCEPT !.dirty = TRUE] /\ UNCHANGED made
  \/ \* another branch, or back to its own
     /\ ws' = [ws EXCEPT !.on = ~@, !.head = IF ws.on THEN @ ELSE ws.tip]
     /\ UNCHANGED made

\* A commit on top of what main holds.
Advance == made < MaxCommits /\ Made /\ main' = [main EXCEPT !.head = @ \cup {New}]

\* Damage to the main checkout, which nobody undoes unnoticed.
Spoil ==
  /\ main.damage = "none" /\ UNCHANGED made
  /\ \E damage \in {"branch", "status", "hidden"} : main' = [main EXCEPT !.damage = damage]

Damage ==
  \/ Spoil
  \/ main.head # {} /\ made < MaxCommits /\ Made /\ main' = [main EXCEPT !.head = {New}]

-----------------------------------------------------------------------------
(* Execute: an implementer's run *)

Start(r) ==
  /\ run[r].pc = "idle"
  /\ Step(r, [Fresh EXCEPT !.pc = "prepare", !.source = main.head])
  /\ UNCHANGED <<provider, made, main, ws, verdicts, reviewed>>

\* prepareWorkspace, prepareExistingWorkspace: a clone that is there must be clean,
\* is switched to its branch, and must contain the project's HEAD.
PrepareWorkspace(r) ==
  /\ run[r].pc = "prepare"
  /\ \/ /\ ws = None
        /\ ws' = [tip |-> main.head, head |-> main.head, on |-> TRUE, dirty |-> FALSE]
        /\ Step(r, [run[r] EXCEPT !.pc = "attempt", !.source = {}])
     \/ /\ ws # None /\ ws.dirty
        /\ Fail(r)
        /\ UNCHANGED ws
     \/ /\ ws # None /\ ~ws.dirty
        /\ ws' = [ws EXCEPT !.on = TRUE, !.head = ws.tip]
        /\ IF IsAncestor(run[r].source, ws.tip)
           THEN Step(r, [run[r] EXCEPT !.pc = "attempt", !.source = {}])
           ELSE Fail(r)
  /\ UNCHANGED <<provider, made, main, verdicts, reviewed>>

\* validateOpenCodeResume
MayResume(r) == run[r].session /\ ws.on

\* What the attempt begins with: its prompt and context are written and no report is.
Begun(x) ==
  [x EXCEPT !.before = ws.head, !.snap = main, !.touched = FALSE, !.meddled = FALSE,
            !.report = None, !.session = FALSE]

\* The attempt's commit, artifacts and snapshots.  A later opencode attempt resumes
\* the session of the one before, or fails without starting anything.  A file or git
\* may fail, git does when the run is cancelled.
BeginAttempt(r) ==
  /\ run[r].pc = "attempt"
  /\ \/ Fail(r)
     \/ IF OpenCode /\ run[r].attempt > 1 /\ ~MayResume(r)
        THEN Step(r, [Begun(run[r]) EXCEPT !.pc = "judge"])
        ELSE Step(r, [Begun(run[r]) EXCEPT !.pc = "provider"])
  /\ UNCHANGED <<provider, made, main, ws, verdicts, reviewed>>

ProviderWorks(r) ==
  /\ run[r].pc = "provider"
  /\ ChangeClone
  /\ UNCHANGED <<provider, main, verdicts, run, reviewed>>

\* The relaxed guard takes an advance for an operator's.
ProviderMeddles(r) ==
  /\ run[r].pc = "provider" /\ ~run[r].meddled
  /\ \/ Advance /\ Step(r, [run[r] EXCEPT !.meddled = ~Relaxed])
     \/ Damage /\ Step(r, [run[r] EXCEPT !.meddled = TRUE])
     \/ /\ StepAndRecord(r, [run[r] EXCEPT !.meddled = TRUE, !.touched = TRUE])
        /\ UNCHANGED <<made, main>>
  /\ UNCHANGED <<provider, ws, verdicts, reviewed>>

\* Its exit code and its report may say that it has passed, with the commit it has made.
\* An opencode passes only if its events could be read and have told its session.
Outcomes ==
  {o \in [session : BOOLEAN, report : {ws.head, None}] :
     IF OpenCode THEN o.report # None => o.session ELSE ~o.session}

ProviderExits(r) ==
  /\ run[r].pc = "provider"
  /\ \E o \in Outcomes :
       Step(r, [run[r] EXCEPT !.pc = "judge", !.session = o.session, !.report = o.report])
  /\ UNCHANGED <<provider, made, main, ws, verdicts, reviewed>>

\* Slip: only the head is compared.
HeadUnchanged(snap) == main.head = snap.head

\* validateProjectCheckoutSnapshot.  The relaxed guard lets HEAD move forward, and
\* then looks at nothing else.
CheckoutUnchanged(snap) ==
  /\ main.damage = "branch" <=> snap.damage = "branch"
  /\ IF main.head # snap.head
     THEN Relaxed /\ IsAncestor(snap.head, main.head)
     ELSE main.damage = snap.damage

\* Slip: a new commit is enough.
NewCommit(r) == ws.head # run[r].before

\* git.commit = "required" and validateGitEvidence: a new commit on the configured
\* branch, which contains the one before, and nothing left uncommitted.
GitEvidence(r) ==
  /\ ws.head # run[r].before
  /\ ws.on /\ IsAncestor(run[r].before, ws.head) /\ ~ws.dirty

\* validateAgentReport, validateAgentReportStatus
Reported(r) == run[r].report # None /\ run[r].report = ws.head

\* What runProvider and Execute find out after the provider.  A failed attempt of a
\* command that leaves the clone dirty is the last one.
JudgeAttempt(r) ==
  LET good == /\ CheckoutUnchanged(run[r].snap) /\ ~run[r].touched
              /\ GitEvidence(r) /\ Reported(r)
      last == ~OpenCode /\ ws.dirty
      found == [run[r] EXCEPT !.snap = None, !.touched = FALSE, !.passed = FALSE,
                              !.after = ws.head]
  IN /\ run[r].pc = "judge"
     /\ CASE good -> Step(r, [found EXCEPT !.pc = "policy"])
          [] ~good /\ last -> Fail(r)
          [] OTHER -> Step(r, [found EXCEPT !.pc = "decide"])
     /\ UNCHANGED <<provider, made, main, ws, verdicts, reviewed>>

AttemptsLeft(r) == run[r].attempt < MaxAttempts

\* The attempt's feedback and history are written; then success, another attempt or
\* the end.  Success records the target's own state.
Decide(r) ==
  /\ run[r].pc = "decide"
  /\ IF run[r].passed THEN StepAndRecord(r, Succeeded(run[r]))
     ELSE IF AttemptsLeft(r)
     THEN Step(r, [run[r] EXCEPT !.pc = "attempt", !.attempt = @ + 1, !.subject = {},
                                 !.review = Unreviewed])
     ELSE Fail(r)
  /\ UNCHANGED <<provider, made, main, ws, verdicts, reviewed>>

-----------------------------------------------------------------------------
(* The generated policy target *)

\* runAgentPolicyTarget: a run of its own.  It judges what is checked out now.
BeginPolicy(r) ==
  /\ run[r].pc = "policy"
  /\ StepAndRecord(r, [run[r] EXCEPT !.pc = "required", !.subject = ws.head])
  /\ UNCHANGED <<provider, made, main, ws, verdicts, reviewed>>

\* Required targets run in the clone; they are commands, and may change it.
RequiredTargetWorks(r) ==
  /\ run[r].pc = "required"
  /\ ChangeClone
  /\ UNCHANGED <<provider, main, verdicts, run, reviewed>>

\* validateReviewedWorkspaceUnchanged
SubjectUnchanged(r) == ws.head = run[r].subject /\ ws.on /\ ~ws.dirty

RequiredTargetsEnd(r) ==
  /\ run[r].pc = "required"
  /\ \/ SubjectUnchanged(r) /\ Step(r, [run[r] EXCEPT !.pc = "review", !.snap = main])
     \/ Step(r, [run[r] EXCEPT !.pc = "collect", !.passed = FALSE])
  /\ UNCHANGED <<provider, made, main, ws, verdicts, reviewed>>

StepReviewer(r, v, at) == Step(r, [run[r] EXCEPT !.review[v] = at])

StartReviewer(r, v) ==
  /\ run[r].pc = "review" /\ run[r].review[v] = "todo"
  /\ StepReviewer(r, v, "running")
  /\ UNCHANGED <<provider, made, main, ws, verdicts, reviewed>>

\* A reviewer that changes Bach's evidence shows all that are running a change.
ReviewerWorks(r, v) ==
  /\ run[r].pc = "review" /\ run[r].review[v] \in {"running", "fooled"}
  /\ \/ ChangeClone /\ UNCHANGED <<main, run>>
     \/ /\ ~run[r].meddled /\ UNCHANGED ws
        /\ \/ Advance /\ Step(r, [run[r] EXCEPT !.meddled = ~Relaxed])
           \/ Damage /\ Step(r, [run[r] EXCEPT !.meddled = TRUE])
     \/ /\ StepAndRecord(r, [Sees(run[r]) EXCEPT !.meddled = TRUE])
        /\ UNCHANGED <<made, main, ws>>
  /\ UNCHANGED <<provider, verdicts, reviewed>>

\* runOneReviewerProvider: it exits, and reports on the subject or will not do.
EndReviewer(r, v) ==
  /\ run[r].pc = "review" /\ run[r].review[v] \in {"running", "fooled"}
  /\ \E at \in {"content", "finding"} :
       /\ at = "content" => run[r].review[v] = "running"
       /\ StepReviewer(r, v, at)
  /\ UNCHANGED <<provider, made, main, ws, verdicts, reviewed>>

NoFindings(r) == \A v \in Reviewers : run[r].review[v] = "content"

\* Slip: findings are all that counts.
FindingsOnly(r) == NoFindings(r)

\* runReviewPolicy: what reviewers found, and what they did to the clone and to the
\* main checkout.
PolicyPasses(r) ==
  /\ NoFindings(r) /\ SubjectUnchanged(r) /\ CheckoutUnchanged(run[r].snap)

\* When all reviewers have ended.
CollectReviews(r) ==
  /\ run[r].pc = "review" /\ \A v \in Reviewers : run[r].review[v] \in {"content", "finding"}
  /\ Step(r, [run[r] EXCEPT !.pc = "collect", !.snap = None, !.review = Unreviewed,
                            !.passed = PolicyPasses(r)])
  /\ reviewed' = IF NoFindings(r) /\ SubjectUnchanged(r) THEN reviewed \cup {run[r].subject} ELSE reviewed
  /\ UNCHANGED <<provider, made, main, ws, verdicts>>

\* The latest artifact of a commit hides the ones before.
Replace(artifact) == {a \in verdicts : a.commit # artifact.commit} \cup {artifact}

\* WriteAppliedPolicyArtifact, while the policy's run is still running.  Where
\* something else has failed there may be none.
WriteVerdict(r) ==
  /\ run[r].pc = "collect"
  /\ \/ /\ verdicts' = Replace([commit |-> run[r].subject, by |-> r,
                                passed |-> run[r].passed, success |-> FALSE])
        /\ StepAndRecord(r, [run[r] EXCEPT !.pc = "close"])
     \/ /\ Step(r, [run[r] EXCEPT !.pc = "close", !.passed = FALSE])
        /\ UNCHANGED verdicts
  /\ UNCHANGED <<provider, made, main, ws, reviewed>>

\* The policy's run ends: its row, and with it the verdict, is now final.  It may
\* fail for another reason than its findings.
ClosePolicy(r) ==
  /\ run[r].pc = "close"
  /\ \E passed \in {run[r].passed, FALSE} :
       /\ StepAndRecord(r, [run[r] EXCEPT !.pc = "decide", !.passed = passed])
       /\ verdicts' = {IF a.commit = run[r].subject /\ a.by = r
                       THEN [a EXCEPT !.success = passed] ELSE a : a \in verdicts}
  /\ UNCHANGED <<provider, made, main, ws, reviewed>>

-----------------------------------------------------------------------------
(* executeMerge *)

\* The subject's clone is on its branch and clean; its commit is the subject.
StartMerge(r) ==
  /\ run[r].pc = "idle"
  /\ IF ws # None /\ ws.on /\ ~ws.dirty
     THEN Step(r, [Fresh EXCEPT !.pc = "evidence", !.after = ws.head])
     ELSE Fail(r)
  /\ UNCHANGED <<provider, made, main, ws, verdicts, reviewed>>

\* Slip: the artifact may be of another commit of the subject.
AnyPolicyEvidence(commit) == \E a \in verdicts : a.passed /\ a.success

\* latestPassingPolicyEvidence, policyEvidenceRunPassed
PolicyEvidence(commit) == \E a \in verdicts : a.commit = commit /\ a.passed /\ a.success

CheckEvidence(r) ==
  /\ run[r].pc = "evidence"
  /\ IF PolicyEvidence(run[r].after)
     THEN Step(r, [run[r] EXCEPT !.pc = "merge", !.snap = main])
     ELSE Fail(r)
  /\ UNCHANGED <<provider, made, main, ws, verdicts, reviewed>>

\* The provider merges the subject into what main holds, or moves main forward to it.
MergeProviderMerges(r) ==
  /\ run[r].pc = "merge"
  /\ ~IsAncestor(run[r].after, main.head)
  /\ \/ /\ made < MaxCommits /\ Made
        /\ main' = [main EXCEPT !.head = @ \cup run[r].after \cup {New}]
     \/ /\ IsAncestor(main.head, run[r].after) /\ UNCHANGED made
        /\ main' = [main EXCEPT !.head = run[r].after]
  /\ UNCHANGED <<provider, ws, verdicts, run, reviewed>>

MergeProviderMeddles(r) ==
  /\ run[r].pc = "merge"
  /\ \/ Spoil /\ UNCHANGED run
     \/ /\ StepAndRecord(r, [run[r] EXCEPT !.touched = TRUE])
        /\ UNCHANGED <<made, main>>
  /\ UNCHANGED <<provider, ws, verdicts, reviewed>>

\* It reports the commit main holds, or will not do, and exits.
MergeProviderExits(r) ==
  /\ run[r].pc = "merge"
  /\ \E commit \in {main.head, None} :
       Step(r, [run[r] EXCEPT !.pc = "judge_merge", !.report = commit])
  /\ UNCHANGED <<provider, made, main, ws, verdicts, reviewed>>

\* validateMergeReport, validateCommitEvidence
MergeReported(r) == run[r].report # None /\ IsAncestor(run[r].after, run[r].report)

JudgeMerge(r) ==
  /\ run[r].pc = "judge_merge"
  /\ IF /\ ~run[r].touched /\ MergeReported(r)
        /\ main.damage = "status" <=> run[r].snap.damage = "status"
     THEN StepAndRecord(r, Succeeded(run[r]))
     ELSE Fail(r)
  /\ UNCHANGED <<provider, made, main, ws, verdicts, reviewed>>

-----------------------------------------------------------------------------
(* Around the agents *)

\* People keep committing to main, and editing there.
OperatorCommits ==
  /\ Advance
  /\ UNCHANGED <<provider, ws, verdicts, run, reviewed>>

\* Another `bach`, a daemon or a plan batch of this project stores something.
OthersRecord ==
  /\ run' = [q \in Runs |-> Sees(run[q])]
  /\ UNCHANGED <<provider, made, main, ws, verdicts, reviewed>>

\* The process dies, at any point; or has returned.  Someone may start it again.
Leave(r) ==
  /\ run[r].pc # "idle"
  /\ Step(r, Fresh)
  /\ UNCHANGED <<provider, made, main, ws, verdicts, reviewed>>

Implementing(r) ==
  \/ Start(r) \/ PrepareWorkspace(r) \/ BeginAttempt(r) \/ JudgeAttempt(r) \/ Decide(r)
  \/ ProviderWorks(r) \/ ProviderMeddles(r) \/ ProviderExits(r)

Policing(r) ==
  \/ BeginPolicy(r) \/ RequiredTargetWorks(r) \/ RequiredTargetsEnd(r)
  \/ \E v \in Reviewers : StartReviewer(r, v) \/ ReviewerWorks(r, v) \/ EndReviewer(r, v)
  \/ CollectReviews(r) \/ WriteVerdict(r) \/ ClosePolicy(r)

Merging(r) ==
  \/ StartMerge(r) \/ CheckEvidence(r) \/ MergeProviderMerges(r) \/ MergeProviderMeddles(r)
  \/ MergeProviderExits(r) \/ JudgeMerge(r)

AgentNext ==
  \/ \E r \in Implementers : Implementing(r) \/ Policing(r)
  \/ \E r \in Mergers : Merging(r)
  \/ \E r \in Runs : Leave(r)
  \/ OperatorCommits \/ OthersRecord

AgentSpec == AgentInit /\ [][AgentNext]_agentVars

-----------------------------------------------------------------------------
Passes(r) == run[r].status = "none" /\ run'[r].status = "success"

\* An implementer passes only when its clone is, after the required targets and the
\* reviewers have run in it as well, where the report says: on the configured branch,
\* clean, at a commit made in the last attempt that contains the one before it (Execute).
PassedMeansEvidence ==
  [][\A r \in Implementers : Passes(r) =>
       /\ ws.head = run'[r].report /\ ws.on /\ ~ws.dirty
       /\ run[r].before # ws.head /\ IsAncestor(run[r].before, ws.head)]_agentVars

\* The commit an implementer passes with is one that all reviewers were content with
\* (agentAttemptReport.Commit against the subject of the policy target).
PassedIsReviewed ==
  \A r \in Implementers : run[r].status = "success" => run[r].after \in reviewed

\* No attempt passes in which the provider or a reviewer changed the main checkout or
\* Bach's evidence, whatever others did to both meanwhile
\* (validateProjectCheckoutSnapshot, validateTrustedEvidenceUnchanged).
DamageNeverPasses ==
  \A r \in Implementers : run[r].status = "success" => ~run[r].meddled

\* A merge provider is started for reviewed commits only, and a merge that passes has
\* put one into main: through crashes between the verdict and the end of its run, and
\* while the implementer goes on (latestPassingPolicyEvidence, validateCommitEvidence).
MergeOnlyReviewed ==
  \A r \in Mergers :
    /\ run[r].pc \in {"merge", "judge_merge"} => run[r].after \in reviewed
    /\ run[r].status = "success" =>
         run[r].after \in reviewed /\ IsAncestor(run[r].after, run[r].report)

\* The same, in runs whose locals and records stay well-formed.
MergesAreSound == AgentTypeOK /\ MergeOnlyReviewed

\* Docs: an attempt fails if policy evidence or Bach's state changes "outside Bach's own
\* writes" (validateTrustedEvidenceUnchanged).
OnlyMeddlersAreBlamed ==
  \A r \in Implementers : run[r].pc = "judge" /\ run[r].touched => run[r].meddled

\* Docs: providers "require the main checkout to be clean before invocation"
\* (projectCheckoutSnapshot).
CleanBeforeProvider ==
  [][\A r \in Implementers :
       run[r].pc = "attempt" /\ run'[r].pc = "provider" => main.damage # "status"]_agentVars
=============================================================================
