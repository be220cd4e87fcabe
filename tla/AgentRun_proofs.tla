---------------------------- MODULE AgentRun_proofs ----------------------------
(***************************************************************************)
(* Agent targets, proved: for any number of implementers, merge agents,    *)
(* reviewers, attempts and commits every state is well-formed, only        *)
(* reviewed commits are merged, and no implementer passes after its        *)
(* program or a reviewer has damaged the main checkout or the evidence.    *)
(* One that has the clone for itself passes only with a reviewed commit.   *)
(***************************************************************************)
EXTENDS AgentRun, TLAPS

\* What nobody's records change of the locals of a run.
Untouched(y, x) ==
  /\ y.pc = x.pc /\ y.before = x.before /\ y.after = x.after /\ y.report = x.report
  /\ y.subject = x.subject /\ y.passed = x.passed /\ y.status = x.status

\* What a step of run r does to the runs.
StepOf(r, f) == run'[r] = f /\ \A q \in Runs \ {r} : Untouched(run'[q], run[q])

\* A run that begins is well-formed.
LEMMA FreshType == Fresh \in AgentState
  <1>1. Unreviewed \in [Reviewers -> {"todo", "running", "fooled", "content", "finding"}]
    BY DEF Unreviewed
  <1> QED BY <1>1, AgentAssumption DEF Fresh, AgentState, Phases, Commits

\* A run that returns with success is well-formed.
LEMMA SucceededType ==
  ASSUME NEW x \in AgentState PROVE Succeeded(x) \in AgentState
  BY FreshType DEF Succeeded, AgentState, Phases, Commits

\* A record of others leaves a run well-formed, and what it has found out alone.
LEMMA SeesType ==
  ASSUME NEW x \in AgentState
  PROVE  Sees(x) \in AgentState /\ Untouched(Sees(x), x)
  <1>1. CASE x.pc \in {"provider", "merge"}
    <2>1. Sees(x) = [x EXCEPT !.touched = TRUE]
      BY <1>1 DEF Sees
    <2> QED BY <2>1 DEF AgentState, Untouched
  <1>2. CASE x.pc = "review"
    <2> DEFINE fooled == [v \in Reviewers |-> IF x.review[v] = "running" THEN "fooled" ELSE x.review[v]]
    <2>1. Sees(x) = [x EXCEPT !.review = fooled]
      BY <1>2 DEF Sees
    <2>2. fooled \in [Reviewers -> {"todo", "running", "fooled", "content", "finding"}]
      BY DEF AgentState
    <2> HIDE DEF fooled
    <2> QED BY <2>1, <2>2 DEF AgentState, Untouched
  <1>3. CASE x.pc \notin {"provider", "merge", "review"}
    <2>1. Sees(x) = x
      BY <1>3 DEF Sees
    <2> QED BY <2>1 DEF Untouched
  <1> QED BY <1>1, <1>2, <1>3

\* A step of one run, without and with a record that the others see.
LEMMA StepType ==
  ASSUME run \in [Runs -> AgentState], NEW r \in Runs, NEW f \in AgentState,
         Step(r, f) \/ StepAndRecord(r, f)
  PROVE  run' \in [Runs -> AgentState] /\ StepOf(r, f)
  <1>1. CASE Step(r, f)
    BY <1>1 DEF Step, StepOf, Untouched
  <1>2. CASE StepAndRecord(r, f)
    <2>1. \A q \in Runs : Sees(run[q]) \in AgentState /\ Untouched(Sees(run[q]), run[q])
      BY SeesType
    <2> QED BY <1>2, <2>1 DEF StepAndRecord, StepOf
  <1> QED BY <1>1, <1>2

\* The commits, the clone and the main checkout stay well-formed whatever a program does.
LEMMA CloneType ==
  ASSUME AgentTypeOK, ws \in Clones, ChangeClone
  PROVE  made' \in 0 .. MaxCommits /\ ws' \in Clones
  <1>1. ws \in Clones /\ made \in 0 .. MaxCommits /\ MaxCommits \in Nat
    BY AgentAssumption DEF AgentTypeOK
  <1>2. ASSUME made < MaxCommits
        PROVE  \A c \in Commits : c \cup {New} \in Commits /\ {New} \in Commits
    BY <1>1, <1>2 DEF New, Commits
  <1>3. ASSUME made < MaxCommits, Made PROVE made' \in 0 .. MaxCommits
    BY <1>1, <1>3 DEF Made
  <1>4. ws.head \in Commits /\ ws.tip \in Commits /\ ws.on \in BOOLEAN /\ ws.dirty \in BOOLEAN
    BY <1>1 DEF Clones
  <1>5. CASE /\ made < MaxCommits /\ Made
             /\ ws' = [ws EXCEPT !.head = @ \cup {New},
                         !.tip = IF ws.on THEN ws.head \cup {New} ELSE @, !.dirty = FALSE]
    <2>1. ws.head \cup {New} \in Commits
      BY <1>2, <1>4, <1>5
    <2> QED BY <2>1, <1>1, <1>3, <1>4, <1>5 DEF Clones
  <1>6. CASE /\ made < MaxCommits /\ Made
             /\ ws' = [ws EXCEPT !.head = {New}, !.tip = IF ws.on THEN {New} ELSE @,
                         !.dirty = FALSE]
    <2>1. {New} \in Commits
      BY <1>2, <1>4, <1>6
    <2> QED BY <2>1, <1>1, <1>3, <1>4, <1>6 DEF Clones
  <1>7. CASE ~ws.dirty /\ ws' = [ws EXCEPT !.dirty = TRUE] /\ UNCHANGED made
    BY <1>1, <1>4, <1>7 DEF Clones
  <1>8. CASE /\ ws' = [ws EXCEPT !.on = ~@, !.head = IF ws.on THEN @ ELSE ws.tip]
             /\ UNCHANGED made
    BY <1>1, <1>4, <1>8 DEF Clones
  <1> QED BY <1>5, <1>6, <1>7, <1>8 DEF ChangeClone

LEMMA MainType ==
  ASSUME AgentTypeOK, Advance \/ Damage \/ Spoil
  PROVE  made' \in 0 .. MaxCommits /\ main' \in Checkouts
  <1>1. main \in Checkouts /\ made \in 0 .. MaxCommits /\ MaxCommits \in Nat
    BY AgentAssumption DEF AgentTypeOK
  <1>2. main.head \in Commits
    BY <1>1 DEF Checkouts
  <1>3. ASSUME made < MaxCommits, Made
        PROVE  /\ made' \in 0 .. MaxCommits
               /\ main.head \cup {New} \in Commits /\ {New} \in Commits
    BY <1>1, <1>2, <1>3 DEF New, Made, Commits
  <1>4. CASE Advance
    BY <1>1, <1>3, <1>4 DEF Advance, Checkouts
  <1>5. CASE Spoil
    BY <1>1, <1>5 DEF Spoil, Checkouts
  <1>6. CASE Damage
    BY <1>1, <1>3, <1>5, <1>6 DEF Damage, Checkouts
  <1> QED BY <1>4, <1>5, <1>6

-----------------------------------------------------------------------------
(* Types *)

\* A run that has prepared its workspace has one.
Prepared(r) == run[r].pc \notin {"idle", "prepare", "returned"} => ws \in Clones

HasClone == \A r \in Implementers : Prepared(r)

LEMMA Kinds ==
  /\ Implementers \subseteq Runs /\ Mergers \subseteq Runs
  /\ \A r \in Mergers : r \notin Implementers
  BY AgentAssumption DEF Runs

\* Every step but a changed workspace, checkout or verdict is a step of one run.
LEMMA TypesKept ==
  ASSUME AgentTypeOK, HasClone, AgentNext
  PROVE  AgentTypeOK'
  <1> USE Kinds
  <1>0. /\ run \in [Runs -> AgentState]
        /\ \A r \in Runs : run[r] \in AgentState
        /\ main \in Checkouts /\ made \in 0 .. MaxCommits /\ ws \in {None} \cup Clones
        /\ verdicts \subseteq Artifacts /\ reviewed \subseteq Commits
    BY DEF AgentTypeOK
  <1>w. ws \in Clones => ws.head \in Commits /\ ws.tip \in Commits
    BY <1>0 DEF Clones
  <1>h. main.head \in Commits
    BY <1>0 DEF Checkouts
  <1>f. Fresh \in AgentState
    BY FreshType
  <1>s. \A r \in Runs : Succeeded(run[r]) \in AgentState
    BY <1>0, SucceededType
  <1>q. ASSUME NEW r \in Runs, Fail(r) PROVE run' \in [Runs -> AgentState]
    <2> DEFINE failed == [Fresh EXCEPT !.pc = "returned", !.status = "failed"]
    <2>1. failed \in AgentState
      BY <1>f DEF AgentState, Phases
    <2>2. Step(r, failed)
      BY <1>q DEF Fail
    <2> HIDE DEF failed
    <2> QED BY <2>1, <2>2, <1>0, StepType
  <1>g. ASSUME NEW r \in Runs, NEW f \in AgentState, Step(r, f) \/ StepAndRecord(r, f)
        PROVE  run' \in [Runs -> AgentState]
    BY <1>0, <1>g, StepType
  <1>1. ASSUME NEW r \in Implementers, Start(r) PROVE AgentTypeOK'
    <2>1. [Fresh EXCEPT !.pc = "prepare", !.source = main.head] \in AgentState
      BY <1>f, <1>h DEF AgentState, Phases
    <2> QED BY <2>1, <1>1, <1>g DEF Start, AgentTypeOK
  <1>2. ASSUME NEW r \in Implementers, PrepareWorkspace(r) PROVE AgentTypeOK'
    <2>0. run[r] \in AgentState
      BY <1>0
    <2>1. [run[r] EXCEPT !.pc = "attempt", !.source = {}] \in AgentState
      BY <2>0 DEF AgentState, Phases, Commits
    <2>2. run' \in [Runs -> AgentState]
      BY <2>1, <1>2, <1>q, <1>g DEF PrepareWorkspace
    <2>3. CASE ws = None
      <3>1. [tip |-> main.head, head |-> main.head, on |-> TRUE, dirty |-> FALSE] \in Clones
        BY <1>h DEF Clones
      <3>2. ws' \in {None} \cup Clones
        BY <3>1, <2>3, <1>2 DEF PrepareWorkspace
      <3> QED BY <3>2, <2>2, <1>2 DEF PrepareWorkspace, AgentTypeOK
    <2>4. CASE ws # None
      <3>1. ws \in Clones
        BY <2>4, <1>0
      <3>2. [ws EXCEPT !.on = TRUE, !.head = ws.tip] \in Clones
        BY <3>1, <1>w DEF Clones
      <3>3. ws' \in {None} \cup Clones
        BY <3>1, <3>2, <2>4, <1>2 DEF PrepareWorkspace
      <3> QED BY <3>3, <2>2, <1>2 DEF PrepareWorkspace, AgentTypeOK
    <2> QED BY <2>3, <2>4
  <1>3. ASSUME NEW r \in Implementers, BeginAttempt(r) PROVE AgentTypeOK'
    <2>0. run[r] \in AgentState
      BY <1>0
    <2>1. ws \in Clones
      BY <1>3 DEF HasClone, Prepared, BeginAttempt
    <2>m. main \in Checkouts
      BY <1>0
    <2>2. Begun(run[r]) \in AgentState
      BY <2>1, <2>0, <2>m, <1>w DEF Begun, AgentState
    <2>3. /\ [Begun(run[r]) EXCEPT !.pc = "judge"] \in AgentState
          /\ [Begun(run[r]) EXCEPT !.pc = "provider"] \in AgentState
      BY <2>2 DEF AgentState, Phases
    <2>4. run' \in [Runs -> AgentState]
      BY <2>3, <1>3, <1>q, <1>g DEF BeginAttempt
    <2> QED BY <2>4, <1>3 DEF BeginAttempt, AgentTypeOK
  <1>4. ASSUME NEW r \in Implementers, ProviderWorks(r) \/ RequiredTargetWorks(r)
        PROVE  AgentTypeOK'
    <2>1. ws \in Clones
      BY <1>4 DEF HasClone, Prepared, ProviderWorks, RequiredTargetWorks
    <2> QED BY <2>1, <1>4, CloneType DEF ProviderWorks, RequiredTargetWorks, AgentTypeOK
  <1>5. ASSUME NEW r \in Implementers, ProviderMeddles(r) PROVE AgentTypeOK'
    <2>0. run[r] \in AgentState
      BY <1>0
    <2>1. /\ [run[r] EXCEPT !.meddled = ~Relaxed] \in AgentState
          /\ [run[r] EXCEPT !.meddled = TRUE] \in AgentState
          /\ [run[r] EXCEPT !.meddled = TRUE, !.touched = TRUE] \in AgentState
      BY <2>0, AgentAssumption DEF AgentState
    <2>2. run' \in [Runs -> AgentState]
      BY <2>1, <1>5, <1>g DEF ProviderMeddles
    <2>3. made' \in 0 .. MaxCommits /\ main' \in Checkouts
      BY <1>0, <1>5, MainType DEF ProviderMeddles
    <2> QED BY <2>2, <2>3, <1>5 DEF ProviderMeddles, AgentTypeOK
  <1>6. ASSUME NEW r \in Implementers, ProviderExits(r) PROVE AgentTypeOK'
    <2>0. run[r] \in AgentState
      BY <1>0
    <2>1. ws \in Clones
      BY <1>6 DEF HasClone, Prepared, ProviderExits
    <2>2. PICK o \in Outcomes :
            Step(r, [run[r] EXCEPT !.pc = "judge", !.session = o.session, !.report = o.report])
      BY <1>6 DEF ProviderExits
    <2>3. o.session \in BOOLEAN /\ o.report \in {None} \cup Commits
      BY <2>1, <1>w DEF Outcomes
    <2>4. [run[r] EXCEPT !.pc = "judge", !.session = o.session, !.report = o.report] \in AgentState
      BY <2>3, <2>0 DEF AgentState, Phases
    <2>5. run' \in [Runs -> AgentState]
      BY <2>2, <2>4, <1>g
    <2> QED BY <2>5, <1>6 DEF ProviderExits, AgentTypeOK
  <1>7. ASSUME NEW r \in Implementers, JudgeAttempt(r) PROVE AgentTypeOK'
    <2>0. run[r] \in AgentState
      BY <1>0
    <2> DEFINE found == [run[r] EXCEPT !.snap = None, !.touched = FALSE, !.passed = FALSE,
                                       !.after = ws.head]
    <2>1. ws \in Clones
      BY <1>7 DEF HasClone, Prepared, JudgeAttempt
    <2>2. found \in AgentState
      BY <2>1, <2>0, <1>w DEF AgentState
    <2>3. /\ [found EXCEPT !.pc = "policy"] \in AgentState
          /\ [found EXCEPT !.pc = "decide"] \in AgentState
      <3> HIDE DEF found
      <3> QED BY <2>2 DEF AgentState, Phases
    <2>4. \/ Step(r, [found EXCEPT !.pc = "policy"]) \/ Fail(r)
          \/ Step(r, [found EXCEPT !.pc = "decide"])
      BY <1>7 DEF JudgeAttempt
    <2> HIDE DEF found
    <2>5. run' \in [Runs -> AgentState]
      BY <2>3, <2>4, <1>q, <1>g
    <2> QED BY <2>5, <1>7 DEF JudgeAttempt, AgentTypeOK
  <1>8. ASSUME NEW r \in Implementers, Decide(r) PROVE AgentTypeOK'
    <2>0. run[r] \in AgentState
      BY <1>0
    <2>1. ASSUME AttemptsLeft(r)
          PROVE  [run[r] EXCEPT !.pc = "attempt", !.attempt = @ + 1, !.subject = {},
                                !.review = Unreviewed] \in AgentState
      <3>1. run[r].attempt + 1 \in 1 .. MaxAttempts
        BY <2>0, <2>1, AgentAssumption DEF AttemptsLeft, AgentState
      <3>2. Unreviewed \in [Reviewers -> {"todo", "running", "fooled", "content", "finding"}]
        BY DEF Unreviewed
      <3> QED BY <2>0, <3>1, <3>2 DEF AgentState, Phases, Commits
    <2>2. run' \in [Runs -> AgentState]
      BY <2>1, <1>8, <1>s, <1>q, <1>g DEF Decide
    <2> QED BY <2>2, <1>8 DEF Decide, AgentTypeOK
  <1>9. ASSUME NEW r \in Implementers, BeginPolicy(r) PROVE AgentTypeOK'
    <2>0. run[r] \in AgentState
      BY <1>0
    <2>1. ws \in Clones
      BY <1>9 DEF HasClone, Prepared, BeginPolicy
    <2>2. [run[r] EXCEPT !.pc = "required", !.subject = ws.head] \in AgentState
      BY <2>1, <2>0, <1>w DEF AgentState, Phases
    <2>3. run' \in [Runs -> AgentState]
      BY <2>2, <1>9, <1>g DEF BeginPolicy
    <2> QED BY <2>3, <1>9 DEF BeginPolicy, AgentTypeOK
  <1>10. ASSUME NEW r \in Implementers, RequiredTargetsEnd(r) PROVE AgentTypeOK'
    <2>0. run[r] \in AgentState
      BY <1>0
    <2>m. main \in Checkouts
      BY <1>0
    <2>1. /\ [run[r] EXCEPT !.pc = "review", !.snap = main] \in AgentState
          /\ [run[r] EXCEPT !.pc = "collect", !.passed = FALSE] \in AgentState
      BY <2>0, <2>m DEF AgentState, Phases
    <2>2. run' \in [Runs -> AgentState]
      BY <2>1, <1>10, <1>g DEF RequiredTargetsEnd
    <2> QED BY <2>2, <1>10 DEF RequiredTargetsEnd, AgentTypeOK
  <1>r. ASSUME NEW r \in Implementers, NEW v \in Reviewers,
               NEW at \in {"running", "content", "finding"}, StepReviewer(r, v, at)
        PROVE  run' \in [Runs -> AgentState]
    <2>1. [run[r] EXCEPT !.review[v] = at] \in AgentState
      <3>1. run[r] \in AgentState
        BY <1>0
      <3>2. [run[r].review EXCEPT ![v] = at]
              \in [Reviewers -> {"todo", "running", "fooled", "content", "finding"}]
        BY <3>1 DEF AgentState
      <3> QED BY <3>1, <3>2 DEF AgentState
    <2> QED BY <2>1, <1>r, <1>g DEF StepReviewer
  <1>11. ASSUME NEW r \in Implementers, NEW v \in Reviewers, StartReviewer(r, v) \/ EndReviewer(r, v)
         PROVE  AgentTypeOK'
    <2>1. run' \in [Runs -> AgentState]
      BY <1>11, <1>r DEF StartReviewer, EndReviewer
    <2> QED BY <2>1, <1>11 DEF StartReviewer, EndReviewer, AgentTypeOK
  <1>12. ASSUME NEW r \in Implementers, NEW v \in Reviewers, ReviewerWorks(r, v)
         PROVE  AgentTypeOK'
    <2>0. run[r] \in AgentState
      BY <1>0
    <2>1. ws \in Clones
      BY <1>12 DEF HasClone, Prepared, ReviewerWorks
    <2>2. /\ [run[r] EXCEPT !.meddled = ~Relaxed] \in AgentState
          /\ [run[r] EXCEPT !.meddled = TRUE] \in AgentState
          /\ [Sees(run[r]) EXCEPT !.meddled = TRUE] \in AgentState
      <3>1. Sees(run[r]) \in AgentState
        BY <1>0, SeesType
      <3> QED BY <3>1, <2>0, AgentAssumption DEF AgentState
    <2>3. CASE ChangeClone /\ UNCHANGED <<main, run>>
      BY <2>1, <2>3, <1>12, CloneType DEF ReviewerWorks, AgentTypeOK
    <2>4. CASE /\ UNCHANGED ws
               /\ \/ Advance /\ Step(r, [run[r] EXCEPT !.meddled = ~Relaxed])
                  \/ Damage /\ Step(r, [run[r] EXCEPT !.meddled = TRUE])
      <3>1. run' \in [Runs -> AgentState]
        BY <2>2, <2>4, <1>g
      <3>2. made' \in 0 .. MaxCommits /\ main' \in Checkouts
        BY <2>4, MainType
      <3> QED BY <3>1, <3>2, <2>4, <1>12 DEF ReviewerWorks, AgentTypeOK
    <2>5. CASE /\ StepAndRecord(r, [Sees(run[r]) EXCEPT !.meddled = TRUE])
               /\ UNCHANGED <<made, main, ws>>
      <3>1. run' \in [Runs -> AgentState]
        BY <2>2, <2>5, <1>g
      <3> QED BY <3>1, <2>5, <1>12 DEF ReviewerWorks, AgentTypeOK
    <2> QED BY <2>3, <2>4, <2>5, <1>12 DEF ReviewerWorks
  <1>13. ASSUME NEW r \in Implementers, CollectReviews(r) PROVE AgentTypeOK'
    <2>0. run[r] \in AgentState
      BY <1>0
    <2>1. PolicyPasses(r) \in BOOLEAN
      BY DEF PolicyPasses, NoFindings
    <2>2. Unreviewed \in [Reviewers -> {"todo", "running", "fooled", "content", "finding"}]
      BY DEF Unreviewed
    <2>3. [run[r] EXCEPT !.pc = "collect", !.snap = None, !.review = Unreviewed,
                         !.passed = PolicyPasses(r)] \in AgentState
      BY <2>1, <2>2, <2>0 DEF AgentState, Phases
    <2>4. run' \in [Runs -> AgentState]
      BY <2>3, <1>13, <1>g DEF CollectReviews
    <2>5. run[r].subject \in Commits /\ reviewed \subseteq Commits
      BY <2>0, <1>0 DEF AgentState
    <2>6. reviewed' \subseteq Commits
      BY <2>5, <1>13 DEF CollectReviews
    <2> QED BY <2>4, <2>6, <1>13 DEF CollectReviews, AgentTypeOK
  <1>14. ASSUME NEW r \in Implementers, WriteVerdict(r) PROVE AgentTypeOK'
    <2>0. run[r] \in AgentState
      BY <1>0
    <2>1. /\ [run[r] EXCEPT !.pc = "close"] \in AgentState
          /\ [run[r] EXCEPT !.pc = "close", !.passed = FALSE] \in AgentState
      BY <2>0 DEF AgentState, Phases
    <2>2. run' \in [Runs -> AgentState]
      BY <2>1, <1>14, <1>g DEF WriteVerdict
    <2>3. [commit |-> run[r].subject, by |-> r, passed |-> run[r].passed, success |-> FALSE]
             \in Artifacts
      BY <2>0 DEF AgentState, Artifacts
    <2>4. verdicts' \subseteq Artifacts
      BY <2>3, <1>0, <1>14 DEF WriteVerdict, Replace
    <2> QED BY <2>2, <2>4, <1>14 DEF WriteVerdict, AgentTypeOK
  <1>15. ASSUME NEW r \in Implementers, ClosePolicy(r) PROVE AgentTypeOK'
    <2>0. run[r] \in AgentState
      BY <1>0
    <2>1. PICK passed \in {run[r].passed, FALSE} :
            /\ StepAndRecord(r, [run[r] EXCEPT !.pc = "decide", !.passed = passed])
            /\ verdicts' = {IF a.commit = run[r].subject /\ a.by = r
                            THEN [a EXCEPT !.success = passed] ELSE a : a \in verdicts}
      BY <1>15 DEF ClosePolicy
    <2>2. passed \in BOOLEAN
      BY <2>0 DEF AgentState
    <2>3. [run[r] EXCEPT !.pc = "decide", !.passed = passed] \in AgentState
      BY <2>2, <2>0 DEF AgentState, Phases
    <2>4. run' \in [Runs -> AgentState]
      BY <2>1, <2>3, <1>g
    <2>5. \A a \in verdicts : [a EXCEPT !.success = passed] \in Artifacts
      BY <2>2, <1>0 DEF Artifacts
    <2>6. verdicts' \subseteq Artifacts
      BY <2>1, <2>5, <1>0
    <2> QED BY <2>4, <2>6, <1>15 DEF ClosePolicy, AgentTypeOK
  <1>16. ASSUME NEW r \in Mergers, StartMerge(r) \/ CheckEvidence(r) PROVE AgentTypeOK'
    <2>0. run[r] \in AgentState
      BY <1>0
    <2>1. ASSUME ws # None PROVE [Fresh EXCEPT !.pc = "evidence", !.after = ws.head] \in AgentState
      <3>1. ws.head \in Commits
        BY <2>1, <1>0, <1>w
      <3> QED BY <3>1, <1>f DEF AgentState, Phases
    <2>m. main \in Checkouts
      BY <1>0
    <2>2. [run[r] EXCEPT !.pc = "merge", !.snap = main] \in AgentState
      BY <2>0, <2>m DEF AgentState, Phases
    <2>3. run' \in [Runs -> AgentState]
      BY <2>1, <2>2, <1>16, <1>q, <1>g DEF StartMerge, CheckEvidence
    <2> QED BY <2>3, <1>16 DEF StartMerge, CheckEvidence, AgentTypeOK
  <1>17. ASSUME NEW r \in Mergers, MergeProviderMerges(r) PROVE AgentTypeOK'
    <2>0. run[r] \in AgentState
      BY <1>0
    <2>1. run[r].after \in Commits /\ MaxCommits \in Nat
      BY <2>0, AgentAssumption DEF AgentState
    <2>2. ASSUME made < MaxCommits PROVE main.head \cup run[r].after \cup {New} \in Commits
      BY <2>1, <2>2, <1>0, <1>h DEF New, Commits
    <2>3. main \in Checkouts /\ made \in 0 .. MaxCommits
      BY <1>0
    <2>4. main' \in Checkouts
      BY <2>1, <2>2, <2>3, <1>17 DEF MergeProviderMerges, Checkouts
    <2>5. made' \in 0 .. MaxCommits
      BY <2>1, <2>3, <1>17 DEF MergeProviderMerges, Made
    <2> QED BY <2>4, <2>5, <1>17 DEF MergeProviderMerges, AgentTypeOK
  <1>18. ASSUME NEW r \in Mergers, MergeProviderMeddles(r) PROVE AgentTypeOK'
    <2>0. run[r] \in AgentState
      BY <1>0
    <2>1. [run[r] EXCEPT !.touched = TRUE] \in AgentState
      BY <2>0 DEF AgentState
    <2>2. CASE Spoil /\ UNCHANGED run
      BY <2>2, <1>18, MainType DEF MergeProviderMeddles, AgentTypeOK
    <2>3. CASE /\ StepAndRecord(r, [run[r] EXCEPT !.touched = TRUE])
               /\ UNCHANGED <<made, main>>
      <3>1. run' \in [Runs -> AgentState]
        BY <2>1, <2>3, <1>g
      <3> QED BY <3>1, <2>3, <1>18 DEF MergeProviderMeddles, AgentTypeOK
    <2> QED BY <2>2, <2>3, <1>18 DEF MergeProviderMeddles
  <1>19. ASSUME NEW r \in Mergers, MergeProviderExits(r) \/ JudgeMerge(r) PROVE AgentTypeOK'
    <2>0. run[r] \in AgentState
      BY <1>0
    <2>1. \A commit \in {main.head, None} :
            [run[r] EXCEPT !.pc = "judge_merge", !.report = commit] \in AgentState
      BY <2>0, <1>h DEF AgentState, Phases
    <2>2. run' \in [Runs -> AgentState]
      BY <2>1, <1>19, <1>s, <1>q, <1>g DEF MergeProviderExits, JudgeMerge
    <2> QED BY <2>2, <1>19 DEF MergeProviderExits, JudgeMerge, AgentTypeOK
  <1>20. ASSUME NEW r \in Runs, Leave(r) PROVE AgentTypeOK'
    <2>1. run' \in [Runs -> AgentState]
      BY <1>f, <1>20, <1>g DEF Leave
    <2> QED BY <2>1, <1>20 DEF Leave, AgentTypeOK
  <1>21. CASE OperatorCommits
    BY <1>21, MainType DEF OperatorCommits, AgentTypeOK
  <1>22. CASE OthersRecord
    <2>1. run' \in [Runs -> AgentState]
      BY <1>0, <1>22, SeesType DEF OthersRecord
    <2> QED BY <2>1, <1>22 DEF OthersRecord, AgentTypeOK
  <1> QED
    BY <1>1, <1>2, <1>3, <1>4, <1>5, <1>6, <1>7, <1>8, <1>9, <1>10, <1>11, <1>12, <1>13, <1>14,
       <1>15, <1>16, <1>17, <1>18, <1>19, <1>20, <1>21, <1>22
    DEF AgentNext, Implementing, Policing, Merging

-----------------------------------------------------------------------------
(* Merges *)

\* The policy of an implementer passes only at a commit all reviewers were content with.
Collected(r) == run[r].pc = "collect" /\ run[r].passed => run[r].subject \in reviewed

VerdictsAreReviewed == \A a \in verdicts : a.passed => a.commit \in reviewed

\* What MergeOnlyReviewed says of one merge agent, and that it passes when it returns.
MergesReviewed(r) ==
  /\ run[r].status = "success" => run[r].pc = "returned"
  /\ run[r].pc \in {"merge", "judge_merge"} => run[r].after \in reviewed
  /\ run[r].status = "success" =>
       run[r].after \in reviewed /\ IsAncestor(run[r].after, run[r].report)

MergeInv ==
  /\ HasClone
  /\ \A r \in Implementers : Collected(r)
  /\ VerdictsAreReviewed
  /\ \A r \in Mergers : MergesReviewed(r)

\* What a step of one run leaves to the others.
Others(r) == \A q \in Runs \ {r} : Untouched(run'[q], run[q])

LEMMA OthersUntouched ==
  ASSUME AgentTypeOK, NEW r \in Runs, NEW f, Step(r, f) \/ StepAndRecord(r, f)
  PROVE  run'[r] = f /\ Others(r)
  <1>0. run \in [Runs -> AgentState]
    BY DEF AgentTypeOK
  <1>1. CASE Step(r, f)
    BY <1>0, <1>1 DEF Step, Others, Untouched
  <1>2. CASE StepAndRecord(r, f)
    <2>1. \A q \in Runs : Untouched(Sees(run[q]), run[q])
      BY <1>0, SeesType
    <2> QED BY <1>2, <2>1 DEF StepAndRecord, Others
  <1> QED BY <1>1, <1>2

\* The others keep what they know while no workspace and no review is taken back.
LEMMA OthersKept ==
  ASSUME MergeInv, NEW r, Others(r), reviewed \subseteq reviewed',
         ws \in Clones => ws' \in Clones
  PROVE  /\ \A q \in Implementers \ {r} : Prepared(q)' /\ Collected(q)'
         /\ \A q \in Mergers \ {r} : MergesReviewed(q)'
  <1> USE Kinds
  <1>1. ASSUME NEW q \in Implementers \ {r} PROVE Prepared(q)' /\ Collected(q)'
    <2>1. Untouched(run'[q], run[q])
      BY DEF Others
    <2>2. Prepared(q) /\ Collected(q)
      BY DEF MergeInv, HasClone
    <2> QED BY <2>1, <2>2 DEF Untouched, Prepared, Collected
  <1>2. ASSUME NEW q \in Mergers \ {r} PROVE MergesReviewed(q)'
    <2>1. Untouched(run'[q], run[q])
      BY DEF Others
    <2>2. MergesReviewed(q)
      BY DEF MergeInv
    <2> QED BY <2>1, <2>2 DEF Untouched, MergesReviewed
  <1> QED BY <1>1, <1>2

\* A step that records no verdict: what is left to show is what the run itself knows.
LEMMA ByOthers ==
  ASSUME AgentTypeOK, MergeInv, NEW r \in Runs, NEW f, Step(r, f) \/ StepAndRecord(r, f),
         UNCHANGED <<ws, verdicts, reviewed>>,
         r \in Implementers => Prepared(r)' /\ Collected(r)',
         r \in Mergers => MergesReviewed(r)'
  PROVE  MergeInv'
  <1>1. Others(r)
    BY OthersUntouched
  <1>2. VerdictsAreReviewed'
    BY DEF MergeInv, VerdictsAreReviewed
  <1>3. /\ \A q \in Implementers \ {r} : Prepared(q)' /\ Collected(q)'
        /\ \A q \in Mergers \ {r} : MergesReviewed(q)'
    BY <1>1, OthersKept
  <1> QED BY <1>2, <1>3 DEF MergeInv, HasClone

\* The ways a run of an implementer goes on without a verdict.
LEMMA GoesOn ==
  ASSUME AgentTypeOK, MergeInv, NEW r \in Implementers, NEW f,
         Step(r, f) \/ StepAndRecord(r, f), UNCHANGED <<ws, verdicts, reviewed>>,
         \/ f.pc \in {"idle", "prepare", "returned"}
         \/ run[r].pc \notin {"idle", "prepare", "returned"} /\ f.pc # "collect"
         \/ run[r].pc \notin {"idle", "prepare", "returned"} /\ f.passed = FALSE
  PROVE  MergeInv'
  <1> USE Kinds
  <1>1. run'[r] = f
    BY OthersUntouched
  <1>2. Prepared(r)
    BY DEF MergeInv, HasClone
  <1>3. Prepared(r)' /\ Collected(r)'
    BY <1>1, <1>2 DEF Prepared, Collected
  <1> QED BY <1>3, ByOthers

\* Nothing happened to any run, or only their view of the evidence has changed.
LEMMA Views ==
  ASSUME MergeInv, \A q \in Runs : Untouched(run'[q], run[q]), ws \in Clones => ws' \in Clones,
         UNCHANGED <<verdicts, reviewed>>
  PROVE  MergeInv'
  <1> USE Kinds
  <1>1. /\ \A q \in Implementers : Prepared(q)' /\ Collected(q)'
        /\ \A q \in Mergers : MergesReviewed(q)'
    <2>1. ASSUME NEW q \in Implementers PROVE Prepared(q)' /\ Collected(q)'
      <3>1. Untouched(run'[q], run[q]) /\ Prepared(q) /\ Collected(q)
        BY DEF MergeInv, HasClone
      <3> QED BY <3>1 DEF Untouched, Prepared, Collected
    <2>2. ASSUME NEW q \in Mergers PROVE MergesReviewed(q)'
      <3>1. Untouched(run'[q], run[q]) /\ MergesReviewed(q)
        BY DEF MergeInv
      <3> QED BY <3>1 DEF Untouched, MergesReviewed
    <2> QED BY <2>1, <2>2
  <1>2. VerdictsAreReviewed'
    BY DEF MergeInv, VerdictsAreReviewed
  <1> QED BY <1>1, <1>2 DEF MergeInv, HasClone

\* One step: the policy passes only what it has seen to be reviewed, a merge starts from
\* its verdict.
LEMMA MergesKept ==
  ASSUME AgentTypeOK, MergeInv, AgentNext
  PROVE  MergeInv'
  <1> USE Kinds
  <1>0. /\ run \in [Runs -> AgentState]
        /\ \A r \in Runs : run[r] \in AgentState
    BY DEF AgentTypeOK
  <1>f. ASSUME NEW r \in Implementers, Fail(r), UNCHANGED <<ws, verdicts, reviewed>> PROVE MergeInv'
    <2> DEFINE failed == [Fresh EXCEPT !.pc = "returned", !.status = "failed"]
    <2>1. Step(r, failed) /\ failed.pc = "returned"
      BY <1>f DEF Fail, Fresh
    <2> HIDE DEF failed
    <2> QED BY <2>1, <1>f, GoesOn
  <1>g. ASSUME NEW r \in Implementers, NEW f, Step(r, f) \/ StepAndRecord(r, f),
               UNCHANGED <<ws, verdicts, reviewed>>,
               run[r].pc \notin {"idle", "prepare", "returned"}, f.pc # "collect"
        PROVE  MergeInv'
    BY <1>g, GoesOn
  <1>1. ASSUME NEW r \in Implementers, Start(r) PROVE MergeInv'
    <2> DEFINE f == [Fresh EXCEPT !.pc = "prepare", !.source = main.head]
    <2>1. Step(r, f) /\ f.pc = "prepare"
      BY <1>1 DEF Start, Fresh
    <2> HIDE DEF f
    <2> QED BY <2>1, <1>1, GoesOn DEF Start
  <1>2. ASSUME NEW r \in Implementers, PrepareWorkspace(r) PROVE MergeInv'
    <2>0. run[r] \in AgentState /\ UNCHANGED <<verdicts, reviewed>>
      BY <1>0, <1>2 DEF PrepareWorkspace
    <2>1. CASE UNCHANGED ws /\ Fail(r)
      BY <2>0, <2>1, <1>f
    <2>2. CASE ws' \in Clones
      <3>1. PICK f : Step(r, f) /\ f.pc \in {"attempt", "returned"}
        <4> DEFINE good == [run[r] EXCEPT !.pc = "attempt", !.source = {}]
                   failed == [Fresh EXCEPT !.pc = "returned", !.status = "failed"]
        <4>1. good.pc = "attempt"
          BY <2>0 DEF AgentState
        <4>2. failed.pc = "returned"
          BY DEF Fresh
        <4>3. Step(r, good) \/ Step(r, failed)
          BY <1>2 DEF PrepareWorkspace, Fail
        <4> HIDE DEF good, failed
        <4> QED BY <4>1, <4>2, <4>3
      <3>2. run'[r] = f /\ Others(r)
        BY <3>1, OthersUntouched
      <3>3. Prepared(r)' /\ Collected(r)'
        BY <3>1, <3>2, <2>2 DEF Prepared, Collected
      <3>4. VerdictsAreReviewed'
        BY <2>0 DEF MergeInv, VerdictsAreReviewed
      <3>5. /\ \A q \in Implementers \ {r} : Prepared(q)' /\ Collected(q)'
            /\ \A q \in Mergers \ {r} : MergesReviewed(q)'
        BY <3>2, <2>0, <2>2, OthersKept
      <3> QED BY <3>3, <3>4, <3>5 DEF MergeInv, HasClone
    <2>3. ws \in {None} \cup Clones /\ main.head \in Commits
      BY DEF AgentTypeOK, Checkouts
    <2>4. [tip |-> main.head, head |-> main.head, on |-> TRUE, dirty |-> FALSE] \in Clones
      BY <2>3 DEF Clones
    <2>5. ASSUME ws # None PROVE [ws EXCEPT !.on = TRUE, !.head = ws.tip] \in Clones
      BY <2>3, <2>5 DEF Clones
    <2> QED BY <2>1, <2>2, <2>4, <2>5, <1>2 DEF PrepareWorkspace
  <1>3. ASSUME NEW r \in Implementers, BeginAttempt(r) PROVE MergeInv'
    <2>1. run[r] \in AgentState /\ UNCHANGED <<ws, verdicts, reviewed>>
      BY <1>0, <1>3 DEF BeginAttempt
    <2>2. run[r].pc = "attempt"
      BY <1>3 DEF BeginAttempt
    <2>3. /\ [Begun(run[r]) EXCEPT !.pc = "judge"].pc = "judge"
          /\ [Begun(run[r]) EXCEPT !.pc = "provider"].pc = "provider"
      BY <2>1 DEF Begun, AgentState
    <2> QED BY <2>1, <2>2, <2>3, <1>3, <1>f, <1>g DEF BeginAttempt
  <1>4. ASSUME NEW r \in Implementers, ProviderWorks(r) \/ RequiredTargetWorks(r) PROVE MergeInv'
    <2>1. ws \in Clones
      BY <1>4 DEF MergeInv, HasClone, Prepared, ProviderWorks, RequiredTargetWorks
    <2>2. ws' \in Clones
      BY <2>1, <1>4, CloneType DEF ProviderWorks, RequiredTargetWorks
    <2> QED BY <2>2, <1>4, Views DEF ProviderWorks, RequiredTargetWorks, Untouched
  <1>5. ASSUME NEW r \in Implementers, ProviderMeddles(r) PROVE MergeInv'
    <2>1. run[r] \in AgentState /\ run[r].pc = "provider" /\ UNCHANGED <<ws, verdicts, reviewed>>
      BY <1>0, <1>5 DEF ProviderMeddles
    <2>2. /\ [run[r] EXCEPT !.meddled = ~Relaxed].pc # "collect"
          /\ [run[r] EXCEPT !.meddled = TRUE].pc # "collect"
          /\ [run[r] EXCEPT !.meddled = TRUE, !.touched = TRUE].pc # "collect"
      BY <2>1 DEF AgentState
    <2> QED BY <2>1, <2>2, <1>5, <1>g DEF ProviderMeddles
  <1>6. ASSUME NEW r \in Implementers, ProviderExits(r) PROVE MergeInv'
    <2>1. run[r] \in AgentState /\ run[r].pc = "provider" /\ UNCHANGED <<ws, verdicts, reviewed>>
      BY <1>0, <1>6 DEF ProviderExits
    <2>2. PICK o \in Outcomes :
            Step(r, [run[r] EXCEPT !.pc = "judge", !.session = o.session, !.report = o.report])
      BY <1>6 DEF ProviderExits
    <2>3. [run[r] EXCEPT !.pc = "judge", !.session = o.session, !.report = o.report].pc = "judge"
      BY <2>1 DEF AgentState
    <2> QED BY <2>1, <2>2, <2>3, <1>g
  <1>7. ASSUME NEW r \in Implementers, JudgeAttempt(r) PROVE MergeInv'
    <2> DEFINE found == [run[r] EXCEPT !.snap = None, !.touched = FALSE, !.passed = FALSE,
                                       !.after = ws.head]
    <2>1. run[r] \in AgentState /\ run[r].pc = "judge" /\ UNCHANGED <<ws, verdicts, reviewed>>
      BY <1>0, <1>7 DEF JudgeAttempt
    <2>2. /\ [found EXCEPT !.pc = "policy"].pc = "policy"
          /\ [found EXCEPT !.pc = "decide"].pc = "decide"
      BY <2>1 DEF AgentState
    <2>3. \/ Step(r, [found EXCEPT !.pc = "policy"]) \/ Fail(r)
          \/ Step(r, [found EXCEPT !.pc = "decide"])
      BY <1>7 DEF JudgeAttempt
    <2> HIDE DEF found
    <2> QED BY <2>1, <2>2, <2>3, <1>f, <1>g
  <1>8. ASSUME NEW r \in Implementers, Decide(r) PROVE MergeInv'
    <2>1. run[r] \in AgentState /\ run[r].pc = "decide" /\ UNCHANGED <<ws, verdicts, reviewed>>
      BY <1>0, <1>8 DEF Decide
    <2>2. Succeeded(run[r]).pc = "returned"
      BY DEF Succeeded, Fresh
    <2>3. [run[r] EXCEPT !.pc = "attempt", !.attempt = @ + 1, !.subject = {},
                         !.review = Unreviewed].pc = "attempt"
      BY <2>1 DEF AgentState
    <2> QED BY <2>1, <2>2, <2>3, <1>8, <1>f, <1>g DEF Decide
  <1>9. ASSUME NEW r \in Implementers, BeginPolicy(r) PROVE MergeInv'
    <2>1. run[r] \in AgentState /\ run[r].pc = "policy" /\ UNCHANGED <<ws, verdicts, reviewed>>
      BY <1>0, <1>9 DEF BeginPolicy
    <2>2. [run[r] EXCEPT !.pc = "required", !.subject = ws.head].pc = "required"
      BY <2>1 DEF AgentState
    <2> QED BY <2>1, <2>2, <1>9, <1>g DEF BeginPolicy
  <1>10. ASSUME NEW r \in Implementers, RequiredTargetsEnd(r) PROVE MergeInv'
    <2>1. run[r] \in AgentState /\ run[r].pc = "required" /\ UNCHANGED <<ws, verdicts, reviewed>>
      BY <1>0, <1>10 DEF RequiredTargetsEnd
    <2>2. /\ [run[r] EXCEPT !.pc = "review", !.snap = main].pc = "review"
          /\ [run[r] EXCEPT !.pc = "collect", !.passed = FALSE].passed = FALSE
      BY <2>1 DEF AgentState
    <2> QED BY <2>1, <2>2, <1>10, <1>g, GoesOn DEF RequiredTargetsEnd
  <1>11. ASSUME NEW r \in Implementers, NEW v \in Reviewers, StartReviewer(r, v) \/ EndReviewer(r, v)
         PROVE  MergeInv'
    <2>1. run[r] \in AgentState /\ run[r].pc = "review" /\ UNCHANGED <<ws, verdicts, reviewed>>
      BY <1>0, <1>11 DEF StartReviewer, EndReviewer
    <2>2. PICK at : Step(r, [run[r] EXCEPT !.review[v] = at])
      BY <1>11 DEF StartReviewer, EndReviewer, StepReviewer
    <2>3. [run[r] EXCEPT !.review[v] = at].pc = "review"
      BY <2>1 DEF AgentState
    <2> QED BY <2>1, <2>2, <2>3, <1>g
  <1>12. ASSUME NEW r \in Implementers, NEW v \in Reviewers, ReviewerWorks(r, v) PROVE MergeInv'
    <2>1. run[r] \in AgentState /\ run[r].pc = "review" /\ UNCHANGED <<verdicts, reviewed>>
      BY <1>0, <1>12 DEF ReviewerWorks
    <2>2. CASE ChangeClone /\ UNCHANGED <<main, run>>
      <3>1. ws \in Clones
        BY <2>1 DEF MergeInv, HasClone, Prepared
      <3>2. ws' \in Clones
        BY <3>1, <2>2, CloneType
      <3> QED BY <3>2, <2>1, <2>2, Views DEF Untouched
    <2>3. CASE /\ UNCHANGED ws
               /\ \/ Step(r, [run[r] EXCEPT !.meddled = ~Relaxed])
                  \/ Step(r, [run[r] EXCEPT !.meddled = TRUE])
      <3>1. /\ [run[r] EXCEPT !.meddled = ~Relaxed].pc = "review"
            /\ [run[r] EXCEPT !.meddled = TRUE].pc = "review"
        BY <2>1 DEF AgentState
      <3> QED BY <3>1, <2>1, <2>3, <1>g
    <2>4. CASE /\ StepAndRecord(r, [Sees(run[r]) EXCEPT !.meddled = TRUE])
               /\ UNCHANGED ws
      <3>1. Sees(run[r]) \in AgentState /\ Sees(run[r]).pc = "review"
        BY <2>1, SeesType DEF Untouched
      <3>2. [Sees(run[r]) EXCEPT !.meddled = TRUE].pc = "review"
        BY <3>1 DEF AgentState
      <3> QED BY <3>2, <2>1, <2>4, <1>g
    <2> QED BY <2>2, <2>3, <2>4, <1>12 DEF ReviewerWorks
  <1>13. ASSUME NEW r \in Implementers, CollectReviews(r) PROVE MergeInv'
    <2> DEFINE f == [run[r] EXCEPT !.pc = "collect", !.snap = None, !.review = Unreviewed,
                                   !.passed = PolicyPasses(r)]
    <2>1. run[r] \in AgentState /\ UNCHANGED <<ws, verdicts>> /\ Step(r, f) /\ Prepared(r)
      BY <1>0, <1>13 DEF CollectReviews, MergeInv, HasClone
    <2>2. /\ f.pc = "collect" /\ f.subject = run[r].subject
          /\ f.passed = PolicyPasses(r)
      BY <2>1 DEF AgentState
    <2>3. run[r].pc = "review"
      BY <1>13 DEF CollectReviews
    <2> HIDE DEF f
    <2>4. run'[r] = f /\ Others(r)
      BY <2>1, OthersUntouched
    <2>5. reviewed \subseteq reviewed'
      BY <1>13 DEF CollectReviews
    <2>6. Prepared(r)' /\ Collected(r)'
      <3>1. PolicyPasses(r) => run[r].subject \in reviewed'
        BY <1>13 DEF CollectReviews, PolicyPasses
      <3> QED BY <3>1, <2>1, <2>2, <2>3, <2>4 DEF Prepared, Collected
    <2>7. /\ \A q \in Implementers \ {r} : Prepared(q)' /\ Collected(q)'
          /\ \A q \in Mergers \ {r} : MergesReviewed(q)'
      BY <2>1, <2>4, <2>5, OthersKept
    <2>8. VerdictsAreReviewed'
      BY <2>1, <2>5 DEF MergeInv, VerdictsAreReviewed
    <2> QED BY <2>6, <2>7, <2>8 DEF MergeInv, HasClone
  <1>14. ASSUME NEW r \in Implementers, WriteVerdict(r) PROVE MergeInv'
    <2>1. run[r] \in AgentState /\ run[r].pc = "collect" /\ UNCHANGED <<ws, reviewed>>
      BY <1>0, <1>14 DEF WriteVerdict
    <2>2. PICK f : (Step(r, f) \/ StepAndRecord(r, f)) /\ f.pc = "close"
      <3>1. /\ [run[r] EXCEPT !.pc = "close"].pc = "close"
            /\ [run[r] EXCEPT !.pc = "close", !.passed = FALSE].pc = "close"
        BY <2>1 DEF AgentState
      <3> QED BY <3>1, <1>14 DEF WriteVerdict
    <2>3. run'[r] = f /\ Others(r)
      BY <2>2, OthersUntouched
    <2>4. Prepared(r)' /\ Collected(r)'
      BY <2>1, <2>2, <2>3 DEF MergeInv, HasClone, Prepared, Collected
    <2>5. /\ \A q \in Implementers \ {r} : Prepared(q)' /\ Collected(q)'
          /\ \A q \in Mergers \ {r} : MergesReviewed(q)'
      BY <2>1, <2>3, OthersKept
    <2>6. VerdictsAreReviewed'
      <3> DEFINE found == [commit |-> run[r].subject, by |-> r, passed |-> run[r].passed,
                           success |-> FALSE]
      <3>1. Collected(r) /\ VerdictsAreReviewed
        BY DEF MergeInv
      <3>2. found.passed => found.commit \in reviewed
        BY <3>1, <2>1 DEF Collected
      <3>3. verdicts' \subseteq verdicts \cup {found}
        BY <1>14 DEF WriteVerdict, Replace
      <3> HIDE DEF found
      <3> QED BY <3>1, <3>2, <3>3, <2>1 DEF VerdictsAreReviewed
    <2> QED BY <2>4, <2>5, <2>6 DEF MergeInv, HasClone
  <1>15. ASSUME NEW r \in Implementers, ClosePolicy(r) PROVE MergeInv'
    <2>1. run[r] \in AgentState /\ run[r].pc = "close" /\ UNCHANGED <<ws, reviewed>>
      BY <1>0, <1>15 DEF ClosePolicy
    <2>2. PICK passed \in {run[r].passed, FALSE} :
            /\ StepAndRecord(r, [run[r] EXCEPT !.pc = "decide", !.passed = passed])
            /\ verdicts' = {IF a.commit = run[r].subject /\ a.by = r
                            THEN [a EXCEPT !.success = passed] ELSE a : a \in verdicts}
      BY <1>15 DEF ClosePolicy
    <2>3. [run[r] EXCEPT !.pc = "decide", !.passed = passed].pc = "decide"
      BY <2>1 DEF AgentState
    <2>4. run'[r].pc = "decide" /\ Others(r)
      BY <2>2, <2>3, OthersUntouched
    <2>5. Prepared(r)' /\ Collected(r)'
      BY <2>1, <2>4 DEF MergeInv, HasClone, Prepared, Collected
    <2>6. /\ \A q \in Implementers \ {r} : Prepared(q)' /\ Collected(q)'
          /\ \A q \in Mergers \ {r} : MergesReviewed(q)'
      BY <2>1, <2>4, OthersKept
    <2>7. VerdictsAreReviewed'
      <3>1. VerdictsAreReviewed /\ verdicts \subseteq Artifacts
        BY DEF MergeInv, AgentTypeOK
      <3>2. \A a \in verdicts :
              LET b == [a EXCEPT !.success = passed]
              IN b.passed = a.passed /\ b.commit = a.commit
        BY <3>1 DEF Artifacts
      <3>3. \A b \in verdicts' : \E a \in verdicts : b.passed = a.passed /\ b.commit = a.commit
        BY <2>2, <3>2
      <3> QED BY <3>1, <3>3, <2>1 DEF VerdictsAreReviewed
    <2> QED BY <2>5, <2>6, <2>7 DEF MergeInv, HasClone
  <1>m. ASSUME NEW r \in Mergers, NEW f, Step(r, f) \/ StepAndRecord(r, f),
               UNCHANGED <<ws, verdicts, reviewed>>,
               f.pc \in {"merge", "judge_merge"} => f.after \in reviewed,
               f.status = "success" =>
                 f.pc = "returned" /\ f.after \in reviewed /\ IsAncestor(f.after, f.report)
        PROVE  MergeInv'
    <2>1. run'[r] = f
      BY <1>m, OthersUntouched
    <2>2. MergesReviewed(r)'
      BY <2>1, <1>m DEF MergesReviewed
    <2> QED BY <2>2, <1>m, ByOthers
  <1>n. ASSUME NEW r \in Mergers, Fail(r), UNCHANGED <<ws, verdicts, reviewed>> PROVE MergeInv'
    <2> DEFINE failed == [Fresh EXCEPT !.pc = "returned", !.status = "failed"]
    <2>1. Step(r, failed) /\ failed.pc = "returned" /\ failed.status = "failed"
      BY <1>n DEF Fail, Fresh
    <2> HIDE DEF failed
    <2> QED BY <2>1, <1>n, <1>m
  <1>16. ASSUME NEW r \in Mergers, StartMerge(r) PROVE MergeInv'
    <2> DEFINE f == [Fresh EXCEPT !.pc = "evidence", !.after = ws.head]
    <2>1. f.pc = "evidence" /\ f.status = "none"
      BY DEF Fresh
    <2>2. Step(r, f) \/ Fail(r)
      BY <1>16 DEF StartMerge
    <2> HIDE DEF f
    <2> QED BY <2>1, <2>2, <1>16, <1>m, <1>n DEF StartMerge
  <1>17. ASSUME NEW r \in Mergers, CheckEvidence(r) PROVE MergeInv'
    <2> DEFINE f == [run[r] EXCEPT !.pc = "merge", !.snap = main]
    <2>1. run[r] \in AgentState /\ UNCHANGED <<ws, verdicts, reviewed>> /\ MergesReviewed(r)
      BY <1>0, <1>17 DEF CheckEvidence, MergeInv
    <2>2. /\ f.after = run[r].after /\ f.status = run[r].status /\ f.report = run[r].report
      BY <2>1 DEF AgentState
    <2>3. CASE PolicyEvidence(run[r].after) /\ Step(r, f)
      <3>1. run[r].after \in reviewed /\ run[r].pc = "evidence"
        BY <1>17, <2>3 DEF CheckEvidence, PolicyEvidence, MergeInv, VerdictsAreReviewed
      <3> HIDE DEF f
      <3> QED BY <3>1, <2>1, <2>2, <2>3, <1>m DEF MergesReviewed
    <2>4. CASE Fail(r)
      BY <2>1, <2>4, <1>n
    <2> QED BY <2>3, <2>4, <1>17 DEF CheckEvidence
  <1>18. ASSUME NEW r \in Mergers, MergeProviderMerges(r) PROVE MergeInv'
    BY <1>18, Views DEF MergeProviderMerges, Untouched
  <1>19. ASSUME NEW r \in Mergers, MergeProviderMeddles(r) PROVE MergeInv'
    <2> DEFINE f == [run[r] EXCEPT !.touched = TRUE]
    <2>1. run[r] \in AgentState /\ UNCHANGED <<ws, verdicts, reviewed>> /\ MergesReviewed(r)
      BY <1>0, <1>19 DEF MergeProviderMeddles, MergeInv
    <2>2. /\ f.pc = run[r].pc /\ f.after = run[r].after /\ f.status = run[r].status
          /\ f.report = run[r].report
      BY <2>1 DEF AgentState
    <2>3. CASE UNCHANGED run
      BY <2>1, <2>3, Views DEF Untouched
    <2>4. CASE StepAndRecord(r, f)
      <3> HIDE DEF f
      <3> QED BY <2>1, <2>2, <2>4, <1>m DEF MergesReviewed
    <2> QED BY <2>3, <2>4, <1>19 DEF MergeProviderMeddles
  <1>20. ASSUME NEW r \in Mergers, MergeProviderExits(r) PROVE MergeInv'
    <2>1. run[r] \in AgentState /\ UNCHANGED <<ws, verdicts, reviewed>> /\ MergesReviewed(r)
          /\ run[r].pc = "merge"
      BY <1>0, <1>20 DEF MergeProviderExits, MergeInv
    <2>2. PICK commit \in {main.head, None} :
            Step(r, [run[r] EXCEPT !.pc = "judge_merge", !.report = commit])
      BY <1>20 DEF MergeProviderExits
    <2> DEFINE f == [run[r] EXCEPT !.pc = "judge_merge", !.report = commit]
    <2>3. f.pc = "judge_merge" /\ f.after = run[r].after /\ f.status = run[r].status
      BY <2>1 DEF AgentState
    <2>4. run[r].after \in reviewed
      BY <2>1 DEF MergesReviewed
    <2>5. run[r].status # "success"
      BY <2>1 DEF MergesReviewed
    <2>6. Step(r, f)
      BY <2>2
    <2> HIDE DEF f
    <2> QED BY <2>1, <2>3, <2>4, <2>5, <2>6, <1>m
  <1>21. ASSUME NEW r \in Mergers, JudgeMerge(r) PROVE MergeInv'
    <2>1. run[r] \in AgentState /\ UNCHANGED <<ws, verdicts, reviewed>> /\ MergesReviewed(r)
          /\ run[r].pc = "judge_merge"
      BY <1>0, <1>21 DEF JudgeMerge, MergeInv
    <2>2. CASE MergeReported(r) /\ StepAndRecord(r, Succeeded(run[r]))
      <3>1. /\ Succeeded(run[r]).pc = "returned" /\ Succeeded(run[r]).after = run[r].after
            /\ Succeeded(run[r]).report = run[r].report
        BY DEF Succeeded, Fresh
      <3>2. run[r].after \in reviewed /\ IsAncestor(run[r].after, run[r].report)
        BY <2>1, <2>2 DEF MergesReviewed, MergeReported
      <3> QED BY <3>1, <3>2, <2>1, <2>2, <1>m
    <2>3. CASE Fail(r)
      BY <2>1, <2>3, <1>n
    <2> QED BY <2>2, <2>3, <1>21 DEF JudgeMerge
  <1>22. ASSUME NEW r \in Runs, Leave(r) PROVE MergeInv'
    <2>1. Step(r, Fresh) /\ UNCHANGED <<ws, verdicts, reviewed>>
      BY <1>22 DEF Leave
    <2>2. Fresh.pc = "idle" /\ Fresh.status = "none"
      BY DEF Fresh
    <2>3. CASE r \in Implementers
      BY <2>1, <2>2, <2>3, GoesOn
    <2>4. CASE r \in Mergers
      BY <2>1, <2>2, <2>4, <1>m
    <2> QED BY <2>3, <2>4 DEF Runs
  <1>23. CASE OperatorCommits
    BY <1>23, Views DEF OperatorCommits, Untouched
  <1>24. CASE OthersRecord
    <2>1. \A q \in Runs : Untouched(run'[q], run[q])
      BY <1>0, <1>24, SeesType DEF OthersRecord
    <2> QED BY <2>1, <1>24, Views DEF OthersRecord
  <1> QED
    BY <1>1, <1>2, <1>3, <1>4, <1>5, <1>6, <1>7, <1>8, <1>9, <1>10, <1>11, <1>12, <1>13, <1>14,
       <1>15, <1>16, <1>17, <1>18, <1>19, <1>20, <1>21, <1>22, <1>23, <1>24
    DEF AgentNext, Implementing, Policing, Merging

-----------------------------------------------------------------------------

LEMMA StutterKept ==
  ASSUME AgentTypeOK, MergeInv, UNCHANGED agentVars
  PROVE  AgentTypeOK' /\ MergeInv'
  <1>1. AgentTypeOK'
    BY DEF AgentTypeOK, agentVars
  <1>2. MergeInv'
    BY Views DEF Untouched, agentVars
  <1> QED BY <1>1, <1>2

LEMMA AgentStarts ==
  ASSUME AgentInit PROVE AgentTypeOK /\ MergeInv
  <1>1. run \in [Runs -> AgentState]
    BY FreshType DEF AgentInit
  <1>2. AgentTypeOK
    BY <1>1, AgentAssumption DEF AgentInit, AgentTypeOK, Checkouts, Commits
  <1>3. \A r \in Runs : run[r].pc = "idle" /\ run[r].status = "none"
    BY DEF AgentInit, Fresh
  <1>4. /\ \A r \in Implementers : Prepared(r) /\ Collected(r)
        /\ \A r \in Mergers : MergesReviewed(r)
    BY <1>3, Kinds DEF Prepared, Collected, MergesReviewed
  <1>5. VerdictsAreReviewed
    BY DEF AgentInit, VerdictsAreReviewed
  <1> QED BY <1>2, <1>4, <1>5 DEF MergeInv, HasClone

LEMMA AgentInvariant == AgentSpec => [](AgentTypeOK /\ MergeInv)
  <1>1. AgentInit => AgentTypeOK /\ MergeInv
    BY AgentStarts
  <1>2. AgentTypeOK /\ MergeInv /\ [AgentNext]_agentVars => (AgentTypeOK /\ MergeInv)'
    BY TypesKept, MergesKept, StutterKept DEF MergeInv
  <1> QED BY <1>1, <1>2, PTL DEF AgentSpec

\* Every run, workspace, checkout and verdict stays well-formed whatever the programs do.
THEOREM AgentTypesHold == AgentSpec => []AgentTypeOK
  BY AgentInvariant, PTL

\* Merge agents start from reviewed commits only, and pass only with one in main: for any
\* number of implementers and merge agents in one clone, whatever providers, reviewers,
\* required targets and operators do to it meanwhile (executeMerge,
\* latestPassingPolicyEvidence).
THEOREM MergesAreSoundAlways == AgentSpec => []MergesAreSound
  <1>1. MergeInv => MergeOnlyReviewed
    BY DEF MergeInv, MergesReviewed, MergeOnlyReviewed
  <1>2. AgentTypeOK /\ MergeOnlyReviewed => MergesAreSound
    BY DEF MergesAreSound
  <1> QED BY <1>1, <1>2, AgentInvariant, PTL

-----------------------------------------------------------------------------
(* What an implementer passes with *)

\* The locals in which an attempt's evidence is kept.
SameEvidence(y, x) ==
  /\ y.before = x.before /\ y.after = x.after /\ y.report = x.report
  /\ y.subject = x.subject /\ y.status = x.status

\* What a step makes of the locals x of implementer r: y. The clone is left alone where a
\* verdict hangs on it.
Effect(r, x, y) ==
  \/ Untouched(y, x)
  \/ /\ y.pc \in {"idle", "prepare", "attempt", "provider", "judge", "returned"}
     /\ y.status # "success" \/ (y.status = x.status /\ x.pc # "returned")
  \/ /\ x.pc = "judge" /\ y.pc = "policy"
     /\ y.before = x.before /\ y.report = ws.head /\ y.after = ws.head
     /\ y.status = x.status /\ GitEvidence(r)
  \/ x.pc = "judge" /\ y.pc = "decide" /\ y.passed = FALSE /\ y.status = x.status
  \/ /\ x.pc = "policy" /\ y.pc = "required" /\ y.subject = ws.head
     /\ SameEvidence(y, [x EXCEPT !.subject = ws.head])
  \/ x.pc = "required" /\ y.pc = "review" /\ SameEvidence(y, x)
  \/ x.pc = "required" /\ y.pc = "collect" /\ y.passed = FALSE /\ SameEvidence(y, x)
  \/ /\ x.pc = "review" /\ y.pc = "collect" /\ SameEvidence(y, x)
     /\ y.passed => SubjectUnchanged(r) /\ x.subject \in reviewed'
  \/ /\ \/ x.pc = "collect" /\ y.pc = "close"
        \/ x.pc = "close" /\ y.pc = "decide"
     /\ SameEvidence(y, x) /\ (y.passed => x.passed)
  \/ /\ x.pc = "decide" /\ x.passed /\ y.pc = "returned"
     /\ y.after = x.after /\ y.report = x.report /\ y.status = "success"

\* Its program and those below it change the clone in four phases only.
MayChange(q) == run[q].pc \in {"prepare", "provider", "required", "review"}
                /\ run'[q].pc \in {"attempt", "returned", "provider", "required", "review"}

CloneEffect == ws' = ws \/ \E q \in Implementers : MayChange(q)

\* Everyone but the run that steps keeps what its evidence is.
LEMMA OthersEffect ==
  ASSUME AgentTypeOK, NEW r \in Runs, NEW f, Step(r, f) \/ StepAndRecord(r, f),
         NEW q \in Implementers \ {r}
  PROVE  Effect(q, run[q], run'[q])
  <1>1. Others(r)
    BY OthersUntouched
  <1>2. q \in Runs \ {r}
    BY Kinds
  <1> QED BY <1>1, <1>2 DEF Others, Effect

\* A step of one implementer.
LEMMA ImplementerEffect ==
  ASSUME AgentTypeOK, NEW r \in Implementers, Implementing(r) \/ Policing(r)
  PROVE  /\ \A q \in Implementers : Effect(q, run[q], run'[q])
         /\ CloneEffect
         /\ reviewed \subseteq reviewed'
  <1> USE Kinds
  <1>0. run \in [Runs -> AgentState] /\ run[r] \in AgentState
    BY DEF AgentTypeOK
  <1>1. ASSUME NEW f, Step(r, f) \/ StepAndRecord(r, f), Effect(r, run[r], f),
               CloneEffect, reviewed \subseteq reviewed'
        PROVE  /\ \A q \in Implementers : Effect(q, run[q], run'[q])
               /\ CloneEffect
               /\ reviewed \subseteq reviewed'
    <2>1. run'[r] = f
      BY <1>1, OthersUntouched
    <2> QED BY <2>1, <1>1, OthersEffect
  <1>2. ASSUME UNCHANGED <<run, reviewed>>, MayChange(r) \/ ws' = ws
        PROVE  /\ \A q \in Implementers : Effect(q, run[q], run'[q])
               /\ CloneEffect
               /\ reviewed \subseteq reviewed'
    BY <1>2 DEF Effect, Untouched, CloneEffect
  <1>3. ASSUME NEW f, Step(r, f), f.pc \in {"idle", "prepare", "attempt", "provider", "judge", "returned"},
               f.status # "success" \/ (f.status = run[r].status /\ run[r].pc # "returned"),
               MayChange(r) \/ ws' = ws, UNCHANGED reviewed
        PROVE  /\ \A q \in Implementers : Effect(q, run[q], run'[q])
               /\ CloneEffect
               /\ reviewed \subseteq reviewed'
    BY <1>3, <1>1 DEF Effect, CloneEffect
  <1>4. ASSUME Fail(r), MayChange(r) \/ ws' = ws, UNCHANGED reviewed
        PROVE  /\ \A q \in Implementers : Effect(q, run[q], run'[q])
               /\ CloneEffect
               /\ reviewed \subseteq reviewed'
    <2> DEFINE failed == [Fresh EXCEPT !.pc = "returned", !.status = "failed"]
    <2>1. Step(r, failed) /\ failed.pc = "returned" /\ failed.status = "failed"
      BY <1>4 DEF Fail, Fresh
    <2> HIDE DEF failed
    <2> QED BY <2>1, <1>3, <1>4
  <1> DEFINE Goal == /\ \A q \in Implementers : Effect(q, run[q], run'[q])
                     /\ CloneEffect
                     /\ reviewed \subseteq reviewed'
  <1>5. ASSUME Start(r) PROVE Goal
    <2>1. /\ [Fresh EXCEPT !.pc = "prepare", !.source = main.head].pc = "prepare"
          /\ [Fresh EXCEPT !.pc = "prepare", !.source = main.head].status = "none"
      BY DEF Fresh
    <2> QED BY <2>1, <1>3, <1>5 DEF Start
  <1>6. ASSUME PrepareWorkspace(r) PROVE Goal
    <2> DEFINE f == [run[r] EXCEPT !.pc = "attempt", !.source = {}]
    <2>1. f.pc = "attempt" /\ f.status = run[r].status /\ run[r].pc = "prepare"
      BY <1>0, <1>6 DEF PrepareWorkspace, AgentState
    <2>2. UNCHANGED reviewed
      BY <1>6 DEF PrepareWorkspace
    <2>3. Step(r, f) \/ Fail(r)
      BY <1>6 DEF PrepareWorkspace
    <2>4. CASE Step(r, f)
      <3>1. run'[r] = f
        BY <2>4, OthersUntouched
      <3>2. MayChange(r)
        BY <2>1, <3>1 DEF MayChange
      <3> HIDE DEF f
      <3> QED BY <2>1, <2>2, <2>4, <3>2, <1>3
    <2>5. CASE Fail(r)
      <3>1. run'[r].pc = "returned"
        BY <1>0, <2>5 DEF Fail, Step, AgentTypeOK, Fresh
      <3>2. MayChange(r)
        BY <2>1, <3>1 DEF MayChange
      <3> QED BY <2>2, <2>5, <3>2, <1>4
    <2> QED BY <2>3, <2>4, <2>5
  <1>7. ASSUME BeginAttempt(r) PROVE Goal
    <2> DEFINE f == Begun(run[r])
    <2>0. run[r].pc = "attempt" /\ UNCHANGED <<ws, reviewed>>
      BY <1>7 DEF BeginAttempt
    <2>1. \A pc \in Phases : [f EXCEPT !.pc = pc].pc = pc /\ [f EXCEPT !.pc = pc].status = run[r].status
      BY <1>0 DEF Begun, AgentState
    <2>2. \/ Fail(r) \/ Step(r, [f EXCEPT !.pc = "judge"]) \/ Step(r, [f EXCEPT !.pc = "provider"])
      BY <1>7 DEF BeginAttempt
    <2>3. "judge" \in Phases /\ "provider" \in Phases
      BY DEF Phases
    <2> HIDE DEF f
    <2>4. CASE Step(r, [f EXCEPT !.pc = "judge"])
      BY <2>0, <2>1, <2>3, <2>4, <1>3
    <2>5. CASE Step(r, [f EXCEPT !.pc = "provider"])
      BY <2>0, <2>1, <2>3, <2>5, <1>3
    <2> QED BY <2>0, <2>2, <2>4, <2>5, <1>4
  <1>8. ASSUME ProviderWorks(r) \/ RequiredTargetWorks(r) PROVE Goal
    <2>1. UNCHANGED <<run, reviewed>> /\ run[r].pc \in {"provider", "required"}
      BY <1>8 DEF ProviderWorks, RequiredTargetWorks
    <2> QED BY <2>1, <1>2 DEF MayChange
  <1>9. ASSUME \/ Step(r, [run[r] EXCEPT !.meddled = ~Relaxed])
               \/ Step(r, [run[r] EXCEPT !.meddled = TRUE])
               \/ StepAndRecord(r, [run[r] EXCEPT !.meddled = TRUE, !.touched = TRUE]),
               UNCHANGED <<ws, reviewed>>
        PROVE Goal
    <2>1. /\ Untouched([run[r] EXCEPT !.meddled = ~Relaxed], run[r])
          /\ Untouched([run[r] EXCEPT !.meddled = TRUE], run[r])
          /\ Untouched([run[r] EXCEPT !.meddled = TRUE, !.touched = TRUE], run[r])
      BY <1>0 DEF Untouched, AgentState
    <2> QED BY <2>1, <1>9, <1>1 DEF Effect, CloneEffect
  <1>10. ASSUME ProviderMeddles(r) PROVE Goal
    <2>1. UNCHANGED <<ws, reviewed>>
      BY <1>10 DEF ProviderMeddles
    <2>2. \/ Step(r, [run[r] EXCEPT !.meddled = ~Relaxed])
          \/ Step(r, [run[r] EXCEPT !.meddled = TRUE])
          \/ StepAndRecord(r, [run[r] EXCEPT !.meddled = TRUE, !.touched = TRUE])
      BY <1>10 DEF ProviderMeddles
    <2> QED BY <2>1, <2>2, <1>9
  <1>11. ASSUME ProviderExits(r) PROVE Goal
    <2>1. PICK o \in Outcomes :
            Step(r, [run[r] EXCEPT !.pc = "judge", !.session = o.session, !.report = o.report])
      BY ONLY <1>11 DEF ProviderExits
    <2> DEFINE f == [run[r] EXCEPT !.pc = "judge", !.session = o.session, !.report = o.report]
    <2>2. f.pc = "judge" /\ f.status = run[r].status
      BY <1>0 DEF AgentState
    <2>3. run[r].pc = "provider" /\ UNCHANGED <<ws, reviewed>> /\ Step(r, f)
      BY <1>11, <2>1 DEF ProviderExits
    <2> HIDE DEF f
    <2> QED BY <2>2, <2>3, <1>3
  <1>12. ASSUME JudgeAttempt(r) PROVE Goal
    <2> DEFINE found == [run[r] EXCEPT !.snap = None, !.touched = FALSE, !.passed = FALSE,
                                       !.after = ws.head]
               on == [found EXCEPT !.pc = "policy"]
               over == [found EXCEPT !.pc = "decide"]
    <2>1. /\ on.pc = "policy" /\ on.before = run[r].before /\ on.report = run[r].report
          /\ on.after = ws.head /\ on.status = run[r].status
          /\ over.pc = "decide" /\ over.passed = FALSE /\ over.status = run[r].status
      BY <1>0 DEF AgentState
    <2>2. \/ Step(r, on) /\ GitEvidence(r) /\ Reported(r)
          \/ Fail(r)
          \/ Step(r, over)
      BY <1>12 DEF JudgeAttempt
    <2>3. run[r].pc = "judge" /\ UNCHANGED <<ws, reviewed>>
      BY <1>12 DEF JudgeAttempt
    <2> HIDE DEF on, over, found
    <2>4. CASE Step(r, on) /\ GitEvidence(r) /\ Reported(r)
      <3>1. Effect(r, run[r], on)
        BY <2>1, <2>3, <2>4 DEF Effect, Reported
      <3> QED BY <3>1, <2>3, <2>4, <1>1 DEF CloneEffect
    <2>5. CASE Step(r, over)
      <3>1. Effect(r, run[r], over)
        BY <2>1, <2>3 DEF Effect
      <3> QED BY <3>1, <2>3, <2>5, <1>1 DEF CloneEffect
    <2> QED BY <2>2, <2>3, <2>4, <2>5, <1>4
  <1>13. ASSUME Decide(r) PROVE Goal
    <2> DEFINE more == [run[r] EXCEPT !.pc = "attempt", !.attempt = @ + 1, !.subject = {},
                                      !.review = Unreviewed]
               good == Succeeded(run[r])
    <2>1. run[r].pc = "decide" /\ UNCHANGED <<ws, reviewed>>
      BY <1>13 DEF Decide
    <2>2. more.pc = "attempt" /\ more.status = run[r].status
      BY <1>0 DEF AgentState
    <2>3. /\ good.pc = "returned" /\ good.after = run[r].after /\ good.report = run[r].report
          /\ good.status = "success"
      BY DEF Succeeded, Fresh
    <2>4. \/ StepAndRecord(r, good) /\ run[r].passed
          \/ Step(r, more)
          \/ Fail(r)
      BY <1>13 DEF Decide
    <2> HIDE DEF more, good
    <2>5. CASE StepAndRecord(r, good) /\ run[r].passed
      <3>1. Effect(r, run[r], good)
        BY <2>1, <2>3, <2>5 DEF Effect
      <3> QED BY <3>1, <2>1, <2>5, <1>1 DEF CloneEffect
    <2>6. CASE Step(r, more)
      BY <2>1, <2>2, <2>6, <1>3
    <2> QED BY <2>1, <2>4, <2>5, <2>6, <1>4
  <1>14. ASSUME BeginPolicy(r) PROVE Goal
    <2> DEFINE f == [run[r] EXCEPT !.pc = "required", !.subject = ws.head]
    <2>1. /\ f.pc = "required" /\ f.subject = ws.head
          /\ SameEvidence(f, [run[r] EXCEPT !.subject = ws.head])
      BY <1>0 DEF AgentState, SameEvidence
    <2>2. run[r].pc = "policy" /\ UNCHANGED <<ws, reviewed>> /\ StepAndRecord(r, f)
      BY <1>14 DEF BeginPolicy
    <2> HIDE DEF f
    <2>3. Effect(r, run[r], f)
      BY <2>1, <2>2 DEF Effect
    <2> QED BY <2>2, <2>3, <1>1 DEF CloneEffect
  <1>15. ASSUME RequiredTargetsEnd(r) PROVE Goal
    <2> DEFINE on == [run[r] EXCEPT !.pc = "review", !.snap = main]
               over == [run[r] EXCEPT !.pc = "collect", !.passed = FALSE]
    <2>1. /\ on.pc = "review" /\ SameEvidence(on, run[r])
          /\ over.pc = "collect" /\ over.passed = FALSE /\ SameEvidence(over, run[r])
      BY <1>0 DEF AgentState, SameEvidence
    <2>2. run[r].pc = "required" /\ UNCHANGED <<ws, reviewed>> /\ (Step(r, on) \/ Step(r, over))
      BY <1>15 DEF RequiredTargetsEnd
    <2> HIDE DEF on, over
    <2>3. Effect(r, run[r], on) /\ Effect(r, run[r], over)
      BY <2>1, <2>2 DEF Effect
    <2> QED BY <2>2, <2>3, <1>1 DEF CloneEffect
  <1>16. ASSUME NEW v \in Reviewers, StartReviewer(r, v) \/ EndReviewer(r, v) PROVE Goal
    <2>1. PICK at : StepReviewer(r, v, at)
      BY <1>16 DEF StartReviewer, EndReviewer
    <2>2. Untouched([run[r] EXCEPT !.review[v] = at], run[r])
      BY <1>0 DEF Untouched, AgentState
    <2>3. UNCHANGED <<ws, reviewed>>
      BY <1>16 DEF StartReviewer, EndReviewer
    <2> QED BY <2>1, <2>2, <2>3, <1>1 DEF Effect, CloneEffect, StepReviewer
  <1>17. ASSUME NEW v \in Reviewers, ReviewerWorks(r, v) PROVE Goal
    <2>1. run[r].pc = "review" /\ UNCHANGED reviewed
      BY <1>17 DEF ReviewerWorks
    <2>2. CASE UNCHANGED run
      BY <2>1, <2>2, <1>2 DEF MayChange
    <2>3. CASE /\ UNCHANGED ws
               /\ \/ Step(r, [run[r] EXCEPT !.meddled = ~Relaxed])
                  \/ Step(r, [run[r] EXCEPT !.meddled = TRUE])
      <3> QED BY <2>1, <2>3, <1>9
    <2>4. CASE /\ StepAndRecord(r, [Sees(run[r]) EXCEPT !.meddled = TRUE])
               /\ UNCHANGED ws
      <3>1. Sees(run[r]) \in AgentState /\ Untouched(Sees(run[r]), run[r])
        BY <1>0, SeesType
      <3>2. Untouched([Sees(run[r]) EXCEPT !.meddled = TRUE], run[r])
        BY <3>1 DEF AgentState, Untouched
      <3> QED BY <2>1, <2>4, <3>2, <1>1 DEF Effect, CloneEffect
    <2> QED BY <2>2, <2>3, <2>4, <1>17 DEF ReviewerWorks
  <1>18. ASSUME CollectReviews(r) PROVE Goal
    <2> DEFINE f == [run[r] EXCEPT !.pc = "collect", !.snap = None, !.review = Unreviewed,
                                   !.passed = PolicyPasses(r)]
    <2>1. f.pc = "collect" /\ f.passed = PolicyPasses(r) /\ SameEvidence(f, run[r])
      BY <1>0 DEF AgentState, SameEvidence
    <2>2. run[r].pc = "review" /\ UNCHANGED ws /\ Step(r, f)
      BY <1>18 DEF CollectReviews
    <2>3. /\ reviewed \subseteq reviewed'
          /\ PolicyPasses(r) => SubjectUnchanged(r) /\ run[r].subject \in reviewed'
      BY <1>18 DEF CollectReviews, PolicyPasses
    <2> HIDE DEF f
    <2>4. Effect(r, run[r], f)
      BY <2>1, <2>2, <2>3 DEF Effect
    <2> QED BY <2>2, <2>3, <2>4, <1>1 DEF CloneEffect
  <1>19. ASSUME WriteVerdict(r) PROVE Goal
    <2> DEFINE on == [run[r] EXCEPT !.pc = "close"]
               over == [run[r] EXCEPT !.pc = "close", !.passed = FALSE]
    <2>1. /\ on.pc = "close" /\ on.passed = run[r].passed /\ SameEvidence(on, run[r])
          /\ over.pc = "close" /\ over.passed = FALSE /\ SameEvidence(over, run[r])
      BY <1>0 DEF AgentState, SameEvidence
    <2>2. /\ run[r].pc = "collect" /\ UNCHANGED <<ws, reviewed>>
          /\ StepAndRecord(r, on) \/ Step(r, over)
      BY <1>19 DEF WriteVerdict
    <2> HIDE DEF on, over
    <2>3. Effect(r, run[r], on) /\ Effect(r, run[r], over)
      BY <2>1, <2>2 DEF Effect
    <2> QED BY <2>2, <2>3, <1>1 DEF CloneEffect
  <1>20. ASSUME ClosePolicy(r) PROVE Goal
    <2>1. PICK passed \in {run[r].passed, FALSE} :
            StepAndRecord(r, [run[r] EXCEPT !.pc = "decide", !.passed = passed])
      BY <1>20 DEF ClosePolicy
    <2> DEFINE f == [run[r] EXCEPT !.pc = "decide", !.passed = passed]
    <2>2. f.pc = "decide" /\ f.passed = passed /\ SameEvidence(f, run[r])
      BY <1>0 DEF AgentState, SameEvidence
    <2>3. run[r].pc = "close" /\ UNCHANGED <<ws, reviewed>> /\ StepAndRecord(r, f)
      BY <1>20, <2>1 DEF ClosePolicy
    <2>4. passed => run[r].passed
      OBVIOUS
    <2> HIDE DEF f
    <2>5. Effect(r, run[r], f)
      BY <2>2, <2>3, <2>4 DEF Effect
    <2> QED BY <2>3, <2>5, <1>1 DEF CloneEffect
  <1> HIDE DEF Goal
  <1>21. Goal
    BY <1>5, <1>6, <1>7, <1>8, <1>10, <1>11, <1>12, <1>13, <1>14, <1>15, <1>16, <1>17, <1>18, <1>19,
       <1>20 DEF Implementing, Policing
  <1> QED BY <1>21 DEF Goal

\* An implementer whose last attempt was judged good, and whose policy has not failed it.
Judged(x) ==
  \/ x.pc \in {"policy", "required", "review", "collect", "close"}
  \/ x.pc = "decide" /\ x.passed

\* What its locals then say of each other, of the clone and of the reviews.
Evident(x) ==
  /\ Judged(x) => x.after = x.report /\ x.before # x.after /\ IsAncestor(x.before, x.after)
  /\ x.pc = "policy" => x.after = ws.head
  /\ Judged(x) /\ x.pc # "policy" => x.subject = x.after
  /\ x.pc \in {"collect", "close", "decide"} /\ x.passed =>
       ws.head = x.subject /\ ws.on /\ ~ws.dirty /\ x.subject \in reviewed
  /\ x.status = "success" => x.pc = "returned" /\ x.after \in reviewed

PassInv == \A r \in Implementers : Evident(run[r])

\* Only one implementer works in the clone at a time.
SoleImplementer == \A r, q \in Implementers : r = q

\* One step: nothing changes the clone between the verdict and the success.
LEMMA EvidenceKept ==
  ASSUME NEW r \in Implementers, \A q \in Implementers : q = r,
         Evident(run[r]), Effect(r, run[r], run'[r]), CloneEffect, reviewed \subseteq reviewed'
  PROVE  Evident(run[r])'
  <1>1. ws' = ws \/ MayChange(r)
    BY DEF CloneEffect
  <1> DEFINE x == run[r]
             y == run'[r]
  <1>2. CASE Untouched(y, x)
    BY <1>1, <1>2 DEF Evident, Judged, Untouched, MayChange
  <1>3. CASE /\ y.pc \in {"idle", "prepare", "attempt", "provider", "judge", "returned"}
             /\ y.status # "success" \/ (y.status = x.status /\ x.pc # "returned")
    BY <1>3 DEF Evident, Judged
  <1>4. CASE /\ x.pc = "judge" /\ y.pc = "policy"
             /\ y.before = x.before /\ y.report = ws.head /\ y.after = ws.head
             /\ y.status = x.status /\ GitEvidence(r)
    BY <1>1, <1>4 DEF Evident, Judged, GitEvidence, MayChange
  <1>5. CASE x.pc = "judge" /\ y.pc = "decide" /\ y.passed = FALSE /\ y.status = x.status
    BY <1>5 DEF Evident, Judged
  <1>6. CASE /\ x.pc = "policy" /\ y.pc = "required" /\ y.subject = ws.head
             /\ SameEvidence(y, [x EXCEPT !.subject = ws.head])
    <2>1. /\ [x EXCEPT !.subject = ws.head].before = x.before
          /\ [x EXCEPT !.subject = ws.head].after = x.after
          /\ [x EXCEPT !.subject = ws.head].report = x.report
          /\ [x EXCEPT !.subject = ws.head].status = x.status
      OBVIOUS
    <2> QED BY <1>1, <1>6, <2>1 DEF Evident, Judged, SameEvidence, MayChange
  <1>7. CASE x.pc = "required" /\ y.pc = "review" /\ SameEvidence(y, x)
    BY <1>7 DEF Evident, Judged, SameEvidence
  <1>8. CASE x.pc = "required" /\ y.pc = "collect" /\ y.passed = FALSE /\ SameEvidence(y, x)
    BY <1>8 DEF Evident, Judged, SameEvidence
  <1>9. CASE /\ x.pc = "review" /\ y.pc = "collect" /\ SameEvidence(y, x)
             /\ y.passed => SubjectUnchanged(r) /\ x.subject \in reviewed'
    BY <1>1, <1>9 DEF Evident, Judged, SameEvidence, SubjectUnchanged, MayChange
  <1>10. CASE /\ \/ x.pc = "collect" /\ y.pc = "close"
                 \/ x.pc = "close" /\ y.pc = "decide"
              /\ SameEvidence(y, x) /\ (y.passed => x.passed)
    BY <1>1, <1>10 DEF Evident, Judged, SameEvidence, MayChange
  <1>11. CASE /\ x.pc = "decide" /\ x.passed /\ y.pc = "returned"
              /\ y.after = x.after /\ y.report = x.report /\ y.status = "success"
    BY <1>11 DEF Evident, Judged
  <1> QED BY <1>2, <1>3, <1>4, <1>5, <1>6, <1>7, <1>8, <1>9, <1>10, <1>11 DEF Effect

\* What any step does to the implementers.
LEMMA AgentEffect ==
  ASSUME AgentTypeOK, [AgentNext]_agentVars
  PROVE  /\ \A q \in Implementers : Effect(q, run[q], run'[q])
         /\ CloneEffect
         /\ reviewed \subseteq reviewed'
  <1> USE Kinds
  <1>0. run \in [Runs -> AgentState]
    BY DEF AgentTypeOK
  <1>1. ASSUME NEW r \in Implementers, Implementing(r) \/ Policing(r)
        PROVE  /\ \A q \in Implementers : Effect(q, run[q], run'[q])
               /\ CloneEffect
               /\ reviewed \subseteq reviewed'
    BY <1>1, ImplementerEffect
  <1>2. ASSUME NEW r \in Mergers, Merging(r)
        PROVE  /\ \A q \in Implementers : Effect(q, run[q], run'[q])
               /\ CloneEffect
               /\ reviewed \subseteq reviewed'
    <2>1. UNCHANGED <<ws, reviewed>>
      BY <1>2 DEF Merging, StartMerge, CheckEvidence, MergeProviderMerges, MergeProviderMeddles,
                  MergeProviderExits, JudgeMerge
    <2>2. UNCHANGED run \/ \E f : Step(r, f) \/ StepAndRecord(r, f)
      <3>1. CASE StartMerge(r) \/ CheckEvidence(r) \/ MergeProviderMerges(r) \/ JudgeMerge(r)
        BY <3>1 DEF StartMerge, CheckEvidence, MergeProviderMerges, JudgeMerge, Fail
      <3>2. CASE MergeProviderMeddles(r)
        BY <3>2 DEF MergeProviderMeddles
      <3>3. CASE MergeProviderExits(r)
        BY <3>3 DEF MergeProviderExits
      <3> QED BY <1>2, <3>1, <3>2, <3>3 DEF Merging
    <2>3. CASE UNCHANGED run
      BY <2>1, <2>3 DEF Effect, Untouched, CloneEffect
    <2>4. ASSUME NEW f, Step(r, f) \/ StepAndRecord(r, f), NEW q \in Implementers
          PROVE  Effect(q, run[q], run'[q])
      BY <2>4, OthersEffect
    <2> QED BY <2>1, <2>2, <2>3, <2>4 DEF CloneEffect
  <1>3. ASSUME NEW r \in Runs, Leave(r)
        PROVE  /\ \A q \in Implementers : Effect(q, run[q], run'[q])
               /\ CloneEffect
               /\ reviewed \subseteq reviewed'
    <2>1. Step(r, Fresh) /\ UNCHANGED <<ws, reviewed>>
      BY <1>3 DEF Leave
    <2>2. Fresh.pc = "idle" /\ Fresh.status = "none"
      BY DEF Fresh
    <2>3. Effect(r, run[r], run'[r])
      BY <2>1, <2>2, OthersUntouched DEF Effect
    <2> QED BY <2>1, <2>3, OthersEffect DEF CloneEffect
  <1>4. CASE OperatorCommits \/ UNCHANGED agentVars
    BY <1>4 DEF OperatorCommits, agentVars, Effect, Untouched, CloneEffect
  <1>5. CASE OthersRecord
    <2>1. \A q \in Runs : Untouched(run'[q], run[q])
      BY <1>0, <1>5, SeesType DEF OthersRecord
    <2> QED BY <2>1, <1>5 DEF OthersRecord, Effect, CloneEffect
  <1> QED BY <1>1, <1>2, <1>3, <1>4, <1>5 DEF AgentNext

\* The invariant holds while one implementer has the clone.
LEMMA PassInvHolds ==
  ASSUME SoleImplementer PROVE AgentSpec => []PassInv
  <1>1. AgentInit => PassInv
    BY Kinds DEF AgentInit, Fresh, PassInv, Evident, Judged
  <1>2. AgentTypeOK /\ PassInv /\ [AgentNext]_agentVars => PassInv'
    <2> SUFFICES ASSUME AgentTypeOK, PassInv, [AgentNext]_agentVars, NEW r \in Implementers
                 PROVE  Evident(run[r])'
      BY DEF PassInv
    <2> QED BY AgentEffect, EvidenceKept DEF PassInv, SoleImplementer
  <1> QED BY <1>1, <1>2, AgentTypesHold, PTL DEF AgentSpec

\* While one implementer has the clone, the commit it passes with is one that all reviewers of
\* its policy were content with (agentAttemptReport.Commit, runReviewPolicy).
THEOREM PassedIsReviewedAlways ==
  ASSUME SoleImplementer PROVE AgentSpec => []PassedIsReviewed
  <1>1. PassInv => PassedIsReviewed
    BY DEF PassInv, PassedIsReviewed, Evident
  <1> QED BY <1>1, PassInvHolds, PTL

\* And when it passes, its clone is where its report says: on the configured branch, clean, at
\* a new commit on top of the one before the attempt (Execute, validateGitEvidence).
THEOREM PassedMeansEvidenceAlways ==
  ASSUME SoleImplementer PROVE AgentSpec => PassedMeansEvidence
  <1> DEFINE Good ==
        \A r \in Implementers : Passes(r) =>
          /\ ws.head = run'[r].report /\ ws.on /\ ~ws.dirty
          /\ run[r].before # ws.head /\ IsAncestor(run[r].before, ws.head)
  <1>1. AgentTypeOK /\ PassInv /\ [AgentNext]_agentVars => Good
    <2> SUFFICES ASSUME AgentTypeOK, PassInv, [AgentNext]_agentVars,
                        NEW r \in Implementers, Passes(r)
                 PROVE  /\ ws.head = run'[r].report /\ ws.on /\ ~ws.dirty
                        /\ run[r].before # ws.head /\ IsAncestor(run[r].before, ws.head)
      OBVIOUS
    <2> DEFINE x == run[r]
               y == run'[r]
    <2>1. Effect(r, x, y) /\ Evident(x)
      BY AgentEffect DEF PassInv
    <2>2. x.status # "success" /\ y.status = "success"
      BY DEF Passes
    <2>3. /\ x.pc = "decide" /\ x.passed /\ y.pc = "returned"
          /\ y.after = x.after /\ y.report = x.report
      BY <2>1, <2>2 DEF Effect, Untouched, SameEvidence
    <2> QED BY <2>1, <2>3 DEF Evident, Judged
  <1>2. AgentSpec => [][Good]_agentVars
    BY <1>1, AgentTypesHold, PassInvHolds, PTL DEF AgentSpec
  <1> QED BY <1>2 DEF PassedMeansEvidence

-----------------------------------------------------------------------------
(* What an implementer cannot pass with *)

\* A checkout that no longer is what a snapshot shows.
Apart(checkout, snap) == ~(checkout.head \subseteq snap.head) \/ checkout.damage # snap.damage

\* A reviewer that cannot end content.
Ashamed == {"fooled", "finding"}

\* Of an implementer, the main checkout and the number of commits: what its program or a
\* reviewer did can be seen as long as nobody has judged it.
Shown(x, checkout, count) ==
  /\ x.pc \in {"provider", "judge", "review"} =>
       x.snap.head \subseteq 1 .. count /\ x.snap.damage \in {"none", checkout.damage}
  /\ x.pc \in {"provider", "judge"} /\ x.meddled => x.touched \/ Apart(checkout, x.snap)
  /\ x.pc \in {"policy", "required"} => ~x.meddled
  /\ x.pc = "review" /\ x.meddled =>
       Apart(checkout, x.snap) \/ \E v \in Reviewers : x.review[v] \in Ashamed
  /\ x.pc \in {"collect", "close", "decide"} /\ x.passed => ~x.meddled
  /\ x.status = "success" => x.pc = "returned" /\ ~x.meddled

\* Whatever a checkout, a clone or a merge agent holds has been made.
CommitsAreMade ==
  /\ main.head \subseteq 1 .. made
  /\ ws # None => ws.head \subseteq 1 .. made /\ ws.tip \subseteq 1 .. made
  /\ \A r \in Runs : run[r].after \subseteq 1 .. made

ShownInv == CommitsAreMade /\ \A r \in Implementers : Shown(run[r], main, made)

\* The main checkout gains commits, or holds a new one alone; it is damaged once.
MainMoves ==
  /\ made' \in {made, made + 1}
  /\ main'.damage = main.damage \/ main.damage = "none"
  /\ main.head \subseteq main'.head \/ (made' = made + 1 /\ main'.head = {made + 1})

\* What sets a checkout apart from a snapshot, no later move undoes.
LEMMA ApartStays ==
  ASSUME made \in Nat, MainMoves, NEW snap, snap.head \subseteq 1 .. made,
         snap.damage \in {"none", main.damage}
  PROVE  /\ snap.head \subseteq 1 .. made' /\ snap.damage \in {"none", main'.damage}
         /\ Apart(main, snap) => Apart(main', snap)
  <1>1. snap.head \subseteq 1 .. made' /\ made + 1 \notin snap.head
    BY DEF MainMoves
  <1>2. snap.damage \in {"none", main'.damage}
    BY DEF MainMoves
  <1>3. ASSUME ~(main.head \subseteq snap.head) PROVE ~(main'.head \subseteq snap.head)
    BY <1>1, <1>3 DEF MainMoves
  <1>4. ASSUME main.damage # snap.damage PROVE main'.damage # snap.damage
    BY <1>4 DEF MainMoves
  <1> QED BY <1>1, <1>2, <1>3, <1>4 DEF Apart

\* A program that changes the main checkout sets it apart from every earlier snapshot.
LEMMA MeddlingShows ==
  ASSUME AgentTypeOK, Advance \/ Damage, NEW snap, snap.head \subseteq 1 .. made,
         snap.damage \in {"none", main.damage}
  PROVE  Apart(main', snap)
  <1>0. main \in Checkouts /\ made \in Nat
    BY AgentAssumption DEF AgentTypeOK
  <1>1. made + 1 \notin snap.head
    BY <1>0
  <1>2. CASE Advance
    <2>1. main'.head = main.head \cup {made + 1}
      BY <1>0, <1>2 DEF Advance, New, Checkouts
    <2> QED BY <1>1, <2>1 DEF Apart
  <1>3. CASE Spoil
    BY <1>0, <1>3 DEF Spoil, Apart, Checkouts
  <1>4. CASE main' = [main EXCEPT !.head = {New}]
    <2>1. main'.head = {made + 1}
      BY <1>0, <1>4 DEF New, Checkouts
    <2> QED BY <1>1, <2>1 DEF Apart
  <1> QED BY <1>2, <1>3, <1>4 DEF Damage

\* A step that does not change the main checkout, or changes it as programs and people do.
LEMMA MainMovesAlways ==
  ASSUME AgentTypeOK, CommitsAreMade,
         \/ UNCHANGED main /\ made' \in {made, made + 1}
         \/ Advance \/ Damage \/ Spoil
         \/ \E r \in Mergers : MergeProviderMerges(r)
  PROVE  MainMoves /\ main'.head \subseteq 1 .. made'
  <1>0. main \in Checkouts /\ made \in Nat /\ run \in [Runs -> AgentState]
    BY AgentAssumption DEF AgentTypeOK
  <1>1. main.head \subseteq 1 .. made
    BY DEF CommitsAreMade
  <1>2. CASE UNCHANGED main /\ made' \in {made, made + 1}
    BY <1>0, <1>1, <1>2 DEF MainMoves
  <1>3. CASE Advance
    <2>1. main'.head = main.head \cup {made + 1} /\ main'.damage = main.damage /\ made' = made + 1
      BY <1>0, <1>3 DEF Advance, New, Made, Checkouts
    <2> QED BY <1>0, <1>1, <2>1 DEF MainMoves
  <1>4. CASE Spoil
    <2>1. main'.head = main.head /\ main.damage = "none" /\ made' = made
      BY <1>0, <1>4 DEF Spoil, Checkouts
    <2> QED BY <1>0, <1>1, <2>1 DEF MainMoves
  <1>5. CASE Damage
    <2>1. CASE Made /\ main' = [main EXCEPT !.head = {New}]
      <3>1. main'.head = {made + 1} /\ main'.damage = main.damage /\ made' = made + 1
        BY <1>0, <2>1 DEF New, Made, Checkouts
      <3> QED BY <1>0, <3>1 DEF MainMoves
    <2> QED BY <1>4, <1>5, <2>1 DEF Damage
  <1>6. ASSUME NEW r \in Mergers, MergeProviderMerges(r)
        PROVE MainMoves /\ main'.head \subseteq 1 .. made'
    <2>0. run[r].after \subseteq 1 .. made
      BY Kinds DEF CommitsAreMade
    <2>1. CASE Made /\ main' = [main EXCEPT !.head = @ \cup run[r].after \cup {New}]
      <3>1. /\ main'.head = main.head \cup run[r].after \cup {made + 1}
            /\ main'.damage = main.damage /\ made' = made + 1
        BY <1>0, <2>1 DEF New, Made, Checkouts
      <3> QED BY <1>0, <1>1, <2>0, <3>1 DEF MainMoves
    <2>2. CASE /\ IsAncestor(main.head, run[r].after) /\ UNCHANGED made
               /\ main' = [main EXCEPT !.head = run[r].after]
      <3>1. /\ main'.head = run[r].after /\ main.head \subseteq run[r].after
            /\ main'.damage = main.damage /\ made' = made
        BY <1>0, <2>2 DEF Checkouts, IsAncestor
      <3> QED BY <1>0, <2>0, <3>1 DEF MainMoves
    <2> QED BY <1>6, <2>1, <2>2 DEF MergeProviderMerges
  <1> QED BY <1>2, <1>3, <1>4, <1>5, <1>6

\* The locals that the watch over a program rests on, but for what a record of others adds.
KeepsWatch(y, x) ==
  /\ y.pc = x.pc /\ y.meddled = x.meddled /\ y.snap = x.snap /\ y.passed = x.passed
  /\ y.status = x.status /\ (x.touched => y.touched)
  /\ \A v \in Reviewers : x.review[v] \in Ashamed => y.review[v] \in Ashamed

\* A record of others hides nothing.
LEMMA SeesWatch ==
  ASSUME NEW x \in AgentState
  PROVE  KeepsWatch(Sees(x), x) /\ KeepsWatch(x, x)
  <1>1. CASE x.pc \in {"provider", "merge"}
    <2>1. Sees(x) = [x EXCEPT !.touched = TRUE]
      BY <1>1 DEF Sees
    <2> QED BY <2>1 DEF AgentState, KeepsWatch
  <1>2. CASE x.pc = "review"
    <2> DEFINE fooled == [v \in Reviewers |-> IF x.review[v] = "running" THEN "fooled" ELSE x.review[v]]
    <2>1. Sees(x) = [x EXCEPT !.review = fooled]
      BY <1>2 DEF Sees
    <2>2. \A v \in Reviewers : x.review[v] \in Ashamed => fooled[v] \in Ashamed
      BY DEF Ashamed
    <2> HIDE DEF fooled
    <2> QED BY <2>1, <2>2 DEF AgentState, KeepsWatch
  <1>3. CASE x.pc \notin {"provider", "merge", "review"}
    <2>1. Sees(x) = x
      BY <1>3 DEF Sees
    <2> QED BY <2>1 DEF KeepsWatch
  <1>4. KeepsWatch(x, x)
    BY DEF KeepsWatch
  <1> QED BY <1>1, <1>2, <1>3, <1>4

\* What a step makes of the locals x of implementer r: y.
WatchEffect(x, y) ==
  \/ KeepsWatch(y, x)
  \/ /\ y.pc \in {"idle", "prepare", "attempt", "returned"}
     /\ y.status # "success" \/ (y.status = x.status /\ x.pc # "returned")
  \/ /\ x.pc = "attempt" /\ y.pc \in {"provider", "judge"}
     /\ y.snap = main /\ UNCHANGED main /\ y.meddled = FALSE /\ y.status = x.status
  \/ /\ x.pc = "provider" /\ y.pc \in {"provider", "judge"} /\ y.snap = x.snap /\ y.status = x.status
     /\ \/ y.meddled = x.meddled /\ (x.touched => y.touched)
        \/ y.touched
        \/ Advance \/ Damage
  \/ /\ x.pc = "judge" /\ y.pc = "policy" /\ y.meddled = x.meddled /\ y.status = x.status
     /\ CheckoutUnchanged(x.snap) /\ ~x.touched
  \/ x.pc = "judge" /\ y.pc = "decide" /\ y.passed = FALSE /\ y.status = x.status
  \/ x.pc = "policy" /\ y.pc = "required" /\ y.meddled = x.meddled /\ y.status = x.status
  \/ /\ x.pc = "required" /\ y.pc = "review" /\ y.meddled = x.meddled /\ y.status = x.status
     /\ y.snap = main /\ UNCHANGED main
  \/ x.pc = "required" /\ y.pc = "collect" /\ y.passed = FALSE /\ y.status = x.status
  \/ /\ x.pc = "review" /\ y.pc = "review" /\ y.snap = x.snap /\ y.status = x.status
     /\ \/ Advance \/ Damage
        \/ \E v \in Reviewers : y.review[v] \in Ashamed
  \/ /\ x.pc = "review" /\ y.pc = "collect" /\ y.meddled = x.meddled /\ y.status = x.status
     /\ y.passed => CheckoutUnchanged(x.snap) /\ \A v \in Reviewers : x.review[v] \notin Ashamed
  \/ /\ \/ x.pc = "collect" /\ y.pc = "close"
        \/ x.pc = "close" /\ y.pc = "decide"
     /\ y.meddled = x.meddled /\ y.status = x.status /\ (y.passed => x.passed)
  \/ /\ x.pc = "decide" /\ x.passed /\ y.pc = "returned" /\ y.meddled = x.meddled
     /\ y.status = "success"

\* The clone stays within what has been made.
CloneMoves ==
  \/ ws' = ws
  \/ ws # None /\ ChangeClone
  \/ ws # None /\ ws' = [ws EXCEPT !.on = TRUE, !.head = ws.tip]
  \/ ws' = [tip |-> main.head, head |-> main.head, on |-> TRUE, dirty |-> FALSE]

\* So does the main checkout.
CheckoutMoves ==
  \/ UNCHANGED main /\ made' \in {made, made + 1}
  \/ Advance \/ Damage \/ Spoil
  \/ \E r \in Mergers : MergeProviderMerges(r)

\* And the commit in the locals x of a run, which become y.
HoldsCommit(y, x) ==
  \/ y.after = x.after \/ y.after = {}
  \/ ws # None /\ y.after = ws.head

\* What a step makes of the runs.
RunsEffect ==
  /\ \A q \in Implementers : WatchEffect(run[q], run'[q])
  /\ \A q \in Runs : HoldsCommit(run'[q], run[q])

\* With the strict guard, what a program does either shows or is found.
LEMMA ShownKept ==
  ASSUME AgentTypeOK, CommitsAreMade, MainMoves, ~Relaxed, NEW r \in Implementers,
         Shown(run[r], main, made), WatchEffect(run[r], run'[r])
  PROVE  Shown(run'[r], main', made')
  <1> DEFINE x == run[r]
             y == run'[r]
  <1>0. main \in Checkouts /\ made \in Nat /\ main.head \subseteq 1 .. made
    BY AgentAssumption DEF AgentTypeOK, CommitsAreMade
  <1>1. ASSUME x.pc \in {"provider", "judge", "review"}
        PROVE  /\ x.snap.head \subseteq 1 .. made /\ x.snap.damage \in {"none", main.damage}
               /\ x.snap.head \subseteq 1 .. made' /\ x.snap.damage \in {"none", main'.damage}
               /\ Apart(main, x.snap) => Apart(main', x.snap)
               /\ Advance \/ Damage => Apart(main', x.snap)
    <2>1. x.snap.head \subseteq 1 .. made /\ x.snap.damage \in {"none", main.damage}
      BY <1>1 DEF Shown
    <2> QED BY <1>0, <2>1, ApartStays, MeddlingShows
  <1>2. ASSUME CheckoutUnchanged(x.snap) PROVE ~Apart(main, x.snap)
    BY <1>2 DEF CheckoutUnchanged, Apart
  <1>3. CASE KeepsWatch(y, x)
    BY <1>1, <1>3 DEF Shown, KeepsWatch
  <1>4. CASE /\ y.pc \in {"idle", "prepare", "attempt", "returned"}
             /\ y.status # "success" \/ (y.status = x.status /\ x.pc # "returned")
    BY <1>4 DEF Shown
  <1>5. CASE /\ x.pc = "attempt" /\ y.pc \in {"provider", "judge"}
             /\ y.snap = main /\ UNCHANGED main /\ y.meddled = FALSE /\ y.status = x.status
    <2>1. main.head \subseteq 1 .. made'
      BY <1>0 DEF MainMoves
    <2> QED BY <1>5, <2>1 DEF Shown
  <1>6. CASE /\ x.pc = "provider" /\ y.pc \in {"provider", "judge"} /\ y.snap = x.snap
             /\ y.status = x.status
             /\ \/ y.meddled = x.meddled /\ (x.touched => y.touched)
                \/ y.touched
                \/ Advance \/ Damage
    BY <1>1, <1>6 DEF Shown
  <1>7. CASE /\ x.pc = "judge" /\ y.pc = "policy" /\ y.meddled = x.meddled /\ y.status = x.status
             /\ CheckoutUnchanged(x.snap) /\ ~x.touched
    BY <1>2, <1>7 DEF Shown
  <1>8. CASE x.pc = "judge" /\ y.pc = "decide" /\ y.passed = FALSE /\ y.status = x.status
    BY <1>8 DEF Shown
  <1>9. CASE x.pc = "policy" /\ y.pc = "required" /\ y.meddled = x.meddled /\ y.status = x.status
    BY <1>9 DEF Shown
  <1>10. CASE /\ x.pc = "required" /\ y.pc = "review" /\ y.meddled = x.meddled
              /\ y.status = x.status /\ y.snap = main /\ UNCHANGED main
    <2>1. main.head \subseteq 1 .. made'
      BY <1>0 DEF MainMoves
    <2> QED BY <1>10, <2>1 DEF Shown
  <1>11. CASE x.pc = "required" /\ y.pc = "collect" /\ y.passed = FALSE /\ y.status = x.status
    BY <1>11 DEF Shown
  <1>12. CASE /\ x.pc = "review" /\ y.pc = "review" /\ y.snap = x.snap /\ y.status = x.status
              /\ \/ Advance \/ Damage
                 \/ \E v \in Reviewers : y.review[v] \in Ashamed
    BY <1>1, <1>12 DEF Shown
  <1>13. CASE /\ x.pc = "review" /\ y.pc = "collect" /\ y.meddled = x.meddled
              /\ y.status = x.status
              /\ y.passed => CheckoutUnchanged(x.snap) /\ \A v \in Reviewers : x.review[v] \notin Ashamed
    BY <1>2, <1>13 DEF Shown
  <1>14. CASE /\ \/ x.pc = "collect" /\ y.pc = "close"
                 \/ x.pc = "close" /\ y.pc = "decide"
              /\ y.meddled = x.meddled /\ y.status = x.status /\ (y.passed => x.passed)
    BY <1>14 DEF Shown
  <1>15. CASE /\ x.pc = "decide" /\ x.passed /\ y.pc = "returned" /\ y.meddled = x.meddled
              /\ y.status = "success"
    BY <1>15 DEF Shown
  <1> QED
    BY <1>3, <1>4, <1>5, <1>6, <1>7, <1>8, <1>9, <1>10, <1>11, <1>12, <1>13, <1>14, <1>15
    DEF WatchEffect

\* Nothing is held that has not been made.
LEMMA CommitsKept ==
  ASSUME AgentTypeOK, CommitsAreMade, CloneMoves, CheckoutMoves,
         \A r \in Runs : HoldsCommit(run'[r], run[r])
  PROVE  CommitsAreMade' /\ MainMoves
  <1>0. made \in Nat /\ ws \in {None} \cup Clones
    BY AgentAssumption DEF AgentTypeOK
  <1>1. MainMoves /\ main'.head \subseteq 1 .. made'
    BY MainMovesAlways DEF CheckoutMoves
  <1>2. made' \in {made, made + 1}
    BY <1>1 DEF MainMoves
  <1>3. \A S \in SUBSET (1 .. made) : S \subseteq 1 .. made'
    BY <1>0, <1>2
  <1>4. ws # None => ws \in Clones /\ ws.head \subseteq 1 .. made' /\ ws.tip \subseteq 1 .. made'
    BY <1>0, <1>3 DEF CommitsAreMade
  <1>5. ws' # None => ws'.head \subseteq 1 .. made' /\ ws'.tip \subseteq 1 .. made'
    <2>1. CASE ws' = ws
      BY <1>4, <2>1
    <2>2. CASE ws # None /\ ChangeClone
      <3>1. CASE /\ Made
                 /\ ws' = [ws EXCEPT !.head = @ \cup {New},
                             !.tip = IF ws.on THEN ws.head \cup {New} ELSE @, !.dirty = FALSE]
        <4>1. New \in 1 .. made'
          BY <1>0, <3>1 DEF New, Made
        <4>2. ws'.head = ws.head \cup {New} /\ ws'.tip \in {ws.head \cup {New}, ws.tip}
          BY <1>4, <2>2, <3>1 DEF Clones
        <4> QED BY <1>4, <2>2, <4>1, <4>2
      <3>2. CASE /\ Made
                 /\ ws' = [ws EXCEPT !.head = {New}, !.tip = IF ws.on THEN {New} ELSE @, !.dirty = FALSE]
        <4>1. New \in 1 .. made'
          BY <1>0, <3>2 DEF New, Made
        <4>2. ws'.head = {New} /\ ws'.tip \in {{New}, ws.tip}
          BY <1>4, <2>2, <3>2 DEF Clones
        <4> QED BY <1>4, <2>2, <4>1, <4>2
      <3>3. CASE ws' = [ws EXCEPT !.dirty = TRUE]
        BY <1>4, <2>2, <3>3 DEF Clones
      <3>4. CASE ws' = [ws EXCEPT !.on = ~@, !.head = IF ws.on THEN @ ELSE ws.tip]
        <4>1. ws'.head \in {ws.head, ws.tip} /\ ws'.tip = ws.tip
          BY <1>4, <2>2, <3>4 DEF Clones
        <4> QED BY <1>4, <2>2, <4>1
      <3> QED BY <2>2, <3>1, <3>2, <3>3, <3>4 DEF ChangeClone
    <2>3. CASE ws # None /\ ws' = [ws EXCEPT !.on = TRUE, !.head = ws.tip]
      BY <1>4, <2>3 DEF Clones
    <2>4. CASE ws' = [tip |-> main.head, head |-> main.head, on |-> TRUE, dirty |-> FALSE]
      BY <1>3, <2>4 DEF CommitsAreMade
    <2> QED BY <2>1, <2>2, <2>3, <2>4 DEF CloneMoves
  <1>6. ASSUME NEW r \in Runs PROVE run'[r].after \subseteq 1 .. made'
    BY <1>3, <1>4 DEF HoldsCommit, CommitsAreMade
  <1> QED BY <1>1, <1>5, <1>6 DEF CommitsAreMade

\* The clone and the main checkout move only so.
LEMMA PlacesMove ==
  ASSUME AgentTypeOK, HasClone, [AgentNext]_agentVars
  PROVE  CloneMoves /\ CheckoutMoves
  <1> USE Kinds
  <1>0. made \in Nat
    BY AgentAssumption DEF AgentTypeOK
  <1>1. ASSUME ChangeClone PROVE made' \in {made, made + 1}
    BY <1>1 DEF ChangeClone, Made
  <1>2. ASSUME NEW r \in Implementers, run[r].pc \in {"provider", "required", "review"} PROVE ws # None
    BY <1>2, NoneAssumption DEF HasClone, Prepared
  <1>3. ASSUME UNCHANGED <<made, main, ws>> PROVE CloneMoves /\ CheckoutMoves
    BY <1>3 DEF CloneMoves, CheckoutMoves
  <1>4. ASSUME ws # None, ChangeClone, UNCHANGED main PROVE CloneMoves /\ CheckoutMoves
    BY <1>1, <1>4 DEF CloneMoves, CheckoutMoves
  <1>5. ASSUME Advance \/ Damage \/ Spoil, UNCHANGED ws PROVE CloneMoves /\ CheckoutMoves
    BY <1>5 DEF CloneMoves, CheckoutMoves
  <1>6. ASSUME NEW r \in Implementers, Implementing(r) PROVE CloneMoves /\ CheckoutMoves
    <2>1. CASE Start(r) \/ BeginAttempt(r) \/ JudgeAttempt(r) \/ Decide(r) \/ ProviderExits(r)
      BY <1>3, <2>1 DEF Start, BeginAttempt, JudgeAttempt, Decide, ProviderExits
    <2>2. CASE PrepareWorkspace(r)
      BY <2>2 DEF PrepareWorkspace, CloneMoves, CheckoutMoves
    <2>3. CASE ProviderWorks(r)
      BY <1>2, <1>4, <2>3 DEF ProviderWorks
    <2>4. CASE ProviderMeddles(r)
      BY <1>3, <1>5, <2>4 DEF ProviderMeddles
    <2> QED BY <1>6, <2>1, <2>2, <2>3, <2>4 DEF Implementing
  <1>7. ASSUME NEW r \in Implementers, Policing(r) PROVE CloneMoves /\ CheckoutMoves
    <2>1. CASE \/ BeginPolicy(r) \/ RequiredTargetsEnd(r) \/ CollectReviews(r) \/ WriteVerdict(r)
               \/ ClosePolicy(r) \/ \E v \in Reviewers : StartReviewer(r, v) \/ EndReviewer(r, v)
      BY <1>3, <2>1 DEF BeginPolicy, RequiredTargetsEnd, CollectReviews, WriteVerdict, ClosePolicy,
                        StartReviewer, EndReviewer
    <2>2. CASE RequiredTargetWorks(r)
      BY <1>2, <1>4, <2>2 DEF RequiredTargetWorks
    <2>3. ASSUME NEW v \in Reviewers, ReviewerWorks(r, v) PROVE CloneMoves /\ CheckoutMoves
      BY <1>2, <1>3, <1>4, <1>5, <2>3 DEF ReviewerWorks
    <2> QED BY <1>7, <2>1, <2>2, <2>3 DEF Policing
  <1>8. ASSUME NEW r \in Mergers, Merging(r) PROVE CloneMoves /\ CheckoutMoves
    <2>1. CASE StartMerge(r) \/ CheckEvidence(r) \/ MergeProviderExits(r) \/ JudgeMerge(r)
      BY <1>3, <2>1 DEF StartMerge, CheckEvidence, MergeProviderExits, JudgeMerge
    <2>2. CASE MergeProviderMerges(r)
      BY <2>2 DEF MergeProviderMerges, CloneMoves, CheckoutMoves
    <2>3. CASE MergeProviderMeddles(r)
      BY <1>3, <1>5, <2>3 DEF MergeProviderMeddles
    <2> QED BY <1>8, <2>1, <2>2, <2>3 DEF Merging
  <1>9. CASE OthersRecord \/ UNCHANGED agentVars \/ \E r \in Runs : Leave(r)
    BY <1>3, <1>9 DEF OthersRecord, agentVars, Leave
  <1>10. CASE OperatorCommits
    BY <1>5, <1>10 DEF OperatorCommits
  <1> QED BY <1>6, <1>7, <1>8, <1>9, <1>10 DEF AgentNext

\* Everyone but the run that steps stays under watch.
LEMMA OthersWatch ==
  ASSUME AgentTypeOK, NEW r \in Runs, NEW f, Step(r, f) \/ StepAndRecord(r, f),
         NEW q \in Runs \ {r}
  PROVE  KeepsWatch(run'[q], run[q]) /\ run'[q].after = run[q].after
  <1>0. run \in [Runs -> AgentState]
    BY DEF AgentTypeOK
  <1>1. run'[q].after = run[q].after
    BY OthersUntouched DEF Others, Untouched
  <1>2. KeepsWatch(Sees(run[q]), run[q]) /\ KeepsWatch(run[q], run[q])
    BY <1>0, SeesWatch
  <1>3. run'[q] = run[q] \/ run'[q] = Sees(run[q])
    BY <1>0 DEF Step, StepAndRecord
  <1> QED BY <1>1, <1>2, <1>3

\* What is left to show of a step is what it makes of its own run.
LEMMA ByWatch ==
  ASSUME AgentTypeOK, NEW r \in Runs, NEW f, Step(r, f) \/ StepAndRecord(r, f),
         r \in Implementers => WatchEffect(run[r], f), HoldsCommit(f, run[r])
  PROVE  RunsEffect
  <1> USE Kinds
  <1>1. run'[r] = f
    BY OthersUntouched
  <1>2. ASSUME NEW q \in Implementers PROVE WatchEffect(run[q], run'[q])
    BY <1>1, OthersWatch DEF WatchEffect
  <1>3. ASSUME NEW q \in Runs PROVE HoldsCommit(run'[q], run[q])
    BY <1>1, OthersWatch DEF HoldsCommit
  <1> QED BY <1>2, <1>3 DEF RunsEffect

\* A step of an implementer, up to the policy.
LEMMA ImplementingWatch ==
  ASSUME AgentTypeOK, HasClone, NEW r \in Implementers, Implementing(r)
  PROVE  RunsEffect
  <1> USE Kinds
  <1>0. run \in [Runs -> AgentState] /\ run[r] \in AgentState
    BY DEF AgentTypeOK
  <1>1. ASSUME Fail(r) PROVE RunsEffect
    <2> DEFINE f == [Fresh EXCEPT !.pc = "returned", !.status = "failed"]
    <2>1. Step(r, f) /\ f.pc = "returned" /\ f.status = "failed" /\ f.after = {}
      BY <1>1 DEF Fail, Fresh
    <2> HIDE DEF f
    <2> QED BY <2>1, ByWatch DEF WatchEffect, HoldsCommit
  <1>2. CASE Start(r)
    <2> DEFINE f == [Fresh EXCEPT !.pc = "prepare", !.source = main.head]
    <2>1. Step(r, f) /\ f.pc = "prepare" /\ f.status = "none" /\ f.after = {}
      BY <1>2 DEF Start, Fresh
    <2> HIDE DEF f
    <2> QED BY <2>1, ByWatch DEF WatchEffect, HoldsCommit
  <1>3. CASE PrepareWorkspace(r)
    <2> DEFINE f == [run[r] EXCEPT !.pc = "attempt", !.source = {}]
    <2>1. run[r].pc = "prepare" /\ (Step(r, f) \/ Fail(r))
      BY <1>3 DEF PrepareWorkspace
    <2>2. f.pc = "attempt" /\ f.status = run[r].status /\ f.after = run[r].after
      BY <1>0 DEF AgentState
    <2> HIDE DEF f
    <2> QED BY <1>1, <2>1, <2>2, ByWatch DEF WatchEffect, HoldsCommit
  <1>4. CASE BeginAttempt(r)
    <2> DEFINE at(pc) == [Begun(run[r]) EXCEPT !.pc = pc]
    <2>1. run[r].pc = "attempt" /\ UNCHANGED main
      BY <1>4 DEF BeginAttempt
    <2>2. Fail(r) \/ Step(r, at("judge")) \/ Step(r, at("provider"))
      BY <1>4 DEF BeginAttempt
    <2>3. ASSUME NEW pc \in {"judge", "provider"}
          PROVE  /\ at(pc).pc = pc /\ at(pc).snap = main /\ at(pc).meddled = FALSE
                 /\ at(pc).status = run[r].status /\ at(pc).after = run[r].after
      BY <1>0 DEF Begun, AgentState
    <2> HIDE DEF at
    <2>4. ASSUME NEW pc \in {"judge", "provider"}, Step(r, at(pc)) PROVE RunsEffect
      <3>1. WatchEffect(run[r], at(pc)) /\ HoldsCommit(at(pc), run[r])
        BY <2>1, <2>3 DEF WatchEffect, HoldsCommit
      <3> QED BY <2>4, <3>1, ByWatch
    <2> QED BY <1>1, <2>2, <2>4
  <1>5. CASE ProviderWorks(r)
    <2>1. UNCHANGED run
      BY <1>5 DEF ProviderWorks
    <2>2. \A q \in Runs : KeepsWatch(run[q], run[q])
      BY <1>0, SeesWatch
    <2> QED BY <2>1, <2>2 DEF RunsEffect, WatchEffect, HoldsCommit
  <1>6. CASE ProviderMeddles(r)
    <2> DEFINE by(meddled) == [run[r] EXCEPT !.meddled = meddled]
               touching == [run[r] EXCEPT !.meddled = TRUE, !.touched = TRUE]
    <2>1. run[r].pc = "provider"
      BY <1>6 DEF ProviderMeddles
    <2>2. \/ Advance /\ Step(r, by(~Relaxed))
          \/ Damage /\ Step(r, by(TRUE))
          \/ StepAndRecord(r, touching)
      BY <1>6 DEF ProviderMeddles
    <2>3. ASSUME NEW meddled
          PROVE  /\ by(meddled).pc = run[r].pc /\ by(meddled).snap = run[r].snap
                 /\ by(meddled).status = run[r].status /\ by(meddled).after = run[r].after
      BY <1>0 DEF AgentState
    <2>4. /\ touching.pc = run[r].pc /\ touching.snap = run[r].snap /\ touching.touched = TRUE
          /\ touching.status = run[r].status /\ touching.after = run[r].after
      BY <1>0 DEF AgentState
    <2> HIDE DEF by, touching
    <2>5. ASSUME NEW meddled, Advance \/ Damage, Step(r, by(meddled)) PROVE RunsEffect
      <3>1. WatchEffect(run[r], by(meddled)) /\ HoldsCommit(by(meddled), run[r])
        BY <2>1, <2>3, <2>5 DEF WatchEffect, HoldsCommit
      <3> QED BY <2>5, <3>1, ByWatch
    <2>6. ASSUME StepAndRecord(r, touching) PROVE RunsEffect
      <3>1. WatchEffect(run[r], touching) /\ HoldsCommit(touching, run[r])
        BY <2>1, <2>4 DEF WatchEffect, HoldsCommit
      <3> QED BY <2>6, <3>1, ByWatch
    <2>7. CASE Advance /\ Step(r, by(~Relaxed))
      BY <2>5, <2>7
    <2>8. CASE Damage /\ Step(r, by(TRUE))
      BY <2>5, <2>8
    <2> QED BY <2>2, <2>6, <2>7, <2>8
  <1>7. CASE ProviderExits(r)
    <2>1. PICK o \in Outcomes :
            Step(r, [run[r] EXCEPT !.pc = "judge", !.session = o.session, !.report = o.report])
      BY ONLY <1>7 DEF ProviderExits
    <2> DEFINE f == [run[r] EXCEPT !.pc = "judge", !.session = o.session, !.report = o.report]
    <2>2. run[r].pc = "provider" /\ Step(r, f)
      BY <1>7, <2>1 DEF ProviderExits
    <2>3. /\ f.pc = "judge" /\ f.snap = run[r].snap /\ f.status = run[r].status
          /\ f.meddled = run[r].meddled /\ f.touched = run[r].touched /\ f.after = run[r].after
      BY <1>0 DEF AgentState
    <2> HIDE DEF f
    <2>4. WatchEffect(run[r], f) /\ HoldsCommit(f, run[r])
      BY <2>2, <2>3 DEF WatchEffect, HoldsCommit
    <2> QED BY <2>2, <2>4, ByWatch
  <1>8. CASE JudgeAttempt(r)
    <2> DEFINE found == [run[r] EXCEPT !.snap = None, !.touched = FALSE, !.passed = FALSE,
                                       !.after = ws.head]
               on == [found EXCEPT !.pc = "policy"]
               over == [found EXCEPT !.pc = "decide"]
    <2>1. /\ on.pc = "policy" /\ on.meddled = run[r].meddled /\ on.status = run[r].status
          /\ on.after = ws.head
          /\ over.pc = "decide" /\ over.passed = FALSE /\ over.status = run[r].status
          /\ over.after = ws.head
      BY <1>0 DEF AgentState
    <2>2. run[r].pc = "judge"
      BY <1>8 DEF JudgeAttempt
    <2>3. \/ Step(r, on) /\ CheckoutUnchanged(run[r].snap) /\ ~run[r].touched
          \/ Fail(r)
          \/ Step(r, over)
      BY <1>8 DEF JudgeAttempt
    <2>4. ws # None
      BY <2>2, NoneAssumption DEF HasClone, Prepared
    <2> HIDE DEF on, over, found
    <2>5. CASE Step(r, on) /\ CheckoutUnchanged(run[r].snap) /\ ~run[r].touched
      <3>1. WatchEffect(run[r], on) /\ HoldsCommit(on, run[r])
        BY <2>1, <2>2, <2>4, <2>5 DEF WatchEffect, HoldsCommit
      <3> QED BY <2>5, <3>1, ByWatch
    <2>6. CASE Step(r, over)
      <3>1. WatchEffect(run[r], over) /\ HoldsCommit(over, run[r])
        BY <2>1, <2>2, <2>4 DEF WatchEffect, HoldsCommit
      <3> QED BY <2>6, <3>1, ByWatch
    <2> QED BY <1>1, <2>3, <2>5, <2>6
  <1>9. CASE Decide(r)
    <2> DEFINE more == [run[r] EXCEPT !.pc = "attempt", !.attempt = @ + 1, !.subject = {},
                                      !.review = Unreviewed]
               good == Succeeded(run[r])
    <2>1. run[r].pc = "decide"
      BY <1>9 DEF Decide
    <2>2. more.pc = "attempt" /\ more.status = run[r].status /\ more.after = run[r].after
      BY <1>0 DEF AgentState
    <2>3. /\ good.pc = "returned" /\ good.after = run[r].after /\ good.meddled = run[r].meddled
          /\ good.status = "success"
      BY DEF Succeeded, Fresh
    <2>4. \/ StepAndRecord(r, good) /\ run[r].passed
          \/ Step(r, more)
          \/ Fail(r)
      BY <1>9 DEF Decide
    <2> HIDE DEF more, good
    <2>5. CASE StepAndRecord(r, good) /\ run[r].passed
      <3>1. WatchEffect(run[r], good) /\ HoldsCommit(good, run[r])
        BY <2>1, <2>3, <2>5 DEF WatchEffect, HoldsCommit
      <3> QED BY <2>5, <3>1, ByWatch
    <2>6. CASE Step(r, more)
      <3>1. WatchEffect(run[r], more) /\ HoldsCommit(more, run[r])
        BY <2>1, <2>2 DEF WatchEffect, HoldsCommit
      <3> QED BY <2>6, <3>1, ByWatch
    <2> QED BY <1>1, <2>4, <2>5, <2>6
  <1> QED BY <1>2, <1>3, <1>4, <1>5, <1>6, <1>7, <1>8, <1>9 DEF Implementing

\* A step of an implementer's policy.
LEMMA PolicingWatch ==
  ASSUME AgentTypeOK, NEW r \in Implementers, Policing(r)
  PROVE  RunsEffect
  <1> USE Kinds
  <1>0. run \in [Runs -> AgentState] /\ run[r] \in AgentState
    BY DEF AgentTypeOK
  <1>1. ASSUME UNCHANGED run PROVE RunsEffect
    <2>1. \A q \in Runs : KeepsWatch(run[q], run[q])
      BY <1>0, SeesWatch
    <2> QED BY <1>1, <2>1 DEF RunsEffect, WatchEffect, HoldsCommit
  <1>2. CASE BeginPolicy(r)
    <2> DEFINE f == [run[r] EXCEPT !.pc = "required", !.subject = ws.head]
    <2>1. run[r].pc = "policy" /\ StepAndRecord(r, f)
      BY <1>2 DEF BeginPolicy
    <2>2. /\ f.pc = "required" /\ f.meddled = run[r].meddled /\ f.status = run[r].status
          /\ f.after = run[r].after
      BY <1>0 DEF AgentState
    <2> HIDE DEF f
    <2> QED BY <2>1, <2>2, ByWatch DEF WatchEffect, HoldsCommit
  <1>3. CASE RequiredTargetWorks(r)
    BY <1>1, <1>3 DEF RequiredTargetWorks
  <1>4. CASE RequiredTargetsEnd(r)
    <2> DEFINE on == [run[r] EXCEPT !.pc = "review", !.snap = main]
               over == [run[r] EXCEPT !.pc = "collect", !.passed = FALSE]
    <2>1. /\ on.pc = "review" /\ on.snap = main /\ on.meddled = run[r].meddled
          /\ on.status = run[r].status /\ on.after = run[r].after
          /\ over.pc = "collect" /\ over.passed = FALSE /\ over.status = run[r].status
          /\ over.after = run[r].after
      BY <1>0 DEF AgentState
    <2>2. run[r].pc = "required" /\ UNCHANGED main /\ (Step(r, on) \/ Step(r, over))
      BY <1>4 DEF RequiredTargetsEnd
    <2> HIDE DEF on, over
    <2>3. /\ WatchEffect(run[r], on) /\ HoldsCommit(on, run[r])
          /\ WatchEffect(run[r], over) /\ HoldsCommit(over, run[r])
      BY <2>1, <2>2 DEF WatchEffect, HoldsCommit
    <2> QED BY <2>2, <2>3, ByWatch
  <1>5. ASSUME NEW v \in Reviewers, StartReviewer(r, v) \/ EndReviewer(r, v) PROVE RunsEffect
    <2>1. PICK at : StepReviewer(r, v, at) /\ (run[r].review[v] \in Ashamed => at \in Ashamed)
      BY <1>5 DEF StartReviewer, EndReviewer, Ashamed
    <2> DEFINE f == [run[r] EXCEPT !.review[v] = at]
    <2>2. /\ f.pc = run[r].pc /\ f.meddled = run[r].meddled /\ f.snap = run[r].snap
          /\ f.passed = run[r].passed /\ f.status = run[r].status /\ f.touched = run[r].touched
          /\ f.after = run[r].after /\ f.review = [run[r].review EXCEPT ![v] = at]
      BY <1>0 DEF AgentState
    <2>3. Step(r, f)
      BY <2>1 DEF StepReviewer
    <2> HIDE DEF f
    <2>4. \A w \in Reviewers : run[r].review[w] \in Ashamed => f.review[w] \in Ashamed
      BY <1>0, <2>1, <2>2 DEF AgentState
    <2>5. KeepsWatch(f, run[r])
      BY <2>2, <2>4 DEF KeepsWatch
    <2> QED BY <2>2, <2>3, <2>5, ByWatch DEF WatchEffect, HoldsCommit
  <1>6. ASSUME NEW v \in Reviewers, ReviewerWorks(r, v) PROVE RunsEffect
    <2> DEFINE by(meddled) == [run[r] EXCEPT !.meddled = meddled]
               touching == [Sees(run[r]) EXCEPT !.meddled = TRUE]
    <2>1. run[r].pc = "review" /\ run[r].review[v] \in {"running", "fooled"}
      BY <1>6 DEF ReviewerWorks
    <2>2. \/ UNCHANGED run
          \/ Advance /\ Step(r, by(~Relaxed))
          \/ Damage /\ Step(r, by(TRUE))
          \/ StepAndRecord(r, touching)
      BY <1>6 DEF ReviewerWorks
    <2>3. ASSUME NEW meddled
          PROVE  /\ by(meddled).pc = run[r].pc /\ by(meddled).snap = run[r].snap
                 /\ by(meddled).status = run[r].status /\ by(meddled).after = run[r].after
      BY <1>0 DEF AgentState
    <2>4. /\ touching.pc = "review" /\ touching.snap = run[r].snap
          /\ touching.review[v] = "fooled"
          /\ touching.status = run[r].status /\ touching.after = run[r].after
      <3> DEFINE fooled == [w \in Reviewers |-> IF run[r].review[w] = "running" THEN "fooled"
                                                ELSE run[r].review[w]]
      <3>1. Sees(run[r]) = [run[r] EXCEPT !.review = fooled]
        BY <2>1 DEF Sees
      <3>2. fooled[v] = "fooled"
        BY <2>1
      <3> HIDE DEF fooled
      <3> QED BY <1>0, <2>1, <3>1, <3>2 DEF AgentState
    <2> HIDE DEF by, touching
    <2>5. ASSUME NEW meddled, Advance \/ Damage, Step(r, by(meddled)) PROVE RunsEffect
      <3>1. WatchEffect(run[r], by(meddled)) /\ HoldsCommit(by(meddled), run[r])
        BY <2>1, <2>3, <2>5 DEF WatchEffect, HoldsCommit
      <3> QED BY <2>5, <3>1, ByWatch
    <2>6. ASSUME StepAndRecord(r, touching) PROVE RunsEffect
      <3>1. WatchEffect(run[r], touching) /\ HoldsCommit(touching, run[r])
        BY <2>1, <2>4 DEF WatchEffect, HoldsCommit, Ashamed
      <3> QED BY <2>6, <3>1, ByWatch
    <2>7. CASE Advance /\ Step(r, by(~Relaxed))
      BY <2>5, <2>7
    <2>8. CASE Damage /\ Step(r, by(TRUE))
      BY <2>5, <2>8
    <2> QED BY <1>1, <2>2, <2>6, <2>7, <2>8
  <1>7. CASE CollectReviews(r)
    <2> DEFINE f == [run[r] EXCEPT !.pc = "collect", !.snap = None, !.review = Unreviewed,
                                   !.passed = PolicyPasses(r)]
    <2>1. /\ f.pc = "collect" /\ f.passed = PolicyPasses(r) /\ f.meddled = run[r].meddled
          /\ f.status = run[r].status /\ f.after = run[r].after
      BY <1>0 DEF AgentState
    <2>2. run[r].pc = "review" /\ Step(r, f)
      BY <1>7 DEF CollectReviews
    <2>3. PolicyPasses(r) => /\ CheckoutUnchanged(run[r].snap)
                             /\ \A v \in Reviewers : run[r].review[v] \notin Ashamed
      BY DEF PolicyPasses, NoFindings, Ashamed
    <2> HIDE DEF f
    <2>4. WatchEffect(run[r], f) /\ HoldsCommit(f, run[r])
      BY <2>1, <2>2, <2>3 DEF WatchEffect, HoldsCommit
    <2> QED BY <2>2, <2>4, ByWatch
  <1>8. CASE WriteVerdict(r)
    <2> DEFINE on == [run[r] EXCEPT !.pc = "close"]
               over == [run[r] EXCEPT !.pc = "close", !.passed = FALSE]
    <2>1. /\ on.pc = "close" /\ on.passed = run[r].passed /\ on.meddled = run[r].meddled
          /\ on.status = run[r].status /\ on.after = run[r].after
          /\ over.pc = "close" /\ over.passed = FALSE /\ over.meddled = run[r].meddled
          /\ over.status = run[r].status /\ over.after = run[r].after
      BY <1>0 DEF AgentState
    <2>2. run[r].pc = "collect" /\ (StepAndRecord(r, on) \/ Step(r, over))
      BY <1>8 DEF WriteVerdict
    <2> HIDE DEF on, over
    <2>3. /\ WatchEffect(run[r], on) /\ HoldsCommit(on, run[r])
          /\ WatchEffect(run[r], over) /\ HoldsCommit(over, run[r])
      BY <2>1, <2>2 DEF WatchEffect, HoldsCommit
    <2> QED BY <2>2, <2>3, ByWatch
  <1>9. CASE ClosePolicy(r)
    <2>1. PICK passed \in {run[r].passed, FALSE} :
            StepAndRecord(r, [run[r] EXCEPT !.pc = "decide", !.passed = passed])
      BY <1>9 DEF ClosePolicy
    <2> DEFINE f == [run[r] EXCEPT !.pc = "decide", !.passed = passed]
    <2>2. /\ f.pc = "decide" /\ f.passed = passed /\ f.meddled = run[r].meddled
          /\ f.status = run[r].status /\ f.after = run[r].after
      BY <1>0 DEF AgentState
    <2>3. run[r].pc = "close" /\ StepAndRecord(r, f)
      BY <1>9, <2>1 DEF ClosePolicy
    <2>4. passed => run[r].passed
      OBVIOUS
    <2> HIDE DEF f
    <2>5. WatchEffect(run[r], f) /\ HoldsCommit(f, run[r])
      BY <2>2, <2>3, <2>4 DEF WatchEffect, HoldsCommit
    <2> QED BY <2>3, <2>5, ByWatch
  <1> QED BY <1>2, <1>3, <1>4, <1>5, <1>6, <1>7, <1>8, <1>9 DEF Policing

\* A step of a merge agent.
LEMMA MergingWatch ==
  ASSUME AgentTypeOK, NEW r \in Mergers, Merging(r)
  PROVE  RunsEffect
  <1> USE Kinds
  <1>0. run \in [Runs -> AgentState] /\ run[r] \in AgentState
    BY DEF AgentTypeOK
  <1>1. ASSUME UNCHANGED run PROVE RunsEffect
    <2>1. \A q \in Runs : KeepsWatch(run[q], run[q])
      BY <1>0, SeesWatch
    <2> QED BY <1>1, <2>1 DEF RunsEffect, WatchEffect, HoldsCommit
  <1>2. ASSUME NEW f, Step(r, f) \/ StepAndRecord(r, f), HoldsCommit(f, run[r]) PROVE RunsEffect
    BY <1>2, ByWatch
  <1>3. ASSUME Fail(r) PROVE RunsEffect
    <2> DEFINE f == [Fresh EXCEPT !.pc = "returned", !.status = "failed"]
    <2>1. Step(r, f) /\ f.after = {}
      BY <1>3 DEF Fail, Fresh
    <2> HIDE DEF f
    <2> QED BY <2>1, <1>2 DEF HoldsCommit
  <1>4. CASE StartMerge(r)
    <2> DEFINE f == [Fresh EXCEPT !.pc = "evidence", !.after = ws.head]
    <2>1. (ws # None /\ Step(r, f)) \/ Fail(r)
      BY <1>4 DEF StartMerge
    <2>2. f.after = ws.head
      BY DEF Fresh
    <2> HIDE DEF f
    <2> QED BY <1>2, <1>3, <2>1, <2>2 DEF HoldsCommit
  <1>5. CASE CheckEvidence(r)
    <2> DEFINE f == [run[r] EXCEPT !.pc = "merge", !.snap = main]
    <2>1. Step(r, f) \/ Fail(r)
      BY <1>5 DEF CheckEvidence
    <2>2. f.after = run[r].after
      BY <1>0 DEF AgentState
    <2> HIDE DEF f
    <2> QED BY <1>2, <1>3, <2>1, <2>2 DEF HoldsCommit
  <1>6. CASE MergeProviderMerges(r)
    BY <1>1, <1>6 DEF MergeProviderMerges
  <1>7. CASE MergeProviderMeddles(r)
    <2> DEFINE f == [run[r] EXCEPT !.touched = TRUE]
    <2>1. UNCHANGED run \/ StepAndRecord(r, f)
      BY <1>7 DEF MergeProviderMeddles
    <2>2. f.after = run[r].after
      BY <1>0 DEF AgentState
    <2> HIDE DEF f
    <2> QED BY <1>1, <1>2, <2>1, <2>2 DEF HoldsCommit
  <1>8. CASE MergeProviderExits(r)
    <2>1. PICK commit : Step(r, [run[r] EXCEPT !.pc = "judge_merge", !.report = commit])
      BY <1>8 DEF MergeProviderExits
    <2> DEFINE f == [run[r] EXCEPT !.pc = "judge_merge", !.report = commit]
    <2>2. f.after = run[r].after /\ Step(r, f)
      BY <1>0, <2>1 DEF AgentState
    <2> HIDE DEF f
    <2> QED BY <1>2, <2>2 DEF HoldsCommit
  <1>9. CASE JudgeMerge(r)
    <2> DEFINE f == Succeeded(run[r])
    <2>1. StepAndRecord(r, f) \/ Fail(r)
      BY <1>9 DEF JudgeMerge
    <2>2. f.after = run[r].after
      BY DEF Succeeded, Fresh
    <2> HIDE DEF f
    <2> QED BY <1>2, <1>3, <2>1, <2>2 DEF HoldsCommit
  <1> QED BY <1>4, <1>5, <1>6, <1>7, <1>8, <1>9 DEF Merging

\* What any step does to the runs under watch.
LEMMA AgentWatch ==
  ASSUME AgentTypeOK, HasClone, [AgentNext]_agentVars
  PROVE  RunsEffect
  <1> USE Kinds
  <1>0. run \in [Runs -> AgentState]
    BY DEF AgentTypeOK
  <1>1. \A q \in Runs : /\ KeepsWatch(Sees(run[q]), run[q]) /\ KeepsWatch(run[q], run[q])
                        /\ Sees(run[q]).after = run[q].after
    BY <1>0, SeesWatch, SeesType DEF Untouched
  <1>2. ASSUME NEW r \in Runs, Leave(r) PROVE RunsEffect
    <2>1. Step(r, Fresh) /\ Fresh.pc = "idle" /\ Fresh.status = "none" /\ Fresh.after = {}
      BY <1>2 DEF Leave, Fresh
    <2> QED BY <2>1, ByWatch DEF WatchEffect, HoldsCommit
  <1>3. CASE OperatorCommits \/ UNCHANGED agentVars
    BY <1>1, <1>3 DEF OperatorCommits, agentVars, RunsEffect, WatchEffect, HoldsCommit
  <1>4. CASE OthersRecord
    <2>1. \A q \in Runs : run'[q] = Sees(run[q])
      BY <1>4 DEF OthersRecord
    <2> QED BY <1>1, <2>1 DEF RunsEffect, WatchEffect, HoldsCommit
  <1> QED
    BY <1>2, <1>3, <1>4, ImplementingWatch, PolicingWatch, MergingWatch DEF AgentNext

\* The invariant holds while the guard of the checkout is not relaxed.
LEMMA ShownInvHolds ==
  ASSUME ~Relaxed PROVE AgentSpec => []ShownInv
  <1>1. AgentInit => ShownInv
    BY Kinds DEF AgentInit, Fresh, ShownInv, Shown, CommitsAreMade
  <1>2. AgentTypeOK /\ HasClone /\ ShownInv /\ [AgentNext]_agentVars => ShownInv'
    <2> SUFFICES ASSUME AgentTypeOK, HasClone, ShownInv, [AgentNext]_agentVars PROVE ShownInv'
      OBVIOUS
    <2>1. CommitsAreMade
      BY DEF ShownInv
    <2>2. RunsEffect
      BY AgentWatch
    <2>3. CommitsAreMade' /\ MainMoves
      BY <2>1, <2>2, PlacesMove, CommitsKept DEF RunsEffect
    <2>4. ASSUME NEW r \in Implementers PROVE Shown(run[r], main, made)'
      BY <2>1, <2>2, <2>3, ShownKept DEF ShownInv, RunsEffect
    <2> QED BY <2>3, <2>4 DEF ShownInv
  <1>3. MergeInv => HasClone
    BY DEF MergeInv
  <1> QED BY <1>1, <1>2, <1>3, AgentInvariant, PTL DEF AgentSpec

\* With the strict guard no attempt passes in which the provider or a reviewer changed the main
\* checkout or Bach's evidence: for any number of implementers that share a clone, of merge
\* agents and of people at work in main, and whatever they do meanwhile
\* (validateProjectCheckoutSnapshot, validateTrustedEvidenceUnchanged).
THEOREM DamageNeverPassesAlways ==
  ASSUME ~Relaxed PROVE AgentSpec => []DamageNeverPasses
  <1>1. ShownInv => DamageNeverPasses
    BY DEF ShownInv, Shown, DamageNeverPasses
  <1> QED BY <1>1, ShownInvHolds, PTL
=============================================================================
