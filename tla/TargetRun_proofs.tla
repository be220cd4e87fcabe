--------------------------- MODULE TargetRun_proofs ---------------------------
(***************************************************************************)
(* What holds of a target for any number of invocations, attempts and      *)
(* contents of its inputs, whatever fails, ends or crashes.                *)
(***************************************************************************)
EXTENDS TargetRun, TLAPS

\* The last command has exited with success, and the contract's command, if there is
\* one, has said yes.
Met(s) == s.exited /\ (Contract = "command" => s.answer)

\* An attempt is repeated only before the last, knows what its command read, and
\* goes on to success only if the contract was met.
AttemptOK(s) ==
  /\ s.pc = "backoff" => s.attempt < bachfile.attempts
  /\ s.pc = "command" => s.reads \in Versions
  /\ s.exited /\ s.pc # "finish" => s.reads \in Versions
  /\ s.pc \in {"ingest", "decide"} /\ s.err = "none" => Met(s)
  /\ s.pc = "record" => Met(s)
  /\ s.status = "success" => s.pc = "finish" /\ Met(s)

RunInv == RunTypeOK /\ \A r \in Runs : AttemptOK(run[r])

-----------------------------------------------------------------------------
(* Steps of one run *)

\* A step of one run gives it new locals and leaves those of the others.
LEMMA OneRunSteps ==
  ASSUME RunTypeOK, NEW r \in Runs, NEW f \in RunState, Step(r, f)
  PROVE  /\ run' \in [Runs -> RunState]
         /\ run'[r] = f
         /\ \A q \in Runs : q # r => run'[q] = run[q]
  BY DEF RunTypeOK, Step

LEMMA StatesStay ==
  UNCHANGED bachfile => RunState' = RunState /\ SavedReports' = SavedReports
  BY DEF RunState, SavedReports, Attempts

\* Of all runs: their locals are typed and in order.
LocalsInv == run \in [Runs -> RunState] /\ \A r \in Runs : AttemptOK(run[r])

\* If the new locals of the run that has moved are, those of all runs are.
LEMMA OneRunKeeps ==
  ASSUME RunInv, NEW r \in Runs, NEW f \in RunState, Step(r, f), UNCHANGED bachfile,
         AttemptOK(f)
  PROVE  LocalsInv'
  <1>1. run' \in [Runs -> RunState'] /\ \A q \in Runs : run'[q] = f \/ run'[q] = run[q]
    BY OneRunSteps, StatesStay DEF RunInv
  <1>2. \A q \in Runs : AttemptOK(run[q])
    BY DEF RunInv
  <1> QED BY <1>1, <1>2 DEF LocalsInv, AttemptOK, Met

\* The locals of a run.
LEMMA LocalsTyped ==
  ASSUME RunInv, NEW r \in Runs
  PROVE  /\ run[r] \in RunState /\ AttemptOK(run[r])
         /\ input \in Versions /\ output \in BOOLEAN /\ Fingerprint \in Fingerprints
  BY DEF RunInv, RunTypeOK, Fingerprint, Fingerprints

LEMMA FreshIsInOrder ==
  ASSUME RunTypeOK
  PROVE  /\ Fresh \in RunState
         /\ Fresh.exited = FALSE /\ Fresh.status = "none" /\ Fresh.pc = "idle"
         /\ Fresh.dirty = None /\ Fresh.loaded = None
  BY TargetRunAssumption
     DEF TargetRunAssumption, RunTypeOK, Fresh, RunState, Attempts, Errors, Statuses

\* Returning and failing: locals go out of scope.
LEMMA ReturnKeeps ==
  ASSUME RunInv, NEW r \in Runs, Return(r), UNCHANGED bachfile
  PROVE  LocalsInv'
  <1> DEFINE f == [Fresh EXCEPT !.pc = "returned", !.ctx = run[r].ctx]
  <1>1. run[r].ctx \in {"live", "expired", "cancelled"}
    BY LocalsTyped DEF RunState
  <1>2. f \in RunState /\ AttemptOK(f)
    BY <1>1, FreshIsInOrder DEF RunInv, RunState, AttemptOK
  <1> QED BY <1>2, OneRunKeeps DEF Return

LEMMA FailsKeeps ==
  ASSUME RunInv, NEW r \in Runs, NEW err, Fails(r, err), UNCHANGED bachfile
  PROVE  LocalsInv'
  <1> DEFINE f == [Fresh EXCEPT !.pc = "finish", !.ctx = run[r].ctx, !.status = FailedStatus(err)]
  <1>1. run[r].ctx \in {"live", "expired", "cancelled"}
    BY LocalsTyped DEF RunState
  <1>2. FailedStatus(err) \in Statuses \ {"success"}
    BY DEF FailedStatus, Statuses
  <1>3. f \in RunState /\ AttemptOK(f)
    BY <1>1, <1>2, FreshIsInOrder DEF RunInv, RunState, AttemptOK
  <1> QED BY <1>3, OneRunKeeps DEF Fails

\* The tables and the world are typed after a step.
RestTyped ==
  /\ input' \in Versions /\ output' \in BOOLEAN
  /\ record' \in Fingerprints \cup {None}
  /\ rows' \in [Runs -> Statuses \ {"cached"}]
  /\ saved' \subseteq SavedReports
  /\ built' \subseteq Versions

LEMMA RunInvKept ==
  ASSUME RunInv, UNCHANGED bachfile, LocalsInv', RestTyped
  PROVE  RunInv'
  BY StatesStay DEF RunInv, RunTypeOK, LocalsInv, RestTyped

\* What a step leaves alone stays typed.
LEMMA RestStays ==
  ASSUME RunInv, UNCHANGED <<worldVars, storeVars, built>>
  PROVE  RestTyped
  BY DEF RunInv, RunTypeOK, RestTyped, worldVars, storeVars

LEMMA FinishTypes ==
  ASSUME RunInv, NEW r \in Runs, NEW status \in Statuses \ {"cached"},
         NEW dirty \in Fingerprints \cup {None}, Finish(r, status, dirty),
         UNCHANGED <<worldVars, built>>
  PROVE  RestTyped
  BY DEF RunInv, RunTypeOK, RestTyped, worldVars, Finish

-----------------------------------------------------------------------------
(* RunInv, action by action *)

LEMMA LoadKeeps ==
  ASSUME RunInv, NEW r \in Runs, Load(r)
  PROVE  RunInv'
  <1>1. CASE Return(r)
    BY <1>1, ReturnKeeps, RestStays, RunInvKept DEF Load
  <1>2. ASSUME NEW force \in BOOLEAN,
               Step(r, [run[r] EXCEPT !.pc = "create", !.loaded = record, !.force = force])
        PROVE  RunInv'
    <2> DEFINE f == [run[r] EXCEPT !.pc = "create", !.loaded = record, !.force = force]
    <2>1. record \in Fingerprints \cup {None} /\ run[r].pc = "idle"
      BY DEF RunInv, RunTypeOK, Load
    <2>2. f \in RunState /\ AttemptOK(f)
      <3>1. run[r] \in RunState /\ AttemptOK(run[r]) /\ input \in Versions
        BY LocalsTyped
      <3>2. f \in RunState
        BY <2>1, <3>1 DEF RunState
      <3>3. AttemptOK(f)
        BY <2>1, <3>1 DEF RunState, AttemptOK, Met
      <3> QED BY <3>2, <3>3
    <2> QED BY <1>2, <2>2, OneRunKeeps, RestStays, RunInvKept DEF Load
  <1> QED BY <1>1, <1>2 DEF Load

LEMMA CreateKeeps ==
  ASSUME RunInv, NEW r \in Runs, Create(r)
  PROVE  RunInv'
  <1>1. RestTyped
    BY DEF RunInv, RunTypeOK, RestTyped, Create, Statuses, worldVars
  <1>2. CASE Return(r)
    BY <1>1, <1>2, ReturnKeeps, RunInvKept DEF Create
  <1>3. CASE Step(r, [run[r] EXCEPT !.pc = "checks"])
    <2> DEFINE f == [run[r] EXCEPT !.pc = "checks"]
    <2>1. f \in RunState /\ AttemptOK(f)
      <3>1. run[r] \in RunState /\ AttemptOK(run[r]) /\ input \in Versions
        BY LocalsTyped
      <3>2. f \in RunState
        BY <3>1 DEF RunState
      <3>3. AttemptOK(f)
        BY <3>1 DEF RunState, AttemptOK, Met, Create
      <3> QED BY <3>2, <3>3
    <2> QED BY <1>1, <1>3, <2>1, OneRunKeeps, RunInvKept DEF Create
  <1> QED BY <1>2, <1>3 DEF Create

LEMMA ChecksKeeps ==
  ASSUME RunInv, NEW r \in Runs, Checks(r)
  PROVE  RunInv'
  <1>1. CASE Step(r, [run[r] EXCEPT !.pc = "target"]) /\ UNCHANGED storeVars
    <2> DEFINE f == [run[r] EXCEPT !.pc = "target"]
    <2>1. f \in RunState /\ AttemptOK(f)
      <3>1. run[r] \in RunState /\ AttemptOK(run[r]) /\ input \in Versions
        BY LocalsTyped
      <3>2. f \in RunState
        BY <3>1 DEF RunState
      <3>3. AttemptOK(f)
        BY <3>1 DEF RunState, AttemptOK, Met, Checks
      <3> QED BY <3>2, <3>3
    <2> QED BY <1>1, <2>1, OneRunKeeps, RestStays, RunInvKept DEF Checks
  <1>2. ASSUME NEW status \in {"failed", "preflight-failed"}, Finish(r, status, None), Return(r)
        PROVE  RunInv'
    <2>1. RestTyped
      BY <1>2, FinishTypes DEF Checks, Statuses
    <2> QED BY <1>2, <2>1, ReturnKeeps, RunInvKept DEF Checks
  <1> QED BY <1>1, <1>2 DEF Checks

LEMMA CompleteRunKeeps ==
  ASSUME RunInv, NEW r \in Runs, CompleteRun(r)
  PROVE  RunInv'
  <1>1. Outcome(r) \in Statuses \ {"cached"}
    BY LocalsTyped DEF Outcome, Statuses, RunState
  <1>2. run[r].dirty \in Fingerprints \cup {None}
    BY LocalsTyped DEF RunState
  <1>3. PICK status \in Statuses \ {"cached"} : Finish(r, status, run[r].dirty)
    BY <1>1 DEF CompleteRun, Statuses
  <1>4. RestTyped
    BY <1>2, <1>3, FinishTypes DEF CompleteRun
  <1> QED BY <1>4, ReturnKeeps, RunInvKept DEF CompleteRun

LEMMA BeginTargetKeeps ==
  ASSUME RunInv, NEW r \in Runs, BeginTarget(r)
  PROVE  RunInv'
  <1>1. ASSUME NEW status \in {"none", "running", "failed", "cached"},
               Step(r, [run[r] EXCEPT !.pc = "finish", !.status = status])
        PROVE  RunInv'
    <2> DEFINE f == [run[r] EXCEPT !.pc = "finish", !.status = status]
    <2>1. f \in RunState /\ AttemptOK(f)
      <3>1. run[r] \in RunState /\ AttemptOK(run[r]) /\ input \in Versions
        BY LocalsTyped
      <3>2. f \in RunState
        BY <3>1 DEF RunState, Statuses
      <3>3. AttemptOK(f)
        BY <3>1 DEF RunState, AttemptOK, Met, BeginTarget
      <3> QED BY <3>2, <3>3
    <2> QED BY <1>1, <2>1, OneRunKeeps, RestStays, RunInvKept DEF BeginTarget
  <1>2. CASE Step(r, [run[r] EXCEPT !.pc = "start", !.status = "running",
                                    !.loaded = None, !.force = FALSE])
    <2> DEFINE f == [run[r] EXCEPT !.pc = "start", !.status = "running",
                                   !.loaded = None, !.force = FALSE]
    <2>1. run[r] \in RunState /\ (run[r].exited => run[r].reads \in Versions)
      BY LocalsTyped DEF AttemptOK, BeginTarget
    <2>2. f \in RunState
      BY <2>1 DEF RunState, Statuses
    <2>3. /\ f.pc = "start" /\ f.status = "running"
          /\ f.exited = run[r].exited /\ f.reads = run[r].reads
      BY <2>1 DEF RunState
    <2>4. AttemptOK(f)
      BY <2>1, <2>3 DEF AttemptOK
    <2> QED BY <1>2, <2>2, <2>4, OneRunKeeps, RestStays, RunInvKept DEF BeginTarget
  <1> QED BY <1>1, <1>2 DEF BeginTarget

LEMMA RecordTargetKeeps ==
  ASSUME RunInv, NEW r \in Runs, RecordTarget(r)
  PROVE  RunInv'
  <1>1. run[r].reads \in Versions
    BY LocalsTyped DEF AttemptOK, Met, RecordTarget
  <1>2. RestTyped
    BY <1>1 DEF RunInv, RunTypeOK, RestTyped, RecordTarget, worldVars, storeVars
  <1>3. CASE Fails(r, "other")
    BY <1>2, <1>3, FailsKeeps, RunInvKept DEF RecordTarget
  <1>4. CASE Step(r, [run[r] EXCEPT !.pc = "finish", !.status = "success", !.dirty = Fingerprint,
                                    !.reads = None])
    <2> DEFINE f == [run[r] EXCEPT !.pc = "finish", !.status = "success", !.dirty = Fingerprint,
                                   !.reads = None]
    <2>1. f \in RunState
      <3>1. run[r] \in RunState /\ Fingerprint \in Fingerprints
        BY LocalsTyped
      <3> QED BY <3>1 DEF RunState, Statuses
    <2>2. f.pc = "finish" /\ f.exited = run[r].exited /\ f.answer = run[r].answer
      BY LocalsTyped DEF RunState
    <2>3. AttemptOK(f)
      BY <2>2, LocalsTyped DEF AttemptOK, Met, RecordTarget
    <2> QED BY <1>2, <1>4, <2>1, <2>3, OneRunKeeps, RunInvKept DEF RecordTarget
  <1> QED BY <1>3, <1>4 DEF RecordTarget

LEMMA StartCommandKeeps ==
  ASSUME RunInv, NEW r \in Runs, StartCommand(r)
  PROVE  RunInv'
  <1>1. CASE Ended(r)
    <2> DEFINE f == [run[r] EXCEPT !.pc = "contract", !.exited = FALSE]
    <2>1. f \in RunState /\ AttemptOK(f)
      <3>1. run[r] \in RunState /\ AttemptOK(run[r]) /\ input \in Versions
        BY LocalsTyped
      <3>2. f \in RunState
        BY <3>1 DEF RunState
      <3>3. AttemptOK(f)
        BY <3>1 DEF RunState, AttemptOK, Met, StartCommand
      <3> QED BY <3>2, <3>3
    <2> QED BY <1>1, <2>1, OneRunKeeps, RestStays, RunInvKept DEF StartCommand
  <1>2. CASE ~Ended(r)
    <2> DEFINE f == [run[r] EXCEPT !.pc = "command", !.reads = input]
    <2>1. f \in RunState /\ AttemptOK(f)
      <3>1. run[r] \in RunState /\ AttemptOK(run[r]) /\ input \in Versions
        BY LocalsTyped
      <3>2. f \in RunState
        BY <3>1 DEF RunState
      <3>3. AttemptOK(f)
        BY <3>1 DEF RunState, AttemptOK, Met, StartCommand
      <3> QED BY <3>2, <3>3
    <2> QED BY <1>2, <2>1, OneRunKeeps, RestStays, RunInvKept DEF StartCommand
  <1> QED BY <1>1, <1>2

LEMMA EndCommandKeeps ==
  ASSUME RunInv, NEW r \in Runs, EndCommand(r)
  PROVE  RunInv'
  <1>1. PICK text \in SUBSET Printable, exited \in BOOLEAN :
          /\ output' \in IF exited THEN {TRUE} ELSE BOOLEAN
          /\ Step(r, [run[r] EXCEPT !.pc = "contract", !.exited = exited, !.log = @ \cup text])
    BY DEF EndCommand
  <1> DEFINE f == [run[r] EXCEPT !.pc = "contract", !.exited = exited, !.log = @ \cup text]
  <1>2. run[r].log \cup text \in SUBSET {"text", "banner"}
    BY LocalsTyped DEF RunState, Printable
  <1>3. f \in RunState /\ AttemptOK(f)
    <2>1. run[r] \in RunState /\ AttemptOK(run[r]) /\ input \in Versions
      BY LocalsTyped
    <2>2. f \in RunState
      BY <1>2, <2>1 DEF RunState
    <2>3. AttemptOK(f)
      BY <1>2, <2>1 DEF RunState, AttemptOK, Met, EndCommand
    <2> QED BY <2>2, <2>3
  <1>4. RestTyped
    BY <1>1 DEF RunInv, RunTypeOK, RestTyped, EndCommand, storeVars
  <1> QED BY <1>1, <1>3, <1>4, OneRunKeeps, RunInvKept DEF EndCommand

LEMMA EvaluateContractKeeps ==
  ASSUME RunInv, NEW r \in Runs, EvaluateContract(r)
  PROVE  RunInv'
  <1> DEFINE errOf(answer) == CASE ~run[r].exited -> "command"
                                [] ~Satisfied(r, answer) -> "contract"
                                [] OTHER -> "none"
             f(answer) == [run[r] EXCEPT !.pc = "ingest",
                             !.answer = answer, !.err = IF Ended(r) THEN "timeout" ELSE errOf(answer),
                             !.command_err = Ended(r) \/ ~run[r].exited]
  <1>1. PICK answer \in Answers : Step(r, f(answer))
    BY DEF EvaluateContract
  <1>2. answer \in BOOLEAN /\ run[r].exited \in BOOLEAN /\ run[r].pc = "contract"
    BY LocalsTyped DEF Answers, RunState, EvaluateContract
  <1>3. errOf(answer) \in {"command", "contract", "none"}
    OBVIOUS
  <1>4. errOf(answer) = "none" => run[r].exited /\ (Contract = "command" => answer)
    BY <1>2 DEF Satisfied
  <1> DEFINE e == IF Ended(r) THEN "timeout" ELSE errOf(answer)
             c == Ended(r) \/ ~run[r].exited
  <1>5. e \in Errors /\ c \in BOOLEAN /\ (e = "none" => run[r].exited /\ (Contract = "command" => answer))
    BY <1>3, <1>4 DEF Errors, Ended
  <1> HIDE DEF e, c
  <1> DEFINE g == [run[r] EXCEPT !.pc = "ingest", !.answer = answer, !.err = e, !.command_err = c]
  <1>6. g \in RunState
    <2>1. run[r] \in RunState
      BY LocalsTyped
    <2> QED BY <1>2, <1>5, <2>1 DEF RunState
  <1>7. /\ g.pc = "ingest" /\ g.err = e /\ g.exited = run[r].exited /\ g.answer = answer
        /\ g.reads = run[r].reads /\ g.status = run[r].status
    BY LocalsTyped DEF RunState
  <1>8. AttemptOK(g)
    BY <1>2, <1>5, <1>7, LocalsTyped DEF AttemptOK, Met
  <1>9. Step(r, g)
    BY <1>1 DEF e, c
  <1> QED BY <1>6, <1>8, <1>9, OneRunKeeps, RestStays, RunInvKept DEF EvaluateContract

\* A batch of reports is stored under its run and attempt.
LEMMA SaveTypes ==
  ASSUME RunInv, NEW r \in Runs, NEW verdict \in Verdicts \cup {"note"}, Save(r, verdict),
         UNCHANGED <<worldVars, record, rows, built>>
  PROVE  RestTyped
  <1>1. run[r].attempt \in Attempts
    BY LocalsTyped DEF RunState
  <1> QED BY <1>1 DEF RunInv, RunTypeOK, RestTyped, Save, SavedReports, worldVars

LEMMA IngestReportsKeeps ==
  ASSUME RunInv, NEW r \in Runs, IngestReports(r)
  PROVE  RunInv'
  <1>1. ASSUME NEW err \in Errors, Step(r, [run[r] EXCEPT !.pc = "decide", !.err = err])
        PROVE  LocalsInv'
    <2> DEFINE f == [run[r] EXCEPT !.pc = "decide", !.err = err]
    <2>1. f \in RunState /\ AttemptOK(f)
      <3>1. run[r] \in RunState /\ AttemptOK(run[r]) /\ input \in Versions
        BY LocalsTyped
      <3>2. f \in RunState
        BY <3>1 DEF RunState
      <3>3. AttemptOK(f)
        BY <3>1 DEF RunState, AttemptOK, Met, IngestReports
      <3> QED BY <3>2, <3>3
    <2> QED BY <1>1, <2>1, OneRunKeeps DEF IngestReports
  <1>2. CASE UNCHANGED saved
    <2>1. LocalsInv'
      BY <1>1, <1>2 DEF IngestReports, Errors, QualityError, Verdicts
    <2> QED BY <1>2, <2>1, RestStays, RunInvKept DEF IngestReports, storeVars
  <1>3. ASSUME NEW verdict \in Verdicts, NEW err \in {QualityError(verdict), "other"},
               Save(r, verdict), Step(r, [run[r] EXCEPT !.pc = "decide", !.err = err])
        PROVE  RunInv'
    <2>1. LocalsInv'
      BY <1>1, <1>3 DEF Errors, QualityError, Verdicts
    <2>2. RestTyped
      BY <1>3, SaveTypes DEF IngestReports
    <2> QED BY <2>1, <2>2, RunInvKept DEF IngestReports
  <1> QED BY <1>2, <1>3 DEF IngestReports

LEMMA IngestNotesKeeps ==
  ASSUME RunInv, NEW r \in Runs, IngestNotes(r)
  PROVE  RunInv'
  <1> DEFINE f == [run[r] EXCEPT !.pc = "decide", !.command_err = FALSE]
  <1>1. f \in RunState /\ AttemptOK(f)
    <2>1. run[r] \in RunState /\ AttemptOK(run[r]) /\ input \in Versions
      BY LocalsTyped
    <2>2. f \in RunState
      BY <2>1 DEF RunState
    <2>3. AttemptOK(f)
      BY <2>1 DEF RunState, AttemptOK, Met, IngestNotes
    <2> QED BY <2>2, <2>3
  <1>2. LocalsInv'
    BY <1>1, OneRunKeeps DEF IngestNotes
  <1>3. RestTyped
    BY SaveTypes, RestStays DEF IngestNotes, storeVars
  <1> QED BY <1>2, <1>3, RunInvKept DEF IngestNotes

LEMMA DecideKeeps ==
  ASSUME RunInv, NEW r \in Runs, Decide(r)
  PROVE  RunInv'
  <1>1. CASE run[r].err = "none" /\ Step(r, [run[r] EXCEPT !.pc = "record"])
    <2> DEFINE f == [run[r] EXCEPT !.pc = "record"]
    <2>1. f \in RunState /\ AttemptOK(f)
      <3>1. run[r] \in RunState /\ AttemptOK(run[r]) /\ input \in Versions
        BY LocalsTyped
      <3>2. f \in RunState
        BY <1>1, <3>1 DEF RunState
      <3>3. AttemptOK(f)
        BY <1>1, <3>1 DEF RunState, AttemptOK, Met, Decide
      <3> QED BY <3>2, <3>3
    <2> QED BY <1>1, <2>1, OneRunKeeps, RestStays, RunInvKept DEF Decide
  <1>2. CASE Fails(r, run[r].err)
    BY <1>2, FailsKeeps, RestStays, RunInvKept DEF Decide
  <1>3. CASE /\ ~LastAttempt(r)
             /\ Step(r, [run[r] EXCEPT !.pc = "backoff",
                           !.log = IF run[r].err = "contract" THEN @ \cup {"banner"} ELSE @])
    <2> DEFINE log == IF run[r].err = "contract" THEN run[r].log \cup {"banner"} ELSE run[r].log
               f == [run[r] EXCEPT !.pc = "backoff", !.log = log]
    <2>1. log \in SUBSET {"text", "banner"}
      BY LocalsTyped DEF RunState
    <2>2. run[r].attempt < bachfile.attempts
      BY <1>3, LocalsTyped, TargetRunAssumption
         DEF TargetRunAssumption, LastAttempt, RunState, Attempts, RunInv, RunTypeOK
    <2>3. Step(r, f)
      BY <1>3
    <2> HIDE DEF log
    <2>4. f \in RunState /\ AttemptOK(f)
      <3>1. run[r] \in RunState /\ AttemptOK(run[r]) /\ input \in Versions
        BY LocalsTyped
      <3>2. f \in RunState
        BY <2>1, <2>2, <3>1 DEF RunState
      <3>3. AttemptOK(f)
        BY <2>1, <2>2, <3>1 DEF RunState, AttemptOK, Met, Decide
      <3> QED BY <3>2, <3>3
    <2> QED BY <2>3, <2>4, OneRunKeeps, RestStays, RunInvKept DEF Decide
  <1> QED BY <1>1, <1>2, <1>3 DEF Decide

LEMMA BackoffKeeps ==
  ASSUME RunInv, NEW r \in Runs, Backoff(r)
  PROVE  RunInv'
  <1>1. CASE Fails(r, "timeout")
    BY <1>1, FailsKeeps, RestStays, RunInvKept DEF Backoff
  <1>2. CASE Step(r, [run[r] EXCEPT !.pc = "start", !.attempt = @ + 1, !.err = "none",
                        !.reads = None, !.exited = FALSE, !.answer = FALSE])
    <2> DEFINE f == [run[r] EXCEPT !.pc = "start", !.attempt = run[r].attempt + 1, !.err = "none",
                       !.reads = None, !.exited = FALSE, !.answer = FALSE]
    <2>1. run[r].attempt + 1 \in Attempts
      BY LocalsTyped, TargetRunAssumption
         DEF TargetRunAssumption, RunState, AttemptOK, Attempts, RunInv, RunTypeOK, Backoff
    <2>2. run[r] \in RunState /\ run[r].status # "success"
      BY LocalsTyped DEF AttemptOK, Backoff
    <2>3. f \in RunState
      BY <2>1, <2>2 DEF RunState, Errors
    <2>4. f.pc = "start" /\ ~f.exited /\ f.status # "success"
      BY <2>2 DEF RunState
    <2>5. AttemptOK(f)
      BY <2>4 DEF AttemptOK
    <2> QED BY <1>2, <2>3, <2>5, OneRunKeeps, RestStays, RunInvKept DEF Backoff
  <1> QED BY <1>1, <1>2 DEF Backoff

\* What happens around the runs.
LEMMA ContextEndKeeps ==
  ASSUME RunInv, NEW r \in Runs, Interrupt(r) \/ Expire(r)
  PROVE  RunInv'
  <1>1. PICK ctx \in {"expired", "cancelled"} : Step(r, [run[r] EXCEPT !.ctx = ctx])
    BY DEF Interrupt, Expire
  <1> DEFINE f == [run[r] EXCEPT !.ctx = ctx]
  <1>2. f \in RunState /\ AttemptOK(f)
    <2>1. run[r] \in RunState /\ AttemptOK(run[r]) /\ input \in Versions
      BY LocalsTyped
    <2>2. f \in RunState
      BY <2>1 DEF RunState
    <2>3. AttemptOK(f)
      BY <2>1 DEF RunState, AttemptOK, Met
    <2> QED BY <2>2, <2>3
  <1> QED BY <1>1, <1>2, OneRunKeeps, RestStays, RunInvKept DEF Interrupt, Expire

LEMMA CrashKeeps ==
  ASSUME RunInv, NEW r \in Runs, Crash(r)
  PROVE  RunInv'
  <1> DEFINE f == [Fresh EXCEPT !.pc = "dead"]
  <1>1. f \in RunState /\ AttemptOK(f)
    BY FreshIsInOrder DEF RunInv, RunState, AttemptOK
  <1>2. RestTyped
    BY DEF RunInv, RunTypeOK, RestTyped, Crash, storeVars
  <1> QED BY <1>1, <1>2, OneRunKeeps, RunInvKept DEF Crash

LEMMA WorldKeeps ==
  ASSUME RunInv, EditInput \/ DeleteOutput
  PROVE  RunInv'
  <1>1. RestTyped
    BY DEF RunInv, RunTypeOK, RestTyped, EditInput, DeleteOutput, storeVars
  <1>2. UNCHANGED <<run, bachfile>>
    BY DEF EditInput, DeleteOutput
  <1>3. LocalsInv'
    BY <1>2, StatesStay DEF RunInv, RunTypeOK, LocalsInv, AttemptOK, Met
  <1> QED BY <1>1, <1>2, <1>3, RunInvKept

LEMMA RunInvStays ==
  ASSUME RunInv, [RunNext]_targetRunVars
  PROVE  RunInv'
  <1>1. ASSUME NEW r \in Runs, Proceed(r) PROVE RunInv'
    BY <1>1, LoadKeeps, CreateKeeps, ChecksKeeps, BeginTargetKeeps, StartCommandKeeps,
       EndCommandKeeps, EvaluateContractKeeps, IngestReportsKeeps, IngestNotesKeeps,
       DecideKeeps, BackoffKeeps, RecordTargetKeeps, CompleteRunKeeps DEF Proceed
  <1>2. ASSUME NEW r \in Runs, Interrupt(r) \/ Expire(r) \/ Crash(r) PROVE RunInv'
    BY <1>2, ContextEndKeeps, CrashKeeps
  <1>3. CASE UNCHANGED targetRunVars
    <2>1. RestTyped /\ UNCHANGED <<run, bachfile>>
      BY <1>3, RestStays DEF targetRunVars
    <2>2. LocalsInv'
      BY <2>1, StatesStay DEF RunInv, RunTypeOK, LocalsInv, AttemptOK, Met
    <2> QED BY <2>1, <2>2, RunInvKept
  <1> QED BY <1>1, <1>2, <1>3, WorldKeeps DEF RunNext

LEMMA RunInvStarts == RunInit => RunInv
  <1> SUFFICES ASSUME RunInit PROVE RunInv
    OBVIOUS
  <1>1. Fresh \in RunState
    BY TargetRunAssumption
       DEF RunInit, TargetRunAssumption, Fresh, RunState, Attempts, Errors, Statuses
  <1>2. RunTypeOK
    BY <1>1 DEF RunInit, RunTypeOK, Statuses
  <1> QED BY <1>2, FreshIsInOrder DEF RunInit, RunInv, AttemptOK

LEMMA RunInvHolds == RunSpec => []RunInv
  BY RunInvStarts, RunInvStays, PTL DEF RunSpec

-----------------------------------------------------------------------------
\* The locals of every run and what is stored stay well-formed; in particular no
\* attempt beyond the last is begun, and what a target is built from is known.
THEOREM TargetTypes == RunSpec => []RunTypeOK
  <1>1. RunInv => RunTypeOK
    BY DEF RunInv
  <1> QED BY <1>1, RunInvHolds, PTL

\* A run succeeds only if its last command exited with success and met the contract,
\* unless the contract is a text looked for in the log (FindingRetryText).
THEOREM SuccessNeedsContract ==
  ASSUME Contract # "output_contains"
  PROVE  RunSpec => []SuccessMeansContract
  <1>1. RunInv => SuccessMeansContract
    BY DEF RunInv, AttemptOK, Met, SuccessMeansContract
  <1> QED BY <1>1, RunInvHolds, PTL

-----------------------------------------------------------------------------
(* Witnesses of success *)

\* A passing batch is stored before an attempt may go on to success; where failed gates
\* are retried, only a run that can no longer succeed has stored one.
WitnessOK(r) ==
  /\ \/ run[r].pc = "decide" /\ run[r].err = "none"
     \/ run[r].pc = "record"
     \/ run[r].status = "success"
     => [run |-> r, attempt |-> run[r].attempt, verdict |-> "pass"] \in saved
  /\ bachfile.on_gate => \A s \in saved : s.run = r /\ s.verdict = "gate" =>
       \/ run[r].pc = "decide" /\ run[r].err # "none" /\ LastAttempt(r)
       \/ run[r].pc = "finish" /\ run[r].status # "success"
       \/ run[r].pc \in {"returned", "dead"}

WitnessInv == \A r \in Runs : WitnessOK(r)

\* What one run does is no concern of the others.
LEMMA OthersWitness ==
  ASSUME RunInv, WitnessInv, NEW r \in Runs, NEW f \in RunState, Step(r, f),
         UNCHANGED bachfile,
         UNCHANGED saved \/ \E verdict \in Verdicts \cup {"note"} : Save(r, verdict)
  PROVE  \A q \in Runs : q # r => WitnessOK(q)'
  <1> SUFFICES ASSUME NEW q \in Runs, q # r PROVE WitnessOK(q)'
    OBVIOUS
  <1>1. run'[q] = run[q] /\ WitnessOK(q)
    BY OneRunSteps DEF RunInv, WitnessInv
  <1>2. \A s \in saved' : s.run = q => s \in saved
    BY DEF Save
  <1>3. saved \subseteq saved'
    BY DEF Save
  <1> QED BY <1>1, <1>2, <1>3 DEF WitnessOK, LastAttempt

\* Steps that store nothing and decide nothing.
LEMMA QuietWitness ==
  ASSUME RunInv, WitnessInv, NEW r \in Runs, NEW f \in RunState, Step(r, f),
         UNCHANGED <<bachfile, saved>>,
         f.status # "success", f.pc \notin {"decide", "record"},
         run[r].pc \in {"decide", "finish", "returned", "dead"}
           => f.pc \in {"finish", "returned", "dead"}
  PROVE  WitnessInv'
  <1>1. run'[r] = f /\ WitnessOK(r)
    BY OneRunSteps DEF RunInv, WitnessInv
  <1>2. WitnessOK(r)'
    BY <1>1 DEF WitnessOK
  <1> QED BY <1>2, OthersWitness DEF WitnessInv

LEMMA ReturnWitness ==
  ASSUME RunInv, WitnessInv, NEW r \in Runs, Return(r), UNCHANGED <<bachfile, saved>>
  PROVE  WitnessInv'
  <1> DEFINE f == [Fresh EXCEPT !.pc = "returned", !.ctx = run[r].ctx]
  <1>1. run[r] \in RunState
    BY LocalsTyped
  <1>2. f \in RunState /\ f.pc = "returned" /\ f.status = "none"
    BY <1>1, FreshIsInOrder DEF RunInv, RunState
  <1> QED BY <1>2, QuietWitness DEF Return

LEMMA FailsWitness ==
  ASSUME RunInv, WitnessInv, NEW r \in Runs, NEW err, Fails(r, err), UNCHANGED <<bachfile, saved>>
  PROVE  WitnessInv'
  <1> DEFINE f == [Fresh EXCEPT !.pc = "finish", !.ctx = run[r].ctx, !.status = FailedStatus(err)]
  <1>1. run[r] \in RunState /\ FailedStatus(err) \in Statuses \ {"success"}
    BY LocalsTyped DEF FailedStatus, Statuses
  <1>2. f \in RunState /\ f.pc = "finish" /\ f.status # "success"
    BY <1>1, FreshIsInOrder DEF RunInv, RunState
  <1> QED BY <1>2, QuietWitness DEF Fails

\* What precedes the attempts and what follows the target.
LEMMA SessionWitness ==
  ASSUME RunInv, WitnessInv, NEW r \in Runs,
         Load(r) \/ Create(r) \/ Checks(r) \/ CompleteRun(r) \/ Crash(r)
  PROVE  WitnessInv'
  <1>1. UNCHANGED <<bachfile, saved>>
    BY DEF Load, Create, Checks, CompleteRun, Crash, Finish, storeVars
  <1>2. CASE Return(r)
    BY <1>1, <1>2, ReturnWitness
  <1>3. ASSUME NEW force \in BOOLEAN, Load(r),
               Step(r, [run[r] EXCEPT !.pc = "create", !.loaded = record, !.force = force])
        PROVE  WitnessInv'
    <2> DEFINE f == [run[r] EXCEPT !.pc = "create", !.loaded = record, !.force = force]
    <2>1. run[r] \in RunState /\ run[r].pc = "idle" /\ run[r].status # "success"
      BY <1>3, LocalsTyped DEF Load, AttemptOK
    <2>2. record \in Fingerprints \cup {None}
      BY DEF RunInv, RunTypeOK
    <2>3. f \in RunState /\ f.pc = "create" /\ f.status # "success"
      BY <2>1, <2>2 DEF RunState
    <2> QED BY <1>1, <1>3, <2>1, <2>3, QuietWitness
  <1>4. ASSUME NEW pc \in {"checks", "target"}, Create(r) \/ Checks(r),
               Step(r, [run[r] EXCEPT !.pc = pc])
        PROVE  WitnessInv'
    <2> DEFINE f == [run[r] EXCEPT !.pc = pc]
    <2>1. run[r] \in RunState /\ run[r].pc \in {"create", "checks"} /\ run[r].status # "success"
      BY <1>4, LocalsTyped DEF Create, Checks, AttemptOK
    <2>2. f \in RunState /\ f.pc = pc /\ f.status # "success"
      BY <2>1 DEF RunState
    <2> QED BY <1>1, <1>4, <2>1, <2>2, QuietWitness
  <1>5. CASE Crash(r)
    <2> DEFINE f == [Fresh EXCEPT !.pc = "dead"]
    <2>1. f \in RunState /\ f.pc = "dead" /\ f.status = "none"
      BY FreshIsInOrder DEF RunInv, RunState
    <2> QED BY <1>1, <1>5, <2>1, QuietWitness DEF Crash
  <1> QED BY <1>2, <1>3, <1>4, <1>5 DEF Load, Create, Checks, CompleteRun

LEMMA BeginWitness ==
  ASSUME RunInv, WitnessInv, NEW r \in Runs, BeginTarget(r)
  PROVE  WitnessInv'
  <1>1. run[r] \in RunState /\ run[r].pc = "target" /\ UNCHANGED <<bachfile, saved>>
    BY LocalsTyped DEF BeginTarget, storeVars
  <1>2. ASSUME NEW status \in {"none", "running", "failed", "cached"},
               Step(r, [run[r] EXCEPT !.pc = "finish", !.status = status])
        PROVE  WitnessInv'
    <2> DEFINE f == [run[r] EXCEPT !.pc = "finish", !.status = status]
    <2>1. f \in RunState /\ f.pc = "finish" /\ f.status = status
      BY <1>1 DEF RunState, Statuses
    <2> QED BY <1>1, <1>2, <2>1, QuietWitness
  <1>3. CASE Step(r, [run[r] EXCEPT !.pc = "start", !.status = "running",
                                    !.loaded = None, !.force = FALSE])
    <2> DEFINE f == [run[r] EXCEPT !.pc = "start", !.status = "running",
                                   !.loaded = None, !.force = FALSE]
    <2>1. f \in RunState /\ f.pc = "start" /\ f.status = "running"
      BY <1>1 DEF RunState, Statuses
    <2> QED BY <1>1, <1>3, <2>1, QuietWitness
  <1> QED BY <1>2, <1>3 DEF BeginTarget

LEMMA CommandWitness ==
  ASSUME RunInv, WitnessInv, NEW r \in Runs, StartCommand(r) \/ EndCommand(r) \/ EvaluateContract(r)
  PROVE  WitnessInv'
  <1>1. /\ run[r] \in RunState /\ run[r].pc \in {"start", "command", "contract"}
        /\ run[r].status # "success" /\ UNCHANGED <<bachfile, saved>>
    BY LocalsTyped DEF StartCommand, EndCommand, EvaluateContract, storeVars, AttemptOK
  <1>2. RunInv'
    BY StartCommandKeeps, EndCommandKeeps, EvaluateContractKeeps
  <1>3. ASSUME NEW f, Step(r, f), f.status = run[r].status, f.pc \in {"command", "contract", "ingest"}
        PROVE  WitnessInv'
    <2>1. f \in RunState
      BY <1>1, <1>2, <1>3, StatesStay DEF RunInv, RunTypeOK, Step
    <2> QED BY <1>1, <1>3, <2>1, QuietWitness
  <1>4. CASE StartCommand(r)
    <2> DEFINE f == [run[r] EXCEPT !.pc = "contract", !.exited = FALSE]
               g == [run[r] EXCEPT !.pc = "command", !.reads = input]
    <2>1. Step(r, f) \/ Step(r, g)
      BY <1>4 DEF StartCommand
    <2>2. f.status = run[r].status /\ f.pc = "contract"
      BY <1>1 DEF RunState
    <2>3. g.status = run[r].status /\ g.pc = "command"
      BY <1>1 DEF RunState
    <2> HIDE DEF f, g
    <2> QED BY <1>3, <2>1, <2>2, <2>3
  <1>5. CASE EndCommand(r)
    <2>1. PICK text, exited :
            Step(r, [run[r] EXCEPT !.pc = "contract", !.exited = exited, !.log = @ \cup text])
      BY <1>5 DEF EndCommand
    <2> DEFINE f == [run[r] EXCEPT !.pc = "contract", !.exited = exited, !.log = run[r].log \cup text]
    <2>2. f.status = run[r].status /\ f.pc = "contract"
      BY <1>1 DEF RunState
    <2>3. Step(r, f)
      BY <2>1
    <2> HIDE DEF f
    <2> QED BY <1>3, <2>2, <2>3
  <1>6. CASE EvaluateContract(r)
    <2>1. PICK answer, err, e :
            Step(r, [run[r] EXCEPT !.pc = "ingest", !.answer = answer, !.err = err, !.command_err = e])
      BY <1>6 DEF EvaluateContract
    <2> DEFINE f == [run[r] EXCEPT !.pc = "ingest", !.answer = answer, !.err = err, !.command_err = e]
    <2>2. f.status = run[r].status /\ f.pc = "ingest"
      BY <1>1 DEF RunState
    <2> HIDE DEF f
    <2> QED BY <1>3, <2>1, <2>2 DEF f
  <1> QED BY <1>4, <1>5, <1>6

\* The reports of an attempt: a passing batch is stored before the attempt counts as
\* passed, a failed gate only at the last attempt if it would be retried.
LEMMA ReportsWitness ==
  ASSUME RunInv, WitnessInv, NEW r \in Runs, IngestReports(r)
  PROVE  WitnessInv'
  <1>1. /\ run[r] \in RunState /\ run[r].pc = "ingest" /\ run[r].status # "success"
        /\ WitnessOK(r) /\ UNCHANGED bachfile /\ bachfile.on_gate \in BOOLEAN
    BY LocalsTyped, TargetRunAssumption
       DEF IngestReports, AttemptOK, WitnessInv, RunInv, RunTypeOK, TargetRunAssumption
  <1>2. PICK err \in Errors :
          /\ Step(r, [run[r] EXCEPT !.pc = "decide", !.err = err])
          /\ \/ UNCHANGED saved /\ err # "none"
             \/ \E verdict \in Verdicts :
                  ToBeSaved(r, verdict) /\ Save(r, verdict) /\ err \in {QualityError(verdict), "other"}
    BY DEF IngestReports, Errors, QualityError, Verdicts
  <1> DEFINE f == [run[r] EXCEPT !.pc = "decide", !.err = err]
  <1>3. /\ f \in RunState /\ f.pc = "decide" /\ f.err = err /\ f.status = run[r].status
        /\ f.attempt = run[r].attempt
    BY <1>1 DEF RunState
  <1>4. run'[r] = f
    BY <1>2, <1>3, OneRunSteps DEF RunInv
  <1>5. CASE UNCHANGED saved /\ err # "none"
    <2>1. WitnessOK(r)'
      BY <1>1, <1>3, <1>4, <1>5 DEF WitnessOK
    <2> QED BY <1>1, <1>2, <1>3, <1>5, <2>1, OthersWitness DEF WitnessInv
  <1>6. ASSUME NEW verdict \in Verdicts,
               ToBeSaved(r, verdict), Save(r, verdict), err \in {QualityError(verdict), "other"}
        PROVE  WitnessInv'
    <2> DEFINE new == [run |-> r, attempt |-> run[r].attempt, verdict |-> verdict]
    <2>1. saved' = saved \cup {new}
      BY <1>6 DEF Save
    <2>2. err = "none" => verdict = "pass"
      BY <1>6 DEF QualityError, Verdicts
    <2>3. verdict = "gate" => err # "none" /\ (bachfile.on_gate => LastAttempt(r))
      BY <1>1, <1>6 DEF QualityError, ToBeSaved
    <2>4. \A s \in saved : bachfile.on_gate => ~ (s.run = r /\ s.verdict = "gate")
      BY <1>1 DEF WitnessOK
    <2>5. LastAttempt(r)' = LastAttempt(r)
      BY <1>1, <1>3, <1>4 DEF LastAttempt
    <2>6. bachfile.on_gate => \A s \in saved' : s.run = r /\ s.verdict = "gate" => s = new
      BY <2>1, <2>4
    <2>7. WitnessOK(r)'
      BY <1>1, <1>3, <1>4, <2>1, <2>2, <2>3, <2>5, <2>6 DEF WitnessOK
    <2> QED BY <1>1, <1>2, <1>3, <1>6, <2>7, OthersWitness DEF WitnessInv
  <1> QED BY <1>2, <1>5, <1>6

LEMMA NotesWitness ==
  ASSUME RunInv, WitnessInv, NEW r \in Runs, IngestNotes(r)
  PROVE  WitnessInv'
  <1> DEFINE f == [run[r] EXCEPT !.pc = "decide", !.command_err = FALSE]
  <1>1. /\ run[r] \in RunState /\ run[r].pc = "ingest" /\ run[r].status # "success"
        /\ run[r].err # "none" /\ WitnessOK(r) /\ UNCHANGED bachfile /\ Step(r, f)
        /\ UNCHANGED saved \/ Save(r, "note")
    BY LocalsTyped DEF IngestNotes, AttemptOK, WitnessInv
  <1>2. f \in RunState /\ f.pc = "decide" /\ f.err = run[r].err /\ f.status = run[r].status
    BY <1>1 DEF RunState
  <1>3. run'[r] = f
    BY <1>1, <1>2, OneRunSteps DEF RunInv
  <1>4. \A s \in saved' : s \in saved \/ s.verdict = "note"
    BY <1>1 DEF Save
  <1>5. WitnessOK(r)'
    BY <1>1, <1>2, <1>3, <1>4 DEF WitnessOK
  <1> QED BY <1>1, <1>2, <1>5, OthersWitness DEF WitnessInv

LEMMA DecideWitness ==
  ASSUME RunInv, WitnessInv, NEW r \in Runs, Decide(r) \/ Backoff(r)
  PROVE  WitnessInv'
  <1>1. /\ run[r] \in RunState /\ run[r].pc \in {"decide", "backoff"} /\ run[r].status # "success"
        /\ WitnessOK(r) /\ UNCHANGED <<bachfile, saved>>
    BY LocalsTyped DEF Decide, Backoff, AttemptOK, WitnessInv, storeVars
  <1>2. RunInv'
    BY DecideKeeps, BackoffKeeps
  <1>3. CASE \E err \in {run[r].err, "timeout"} : Fails(r, err)
    BY <1>1, <1>3, FailsWitness
  <1>4. CASE Decide(r) /\ run[r].err = "none" /\ Step(r, [run[r] EXCEPT !.pc = "record"])
    <2> DEFINE f == [run[r] EXCEPT !.pc = "record"]
    <2>1. f \in RunState /\ f.pc = "record" /\ f.attempt = run[r].attempt /\ f.status = run[r].status
      BY <1>1 DEF RunState
    <2>2. run'[r] = f
      BY <1>4, <2>1, OneRunSteps DEF RunInv
    <2>3. WitnessOK(r)'
      BY <1>1, <1>4, <2>1, <2>2 DEF WitnessOK, Decide
    <2> QED BY <1>1, <1>4, <2>1, <2>3, OthersWitness DEF WitnessInv
  <1>5. ASSUME NEW f, Step(r, f), f.pc \in {"start", "backoff"}, f.status = run[r].status,
               run[r].pc = "decide" => ~LastAttempt(r)
        PROVE  WitnessInv'
    <2>1. f \in RunState
      BY <1>1, <1>2, <1>5, StatesStay DEF RunInv, RunTypeOK, Step
    <2>2. run'[r] = f
      BY <1>5, <2>1, OneRunSteps DEF RunInv
    <2>3. WitnessOK(r)'
      BY <1>1, <1>5, <2>2 DEF WitnessOK
    <2> QED BY <1>1, <1>5, <2>1, <2>3, OthersWitness DEF WitnessInv
  <1>6. CASE Decide(r) /\ ~LastAttempt(r)
             /\ Step(r, [run[r] EXCEPT !.pc = "backoff",
                           !.log = IF run[r].err = "contract" THEN @ \cup {"banner"} ELSE @])
    BY <1>1, <1>5, <1>6 DEF RunState
  <1>7. CASE Backoff(r) /\ Step(r, [run[r] EXCEPT !.pc = "start", !.attempt = @ + 1, !.err = "none",
                                      !.reads = None, !.exited = FALSE, !.answer = FALSE])
    BY <1>1, <1>5, <1>7 DEF RunState, Backoff
  <1> QED BY <1>3, <1>4, <1>6, <1>7 DEF Decide, Backoff

LEMMA RecordWitness ==
  ASSUME RunInv, WitnessInv, NEW r \in Runs, RecordTarget(r)
  PROVE  WitnessInv'
  <1>1. run[r] \in RunState /\ run[r].pc = "record" /\ WitnessOK(r) /\ UNCHANGED <<bachfile, saved>>
    BY LocalsTyped DEF RecordTarget, WitnessInv, storeVars
  <1>2. CASE Fails(r, "other")
    BY <1>1, <1>2, FailsWitness
  <1>3. CASE Step(r, [run[r] EXCEPT !.pc = "finish", !.status = "success", !.dirty = Fingerprint,
                                    !.reads = None])
    <2> DEFINE f == [run[r] EXCEPT !.pc = "finish", !.status = "success", !.dirty = Fingerprint,
                                   !.reads = None]
    <2>1. f.pc = "finish" /\ f.attempt = run[r].attempt /\ f.status = "success"
      BY <1>1 DEF RunState
    <2>2. f \in RunState
      <3>1. run' \in [Runs -> RunState]
        BY <1>1, RecordTargetKeeps, StatesStay DEF RunInv, RunTypeOK
      <3>2. run'[r] = f
        BY <1>3 DEF Step, RunInv, RunTypeOK
      <3> QED BY <3>1, <3>2
    <2>3. run'[r] = f
      BY <1>3, <2>2, OneRunSteps DEF RunInv
    <2>4. WitnessOK(r)'
      BY <1>1, <2>1, <2>3 DEF WitnessOK
    <2> QED BY <1>1, <1>3, <2>2, <2>4, OthersWitness DEF WitnessInv
  <1> QED BY <1>2, <1>3 DEF RecordTarget

\* An ended context, an edit and a deletion touch nothing of this.
LEMMA AroundWitness ==
  ASSUME RunInv, WitnessInv,
         \/ \E r \in Runs : Interrupt(r) \/ Expire(r)
         \/ EditInput \/ DeleteOutput \/ UNCHANGED targetRunVars
  PROVE  WitnessInv'
  <1>1. UNCHANGED <<bachfile, saved>>
    BY DEF Interrupt, Expire, EditInput, DeleteOutput, targetRunVars, storeVars
  <1>2. \A q \in Runs : /\ run'[q].pc = run[q].pc /\ run'[q].err = run[q].err
                        /\ run'[q].status = run[q].status /\ run'[q].attempt = run[q].attempt
    BY DEF RunInv, RunTypeOK, RunState, Step, Interrupt, Expire, EditInput, DeleteOutput, targetRunVars
  <1>3. \A q \in Runs : LastAttempt(q)' = LastAttempt(q)
    BY <1>1, <1>2 DEF LastAttempt
  <1> QED BY <1>1, <1>2, <1>3 DEF WitnessInv, WitnessOK

LEMMA WitnessStays ==
  ASSUME RunInv, WitnessInv, [RunNext]_targetRunVars
  PROVE  WitnessInv'
  <1>1. ASSUME NEW r \in Runs, Proceed(r) \/ Crash(r) PROVE WitnessInv'
    BY <1>1, SessionWitness, BeginWitness, CommandWitness, ReportsWitness, NotesWitness,
       DecideWitness, RecordWitness DEF Proceed
  <1> QED BY <1>1, AroundWitness DEF RunNext

\* A successful run has stored the passing reports of its last attempt and, where
\* failed gates are retried, no failed gate of an earlier one.
THEOREM SuccessHasReports == RunSpec => []SuccessIsWitnessed
  <1>1. RunInit => WitnessInv
    <2>1. RunInit => \A r \in Runs : run[r].pc = "idle" /\ run[r].status = "none"
      BY RunInvStarts, FreshIsInOrder DEF RunInit, RunInv
    <2> QED BY <2>1 DEF RunInit, WitnessInv, WitnessOK
  <1>2. RunInv /\ WitnessInv => SuccessIsWitnessed
    BY DEF WitnessInv, WitnessOK, SuccessIsWitnessed, RunInv, AttemptOK
  <1> QED BY <1>1, <1>2, WitnessStays, RunInvHolds, PTL DEF RunSpec

\* The two and the types together, as the runs check them.
THEOREM SuccessIsEarnedAlways ==
  ASSUME Contract # "output_contains"
  PROVE  RunSpec => []SuccessIsEarned
  BY TargetTypes, SuccessNeedsContract, SuccessHasReports, PTL DEF SuccessIsEarned

-----------------------------------------------------------------------------
(* What is recorded was built *)

\* While no input is edited under a running command, what an attempt has read is what is
\* there, so that whatever is recorded, kept for the record or loaded was built.
BuiltOK(s) ==
  /\ s.loaded # None => s.loaded.input \in built
  /\ s.dirty # None => s.dirty.input \in built
  /\ \/ s.pc = "command"
     \/ s.exited /\ s.pc \in {"contract", "ingest", "decide", "record"}
     => s.reads = input
  /\ s.status = "cached" => s.pc = "finish" /\ s.loaded # None

BuiltInv ==
  /\ record # None => record.input \in built
  /\ \A r \in Runs : BuiltOK(run[r])

\* A step that builds nothing, and takes over only what was built.
LEMMA QuietBuilt ==
  ASSUME RunInv, BuiltInv, NEW r \in Runs, NEW f, Step(r, f), UNCHANGED <<input, built>>,
         record' \in {record, run[r].dirty, None},
         f.loaded \in {record, run[r].loaded, None}, f.dirty \in {run[r].dirty, None},
         \/ f.pc = "command"
         \/ f.exited /\ f.pc \in {"contract", "ingest", "decide", "record"}
         => f.reads = input,
         f.status = "cached" => f.pc = "finish" /\ f.loaded # None
  PROVE  BuiltInv'
  <1>1. run'[r] = f /\ \A q \in Runs : q # r => run'[q] = run[q]
    BY DEF RunInv, RunTypeOK, Step
  <1>2. BuiltOK(f)
    <2>1. f.loaded # None => f.loaded.input \in built
      BY DEF BuiltInv, BuiltOK
    <2>2. f.dirty # None => f.dirty.input \in built
      BY DEF BuiltInv, BuiltOK
    <2> QED BY <2>1, <2>2, Zenon DEF BuiltOK
  <1>3. \A q \in Runs : BuiltOK(run'[q])
    BY <1>1, <1>2 DEF BuiltInv
  <1> QED BY <1>3 DEF BuiltInv, BuiltOK

LEMMA ReturnBuilt ==
  ASSUME RunInv, BuiltInv, NEW r \in Runs, Return(r), UNCHANGED <<input, built>>,
         record' \in {record, run[r].dirty, None}
  PROVE  BuiltInv'
  <1> DEFINE f == [Fresh EXCEPT !.pc = "returned", !.ctx = run[r].ctx]
  <1>1. f.pc = "returned" /\ f.status = "none" /\ f.loaded = None /\ f.dirty = None
    BY FreshIsInOrder DEF RunInv, RunState
  <1> HIDE DEF f
  <1> QED BY <1>1, QuietBuilt DEF Return, f

LEMMA FailsBuilt ==
  ASSUME RunInv, BuiltInv, NEW r \in Runs, NEW err, Fails(r, err),
         UNCHANGED <<input, built, record>>
  PROVE  BuiltInv'
  <1> DEFINE f == [Fresh EXCEPT !.pc = "finish", !.ctx = run[r].ctx, !.status = FailedStatus(err)]
  <1>1. f.pc = "finish" /\ f.status = FailedStatus(err) /\ f.loaded = None /\ f.dirty = None
    BY FreshIsInOrder DEF RunInv, RunState
  <1>2. FailedStatus(err) # "cached"
    BY DEF FailedStatus
  <1> HIDE DEF f
  <1> QED BY <1>1, <1>2, QuietBuilt DEF Fails, f

LEMMA SessionBuilt ==
  ASSUME RunInv, BuiltInv, NEW r \in Runs,
         Load(r) \/ Create(r) \/ Checks(r) \/ CompleteRun(r) \/ Crash(r)
  PROVE  BuiltInv'
  <1>1. /\ UNCHANGED <<input, built>> /\ record' \in {record, run[r].dirty, None}
        /\ run[r] \in RunState /\ BuiltOK(run[r])
    BY LocalsTyped DEF Load, Create, Checks, CompleteRun, Crash, Finish, storeVars, worldVars, BuiltInv
  <1>2. CASE Return(r)
    BY <1>1, <1>2, ReturnBuilt
  <1>3. ASSUME NEW force, run[r].pc = "idle",
               Step(r, [run[r] EXCEPT !.pc = "create", !.loaded = record, !.force = force])
        PROVE  BuiltInv'
    <2> DEFINE f == [run[r] EXCEPT !.pc = "create", !.loaded = record, !.force = force]
    <2>1. f.pc = "create" /\ f.status # "cached" /\ f.loaded = record /\ f.dirty = run[r].dirty
      BY <1>1, <1>3 DEF RunState, BuiltOK
    <2> HIDE DEF f
    <2> QED BY <1>1, <1>3, <2>1, QuietBuilt DEF f
  <1>4. ASSUME NEW pc \in {"checks", "target"}, run[r].pc # "finish",
               Step(r, [run[r] EXCEPT !.pc = pc])
        PROVE  BuiltInv'
    <2> DEFINE f == [run[r] EXCEPT !.pc = pc]
    <2>1. f.pc = pc /\ f.status # "cached" /\ f.loaded = run[r].loaded /\ f.dirty = run[r].dirty
      BY <1>1, <1>4 DEF RunState, BuiltOK
    <2> HIDE DEF f
    <2> QED BY <1>1, <1>4, <2>1, QuietBuilt DEF f
  <1>5. CASE Crash(r)
    <2> DEFINE f == [Fresh EXCEPT !.pc = "dead"]
    <2>1. f.pc = "dead" /\ f.status = "none" /\ f.loaded = None /\ f.dirty = None
      BY FreshIsInOrder DEF RunInv, RunState
    <2> HIDE DEF f
    <2> QED BY <1>1, <1>5, <2>1, QuietBuilt DEF Crash, f
  <1> QED BY <1>2, <1>3, <1>4, <1>5 DEF Load, Create, Checks, CompleteRun

LEMMA BeginBuilt ==
  ASSUME RunInv, BuiltInv, NEW r \in Runs, BeginTarget(r)
  PROVE  BuiltInv'
  <1>1. /\ UNCHANGED <<input, built, record>> /\ run[r] \in RunState
        /\ run[r].pc = "target" /\ Fingerprint \in Fingerprints
    BY LocalsTyped DEF BeginTarget, storeVars, worldVars
  <1>2. TargetFresh(r) => run[r].loaded # None
    BY <1>1, TargetRunAssumption DEF TargetRunAssumption, TargetFresh, Fingerprints
  <1>3. ASSUME NEW status, status = "cached" => run[r].loaded # None,
               Step(r, [run[r] EXCEPT !.pc = "finish", !.status = status])
        PROVE  BuiltInv'
    <2> DEFINE f == [run[r] EXCEPT !.pc = "finish", !.status = status]
    <2>1. f.pc = "finish" /\ f.status = status /\ f.loaded = run[r].loaded /\ f.dirty = run[r].dirty
      BY <1>1 DEF RunState
    <2> HIDE DEF f
    <2> QED BY <1>1, <1>3, <2>1, QuietBuilt DEF f
  <1>4. CASE Step(r, [run[r] EXCEPT !.pc = "start", !.status = "running",
                                    !.loaded = None, !.force = FALSE])
    <2> DEFINE f == [run[r] EXCEPT !.pc = "start", !.status = "running",
                                   !.loaded = None, !.force = FALSE]
    <2>1. f.pc = "start" /\ f.status = "running" /\ f.loaded = None /\ f.dirty = run[r].dirty
      BY <1>1 DEF RunState
    <2> HIDE DEF f
    <2> QED BY <1>1, <1>4, <2>1, QuietBuilt DEF f
  <1> QED BY <1>2, <1>3, <1>4 DEF BeginTarget

\* Attempts: they hold on to nothing but what they have read themselves.
LEMMA AttemptBuilt ==
  ASSUME RunInv, BuiltInv, NEW r \in Runs, NEW f \in RunState, Step(r, f),
         UNCHANGED <<input, built, record>>,
         run[r].pc # "finish", f.loaded = run[r].loaded, f.dirty = run[r].dirty,
         f.status = run[r].status,
         \/ f.pc \in {"start", "backoff"}
         \/ f.pc = "contract" /\ ~f.exited
         \/ f.pc = "command" /\ f.reads = input
         \/ /\ run[r].pc = "command" /\ f.pc = "contract" /\ f.reads = run[r].reads
         \/ /\ run[r].pc \in {"contract", "ingest", "decide"}
            /\ f.pc \in {"ingest", "decide", "record"}
            /\ f.exited = run[r].exited /\ f.reads = run[r].reads
  PROVE  BuiltInv'
  <1>1. BuiltOK(run[r])
    BY DEF BuiltInv
  <1>2. f.status # "cached"
    BY <1>1 DEF BuiltOK
  <1>3. \/ f.pc = "command"
        \/ f.exited /\ f.pc \in {"contract", "ingest", "decide", "record"}
        => f.reads = input
    BY <1>1 DEF BuiltOK
  <1> QED BY <1>2, <1>3, QuietBuilt

LEMMA CommandBuilt ==
  ASSUME RunInv, BuiltInv, NEW r \in Runs, StartCommand(r) \/ EndCommand(r) \/ EvaluateContract(r)
  PROVE  BuiltInv'
  <1>1. /\ run[r] \in RunState /\ run[r].pc # "finish"
        /\ UNCHANGED <<input, built, record>> /\ input \in Versions
    BY LocalsTyped DEF StartCommand, EndCommand, EvaluateContract, storeVars, worldVars
  <1>2. ASSUME NEW f, Step(r, f) PROVE f \in RunState
    <2>1. RunInv' /\ UNCHANGED bachfile
      BY StartCommandKeeps, EndCommandKeeps, EvaluateContractKeeps
         DEF StartCommand, EndCommand, EvaluateContract
    <2> QED BY <1>2, <2>1, StatesStay DEF RunInv, RunTypeOK, Step
  <1>3. CASE StartCommand(r)
    <2> DEFINE f == [run[r] EXCEPT !.pc = "contract", !.exited = FALSE]
               g == [run[r] EXCEPT !.pc = "command", !.reads = input]
    <2>1. Step(r, f) \/ Step(r, g)
      BY <1>3 DEF StartCommand
    <2>2. /\ f.status = run[r].status /\ f.pc = "contract" /\ ~f.exited
          /\ f.loaded = run[r].loaded /\ f.dirty = run[r].dirty
      BY <1>1 DEF RunState
    <2>3. /\ g.status = run[r].status /\ g.pc = "command" /\ g.reads = input
          /\ g.loaded = run[r].loaded /\ g.dirty = run[r].dirty
      BY <1>1 DEF RunState
    <2> HIDE DEF f, g
    <2> QED BY <1>1, <1>2, <2>1, <2>2, <2>3, AttemptBuilt
  <1>4. CASE EndCommand(r)
    <2>1. PICK text, exited :
            Step(r, [run[r] EXCEPT !.pc = "contract", !.exited = exited, !.log = @ \cup text])
      BY <1>4 DEF EndCommand
    <2> DEFINE f == [run[r] EXCEPT !.pc = "contract", !.exited = exited, !.log = run[r].log \cup text]
    <2>2. /\ f.status = run[r].status /\ f.pc = "contract" /\ f.reads = run[r].reads
          /\ f.loaded = run[r].loaded /\ f.dirty = run[r].dirty
      BY <1>1 DEF RunState
    <2>3. Step(r, f) /\ run[r].pc = "command"
      BY <1>4, <2>1 DEF EndCommand
    <2> HIDE DEF f
    <2> QED BY <1>1, <1>2, <2>2, <2>3, AttemptBuilt
  <1>5. CASE EvaluateContract(r)
    <2>1. PICK answer, err, e :
            Step(r, [run[r] EXCEPT !.pc = "ingest", !.answer = answer, !.err = err, !.command_err = e])
      BY <1>5 DEF EvaluateContract
    <2> DEFINE f == [run[r] EXCEPT !.pc = "ingest", !.answer = answer, !.err = err, !.command_err = e]
    <2>2. /\ f.status = run[r].status /\ f.pc = "ingest" /\ f.reads = run[r].reads
          /\ f.loaded = run[r].loaded /\ f.dirty = run[r].dirty /\ f.exited = run[r].exited
      BY <1>1 DEF RunState
    <2>3. Step(r, f) /\ run[r].pc = "contract"
      BY <1>5, <2>1 DEF EvaluateContract
    <2> HIDE DEF f
    <2> QED BY <1>1, <1>2, <2>2, <2>3, AttemptBuilt
  <1> QED BY <1>3, <1>4, <1>5

LEMMA IngestBuilt ==
  ASSUME RunInv, BuiltInv, NEW r \in Runs,
         IngestReports(r) \/ IngestNotes(r) \/ Decide(r) \/ Backoff(r)
  PROVE  BuiltInv'
  <1>1. /\ run[r] \in RunState /\ run[r].pc \in {"ingest", "decide", "backoff"}
        /\ UNCHANGED <<input, built, record>>
    BY LocalsTyped DEF IngestReports, IngestNotes, Decide, Backoff, storeVars, worldVars
  <1>2. ASSUME NEW f, Step(r, f) PROVE f \in RunState
    <2>1. RunInv' /\ UNCHANGED bachfile
      BY IngestReportsKeeps, IngestNotesKeeps, DecideKeeps, BackoffKeeps
         DEF IngestReports, IngestNotes, Decide, Backoff
    <2> QED BY <1>2, <2>1, StatesStay DEF RunInv, RunTypeOK, Step
  <1>3. CASE \E err : Fails(r, err)
    BY <1>1, <1>3, FailsBuilt
  <1>4. ASSUME NEW f, Step(r, f), run[r].pc \in {"ingest", "decide"}, f.pc \in {"decide", "record"},
               f.status = run[r].status, f.loaded = run[r].loaded, f.dirty = run[r].dirty,
               f.exited = run[r].exited, f.reads = run[r].reads
        PROVE  BuiltInv'
    BY <1>1, <1>2, <1>4, AttemptBuilt
  <1>5. ASSUME NEW f, Step(r, f), f.pc \in {"start", "backoff"},
               f.status = run[r].status, f.loaded = run[r].loaded, f.dirty = run[r].dirty
        PROVE  BuiltInv'
    BY <1>1, <1>2, <1>5, AttemptBuilt
  <1>6. CASE IngestReports(r)
    <2>1. PICK err : Step(r, [run[r] EXCEPT !.pc = "decide", !.err = err])
      BY <1>6 DEF IngestReports
    <2> DEFINE f == [run[r] EXCEPT !.pc = "decide", !.err = err]
    <2>2. /\ f.pc = "decide" /\ f.status = run[r].status /\ f.loaded = run[r].loaded
          /\ f.dirty = run[r].dirty /\ f.exited = run[r].exited /\ f.reads = run[r].reads
      BY <1>1 DEF RunState
    <2>3. Step(r, f) /\ run[r].pc = "ingest"
      BY <1>6, <2>1 DEF IngestReports
    <2> HIDE DEF f
    <2> QED BY <1>4, <2>2, <2>3
  <1>7. CASE IngestNotes(r)
    <2> DEFINE f == [run[r] EXCEPT !.pc = "decide", !.command_err = FALSE]
    <2>2. /\ f.pc = "decide" /\ f.status = run[r].status /\ f.loaded = run[r].loaded
          /\ f.dirty = run[r].dirty /\ f.exited = run[r].exited /\ f.reads = run[r].reads
      BY <1>1 DEF RunState
    <2>3. Step(r, f) /\ run[r].pc = "ingest"
      BY <1>7 DEF IngestNotes
    <2> HIDE DEF f
    <2> QED BY <1>4, <2>2, <2>3
  <1>8. CASE Decide(r) /\ Step(r, [run[r] EXCEPT !.pc = "record"])
    <2> DEFINE f == [run[r] EXCEPT !.pc = "record"]
    <2>2. /\ f.pc = "record" /\ f.status = run[r].status /\ f.loaded = run[r].loaded
          /\ f.dirty = run[r].dirty /\ f.exited = run[r].exited /\ f.reads = run[r].reads
      BY <1>1 DEF RunState
    <2>3. Step(r, f) /\ run[r].pc = "decide"
      BY <1>8 DEF Decide
    <2> HIDE DEF f
    <2> QED BY <1>4, <2>2, <2>3
  <1>9. ASSUME NEW log, Step(r, [run[r] EXCEPT !.pc = "backoff", !.log = log])
        PROVE  BuiltInv'
    <2> DEFINE f == [run[r] EXCEPT !.pc = "backoff", !.log = log]
    <2>1. /\ f.pc = "backoff" /\ f.status = run[r].status /\ f.loaded = run[r].loaded
          /\ f.dirty = run[r].dirty
      BY <1>1 DEF RunState
    <2>2. Step(r, f)
      BY <1>9
    <2> HIDE DEF f
    <2> QED BY <1>5, <2>1, <2>2
  <1>10. CASE Step(r, [run[r] EXCEPT !.pc = "start", !.attempt = @ + 1, !.err = "none",
                        !.reads = None, !.exited = FALSE, !.answer = FALSE])
    <2> DEFINE f == [run[r] EXCEPT !.pc = "start", !.attempt = run[r].attempt + 1, !.err = "none",
                       !.reads = None, !.exited = FALSE, !.answer = FALSE]
    <2>1. /\ f.pc = "start" /\ f.status = run[r].status /\ f.loaded = run[r].loaded
          /\ f.dirty = run[r].dirty
      BY <1>1 DEF RunState
    <2>2. Step(r, f)
      BY <1>10
    <2> HIDE DEF f
    <2> QED BY <1>5, <2>1, <2>2
  <1>11. CASE Decide(r)
    BY <1>3, <1>8, <1>9, <1>11 DEF Decide
  <1>12. CASE Backoff(r)
    BY <1>3, <1>10, <1>12 DEF Backoff
  <1> QED BY <1>6, <1>7, <1>11, <1>12

\* Success adds to what was built the very inputs that are recorded.
LEMMA RecordBuilt ==
  ASSUME RunInv, BuiltInv, NEW r \in Runs, RecordTarget(r)
  PROVE  BuiltInv'
  <1>1. /\ run[r] \in RunState /\ run[r].pc = "record" /\ run[r].exited /\ BuiltOK(run[r])
        /\ UNCHANGED <<input, output, record>> /\ built' = built \cup {run[r].reads}
    BY LocalsTyped DEF RecordTarget, AttemptOK, Met, BuiltInv, storeVars, worldVars
  <1>2. run[r].reads = input /\ Fingerprint.input = input
    BY <1>1 DEF BuiltOK, Fingerprint
  <1>3. ASSUME NEW f, Step(r, f), f.pc = "finish", f.status # "cached",
               f.loaded \in {run[r].loaded, None}, f.dirty \in {Fingerprint, None}
        PROVE  BuiltInv'
    <2>1. run'[r] = f /\ \A q \in Runs : q # r => run'[q] = run[q]
      BY <1>3 DEF RunInv, RunTypeOK, Step
    <2>2. BuiltOK(f)'
      BY <1>1, <1>2, <1>3 DEF BuiltOK
    <2>3. \A q \in Runs : q # r => BuiltOK(run[q])'
      BY <1>1, <2>1 DEF BuiltInv, BuiltOK
    <2> QED BY <1>1, <2>1, <2>2, <2>3 DEF BuiltInv, BuiltOK
  <1>4. CASE Fails(r, "other")
    <2> DEFINE f == [Fresh EXCEPT !.pc = "finish", !.ctx = run[r].ctx, !.status = FailedStatus("other")]
    <2>1. f.pc = "finish" /\ f.status = FailedStatus("other") /\ f.loaded = None /\ f.dirty = None
      BY FreshIsInOrder DEF RunInv, RunState
    <2>2. f.status # "cached"
      BY <2>1 DEF FailedStatus
    <2>3. Step(r, f)
      BY <1>4 DEF Fails
    <2> HIDE DEF f
    <2> QED BY <1>3, <2>1, <2>2, <2>3
  <1>5. CASE Step(r, [run[r] EXCEPT !.pc = "finish", !.status = "success", !.dirty = Fingerprint,
                                    !.reads = None])
    <2> DEFINE f == [run[r] EXCEPT !.pc = "finish", !.status = "success", !.dirty = Fingerprint,
                                   !.reads = None]
    <2>1. f.pc = "finish" /\ f.status = "success" /\ f.loaded = run[r].loaded /\ f.dirty = Fingerprint
      BY <1>1 DEF RunState
    <2> HIDE DEF f
    <2> QED BY <1>3, <1>5, <2>1 DEF f
  <1> QED BY <1>4, <1>5 DEF RecordTarget

LEMMA AroundBuilt ==
  ASSUME ~EditsMidRun, RunInv, BuiltInv,
         \/ \E r \in Runs : Interrupt(r) \/ Expire(r)
         \/ EditInput \/ DeleteOutput \/ UNCHANGED targetRunVars
  PROVE  BuiltInv'
  <1>1. UNCHANGED <<record, built>>
    BY DEF Interrupt, Expire, EditInput, DeleteOutput, targetRunVars, storeVars
  <1>2. \A q \in Runs : /\ run'[q].pc = run[q].pc /\ run'[q].loaded = run[q].loaded
                        /\ run'[q].dirty = run[q].dirty /\ run'[q].status = run[q].status
                        /\ run'[q].exited = run[q].exited /\ run'[q].reads = run[q].reads
    BY DEF RunInv, RunTypeOK, RunState, Step, Interrupt, Expire, EditInput, DeleteOutput, targetRunVars
  <1>3. \A q \in Runs : run[q].pc \in {"command", "contract", "ingest", "decide", "record"}
          => UNCHANGED input
    BY DEF Interrupt, Expire, EditInput, DeleteOutput, Working, targetRunVars, worldVars
  <1> QED BY <1>1, <1>2, <1>3 DEF BuiltInv, BuiltOK

\* While inputs are not edited under a running command, a target is called cached only
\* if a command has succeeded on these inputs, whoever ran it.
THEOREM CachedWasBuilt ==
  ASSUME ~EditsMidRun
  PROVE  RunSpec => []CachedMeansBuilt
  <1>1. RunInit => BuiltInv
    <2>1. RunInit => \A r \in Runs : run[r] = Fresh
      BY DEF RunInit
    <2>2. RunInit => BuiltOK(Fresh)
      <3>1. Fresh.pc = "idle" /\ Fresh.status = "none" /\ Fresh.loaded = None /\ Fresh.dirty = None
        BY DEF Fresh
      <3> QED BY <3>1 DEF BuiltOK
    <2> QED BY <2>1, <2>2 DEF RunInit, BuiltInv, BuiltOK
  <1>2. RunInv /\ BuiltInv /\ [RunNext]_targetRunVars => BuiltInv'
    <2> SUFFICES ASSUME RunInv, BuiltInv, [RunNext]_targetRunVars PROVE BuiltInv'
      OBVIOUS
    <2>1. ASSUME NEW r \in Runs, Proceed(r) \/ Crash(r) PROVE BuiltInv'
      BY <2>1, SessionBuilt, BeginBuilt, CommandBuilt, IngestBuilt, RecordBuilt DEF Proceed
    <2> QED BY <2>1, AroundBuilt DEF RunNext
  <1>3. BuiltInv => CachedMeansBuilt
    BY DEF BuiltInv, BuiltOK, CachedMeansBuilt
  <1> QED BY <1>1, <1>2, <1>3, RunInvHolds, PTL DEF RunSpec

-----------------------------------------------------------------------------
(* Runs that have returned *)

\* The row of a run appears when it is created, and is left running only by a provider
\* that was called too late.
ClosedOK(r) ==
  /\ run[r].pc \in {"idle", "create"} => rows[r] = "none"
  /\ run[r].pc = "returned" /\ rows[r] = "running" => bachfile.provider /\ run[r].ctx = "cancelled"

ClosedInv == \A r \in Runs : ClosedOK(r)

\* Rows are those of the run that steps.
LEMMA OthersClosed ==
  ASSUME RunInv, ClosedInv, NEW r \in Runs, NEW f, Step(r, f), UNCHANGED bachfile,
         \A q \in Runs : q # r => rows'[q] = rows[q], ClosedOK(r)'
  PROVE  ClosedInv'
  <1>1. \A q \in Runs : q # r => run'[q] = run[q]
    BY DEF RunInv, RunTypeOK, Step
  <1> QED BY <1>1 DEF ClosedInv, ClosedOK

LEMMA ReturnClosed ==
  ASSUME RunInv, ClosedInv, NEW r \in Runs, Return(r), UNCHANGED bachfile,
         \A q \in Runs : q # r => rows'[q] = rows[q],
         rows'[r] # "running" \/ ~StoreAnswers(r)
  PROVE  ClosedInv'
  <1> DEFINE f == [Fresh EXCEPT !.pc = "returned", !.ctx = run[r].ctx]
  <1>1. f.pc = "returned" /\ f.ctx = run[r].ctx
    BY FreshIsInOrder DEF RunInv, RunState
  <1>2. Step(r, f)
    BY DEF Return
  <1> HIDE DEF f
  <1>3. run'[r] = f
    BY <1>2 DEF RunInv, RunTypeOK, Step
  <1>4. ClosedOK(r)'
    BY <1>1, <1>3 DEF ClosedOK, StoreAnswers
  <1> QED BY <1>2, <1>4, OthersClosed

LEMMA FinishClosed ==
  ASSUME RunInv, ClosedInv, NEW r \in Runs, NEW status, NEW dirty, Finish(r, status, dirty),
         status # "running", Return(r), UNCHANGED bachfile
  PROVE  ClosedInv'
  <1>1. \A q \in Runs : q # r => rows'[q] = rows[q]
    BY DEF Finish, RunInv, RunTypeOK
  <1>2. rows'[r] = status \/ ~StoreAnswers(r)
    BY DEF Finish, RunInv, RunTypeOK
  <1> QED BY <1>1, <1>2, ReturnClosed

LEMMA LoadClosed ==
  ASSUME RunInv, ClosedInv, NEW r \in Runs, Load(r)
  PROVE  ClosedInv'
  <1>1. /\ run[r] \in RunState /\ rows[r] = "none" /\ UNCHANGED <<bachfile, rows>>
    BY LocalsTyped DEF Load, ClosedInv, ClosedOK, storeVars
  <1>2. CASE Return(r)
    BY <1>1, <1>2, ReturnClosed
  <1>3. ASSUME NEW f, Step(r, f), f.pc = "create" PROVE ClosedInv'
    <2>1. run'[r] = f
      BY <1>3 DEF RunInv, RunTypeOK, Step
    <2>2. ClosedOK(r)'
      BY <1>1, <1>3, <2>1 DEF ClosedOK
    <2> QED BY <1>1, <1>3, <2>2, OthersClosed
  <1>4. ASSUME NEW force, Step(r, [run[r] EXCEPT !.pc = "create", !.loaded = record, !.force = force])
        PROVE  ClosedInv'
    <2> DEFINE f == [run[r] EXCEPT !.pc = "create", !.loaded = record, !.force = force]
    <2>1. f.pc = "create"
      BY <1>1 DEF RunState
    <2> HIDE DEF f
    <2> QED BY <1>3, <1>4, <2>1 DEF f
  <1> QED BY <1>2, <1>4 DEF Load

\* The steps in between neither return nor begin.
LEMMA BusyClosed ==
  ASSUME RunInv, ClosedInv, NEW r \in Runs, NEW f, Step(r, f), UNCHANGED bachfile,
         \A q \in Runs : q # r => rows'[q] = rows[q],
         f.pc \notin {"idle", "create", "returned"}
  PROVE  ClosedInv'
  <1>1. run'[r] = f
    BY DEF RunInv, RunTypeOK, Step
  <1>2. ClosedOK(r)'
    BY <1>1 DEF ClosedOK
  <1> QED BY <1>2, OthersClosed

LEMMA CreateClosed ==
  ASSUME RunInv, ClosedInv, NEW r \in Runs, Create(r)
  PROVE  ClosedInv'
  <1>1. run[r] \in RunState /\ rows[r] = "none" /\ UNCHANGED bachfile
    BY LocalsTyped DEF Create, ClosedInv, ClosedOK
  <1>2. \A q \in Runs : q # r => rows'[q] = rows[q]
    BY DEF Create, RunInv, RunTypeOK
  <1>3. CASE UNCHANGED rows /\ Return(r)
    BY <1>1, <1>2, <1>3, ReturnClosed
  <1>4. CASE Step(r, [run[r] EXCEPT !.pc = "checks"])
    <2> DEFINE f == [run[r] EXCEPT !.pc = "checks"]
    <2>1. f.pc = "checks"
      BY <1>1 DEF RunState
    <2> HIDE DEF f
    <2> QED BY <1>1, <1>2, <1>4, <2>1, BusyClosed DEF f
  <1> QED BY <1>3, <1>4 DEF Create

LEMMA ChecksClosed ==
  ASSUME RunInv, ClosedInv, NEW r \in Runs, Checks(r)
  PROVE  ClosedInv'
  <1>1. run[r] \in RunState /\ UNCHANGED bachfile
    BY LocalsTyped DEF Checks
  <1>2. CASE Step(r, [run[r] EXCEPT !.pc = "target"]) /\ UNCHANGED storeVars
    <2> DEFINE f == [run[r] EXCEPT !.pc = "target"]
    <2>1. f.pc = "target" /\ UNCHANGED rows
      BY <1>1, <1>2 DEF RunState, storeVars
    <2> HIDE DEF f
    <2> QED BY <1>1, <1>2, <2>1, BusyClosed DEF f
  <1>3. ASSUME NEW status \in {"failed", "preflight-failed"}, Finish(r, status, None), Return(r)
        PROVE  ClosedInv'
    BY <1>1, <1>3, FinishClosed
  <1> QED BY <1>2, <1>3 DEF Checks

LEMMA CompleteClosed ==
  ASSUME RunInv, ClosedInv, NEW r \in Runs, CompleteRun(r)
  PROVE  ClosedInv'
  <1>1. Outcome(r) # "running"
    BY LocalsTyped DEF Outcome, RunState, Statuses
  <1>2. PICK status : Finish(r, status, run[r].dirty) /\ status # "running"
    BY <1>1 DEF CompleteRun
  <1> QED BY <1>2, FinishClosed DEF CompleteRun

\* Everything from the target's begin to its end.
LEMMA TargetClosed ==
  ASSUME RunInv, ClosedInv, NEW r \in Runs,
         \/ BeginTarget(r) \/ StartCommand(r) \/ EndCommand(r) \/ EvaluateContract(r)
         \/ IngestReports(r) \/ IngestNotes(r) \/ Decide(r) \/ Backoff(r) \/ RecordTarget(r)
         \/ Crash(r)
  PROVE  ClosedInv'
  <1> DEFINE places == {"start", "command", "contract", "ingest", "decide", "backoff", "record",
                        "finish", "dead"}
  <1>1. UNCHANGED <<bachfile, rows>>
    BY DEF BeginTarget, StartCommand, EndCommand, EvaluateContract, IngestReports, IngestNotes,
           Decide, Backoff, RecordTarget, Crash, storeVars
  <1>2. run[r] \in RunState /\ Fresh \in RunState
    BY LocalsTyped, FreshIsInOrder DEF RunInv
  <1>3. ASSUME NEW f, Step(r, f), f.pc \in places PROVE ClosedInv'
    BY <1>1, <1>3, BusyClosed
  <1>4. ASSUME NEW err, Fails(r, err) PROVE ClosedInv'
    <2> DEFINE f == [Fresh EXCEPT !.pc = "finish", !.ctx = run[r].ctx, !.status = FailedStatus(err)]
    <2>1. f.pc = "finish"
      BY <1>2 DEF RunState
    <2> HIDE DEF f
    <2> QED BY <1>3, <1>4, <2>1 DEF Fails, f
  <1>5. CASE BeginTarget(r)
    <2>1. ASSUME NEW status, Step(r, [run[r] EXCEPT !.pc = "finish", !.status = status])
          PROVE  ClosedInv'
      <3> DEFINE f == [run[r] EXCEPT !.pc = "finish", !.status = status]
      <3>1. f.pc = "finish"
        BY <1>2 DEF RunState
      <3> HIDE DEF f
      <3> QED BY <1>3, <2>1, <3>1 DEF f
    <2>2. CASE Step(r, [run[r] EXCEPT !.pc = "start", !.status = "running",
                                      !.loaded = None, !.force = FALSE])
      <3> DEFINE f == [run[r] EXCEPT !.pc = "start", !.status = "running",
                                     !.loaded = None, !.force = FALSE]
      <3>1. f.pc = "start"
        BY <1>2 DEF RunState
      <3> HIDE DEF f
      <3> QED BY <1>3, <2>2, <3>1 DEF f
    <2> QED BY <1>5, <2>1, <2>2 DEF BeginTarget
  <1>6. CASE StartCommand(r)
    <2> DEFINE f == [run[r] EXCEPT !.pc = "contract", !.exited = FALSE]
               g == [run[r] EXCEPT !.pc = "command", !.reads = input]
    <2>1. Step(r, f) \/ Step(r, g)
      BY <1>6 DEF StartCommand
    <2>2. f.pc = "contract" /\ g.pc = "command"
      BY <1>2 DEF RunState
    <2> HIDE DEF f, g
    <2> QED BY <1>3, <2>1, <2>2
  <1>7. CASE EndCommand(r)
    <2>1. PICK text, exited :
            Step(r, [run[r] EXCEPT !.pc = "contract", !.exited = exited, !.log = @ \cup text])
      BY <1>7 DEF EndCommand
    <2> DEFINE f == [run[r] EXCEPT !.pc = "contract", !.exited = exited, !.log = run[r].log \cup text]
    <2>2. f.pc = "contract"
      BY <1>2 DEF RunState
    <2>3. Step(r, f)
      BY <2>1
    <2> HIDE DEF f
    <2> QED BY <1>3, <2>2, <2>3
  <1>8. CASE EvaluateContract(r)
    <2>1. PICK answer, err, e :
            Step(r, [run[r] EXCEPT !.pc = "ingest", !.answer = answer, !.err = err, !.command_err = e])
      BY <1>8 DEF EvaluateContract
    <2> DEFINE f == [run[r] EXCEPT !.pc = "ingest", !.answer = answer, !.err = err, !.command_err = e]
    <2>2. f.pc = "ingest"
      BY <1>2 DEF RunState
    <2> HIDE DEF f
    <2> QED BY <1>3, <2>1, <2>2 DEF f
  <1>9. CASE IngestReports(r)
    <2>1. PICK err : Step(r, [run[r] EXCEPT !.pc = "decide", !.err = err])
      BY <1>9 DEF IngestReports
    <2> DEFINE f == [run[r] EXCEPT !.pc = "decide", !.err = err]
    <2>2. f.pc = "decide"
      BY <1>2 DEF RunState
    <2> HIDE DEF f
    <2> QED BY <1>3, <2>1, <2>2 DEF f
  <1>10. CASE IngestNotes(r)
    <2> DEFINE f == [run[r] EXCEPT !.pc = "decide", !.command_err = FALSE]
    <2>1. f.pc = "decide"
      BY <1>2 DEF RunState
    <2> HIDE DEF f
    <2> QED BY <1>3, <1>10, <2>1 DEF IngestNotes, f
  <1>11. CASE Decide(r)
    <2>1. CASE Step(r, [run[r] EXCEPT !.pc = "record"])
      <3> DEFINE f == [run[r] EXCEPT !.pc = "record"]
      <3>1. f.pc = "record"
        BY <1>2 DEF RunState
      <3> HIDE DEF f
      <3> QED BY <1>3, <2>1, <3>1 DEF f
    <2>2. ASSUME NEW log, Step(r, [run[r] EXCEPT !.pc = "backoff", !.log = log])
          PROVE  ClosedInv'
      <3> DEFINE f == [run[r] EXCEPT !.pc = "backoff", !.log = log]
      <3>1. f.pc = "backoff"
        BY <1>2 DEF RunState
      <3> HIDE DEF f
      <3> QED BY <1>3, <2>2, <3>1 DEF f
    <2> QED BY <1>4, <1>11, <2>1, <2>2 DEF Decide
  <1>12. CASE Backoff(r)
    <2> DEFINE f == [run[r] EXCEPT !.pc = "start", !.attempt = run[r].attempt + 1, !.err = "none",
                       !.reads = None, !.exited = FALSE, !.answer = FALSE]
    <2>1. f.pc = "start"
      BY <1>2 DEF RunState
    <2>2. Step(r, f) \/ Fails(r, "timeout")
      BY <1>12 DEF Backoff
    <2> HIDE DEF f
    <2> QED BY <1>3, <1>4, <2>1, <2>2
  <1>13. CASE RecordTarget(r)
    <2> DEFINE f == [run[r] EXCEPT !.pc = "finish", !.status = "success", !.dirty = Fingerprint,
                                   !.reads = None]
    <2>1. f.pc = "finish"
      BY <1>2 DEF RunState
    <2>2. Step(r, f) \/ Fails(r, "other")
      BY <1>13 DEF RecordTarget
    <2> HIDE DEF f
    <2> QED BY <1>3, <1>4, <2>1, <2>2
  <1>14. CASE Crash(r)
    <2> DEFINE f == [Fresh EXCEPT !.pc = "dead"]
    <2>1. f.pc = "dead"
      BY <1>2 DEF RunState
    <2> HIDE DEF f
    <2> QED BY <1>3, <1>14, <2>1 DEF Crash, f
  <1> QED BY <1>5, <1>6, <1>7, <1>8, <1>9, <1>10, <1>11, <1>12, <1>13, <1>14

LEMMA AroundClosed ==
  ASSUME RunInv, ClosedInv,
         \/ \E r \in Runs : Interrupt(r) \/ Expire(r)
         \/ EditInput \/ DeleteOutput \/ UNCHANGED targetRunVars
  PROVE  ClosedInv'
  <1>1. UNCHANGED <<bachfile, rows>>
    BY DEF Interrupt, Expire, EditInput, DeleteOutput, targetRunVars, storeVars
  <1>2. \A q \in Runs : /\ run'[q].pc = run[q].pc
                        /\ run[q].pc = "returned" => run'[q].ctx = run[q].ctx
    BY DEF RunInv, RunTypeOK, RunState, Step, Interrupt, Expire, UnderWay, EditInput, DeleteOutput,
           targetRunVars
  <1> QED BY <1>1, <1>2 DEF ClosedInv, ClosedOK

\* Every run that returns has closed its row, unless its provider was called with a
\* context that had been cancelled.
THEOREM ReturnedIsClosed == RunSpec => []ReturnedRunsAreClosed
  <1>1. RunInit => ClosedInv
    <2>1. RunInit => \A r \in Runs : run[r].pc = "idle"
      BY RunInvStarts, FreshIsInOrder DEF RunInit, RunInv
    <2> QED BY <2>1 DEF RunInit, ClosedInv, ClosedOK
  <1>2. RunInv /\ ClosedInv /\ [RunNext]_targetRunVars => ClosedInv'
    <2> SUFFICES ASSUME RunInv, ClosedInv, [RunNext]_targetRunVars PROVE ClosedInv'
      OBVIOUS
    <2>1. ASSUME NEW r \in Runs, Proceed(r) \/ Crash(r) PROVE ClosedInv'
      BY <2>1, LoadClosed, CreateClosed, ChecksClosed, CompleteClosed, TargetClosed DEF Proceed
    <2> QED BY <2>1, AroundClosed DEF RunNext
  <1>3. ClosedInv => ReturnedRunsAreClosed
    BY DEF ClosedInv, ClosedOK, ReturnedRunsAreClosed
  <1> QED BY <1>1, <1>2, <1>3, RunInvHolds, PTL DEF RunSpec
=============================================================================
