------------------------------ MODULE TargetRun ------------------------------
(***************************************************************************)
(* `bach run` of one cacheable target (internal/runner): loading the cache *)
(* records, the fingerprint, the attempts with their completion contract,  *)
(* timeout and quality reports (internal/quality/ingest.go), and the one   *)
(* transaction at the end that stores the run and its cache record.        *)
(* Invocations are processes: they overlap, are interrupted and crash,     *)
(* while people edit inputs and delete outputs.  The target declares a     *)
(* report and a gate.                                                      *)
(***************************************************************************)
EXTENDS Naturals

CONSTANTS
  Runs,         \* invocations
  Versions,     \* contents of the target's input files
  Bachfiles,    \* the target's retry block and the kind of backend, as they may be
  Contract,     \* success_when: "exit" (none), "command", or "output_contains"
  None,         \* no version, no output, no record
  EditsMidRun   \* TRUE when inputs are edited while a command runs

ASSUME TargetRunAssumption ==
  /\ None \notin Versions \cup [input : Versions, present : BOOLEAN]
  /\ Bachfiles \subseteq [attempts : Nat \ {0}, on_gate : BOOLEAN, provider : BOOLEAN]
  /\ Contract \in {"exit", "command", "output_contains"}
  /\ EditsMidRun \in BOOLEAN

VARIABLES
  bachfile,\* what the Bachfile says; it does not change
  input,   \* what the input files hold
  output,  \* whether the output files are there
  record,  \* the row of target_state, None before the first
  rows,    \* status in table runs, by invocation
  saved,   \* rows of the quality tables
  run,     \* by invocation: Session and the locals of runOne and its attempts
  built    \* history: the inputs from which a command, its contract and its
           \* quality gates have succeeded

worldVars == <<input, output>>
storeVars == <<record, rows, saved>>
targetRunVars == <<bachfile, worldVars, storeVars, run, built>>

Fingerprints == [input : Versions, present : BOOLEAN]

Attempts == 1 .. bachfile.attempts

Errors == {"none", "command", "contract", "timeout", "gate", "parse", "other"}
Verdicts == {"pass", "gate", "parse"}
Statuses == {"none", "running", "success", "failed", "quality-failed", "preflight-failed", "cached"}

RunState ==
  [pc : {"idle", "create", "checks", "target", "start", "command", "contract", "ingest",
         "decide", "backoff", "record", "finish", "returned", "dead"},
   loaded : Fingerprints \cup {None},  \* state.Targets as loaded
   force : BOOLEAN,
   ctx : {"live", "expired", "cancelled"},
   attempt : Attempts,
   reads : Versions \cup {None},       \* what the command read
   exited : BOOLEAN,                   \* the command exited with success
   answer : BOOLEAN,                   \* the contract's command said yes
   log : SUBSET {"text", "banner"},    \* what of the looked-for text the log holds
   err : Errors,
   command_err : BOOLEAN,              \* commandErr # nil
   status : Statuses,                  \* the target's record in run.Targets
   dirty : Fingerprints \cup {None}]   \* dirtyTargets

\* A batch of reports and gate results; those of a failed command are notes.
SavedReports == [run : Runs, attempt : Attempts, verdict : Verdicts \cup {"note"}]

RunTypeOK ==
  /\ bachfile \in Bachfiles
  /\ input \in Versions /\ output \in BOOLEAN
  /\ record \in Fingerprints \cup {None}
  /\ rows \in [Runs -> Statuses \ {"cached"}]
  /\ saved \subseteq SavedReports
  /\ run \in [Runs -> RunState]
  /\ built \subseteq Versions

Fresh ==
  [pc |-> "idle", loaded |-> None, force |-> FALSE, ctx |-> "live", attempt |-> 1,
   reads |-> None, exited |-> FALSE, answer |-> FALSE, log |-> {}, err |-> "none", command_err |-> FALSE,
   status |-> "none", dirty |-> None]

RunInit ==
  /\ bachfile \in Bachfiles
  /\ input \in Versions /\ output = FALSE
  /\ record = None /\ rows = [r \in Runs |-> "none"] /\ saved = {}
  /\ run = [r \in Runs |-> Fresh]
  /\ built = {}

\* Run r's locals change as given; f is applied to them.
Step(r, f) == run' = [run EXCEPT ![r] = f]

\* The invocation is over.
Return(r) == Step(r, [Fresh EXCEPT !.pc = "returned", !.ctx = run[r].ctx])

Ended(r) == run[r].ctx # "live"

\* targetFingerprintParts: the contents of the inputs and whether outputs exist.
\* Operation, environment and dependencies stay the same here.
Fingerprint == [input |-> input, present |-> output]

-----------------------------------------------------------------------------
(* RunTargets *)

\* Store.Load, the plan, and what may be refused before a run is recorded.
Load(r) ==
  /\ run[r].pc = "idle"
  /\ \E force \in BOOLEAN, pc \in {"create", "returned"} :
       IF pc = "returned" THEN Return(r)
       ELSE Step(r, [run[r] EXCEPT !.pc = pc, !.loaded = record, !.force = force])
  /\ UNCHANGED <<bachfile, worldVars, storeVars, built>>

\* A provider is called under the run's context; the local store looks at none.
StoreAnswers(r) == ~ (bachfile.provider /\ run[r].ctx = "cancelled")

\* Runs.Create
Create(r) ==
  /\ run[r].pc = "create"
  /\ IF StoreAnswers(r)
     THEN rows' = [rows EXCEPT ![r] = "running"] /\ Step(r, [run[r] EXCEPT !.pc = "checks"])
     ELSE UNCHANGED rows /\ Return(r)
  /\ UNCHANGED <<bachfile, worldVars, record, saved, built>>

\* Runs.Finish with its status and the dirty targets: SaveSnapshot, one
\* transaction.  If it fails the run stays as it was.
Finish(r, status, dirty) ==
  /\ IF StoreAnswers(r)
     THEN /\ rows' = [rows EXCEPT ![r] = status]
          /\ record' = IF dirty = None THEN record ELSE dirty
     ELSE UNCHANGED <<rows, record>>
  /\ UNCHANGED saved

\* Required tools and preflights; a failure completes the run at once.
Checks(r) ==
  /\ run[r].pc = "checks"
  /\ \/ Step(r, [run[r] EXCEPT !.pc = "target"]) /\ UNCHANGED storeVars
     \/ \E status \in {"failed", "preflight-failed"} :
          /\ Finish(r, status, None)
          /\ Return(r)
  /\ UNCHANGED <<bachfile, worldVars, built>>

Outcome(r) ==
  CASE run[r].status = "cached" -> "success"
    [] run[r].status \in {"none", "running"} -> "failed"
    [] OTHER -> run[r].status

\* Slip: nothing is recorded when the walk was interrupted.
CompleteUnlessInterrupted(r) ==
  /\ run[r].pc = "finish"
  /\ IF run[r].ctx = "cancelled" THEN UNCHANGED storeVars
     ELSE Finish(r, Outcome(r), run[r].dirty)
  /\ Return(r)
  /\ UNCHANGED <<bachfile, worldVars, built>>

\* completeRun, completeFailedRun.  A walk may notice an interrupt before it
\* notices that its last target has succeeded.
CompleteRun(r) ==
  /\ run[r].pc = "finish"
  /\ \/ Finish(r, Outcome(r), run[r].dirty)
     \/ run[r].ctx = "cancelled" /\ Outcome(r) = "success" /\ Finish(r, "failed", run[r].dirty)
  /\ Return(r)
  /\ UNCHANGED <<bachfile, worldVars, built>>

-----------------------------------------------------------------------------
(* runOne *)

\* targetFresh: the stored fingerprint is that of now, and the outputs are there.
TargetFresh(r) ==
  ~run[r].force /\ run[r].loaded = Fingerprint /\ output

\* What precedes the attempts.  A walk whose caller cancelled starts nothing, and
\* describing the target (which leaves no record of it), opening its log (which
\* leaves it running) or taking the fingerprint may fail.
BeginTarget(r) ==
  /\ run[r].pc = "target"
  /\ \/ \E status \in {"none", "running", "failed"} :
          Step(r, [run[r] EXCEPT !.pc = "finish", !.status = status])
     \/ ~Ended(r) /\ TargetFresh(r) /\ Step(r, [run[r] EXCEPT !.pc = "finish", !.status = "cached"])
     \/ ~Ended(r) /\ ~TargetFresh(r)
        /\ Step(r, [run[r] EXCEPT !.pc = "start", !.status = "running",
                                  !.loaded = None, !.force = FALSE])
  /\ UNCHANGED <<bachfile, worldVars, storeVars, built>>

\* The target is recorded as failed or, for quality errors, as quality-failed.
FailedStatus(err) == IF err \in {"gate", "parse"} THEN "quality-failed" ELSE "failed"

\* Slip: the cache record is kept as after success.
FailsAndRecords(r, err) ==
  Step(r, [Fresh EXCEPT !.pc = "finish", !.ctx = run[r].ctx, !.status = FailedStatus(err),
                        !.dirty = Fingerprint])

\* The locals of its attempts are out of scope then.
Fails(r, err) ==
  Step(r, [Fresh EXCEPT !.pc = "finish", !.ctx = run[r].ctx, !.status = FailedStatus(err)])

\* Success: the fingerprint is taken once more, of what is there now, and kept
\* for the end of the run.  If it cannot be taken, the target has failed.
RecordTarget(r) ==
  /\ run[r].pc = "record"
  /\ \/ Step(r, [run[r] EXCEPT !.pc = "finish", !.status = "success", !.dirty = Fingerprint,
                               !.reads = None])
     \/ Fails(r, "other")
  /\ built' = built \cup {run[r].reads}
  /\ UNCHANGED <<bachfile, worldVars, storeVars>>

-----------------------------------------------------------------------------
(* runCommandContractAndQuality *)

\* The handler starts the command, which reads its inputs; under a context that
\* has ended it does not start.
StartCommand(r) ==
  /\ run[r].pc = "start"
  /\ IF Ended(r)
     THEN Step(r, [run[r] EXCEPT !.pc = "contract", !.exited = FALSE])
     ELSE Step(r, [run[r] EXCEPT !.pc = "command", !.reads = input])
  /\ UNCHANGED <<bachfile, worldVars, storeVars, built>>

\* What of the log matters: the text looked for.
Printable == IF Contract = "output_contains" THEN {"text"} ELSE {}

\* The command exits, having printed the text looked for or not.  One that fails or
\* is killed may leave an output, or none.
EndCommand(r) ==
  /\ run[r].pc = "command"
  /\ \E text \in SUBSET Printable, exited \in BOOLEAN :
       /\ output' \in IF exited THEN {TRUE} ELSE BOOLEAN
       /\ Step(r, [run[r] EXCEPT !.pc = "contract", !.exited = exited, !.log = @ \cup text])
  /\ UNCHANGED <<bachfile, input, storeVars, built>>

\* What the contract's command may say.
Answers == IF Contract = "command" THEN BOOLEAN ELSE {FALSE}

\* evaluateCompletionContract: output_contains looks at the whole log of the target.
Satisfied(r, answer) ==
  CASE Contract = "exit" -> TRUE
    [] Contract = "command" -> answer
    [] OTHER -> run[r].log # {}

\* The contract after a command that succeeded; then an ended context overrides
\* whatever came of it (targetRuntimeError).
EvaluateContract(r) ==
  /\ run[r].pc = "contract"
  /\ \E answer \in Answers :
       LET err == CASE ~run[r].exited -> "command"
                    [] ~Satisfied(r, answer) -> "contract"
                    [] OTHER -> "none"
       IN Step(r, [run[r] EXCEPT !.pc = "ingest",
                     !.answer = answer, !.err = IF Ended(r) THEN "timeout" ELSE err,
                     !.command_err = Ended(r) \/ ~run[r].exited])
  /\ UNCHANGED <<bachfile, worldVars, storeVars, built>>

\* Reports are saved under the target's context.
ReportsReach(r) == ~ (bachfile.provider /\ Ended(r))

\* Quality.RecordReports: rows are added, none is replaced.
Save(r, verdict) ==
  saved' = saved \cup {[run |-> r, attempt |-> run[r].attempt, verdict |-> verdict]}

QualityError(verdict) == IF verdict = "pass" THEN "none" ELSE verdict

LastAttempt(r) == run[r].attempt >= bachfile.attempts

\* Slip: the gates of an attempt that will be repeated are stored too.
SavedAnyway(r, verdict) == TRUE

\* SkipSave
ToBeSaved(r, verdict) ==
  ~ (bachfile.on_gate /\ ~LastAttempt(r)) \/ verdict # "gate"

\* IngestReports after a command that succeeded: parse, evaluate, save, write the
\* policies' artifact, judge.  An ended context stops the parsing; saving or writing
\* may fail.
IngestReports(r) ==
  /\ run[r].pc = "ingest" /\ run[r].err = "none"
  /\ \/ /\ Ended(r)
        /\ Step(r, [run[r] EXCEPT !.pc = "decide", !.err = "timeout"])
        /\ UNCHANGED saved
     \/ \E verdict \in Verdicts :
          /\ ToBeSaved(r, verdict) /\ ReportsReach(r)
          /\ Save(r, verdict)
          /\ \E err \in {QualityError(verdict), "other"} :
               Step(r, [run[r] EXCEPT !.pc = "decide", !.err = err])
     \/ /\ Step(r, [run[r] EXCEPT !.pc = "decide", !.err = "other"])
        /\ UNCHANGED saved
     \/ /\ ~ToBeSaved(r, "gate")
        /\ Step(r, [run[r] EXCEPT !.pc = "decide", !.err = "gate"])
        /\ UNCHANGED saved
  /\ UNCHANGED <<bachfile, worldVars, record, rows, built>>

\* IngestReports after a command that failed: what reports there are are stored as
\* notes, for an attempt that is repeated as well.
IngestNotes(r) ==
  /\ run[r].pc = "ingest" /\ run[r].err # "none"
  /\ Step(r, [run[r] EXCEPT !.pc = "decide", !.command_err = FALSE])
  /\ \/ UNCHANGED saved
     \/ /\ run[r].command_err /\ ~Ended(r) /\ ReportsReach(r)
        /\ Save(r, "note")
  /\ UNCHANGED <<bachfile, worldVars, record, rows, built>>

\* shouldRetryAttempt
ShouldRetry(err) == err # "parse" /\ (err = "gate" => bachfile.on_gate)

\* Success, another attempt, or the end.  The message that announces the next one
\* goes to the target's log and quotes the text that was missed.
Decide(r) ==
  /\ run[r].pc = "decide"
  /\ LET err == run[r].err IN
       \/ err = "none" /\ Step(r, [run[r] EXCEPT !.pc = "record"])
       \/ /\ err # "none"
          /\ LastAttempt(r) \/ Ended(r) \/ ~ShouldRetry(err)
          /\ Fails(r, err)
       \/ /\ err # "none"
          /\ ~LastAttempt(r) /\ ~Ended(r) /\ ShouldRetry(err)
          /\ Step(r, [run[r] EXCEPT !.pc = "backoff",
                        !.log = IF err = "contract" THEN @ \cup {"banner"} ELSE @])
  /\ UNCHANGED <<bachfile, worldVars, storeVars, built>>

\* The backoff elapses or the context ends; if both, either is selected.
Backoff(r) ==
  /\ run[r].pc = "backoff"
  /\ \/ Step(r, [run[r] EXCEPT !.pc = "start", !.attempt = @ + 1, !.err = "none",
                        !.reads = None, !.exited = FALSE, !.answer = FALSE])
     \/ Ended(r) /\ Fails(r, "timeout")
  /\ UNCHANGED <<bachfile, worldVars, storeVars, built>>

-----------------------------------------------------------------------------
(* What happens around the runs *)

UnderWay(r) == run[r].pc \notin {"idle", "returned", "dead"}
Working(r) == run[r].pc \in {"command", "contract", "ingest", "decide", "record"}

\* The user interrupts (signal.NotifyContext in cmd/bach/main.go).
Interrupt(r) ==
  /\ UnderWay(r) /\ run[r].ctx # "cancelled"
  /\ Step(r, [run[r] EXCEPT !.ctx = "cancelled"])
  /\ UNCHANGED <<bachfile, worldVars, storeVars, built>>

\* The timeout of targetRuntimeContext spans all attempts.
Expire(r) ==
  /\ run[r].pc \in {"start", "command", "contract", "ingest", "decide", "backoff", "record"}
  /\ run[r].ctx = "live"
  /\ Step(r, [run[r] EXCEPT !.ctx = "expired"])
  /\ UNCHANGED <<bachfile, worldVars, storeVars, built>>

\* The process dies, and its command with it.
Crash(r) ==
  /\ UnderWay(r)
  /\ Step(r, [Fresh EXCEPT !.pc = "dead"])
  /\ IF run[r].pc = "command" THEN output' \in BOOLEAN ELSE UNCHANGED output
  /\ UNCHANGED <<bachfile, input, storeVars, built>>

EditInput ==
  /\ \A r \in Runs : Working(r) => EditsMidRun
  /\ input' \in Versions \ {input}
  /\ UNCHANGED <<bachfile, output, storeVars, run, built>>

DeleteOutput ==
  /\ output /\ output' = FALSE
  /\ UNCHANGED <<bachfile, input, storeVars, run, built>>

Proceed(r) ==
  \/ Load(r) \/ Create(r) \/ Checks(r) \/ BeginTarget(r) \/ StartCommand(r) \/ EndCommand(r)
  \/ EvaluateContract(r) \/ IngestReports(r) \/ IngestNotes(r) \/ Decide(r) \/ Backoff(r)
  \/ RecordTarget(r) \/ CompleteRun(r)

RunNext ==
  \/ \E r \in Runs : Proceed(r) \/ Interrupt(r) \/ Expire(r) \/ Crash(r)
  \/ EditInput \/ DeleteOutput

RunSpec == RunInit /\ [][RunNext]_targetRunVars

-----------------------------------------------------------------------------
\* A target is reported as cached only if a command that read these very inputs
\* has succeeded, with its contract and its gates, in some run: whatever runs
\* failed, were interrupted or crashed in between, and whatever they overwrote in
\* target_state (runOne, markTargetDirty, SaveSnapshot).
CachedMeansBuilt ==
  \A r \in Runs : run[r].status = "cached" => run[r].loaded.input \in built

\* A run reports success only if its last command exited with success and met the
\* completion contract (docs: the contract is evaluated after the operation exits
\* successfully), whatever earlier attempts did.
SuccessMeansContract ==
  \A r \in Runs : run[r].status = "success" =>
    /\ run[r].exited
    /\ Contract = "command" => run[r].answer
    /\ Contract = "output_contains" => "text" \in run[r].log

\* The quality tables agree with a success: the last attempt's reports passed and
\* are stored, and where failed gates are retried none of an earlier attempt is
\* (SkipSave and its exceptions in saveIngestedReports), also when a context ends, a
\* report cannot be saved or a command fails in between.
SuccessIsWitnessed ==
  \A r \in Runs : run[r].status = "success" =>
    /\ [run |-> r, attempt |-> run[r].attempt, verdict |-> "pass"] \in saved
    /\ bachfile.on_gate => \A s \in saved : s.run = r => s.verdict # "gate"

\* Success is earned by the last attempt alone: its command, its contract, its reports
\* (runTargetAttempt, evaluateCompletion, saveIngestedReports).
SuccessIsEarned == RunTypeOK /\ SuccessMeansContract /\ SuccessIsWitnessed

\* A run that has returned does not stay listed as running, also when it was
\* interrupted or failed its checks (completeRun, completeCheckFailedRun).  Only an
\* interrupted run of a provider does, which is called under the cancelled context.
ReturnedRunsAreClosed ==
  \A r \in Runs : run[r].pc = "returned" /\ rows[r] = "running" =>
    bachfile.provider /\ run[r].ctx = "cancelled"
=============================================================================
