------------------------------- MODULE Backend -------------------------------
(***************************************************************************)
(* The project's backend: what `bach` asks of it (internal/backend), the   *)
(* provider process it asks (internal/backend/sqlite behind                *)
(* pkg/backendprotocol) and the database file (internal/state).            *)
(*                                                                         *)
(* Every call of a client starts a provider of its own, says               *)
(* backend.initialize, the method and backend.shutdown to it, closes its   *)
(* input and waits for it.  The 30 seconds of a call are one context that  *)
(* kills the provider; nothing else ends a wait.  A direct client (a       *)
(* project without a provider, and the runner's Load always) opens the     *)
(* database itself, without the lock the provider takes to migrate it.     *)
(*                                                                         *)
(* The rows are cut down to what the answers depend on: one work item, one *)
(* daemon lease, one run per caller, and the kinds of records that are     *)
(* only ever written over.  FactoryQueue is the queue's table in full.     *)
(***************************************************************************)
EXTENDS FiniteSets, Sequences, Naturals

CONSTANTS
    Callers,    \* processes, each making one call after the other
    Scripts,    \* what they may be about to ask: functions Callers -> Seq(Requests)
    None

VARIABLES
    db,         \* the database file
    lock,       \* who holds state.db.migrate.lock
    provider,   \* the project's backend is a provider, not the file itself
    todo,       \* the requests a caller has still to make
    call,       \* the client's side of the call: [at, request, answer]
    server,     \* the provider's side: [at, on, reply, runs, whole]
    over,       \* the call's 30 seconds are over
    ended,      \* the caller's own context has ended: a signal, the daemon's stop
    effects,    \* what the database did for the present call (history)
    disturbed   \* a migration was cut short, or made without the lock (history)

backendVars ==
    <<db, lock, provider, todo, call, server, over, ended, effects, disturbed>>

-----------------------------------------------------------------------------
(* What clients ask.  "absent" says what a not_found answer becomes: a     *)
(* plain no, or an error like any other.                                   *)

Ask(method) == [method |-> method, absent |-> "error"]
AskFor(method) == [method |-> method, absent |-> "no"]

CreateRun == Ask("runs.create")
FinishRun == Ask("runs.finish")
ListRuns == Ask("runs.list")
RecordRef == Ask("evidence.recordRef")
RecordReports == Ask("quality.recordReports")
RecordObservation == Ask("findings.recordObservation")
Enqueue == Ask("factory.enqueueWorkItem")
UpdatePending == AskFor("factory.updatePendingWorkItem")
GetItem == AskFor("factory.getWorkItem")
ListItems == Ask("factory.listWorkItems")
CancelItem == AskFor("factory.cancelWorkItem")
AcquireLease == Ask("factory.acquireDaemonLease")
RenewLease == AskFor("factory.renewDaemonLease")
ReleaseLease == AskFor("factory.releaseDaemonLease")
ClaimItem == AskFor("factory.claimWorkItem")
UpdatePhase == Ask("factory.updateWorkItemPhase")
CompleteItem == AskFor("factory.completeWorkItem")
FailItem == AskFor("factory.failWorkItem")
DaemonStatus == Ask("factory.getDaemonStatus")
RecordApproval == Ask("factory.recordApproval")
ListApprovals == Ask("factory.listApprovals")
GetCursor == Ask("factory.getTriggerCursor")
RecordCursor == Ask("factory.recordTriggerCursor")
RecordLedger == Ask("plans.recordLedger")
GetLedger == AskFor("plans.getLedger")

\* The runner reads the whole state from the file, whatever the backend is.
LoadState == Ask("load")

Requests ==
    {CreateRun, FinishRun, ListRuns, RecordRef, RecordReports, RecordObservation,
     Enqueue, UpdatePending, GetItem, ListItems, CancelItem, AcquireLease,
     RenewLease, ReleaseLease, ClaimItem, UpdatePhase, CompleteItem, FailItem,
     DaemonStatus, RecordApproval, ListApprovals, GetCursor, RecordCursor,
     RecordLedger, GetLedger, LoadState}

ASSUME BackendAssumption ==
    /\ Scripts \subseteq [Callers -> Seq(Requests)]
    /\ None \notin Callers

Reading(request) == request \in {ListRuns, LoadState}

-----------------------------------------------------------------------------
(* What the methods do to the database, for caller c.                      *)

RunStates == {"absent", "running", "finished"}
Open == {"pending", "claimed", "waiting_approval"}
ItemStates == {"absent", "cancelled", "finished"} \cup Open
Kinds == {"ref", "report", "finding", "approval", "cursor", "ledger"}
Results == {"done", "absent", "refused"}

NewDatabase ==
    [clean |-> TRUE, tables |-> FALSE,
     runs |-> [c \in Callers |-> "absent"], whole |-> {},
     item |-> "absent", lease |-> None, records |-> {}]

Did(d) == [db |-> d, result |-> "done"]
Refused(d) == [db |-> d, result |-> "refused"]
Found(d, found, new) ==
    IF found THEN Did(new) ELSE [db |-> d, result |-> "absent"]
Allowed(d, allowed, new) == IF allowed THEN Did(new) ELSE Refused(d)

createRun(d, c) == Did([d EXCEPT !.runs[c] = "running"])

\* Slip: the targets are written by a transaction of their own.
finishRunRow(d, c) == Did([d EXCEPT !.runs[c] = "finished"])

\* One transaction writes the run's row, its targets and its evidence.
finishRun(d, c) ==
    Did([d EXCEPT !.runs[c] = "finished", !.whole = @ \cup {c}])

Recorded(d, kind) == [d EXCEPT !.records = @ \cup {kind}]

\* Evidence and reports refer to a run, and foreign keys are on.
recordEvidenceRef(d, c) ==
    Allowed(d, d.runs[c] # "absent", Recorded(d, "ref"))
recordQualityReports(d, c) ==
    Allowed(d, d.runs[c] # "absent", Recorded(d, "report"))

recordFindingObservation(d, c) == Did(Recorded(d, "finding"))

\* An open item with the same key is returned instead of a new one.
enqueueFactoryWorkItem(d, c) ==
    Did(IF d.item \in Open THEN d ELSE [d EXCEPT !.item = "pending"])

\* No error for an item that is not pending: the answer says it was not updated.
updatePendingFactoryWorkItem(d, c) == Found(d, d.item = "pending", d)

getFactoryWorkItem(d, c) == Found(d, d.item # "absent", d)
listFactoryWorkItems(d, c) == Did(d)

cancelFactoryWorkItem(d, c) ==
    IF d.item \in {"claimed", "waiting_approval", "finished"}
    THEN Refused(d)
    ELSE Found(d, d.item # "absent", [d EXCEPT !.item = "cancelled"])

acquireFactoryDaemonLease(d, c) ==
    Allowed(d, d.lease \in {None, c}, [d EXCEPT !.lease = c])

renewFactoryDaemonLease(d, c) == Found(d, d.lease = c, d)

releaseFactoryDaemonLease(d, c) ==
    Found(d, d.lease = c, [d EXCEPT !.lease = None])

claimFactoryWorkItem(d, c) ==
    Found(d,
          /\ d.lease = c
          /\ \/ d.item = "pending"
             \/ d.item = "waiting_approval" /\ "approval" \in d.records,
          [d EXCEPT !.item = "claimed"])

\* The phase row of a gate; whoever asks, the item waits.
updateFactoryWorkItemPhase(d, c) ==
    Allowed(d, d.item # "absent", [d EXCEPT !.item = "waiting_approval"])

completeFactoryWorkItem(d, c) ==
    Found(d, d.item # "absent", [d EXCEPT !.item = "finished"])
failFactoryWorkItem(d, c) ==
    Found(d, d.item # "absent", [d EXCEPT !.item = "finished"])
getFactoryDaemonStatus(d, c) == Did(d)

recordFactoryApproval(d, c) ==
    Allowed(d, "approval" \in d.records \/ d.item = "waiting_approval",
            Recorded(d, "approval"))
listFactoryApprovals(d, c) == Did(d)

getFactoryTriggerCursor(d, c) == Did(d)
recordFactoryTriggerCursor(d, c) == Did(Recorded(d, "cursor"))
recordPlanLedger(d, c) == Did(Recorded(d, "ledger"))
getPlanLedger(d, c) == Found(d, "ledger" \in d.records, d)

handle(request, d, c) ==
    CASE request = CreateRun         -> createRun(d, c)
      [] request = FinishRun         -> finishRun(d, c)
      [] request = RecordRef         -> recordEvidenceRef(d, c)
      [] request = RecordReports     -> recordQualityReports(d, c)
      [] request = RecordObservation -> recordFindingObservation(d, c)
      [] request = Enqueue           -> enqueueFactoryWorkItem(d, c)
      [] request = UpdatePending     -> updatePendingFactoryWorkItem(d, c)
      [] request = GetItem           -> getFactoryWorkItem(d, c)
      [] request = ListItems         -> listFactoryWorkItems(d, c)
      [] request = CancelItem        -> cancelFactoryWorkItem(d, c)
      [] request = AcquireLease      -> acquireFactoryDaemonLease(d, c)
      [] request = RenewLease        -> renewFactoryDaemonLease(d, c)
      [] request = ReleaseLease      -> releaseFactoryDaemonLease(d, c)
      [] request = ClaimItem         -> claimFactoryWorkItem(d, c)
      [] request = UpdatePhase       -> updateFactoryWorkItemPhase(d, c)
      [] request = CompleteItem      -> completeFactoryWorkItem(d, c)
      [] request = FailItem          -> failFactoryWorkItem(d, c)
      [] request = DaemonStatus      -> getFactoryDaemonStatus(d, c)
      [] request = RecordApproval    -> recordFactoryApproval(d, c)
      [] request = ListApprovals     -> listFactoryApprovals(d, c)
      [] request = GetCursor         -> getFactoryTriggerCursor(d, c)
      [] request = RecordCursor      -> recordFactoryTriggerCursor(d, c)
      [] request = RecordLedger      -> recordPlanLedger(d, c)
      [] request = GetLedger         -> getPlanLedger(d, c)

-----------------------------------------------------------------------------
(* The client's side *)

ClientSteps == {"idle", "initialize", "method", "shutdown", "closing"}
Answers == {"none", "ok", "no", "error"}

NoCall == [at |-> "idle", request |-> None, answer |-> "none", waits |-> FALSE]
NoServer ==
    [at |-> "none", on |-> "none", reply |-> "none",
     runs |-> [c \in Callers |-> "absent"], whole |-> {}]

BackendInit ==
    /\ \/ db = NewDatabase
       \/ \E i \in {"absent", "waiting_approval"} :
            db = [NewDatabase EXCEPT !.tables = TRUE, !.item = i]
    /\ lock = None
    /\ provider \in BOOLEAN
    /\ todo \in Scripts
    /\ call = [c \in Callers |-> NoCall]
    /\ server = [c \in Callers |-> NoServer]
    /\ over = [c \in Callers |-> FALSE]
    /\ ended = [c \in Callers |-> FALSE]
    /\ effects = [c \in Callers |-> <<>>]
    /\ disturbed = FALSE

At(c, step) == call[c].at = step
Alive(c) == server[c].at \notin {"none", "gone"}
Silent(c) == server[c].reply = "none"

ClientOnly == UNCHANGED <<db, lock, provider, over, ended, effects, disturbed>>

\* exec.CommandContext does not start a command whose context has ended.
Begin(c) ==
    /\ At(c, "idle") /\ todo[c] # <<>>
    /\ todo' = [todo EXCEPT ![c] = Tail(@)]
    /\ LET request == Head(todo[c])
           opens == ~provider \/ request = LoadState
       IN \/ /\ opens
             /\ call' = [call EXCEPT ![c] =
                  [at |-> "method", request |-> request, answer |-> "none", waits |-> TRUE]]
             /\ server' = [server EXCEPT ![c] =
                  [NoServer EXCEPT !.at = "opening", !.on = "direct"]]
          \/ /\ ~opens /\ ~ended[c]
             /\ call' = [call EXCEPT ![c] =
                  [at |-> "initialize", request |-> request, answer |-> "none", waits |-> FALSE]]
             /\ server' = [server EXCEPT ![c] = [NoServer EXCEPT !.at = "listening"]]
          \/ /\ ~opens /\ ended[c]
             /\ call' = [call EXCEPT ![c] =
                  [NoCall EXCEPT !.request = request, !.answer = "error"]]
             /\ UNCHANGED server
    /\ effects' = [effects EXCEPT ![c] = <<>>]
    /\ UNCHANGED <<db, lock, provider, over, ended, disturbed>>

\* A message is written; the server reads it and sets to work.
Send(c) ==
    /\ call[c].at \in {"initialize", "method", "shutdown"}
    /\ ~call[c].waits
    /\ server[c].at = "listening"
    /\ call' = [call EXCEPT ![c].waits = TRUE]
    /\ server' = [server EXCEPT ![c] =
         [@ EXCEPT !.on = call[c].at,
                   !.at = CASE At(c, "initialize") -> "locking"
                            [] At(c, "method") -> "opening"
                            [] OTHER -> "stopping"]]
    /\ UNCHANGED todo /\ ClientOnly

Closing(c, answer) ==
    call' = [call EXCEPT ![c] = [@ EXCEPT !.at = "closing", !.answer = answer, !.waits = FALSE]]
Proceeding(c, step, answer) ==
    call' = [call EXCEPT ![c] = [@ EXCEPT !.at = step, !.answer = answer, !.waits = FALSE]]
ReplyRead(c) ==
    server' = [server EXCEPT ![c] =
        [NoServer EXCEPT !.at = server[c].at, !.on = server[c].on]]

\* Slip: every error is taken for not_found.
OutcomeOrNo(request, reply) == IF reply = "done" THEN "ok" ELSE "no"

\* What the method's reply is to the client: not_found may be a plain no.
Outcome(request, reply) ==
    CASE reply = "done" -> "ok"
      [] reply = "absent" -> request.absent
      [] OTHER -> "error"

\* The provider may lack the capability the method belongs to.
HearInitialize(c) ==
    /\ At(c, "initialize") /\ ~Silent(c)
    /\ \/ server[c].reply = "done" /\ Proceeding(c, "method", "none")
       \/ Closing(c, "error")
    /\ ReplyRead(c) /\ UNCHANGED todo /\ ClientOnly

\* An error, not_found included, ends the session without a shutdown.
HearMethod(c) ==
    /\ At(c, "method") /\ ~Silent(c)
    /\ LET answer == Outcome(call[c].request, server[c].reply)
       IN IF server[c].on # "direct" /\ server[c].reply = "done"
          THEN Proceeding(c, "shutdown", answer)
          ELSE Closing(c, answer)
    /\ ReplyRead(c) /\ UNCHANGED todo /\ ClientOnly

HearShutdown(c) ==
    /\ At(c, "shutdown") /\ ~Silent(c)
    /\ Closing(c, IF server[c].reply = "done" THEN call[c].answer ELSE "error")
    /\ ReplyRead(c) /\ UNCHANGED todo /\ ClientOnly

\* The pipe breaks under a read or a write: whatever was done, it is an error.
Broken(c) ==
    /\ call[c].at \in {"initialize", "method", "shutdown"}
    /\ server[c].at = "gone" /\ server[c].on # "direct" /\ Silent(c)
    /\ Closing(c, "error")
    /\ UNCHANGED <<todo, server>> /\ ClientOnly

\* Slip: the provider's input is closed and nobody waits for it.
ReturnWithoutWait(c) ==
    /\ At(c, "closing")
    /\ call' = [call EXCEPT ![c].at = "idle"]
    /\ UNCHANGED <<todo, server>> /\ ClientOnly

\* cleanup: Wait returns when the provider is gone.
Return(c) ==
    /\ At(c, "closing") /\ ~Alive(c)
    /\ call' = [call EXCEPT ![c].at = "idle"]
    /\ server' = [server EXCEPT ![c] = NoServer]
    /\ over' = [over EXCEPT ![c] = FALSE]
    /\ UNCHANGED <<db, lock, provider, todo, ended, effects, disturbed>>

-----------------------------------------------------------------------------
(* The provider's side; a direct client takes the same steps itself. *)

ServerSteps ==
    {"none", "listening", "locking", "opening", "dirtying", "migrating",
     "reading runs", "reading rest", "acting", "stopping", "gone"}

ServerOnly == UNCHANGED <<provider, todo, call, over, ended>>
Becomes(c, at) == server' = [server EXCEPT ![c].at = at]

\* The reply is written.  A direct call ends with it, a provider listens on.
Answered(c, reply) ==
    /\ server' = [server EXCEPT ![c] =
         [@ EXCEPT !.reply = reply,
                   !.at = IF server[c].on = "direct" THEN "gone" ELSE "listening"]]
    /\ lock' = IF lock = c THEN None ELSE lock

\* withMigrationLock
Lock(c) ==
    /\ server[c].at = "locking" /\ lock = None
    /\ lock' = c
    /\ Becomes(c, "opening")
    /\ UNCHANGED <<db, effects, disturbed>> /\ ServerOnly

\* After NewStore: initialize and a listing read the whole state.
Loads(c) == server[c].on = "initialize" \/ Reading(call[c].request)

\* NewStore: the file's version is read; a dirty one is refused.
NewStore(c) ==
    /\ server[c].at = "opening"
    /\ \/ /\ ~db.clean
          /\ Answered(c, "refused")
       \/ /\ db.clean /\ db.tables
          /\ Becomes(c, IF Loads(c) THEN "reading runs" ELSE "acting")
          /\ UNCHANGED lock
       \/ /\ db.clean /\ ~db.tables
          /\ Becomes(c, "dirtying")
          /\ UNCHANGED lock
    /\ UNCHANGED <<db, effects, disturbed>> /\ ServerOnly

\* The migrator says what it is about to do before it does it.
MarkDirty(c) ==
    /\ server[c].at = "dirtying"
    /\ db' = [db EXCEPT !.clean = FALSE]
    /\ Becomes(c, "migrating")
    /\ disturbed' = (disturbed \/ server[c].on = "direct")
    /\ UNCHANGED <<lock, effects>> /\ ServerOnly

\* Tables that are there already cannot be made: the mark stays.
Migrate(c) ==
    /\ server[c].at = "migrating"
    /\ IF db.tables
       THEN Answered(c, "refused") /\ UNCHANGED db
       ELSE /\ db' = [db EXCEPT !.clean = TRUE, !.tables = TRUE]
            /\ Becomes(c, IF Loads(c) THEN "reading runs" ELSE "acting")
            /\ UNCHANGED lock
    /\ UNCHANGED <<effects, disturbed>> /\ ServerOnly

\* Load: one query for the runs ...
ReadRuns(c) ==
    /\ server[c].at = "reading runs"
    /\ server' = [server EXCEPT ![c] =
         [@ EXCEPT !.runs = db.runs, !.at = "reading rest"]]
    /\ UNCHANGED <<db, lock, effects, disturbed>> /\ ServerOnly

\* ... and others, outside of any transaction, for their targets and evidence.
\* A row of a run the first query did not see is an error.
ReadRest(c) ==
    /\ server[c].at = "reading rest"
    /\ IF \A r \in db.whole : server[c].runs[r] # "absent"
       THEN /\ lock' = IF lock = c THEN None ELSE lock
            /\ server' = [server EXCEPT ![c] =
                 [@ EXCEPT !.whole = db.whole, !.reply = "done",
                           !.at = IF server[c].on = "direct" THEN "gone" ELSE "listening"]]
       ELSE Answered(c, "refused")
    /\ UNCHANGED <<db, effects, disturbed>> /\ ServerOnly

\* The method's transaction; SQLite may also refuse it (busy, disk).
Act(c) ==
    /\ server[c].at = "acting"
    /\ LET done == handle(call[c].request, db, c)
       IN /\ db' = done.db
          /\ effects' = [effects EXCEPT ![c] = Append(@, done.result)]
          /\ Answered(c, done.result)
    /\ UNCHANGED disturbed /\ ServerOnly

ActFails(c) ==
    /\ server[c].at = "acting"
    /\ Answered(c, "refused")
    /\ UNCHANGED <<db, effects, disturbed>> /\ ServerOnly

Shutdown(c) ==
    /\ server[c].at = "stopping"
    /\ Answered(c, "done")
    /\ UNCHANGED <<db, effects, disturbed>> /\ ServerOnly

\* Its input was closed.
Exit(c) ==
    /\ server[c].at = "listening" /\ At(c, "closing")
    /\ Becomes(c, "gone")
    /\ UNCHANGED <<db, lock, effects, disturbed>> /\ ServerOnly

-----------------------------------------------------------------------------
(* Time and signals *)

\* Slip: the 30 seconds begin when the session is open.
ExpireOnceOpen(c) ==
    /\ call[c].at \in {"method", "shutdown", "closing"}
    /\ server[c].on # "direct" /\ ~over[c] /\ ~ended[c]
    /\ over' = [over EXCEPT ![c] = TRUE]
    /\ UNCHANGED <<db, lock, provider, todo, call, server, ended, effects, disturbed>>

\* The call's 30 seconds; they are nothing to a direct call.
Expire(c) ==
    /\ ~At(c, "idle") /\ server[c].on # "direct" /\ ~over[c] /\ ~ended[c]
    /\ over' = [over EXCEPT ![c] = TRUE]
    /\ UNCHANGED <<db, lock, provider, todo, call, server, ended, effects, disturbed>>

Interrupt(c) ==
    /\ ~ended[c]
    /\ ended' = [ended EXCEPT ![c] = TRUE]
    /\ UNCHANGED <<db, lock, provider, todo, call, server, over, effects, disturbed>>

\* The context kills the provider: its file lock goes, what it wrote stays.
Kill(c) ==
    /\ server[c].on # "direct" /\ Alive(c)
    /\ over[c] \/ ended[c]
    /\ Becomes(c, "gone")
    /\ lock' = IF lock = c THEN None ELSE lock
    /\ disturbed' = (disturbed \/ server[c].at = "migrating")
    /\ UNCHANGED <<db, effects>> /\ ServerOnly

ClientNext(c) ==
    \/ Begin(c) \/ Send(c) \/ HearInitialize(c) \/ HearMethod(c)
    \/ HearShutdown(c) \/ Broken(c) \/ Return(c)

ServerNext(c) ==
    \/ Lock(c) \/ NewStore(c) \/ MarkDirty(c) \/ Migrate(c) \/ ReadRuns(c)
    \/ ReadRest(c) \/ Act(c) \/ ActFails(c) \/ Shutdown(c) \/ Exit(c)

-----------------------------------------------------------------------------
(* Properties *)

BackendTypeOK ==
    /\ db \in [clean : BOOLEAN, tables : BOOLEAN, runs : [Callers -> RunStates],
               whole : SUBSET Callers, item : ItemStates,
               lease : {None} \cup Callers, records : SUBSET Kinds]
    /\ lock \in {None} \cup Callers
    /\ provider \in BOOLEAN
    /\ \A c \in Callers : \A i \in DOMAIN todo[c] : todo[c][i] \in Requests
    /\ call \in [Callers -> [at : ClientSteps, request : {None} \cup Requests,
                             answer : Answers, waits : BOOLEAN]]
    /\ server \in [Callers -> [at : ServerSteps,
                               on : {"none", "direct", "initialize", "method", "shutdown"},
                               reply : {"none"} \cup Results,
                               runs : [Callers -> RunStates], whole : SUBSET Callers]]
    /\ over \in [Callers -> BOOLEAN]
    /\ ended \in [Callers -> BOOLEAN]
    /\ disturbed \in BOOLEAN

\* Whatever became of its provider, a call that returned touched the database
\* at most once; it says ok only of a method that was carried out, and no only
\* of one that found nothing.  (withProviderSession, client.go:166-202: the
\* error of the method comes before the shutdown, and that of the shutdown
\* is returned too.)
AnswersAreEffects ==
    \A c \in Callers :
        /\ Len(effects[c]) <= 1
        /\ At(c, "idle") =>
             CASE call[c].answer = "ok" ->
                      Reading(call[c].request) \/ effects[c] = <<"done">>
               [] call[c].answer = "no" -> effects[c] = <<"absent">>
               [] OTHER -> TRUE

\* A call that returned left nothing behind: no provider that may still write,
\* nobody holding the migration lock.  (cleanup, client.go:352-356)
NothingOutlivesCall ==
    \A c \in Callers : At(c, "idle") => server[c].at = "none" /\ lock # c

\* A listing that calls a run finished has its targets and its evidence,
\* though the tables are read one after the other: the run's last record is
\* one transaction, and the runs are read first.  (load.go:9-93, save.go)
ListedRunsAreWhole ==
    \A c \in Callers :
        server[c].reply = "done" /\ server[c].on # "initialize" /\ Reading(call[c].request) =>
            \A r \in Callers : server[c].runs[r] = "finished" => r \in server[c].whole

\* As long as no migration is cut short by a kill or made by a direct client,
\* a provider never meets a half-migrated file, however many start at once on a
\* new project.  (provider.go:146-159, migrate_lock.go)
MigratedOnce ==
    ~disturbed =>
        \A c \in Callers :
            server[c].at = "opening" /\ server[c].on # "direct" => db.clean

\* An error means that nothing was done: refuted by a lost reply.
ErrorMeansNotDone ==
    \A c \in Callers :
        At(c, "idle") /\ call[c].answer = "error" => "done" \notin {effects[c][i] : i \in DOMAIN effects[c]}

\* Reading the records of other runs' never fails: refuted by a run that is
\* made and finished between two queries.
LoadsSucceed ==
    \A c \in Callers :
        server[c].at = "reading rest" => \A r \in db.whole : server[c].runs[r] # "absent"
=============================================================================
