------------------------------ MODULE PlanBatch ------------------------------
(***************************************************************************)
(* bach plan implement (internal/planbatch, planexecute, planstatus, plan):*)
(* a command is given Plans. One Plan is implemented at once; several go   *)
(* wave by wave, the Plans of a wave by so many workers. A command reads   *)
(* ledgers and files when it starts, a worker reads them again when it     *)
(* takes a Plan, and other commands write ledgers and people edit Plans in *)
(* between. Nothing keeps two commands from the same Plan.  Commands are   *)
(* modelled in full; beside them there is another invocation of which only *)
(* the records and the run are kept.                                       *)
(* The hash of a Plan is the number of its text; its dependencies do not   *)
(* change. A dependency outside Plans is one that has no file any more.    *)
(***************************************************************************)
EXTENDS Naturals, FiniteSets

CONSTANTS
  Plans,      \* the Plans of the project
  Commands,   \* invocations of bach plan implement, which may overlap
  MaxDepends, \* bound: dependencies among the Plans, in all
  MaxText,    \* bound: texts of a Plan
  Parallelism, \* --parallelism
  MaxTroubles, \* bound: edits, cancellations, other invocations, refusals, crashes, in all
  None        \* no ledger, no result

ASSUME PlanAssumption ==
  /\ IsFiniteSet(Plans)
  /\ MaxText \in Nat \ {0} /\ Parallelism \in Nat \ {0}
  /\ MaxDepends \in Nat /\ MaxTroubles \in Nat
  /\ None \notin Plans \X (1 .. MaxText)
  /\ None \notin {"implemented", "already_implemented", "failed", "blocked", "skipped"}

VARIABLES
  deps,    \* depends_on of every Plan; it does not change
  text,    \* of every Plan's file, its hash
  ledger,  \* latest Backend ledger of every Plan
  cmd,     \* by command: its options and batchState
  item,    \* by command and Plan: the locals of Implement
  other,   \* the Plan that the other invocation implements and its hash, if any
  built,   \* history: Plan and hash of every run that succeeded
  orphans, \* history: Plans whose latest writer lost its next record
  troubles \* how many of them so far

planVars == <<deps, text, ledger, cmd, item, other, built, orphans, troubles>>

Texts == 1 .. MaxText
Open == {"pending", "in_progress"}
Ledgers ==
  {None} \cup [status : Open \cup {"implemented", "failed", "invalid"}, hash : Texts]

Results == {None, "implemented", "already_implemented", "failed", "blocked", "skipped"}

CommandState ==
  [pc : {"idle", "waves", "wave", "returned", "crashed"},
   paths : SUBSET Plans,
   force : BOOLEAN, stop : BOOLEAN, dry : BOOLEAN,
   invalid : SUBSET Plans,  \* records with errors, at the start
   fresh : SUBSET Plans,    \* records whose ledger is implemented with the same hash
   external : SUBSET Plans, \* dependencies outside of paths that were implemented
   wave : 1 .. Cardinality(Plans) + 1,
   stopped : BOOLEAN, cancelled : BOOLEAN,
   failed : BOOLEAN,        \* Execute returned an error
   result : [Plans -> Results]]

ItemState ==
  [phase : {"none", "queued", "check", "pending", "in_progress", "run", "record"},
   hash : Texts, was : Ledgers, ok : BOOLEAN]

BatchTypeOK ==
  /\ deps \in [Plans -> SUBSET Plans]
  /\ text \in [Plans -> Texts]
  /\ ledger \in [Plans -> Ledgers]
  /\ cmd \in [Commands -> CommandState]
  /\ item \in [Commands -> [Plans -> ItemState]]
  /\ other \in {None} \cup Plans \X Texts
  /\ built \subseteq Plans \X Texts
  /\ orphans \subseteq Plans
  /\ troubles \in 0 .. MaxTroubles

NewCommand ==
  [pc |-> "idle", paths |-> {}, force |-> FALSE, stop |-> FALSE, dry |-> FALSE, invalid |-> {},
   fresh |-> {}, external |-> {}, wave |-> 1, stopped |-> FALSE, cancelled |-> FALSE,
   failed |-> FALSE, result |-> [p \in Plans |-> None]]

NewItem == [phase |-> "none", hash |-> 1, was |-> None, ok |-> FALSE]

\* The ledgers of earlier commands: none, or one that nobody can read.
PlanInit ==
  /\ deps \in {g \in [Plans -> SUBSET Plans] :
                Cardinality({e \in Plans \X Plans : e[2] \in g[e[1]]}) <= MaxDepends}
  /\ text = [p \in Plans |-> 1]
  /\ \E bad \in SUBSET Plans :
       /\ Cardinality(bad) <= 1
       /\ ledger = [p \in Plans |-> IF p \in bad THEN [status |-> "invalid", hash |-> 1] ELSE None]
  /\ cmd = [c \in Commands |-> NewCommand]
  /\ item = [c \in Commands |-> [p \in Plans |-> NewItem]]
  /\ other = None
  /\ built = {}
  /\ orphans = {}
  /\ troubles = 0

-----------------------------------------------------------------------------
(* The selection *)

\* Slip: a dependency that is not selected is waited for.
SlipWaves(paths) ==
  LET upTo[n \in Nat] == IF n = 0 THEN {} ELSE {p \in paths : deps[p] \subseteq upTo[n - 1]}
  IN  [n \in 1 .. Cardinality(paths) + 1 |-> upTo[n] \ upTo[n - 1]]

\* The selected Plans of the first n waves, by the dependencies that are selected too.
Waves(paths) ==
  LET upTo[n \in Nat] ==
        IF n = 0 THEN {}
        ELSE {p \in paths : deps[p] \cap paths \subseteq upTo[n - 1]}
  IN  [n \in 1 .. Cardinality(paths) + 1 |-> upTo[n] \ upTo[n - 1]]

IsImplemented(l) == l # None /\ l.status = "implemented"
IsInvalid(l) == l # None /\ l.status = "invalid"
IsFresh(l, hash) == IsImplemented(l) /\ l.hash = hash

-----------------------------------------------------------------------------
(* Execute: the waves of a batch *)

SetCmd(c, f) == cmd' = [cmd EXCEPT ![c] = f]
SetItem(c, p, f) == item' = [item EXCEPT ![c][p] = f]
KeepRest == UNCHANGED <<deps, text, ledger, other, built, orphans, troubles>>

Batch(c) == Cardinality(cmd[c].paths) > 1
Queued(c) == {p \in Plans : item[c][p].phase = "queued"}
Busy(c) == {p \in Plans : item[c][p].phase \notin {"none", "queued"}}

Start(c) ==
  /\ cmd[c].pc = "idle"
  /\ \E paths \in (SUBSET Plans) \ {{}}, force, stop \in BOOLEAN, dry \in BOOLEAN :
       LET begun == [cmd[c] EXCEPT
             !.paths = paths, !.force = force, !.stop = stop, !.dry = dry,
             !.invalid = {p \in paths : IsInvalid(ledger[p])},
             !.fresh = {p \in paths : IsFresh(ledger[p], text[p])},
             !.external = {p \in Plans \ paths : IsImplemented(ledger[p])}]
       IN  IF Cardinality(paths) = 1
           THEN /\ stop
                /\ SetCmd(c, [begun EXCEPT !.pc = "wave"])
                /\ item' = [item EXCEPT ![c] =
                              [p \in Plans |-> IF p \in paths THEN [NewItem EXCEPT !.phase = "queued"]
                                               ELSE NewItem]]
           ELSE SetCmd(c, [begun EXCEPT !.pc = "waves"]) /\ UNCHANGED item
  /\ KeepRest

DependencyImplemented(x, d) ==
  IF x.result[d] # None
  THEN x.result[d] \in {"implemented", "already_implemented"}
  ELSE d \in x.external

\* None: the Plan is ready.
Classify(x, p) ==
  CASE p \in x.invalid -> "failed"
    [] p \notin x.invalid /\ p \in x.fresh /\ ~x.force -> "already_implemented"
    [] OTHER -> IF \A d \in deps[p] : DependencyImplemented(x, d) THEN None ELSE "blocked"

\* Plans on a cycle, and above one, are in no wave.
Flush(x) ==
  LET waves == Waves(x.paths)
      selected == UNION {waves[n] : n \in DOMAIN waves}
  IN  [p \in Plans |-> IF p \in selected /\ x.result[p] = None THEN "skipped" ELSE x.result[p]]

\* The properties look at some of the locals only.
Return(c, x) ==
  SetCmd(c, [NewCommand EXCEPT !.pc = "returned", !.paths = x.paths, !.stop = x.stop, !.dry = x.dry,
               !.cancelled = x.cancelled, !.failed = x.failed, !.result = x.result])

OpenWave(c) ==
  LET x == cmd[c]
      waves == Waves(x.paths)
      wave == waves[x.wave]
      class == [p \in Plans |-> IF p \in wave THEN Classify(x, p) ELSE x.result[p]]
      ready == {p \in wave : class[p] = None}
  IN  /\ x.pc = "waves"
      /\ \/ /\ wave = {}
            /\ Return(c, x) /\ UNCHANGED item
         \/ /\ wave # {} /\ x.cancelled
            /\ Return(c, [x EXCEPT !.failed = TRUE, !.result = Flush(x)]) /\ UNCHANGED item
         \/ /\ wave # {} /\ ~x.cancelled /\ x.stopped
            /\ SetCmd(c, [x EXCEPT !.wave = @ + 1,
                            !.result = [p \in Plans |-> IF p \in ready THEN "skipped" ELSE class[p]]])
            /\ UNCHANGED item
         \/ /\ wave # {} /\ ~x.cancelled /\ ~x.stopped
            /\ SetCmd(c, [x EXCEPT !.pc = "wave", !.result = class])
            /\ item' = [item EXCEPT ![c] =
                          [p \in Plans |-> IF p \in ready THEN [NewItem EXCEPT !.phase = "queued"]
                                           ELSE NewItem]]
      /\ KeepRest

\* Slip: the wave has failed when all of it has.
SlipWaveHadFailure(x) == \A p \in Waves(x.paths)[x.wave] : x.result[p] = "failed"

WaveHadFailure(x) == \E p \in Waves(x.paths)[x.wave] : x.result[p] = "failed"

\* Every worker has ended: because nothing is left to take, or because it saw the
\* context cancelled when it took a Plan.
CloseWave(c) ==
  LET x == cmd[c] IN
  /\ x.pc = "wave" /\ Busy(c) = {}
  /\ \/ /\ Queued(c) = {}
        /\ IF ~Batch(c)
           THEN Return(c, x)
           ELSE SetCmd(c, [x EXCEPT !.pc = "waves", !.wave = @ + 1,
                             !.stopped = @ \/ (x.stop /\ WaveHadFailure(x))])
        /\ UNCHANGED item
     \/ /\ Queued(c) # {} /\ x.cancelled
        /\ Return(c, [x EXCEPT !.failed = TRUE, !.result = Flush(x)])
        /\ item' = [item EXCEPT ![c] = [p \in Plans |-> NewItem]]
  /\ KeepRest

-----------------------------------------------------------------------------
(* Implement: one Plan *)

Complete(c, p, state) ==
  /\ SetCmd(c, [cmd[c] EXCEPT !.result[p] = state])
  /\ SetItem(c, p, NewItem)

Goes(c, p, phase) == SetItem(c, p, [item[c][p] EXCEPT !.phase = phase]) /\ UNCHANGED cmd

\* A worker takes a Plan, and Implement reads its file and its ledger again.
Take(c, p) ==
  /\ item[c][p].phase = "queued" /\ ~cmd[c].cancelled
  /\ Cardinality(Busy(c)) < Parallelism
  /\ SetItem(c, p, [NewItem EXCEPT !.phase = "check", !.hash = text[p], !.was = ledger[p]])
  /\ UNCHANGED cmd /\ KeepRest

\* Slip: any ledger will do.
SlipDependenciesImplemented(p) == \A d \in deps[p] : ledger[d] # None

\* What Implement asks of a Plan's dependencies, in the ledgers as they are now.
DependenciesImplemented(p) == \A d \in deps[p] : IsImplemented(ledger[d])

\* A Plan that depends on itself is in no wave, and a Plan that is not in a wave has no
\* record to go on with.
Check(c, p) ==
  LET it == item[c][p] IN
  /\ it.phase = "check"
  /\ IF p \in deps[p] \/ IsInvalid(it.was) \/ ~DependenciesImplemented(p)
     THEN Complete(c, p, "failed")
     ELSE IF IsFresh(it.was, it.hash) /\ ~cmd[c].force
     THEN Complete(c, p, "already_implemented")
     ELSE \/ Complete(c, p, "failed") \* no usable template
          \/ cmd[c].dry /\ Complete(c, p, "implemented")
          \/ ~cmd[c].dry /\ Goes(c, p, "pending")
  /\ KeepRest

\* A ledger becomes the Plan's latest.
RecordLedger(p, status, hash) ==
  /\ ledger' = [ledger EXCEPT ![p] = [status |-> status, hash |-> hash]]
  /\ orphans' = orphans \ {p}

RecordPending(c, p) ==
  /\ item[c][p].phase = "pending"
  /\ RecordLedger(p, "pending", item[c][p].hash)
  /\ Goes(c, p, "in_progress")
  /\ UNCHANGED <<deps, text, other, built, troubles>>

RecordInProgress(c, p) ==
  /\ item[c][p].phase = "in_progress"
  /\ RecordLedger(p, "in_progress", item[c][p].hash)
  /\ Goes(c, p, "run")
  /\ UNCHANGED <<deps, text, other, built, troubles>>

\* RunTargets returns.
RunEnds(c, p) ==
  LET it == item[c][p] IN
  /\ it.phase = "run"
  /\ \E ok \in BOOLEAN :
       /\ SetItem(c, p, [it EXCEPT !.phase = "record", !.ok = ok])
       /\ built' = IF ok THEN built \cup {<<p, it.hash>>} ELSE built
  /\ UNCHANGED <<deps, text, ledger, cmd, other, orphans, troubles>>

\* Slip: a run that failed leaves the ledger as it is.
SlipTerminal(it) == IF it.ok THEN "implemented" ELSE "in_progress"

Terminal(it) == IF it.ok THEN "implemented" ELSE "failed"

RecordTerminal(c, p) ==
  LET it == item[c][p] IN
  /\ it.phase = "record"
  /\ RecordLedger(p, Terminal(it), it.hash)
  /\ Complete(c, p, Terminal(it))
  /\ UNCHANGED <<deps, text, other, built, troubles>>

-----------------------------------------------------------------------------
(* What goes wrong, and what others do *)

Trouble == troubles < MaxTroubles /\ troubles' = troubles + 1

\* The Backend refuses a request: always possible once the context is cancelled, as a
\* provider is then not asked.
BackendFails(c, p) ==
  /\ item[c][p].phase \in {"check", "pending", "in_progress", "record"}
  /\ IF cmd[c].cancelled THEN UNCHANGED troubles ELSE Trouble
  /\ Complete(c, p, "failed")
  /\ orphans' = IF item[c][p].phase \in {"in_progress", "record"} /\ ledger[p].status \in Open
                THEN orphans \cup {p} ELSE orphans
  /\ UNCHANGED <<deps, text, ledger, other, built>>

\* Ctrl-C.
Cancel(c) ==
  /\ cmd[c].pc \in {"waves", "wave"} /\ ~cmd[c].cancelled /\ Trouble
  /\ SetCmd(c, [cmd[c] EXCEPT !.cancelled = TRUE])
  /\ UNCHANGED <<deps, text, ledger, item, other, built, orphans>>

Crash(c) ==
  /\ cmd[c].pc \in {"waves", "wave"} /\ Trouble
  /\ SetCmd(c, [NewCommand EXCEPT !.pc = "crashed"])
  /\ item' = [item EXCEPT ![c] = [p \in Plans |-> NewItem]]
  /\ orphans' = orphans \cup
       {p \in Plans : item[c][p].phase \in {"in_progress", "run", "record"} /\ ledger[p].status \in Open}
  /\ UNCHANGED <<deps, text, ledger, other, built>>

Edit(p) ==
  /\ text[p] < MaxText
  /\ Trouble
  /\ text' = [text EXCEPT ![p] = @ + 1]
  /\ UNCHANGED <<deps, ledger, cmd, item, other, built, orphans>>

\* The other invocation, of which only the records and the run are kept.
OtherBegins(p) ==
  /\ other = None /\ Trouble
  /\ p \notin deps[p] /\ ~IsInvalid(ledger[p]) /\ DependenciesImplemented(p)
  /\ other' = <<p, text[p]>>
  /\ RecordLedger(p, "in_progress", text[p])
  /\ UNCHANGED <<deps, text, cmd, item, built>>

OtherEnds ==
  /\ other # None
  /\ \E ok \in BOOLEAN :
       /\ RecordLedger(other[1], IF ok THEN "implemented" ELSE "failed", other[2])
       /\ built' = IF ok THEN built \cup {other} ELSE built
  /\ other' = None
  /\ UNCHANGED <<deps, text, cmd, item, troubles>>

ItemSteps(c, p) ==
  Take(c, p) \/ Check(c, p) \/ RecordPending(c, p) \/ RecordInProgress(c, p) \/ RunEnds(c, p)
  \/ RecordTerminal(c, p)

PlanNext ==
  \/ \E c \in Commands : Start(c) \/ OpenWave(c) \/ CloseWave(c) \/ Cancel(c) \/ Crash(c)
  \/ \E c \in Commands, p \in Plans : ItemSteps(c, p) \/ BackendFails(c, p)
  \/ \E p \in Plans : Edit(p) \/ OtherBegins(p)
  \/ OtherEnds

PlanSpec == PlanInit /\ [][PlanNext]_planVars

-----------------------------------------------------------------------------
(* Properties *)

\* The selected Plans that the dependencies of p lead to: those in every set that holds the
\* selected dependencies of p and of its own members.
LeadsTo(paths, p) ==
  {q \in paths : \A Z \in SUBSET paths :
                   (\A r \in {p} \cup Z : deps[r] \cap paths \subseteq Z) => q \in Z}

\* The dependencies of p lead round in a circle.
Cyclic(paths, p) == \E q \in {p} \cup LeadsTo(paths, p) : q \in LeadsTo(paths, q)

\* A Plan's run starts only when a run of each of its dependencies has succeeded, in this
\* command or in an earlier one (planbatch.classify, externalDependencyDiagnostics).
PlansInOrder ==
  \A c \in Commands, p \in Plans :
    item[c][p].phase \in {"pending", "in_progress", "run", "record"} =>
      \A d \in deps[p] : \E h \in Texts : <<d, h>> \in built

\* A batch that returns has decided every selected Plan of which no dependency leads round in
\* a circle, and says implemented only of what a run has built, a dry run aside (sortedResults, complete).
EveryPlanDecided ==
  \A c \in Commands :
    cmd[c].pc = "returned" =>
      \A p \in cmd[c].paths :
        /\ Batch(c) => (cmd[c].result[p] = None <=> Cyclic(cmd[c].paths, p))
        /\ cmd[c].result[p] \in {"implemented", "already_implemented"} /\ ~cmd[c].dry =>
             \E h \in Texts : <<p, h>> \in built

\* A batch gives a Plan up only for a reason that can be seen in its results: blocked by a
\* dependency that was not implemented, skipped after a failure or a cancellation.
NothingGivenUp ==
  \A c \in Commands, p \in Plans :
    LET x == cmd[c] IN
    /\ x.result[p] = "blocked" =>
         \E d \in deps[p] : x.result[d] \in {"failed", "blocked", "skipped"} \/ d \notin x.paths
    /\ x.result[p] = "skipped" =>
         \/ x.cancelled
         \/ x.stop /\ \E q \in x.paths : x.result[q] = "failed"

\* With --stop-on failure nothing of a later wave runs once a Plan has failed.
StopsAfterFailure ==
  \A c \in Commands :
    LET waves == Waves(cmd[c].paths) IN
    cmd[c].stop /\ Batch(c) =>
      \A m, n \in DOMAIN waves : m < n =>
        \A p \in waves[m], q \in waves[n] :
          cmd[c].result[p] = "failed" =>
            item[c][q].phase = "none" /\ cmd[c].result[q] # "implemented"

\* A batch ends early for a failure only: what it did not do it had to leave, and with
\* --stop-on failure it did leave it (Execute, waveHadFailure, flushRemaining).
GivesUpWithReason == BatchTypeOK /\ NothingGivenUp /\ StopsAfterFailure

\* A Plan whose ledger says that it is being implemented is being implemented, unless a
\* crash or a refused request has come between (Implement's order of records).
InProgressIsActive ==
  \A p \in Plans :
    ledger[p] # None /\ ledger[p].status \in Open =>
      \/ p \in orphans
      \/ other # None /\ other[1] = p
      \/ \E c \in Commands : item[c][p].phase \in {"in_progress", "run", "record"}

\* docs/reference/37-plan-status.md: "in_progress: latest Backend ledger says execution is
\* currently active."
InProgressMeansActive ==
  \A p \in Plans :
    ledger[p] # None /\ ledger[p].status = "in_progress" =>
      \/ other # None /\ other[1] = p
      \/ \E c \in Commands : item[c][p].phase \in {"run", "record"}

\* docs/reference/37-plan-status.md: multiple Plans: "it validates the selected Plan graph".
CyclesAreReported ==
  \A c \in Commands :
    cmd[c].pc = "returned" /\ ~cmd[c].failed /\ Batch(c) =>
      \A p \in cmd[c].paths : cmd[c].result[p] # None

\* planbatch: "implementation run succeeded", the reason of an implemented result.
ImplementedRan ==
  \A c \in Commands, p \in Plans :
    cmd[c].result[p] = "implemented" => \E h \in Texts : <<p, h>> \in built
=============================================================================
