--------------------------- MODULE PlanBatch_proofs ---------------------------
(***************************************************************************)
(* What holds of the Plans of every project, however many commands and     *)
(* other invocations implement them at once, with edits, cancellations,    *)
(* refused requests and crashes between any two steps.                     *)
(***************************************************************************)
EXTENDS PlanBatch, FiniteSetTheorems, WellFoundedInduction, TLAPS

\* BatchTypeOK, for every number of waves.
CommandRows ==
  [pc : {"idle", "waves", "wave", "returned", "crashed"},
   paths : SUBSET Plans,
   force : BOOLEAN, stop : BOOLEAN, dry : BOOLEAN,
   invalid : SUBSET Plans, fresh : SUBSET Plans, external : SUBSET Plans,
   wave : Nat, stopped : BOOLEAN, cancelled : BOOLEAN, failed : BOOLEAN,
   result : [Plans -> Results]]

RowsOK ==
  /\ deps \in [Plans -> SUBSET Plans]
  /\ text \in [Plans -> Texts]
  /\ ledger \in [Plans -> Ledgers]
  /\ cmd \in [Commands -> CommandRows]
  /\ item \in [Commands -> [Plans -> ItemState]]
  /\ other \in {None} \cup Plans \X Texts
  /\ built \subseteq Plans \X Texts
  /\ orphans \subseteq Plans
  /\ troubles \in 0 .. MaxTroubles

-----------------------------------------------------------------------------
(* The helpers of a step keep the type *)

\* Texts are numbered from one.
LEMMA FirstText == 1 \in Texts
  BY PlanAssumption DEF PlanAssumption, Texts

\* The locals of a worker that is not at work have their type.
LEMMA NewItemType == NewItem \in ItemState
  BY FirstText DEF NewItem, ItemState, Ledgers

\* A command that has not begun has its type.
LEMMA NewCommandType == NewCommand \in CommandRows
  BY DEF NewCommand, CommandRows, Results

\* Recording a ledger keeps the type of all of them.
LEMMA RecordType ==
  ASSUME RowsOK, NEW p \in Plans, NEW h \in Texts,
         NEW status \in Open \cup {"implemented", "failed", "invalid"},
         RecordLedger(p, status, h)
  PROVE  ledger' \in [Plans -> Ledgers] /\ orphans' \subseteq Plans
  <1>1. [status |-> status, hash |-> h] \in Ledgers
    BY DEF Ledgers
  <1> QED BY <1>1 DEF RecordLedger, RowsOK

\* A worker that has decided about its Plan leaves its command and its locals in type.
LEMMA CompleteType ==
  ASSUME RowsOK, NEW c \in Commands, NEW p \in Plans, NEW state \in Results,
         Complete(c, p, state)
  PROVE  cmd' \in [Commands -> CommandRows] /\ item' \in [Commands -> [Plans -> ItemState]]
  <1>1. cmd[c] \in CommandRows /\ item[c] \in [Plans -> ItemState]
    BY DEF RowsOK
  <1>2. [cmd[c] EXCEPT !.result[p] = state] \in CommandRows
    BY <1>1 DEF CommandRows
  <1>3. [item[c] EXCEPT ![p] = NewItem] \in [Plans -> ItemState]
    BY <1>1, NewItemType
  <1>4. cmd' \in [Commands -> CommandRows]
    BY <1>2 DEF Complete, SetCmd, RowsOK
  <1>5. item' = [item EXCEPT ![c] = [item[c] EXCEPT ![p] = NewItem]]
    BY DEF Complete, SetItem, RowsOK
  <1> QED BY <1>3, <1>4, <1>5 DEF RowsOK

\* So does one that goes on to its next phase.
LEMMA GoesType ==
  ASSUME RowsOK, NEW c \in Commands, NEW p \in Plans,
         NEW phase \in {"none", "queued", "check", "pending", "in_progress", "run", "record"},
         Goes(c, p, phase)
  PROVE  cmd' \in [Commands -> CommandRows] /\ item' \in [Commands -> [Plans -> ItemState]]
  <1>1. item[c] \in [Plans -> ItemState]
    BY DEF RowsOK
  <1>2. [item[c][p] EXCEPT !.phase = phase] \in ItemState
    BY <1>1 DEF ItemState
  <1>3. item' = [item EXCEPT ![c] = [item[c] EXCEPT ![p] = [item[c][p] EXCEPT !.phase = phase]]]
    BY DEF Goes, SetItem, RowsOK
  <1> QED BY <1>1, <1>2, <1>3 DEF Goes, RowsOK

\* What Start, OpenWave and CloseWave do: one command's options and batch are set, and its
\* workers' locals.
LEMMA BatchStepType ==
  ASSUME RowsOK, NEW c \in Commands, NEW x \in CommandRows, SetCmd(c, x), KeepRest,
         \/ UNCHANGED item
         \/ \E S \in SUBSET Plans :
              item' = [item EXCEPT ![c] =
                         [p \in Plans |-> IF p \in S THEN [NewItem EXCEPT !.phase = "queued"] ELSE NewItem]]
  PROVE  RowsOK'
  <1>1. cmd' \in [Commands -> CommandRows]
    BY DEF SetCmd, RowsOK
  <1>2. item' \in [Commands -> [Plans -> ItemState]]
    <2>1. [NewItem EXCEPT !.phase = "queued"] \in ItemState
      BY NewItemType DEF ItemState
    <2>2. ASSUME NEW S \in SUBSET Plans
          PROVE [p \in Plans |-> IF p \in S THEN [NewItem EXCEPT !.phase = "queued"] ELSE NewItem]
                  \in [Plans -> ItemState]
      BY <2>1, NewItemType
    <2>3. item \in [Commands -> [Plans -> ItemState]]
      BY DEF RowsOK
    <2>4. ASSUME NEW S \in SUBSET Plans,
                 item' = [item EXCEPT ![c] =
                            [p \in Plans |-> IF p \in S THEN [NewItem EXCEPT !.phase = "queued"] ELSE NewItem]]
          PROVE item' \in [Commands -> [Plans -> ItemState]]
      <3> DEFINE locals == [p \in Plans |-> IF p \in S THEN [NewItem EXCEPT !.phase = "queued"] ELSE NewItem]
      <3>1. locals \in [Plans -> ItemState] /\ item' = [item EXCEPT ![c] = locals]
        BY <2>2, <2>4
      <3> HIDE DEF locals
      <3> QED BY <2>3, <3>1
    <2> QED BY <2>3, <2>4
  <1> QED BY <1>1, <1>2 DEF RowsOK, KeepRest

\* Everything that a batch returns with has its type.
LEMMA ReturnType ==
  ASSUME NEW c \in Commands, NEW x \in CommandRows
  PROVE  [NewCommand EXCEPT !.pc = "returned", !.paths = x.paths, !.stop = x.stop, !.dry = x.dry,
            !.cancelled = x.cancelled, !.failed = x.failed, !.result = x.result] \in CommandRows
  BY NewCommandType DEF CommandRows

\* What is flushed is a result of every Plan.
LEMMA FlushType ==
  ASSUME NEW x \in CommandRows
  PROVE  [x EXCEPT !.failed = TRUE, !.result = Flush(x)] \in CommandRows
  <1>1. x.result \in [Plans -> Results]
    BY DEF CommandRows
  <1>2. Flush(x) \in [Plans -> Results]
    BY <1>1 DEF Flush, Results
  <1> QED BY <1>2 DEF CommandRows

\* A Plan is classified by a result, or by none.
LEMMA ClassType ==
  ASSUME NEW x \in CommandRows, NEW p \in Plans
  PROVE  Classify(x, p) \in Results
  <1>1. Classify(x, p) \in {"failed", "already_implemented", "blocked", None}
    BY DEF Classify
  <1> QED BY <1>1 DEF Results

\* A command x with what it is told and finds when it begins.
Begun(x, paths, force, stop, dry, invalid, fresh, external) ==
  [x EXCEPT !.paths = paths, !.force = force, !.stop = stop, !.dry = dry,
            !.invalid = invalid, !.fresh = fresh, !.external = external]

\* A command that begins has its type.
LEMMA BegunType ==
  ASSUME NEW x \in CommandRows, NEW paths \in SUBSET Plans,
         NEW force \in BOOLEAN, NEW stop \in BOOLEAN, NEW dry \in BOOLEAN,
         NEW invalid \in SUBSET Plans, NEW fresh \in SUBSET Plans, NEW external \in SUBSET Plans
  PROVE  Begun(x, paths, force, stop, dry, invalid, fresh, external) \in CommandRows
  BY DEF Begun, CommandRows

\* Going on to another wave keeps a command in type.
LEMMA NextWaveType ==
  ASSUME NEW x \in CommandRows, NEW wave \in Nat
  PROVE  /\ \A result \in [Plans -> Results] : [x EXCEPT !.wave = wave, !.result = result] \in CommandRows
         /\ \A stopped \in BOOLEAN :
              [x EXCEPT !.pc = "waves", !.wave = wave, !.stopped = stopped] \in CommandRows
  BY DEF CommandRows

-----------------------------------------------------------------------------
\* Every row and every local keeps its type.
LEMMA RowsHold == PlanSpec => []RowsOK
  <1>1. PlanInit => RowsOK
    <2> SUFFICES ASSUME PlanInit PROVE RowsOK
      OBVIOUS
    <2>1. ledger \in [Plans -> Ledgers]
      BY FirstText DEF PlanInit, Ledgers
    <2>2. 0 \in 0 .. MaxTroubles
      BY PlanAssumption DEF PlanAssumption
    <2> QED BY <2>1, <2>2, FirstText, NewItemType, NewCommandType DEF PlanInit, RowsOK
  <1>2. RowsOK /\ [PlanNext]_planVars => RowsOK'
    <2> SUFFICES ASSUME RowsOK, [PlanNext]_planVars PROVE RowsOK'
      OBVIOUS
    <2>0. ASSUME NEW c \in Commands PROVE cmd[c] \in CommandRows
      BY DEF RowsOK
    <2>1. ASSUME NEW c \in Commands, Start(c) PROVE RowsOK'
      <3>1. PICK paths \in (SUBSET Plans) \ {{}}, force \in BOOLEAN, stop \in BOOLEAN, dry \in BOOLEAN :
              LET begun == [cmd[c] EXCEPT
                    !.paths = paths, !.force = force, !.stop = stop, !.dry = dry,
                    !.invalid = {p \in paths : IsInvalid(ledger[p])},
                    !.fresh = {p \in paths : IsFresh(ledger[p], text[p])},
                    !.external = {p \in Plans \ paths : IsImplemented(ledger[p])}]
              IN  IF Cardinality(paths) = 1
                  THEN /\ stop
                       /\ SetCmd(c, [begun EXCEPT !.pc = "wave"])
                       /\ item' = [item EXCEPT ![c] =
                              [p \in Plans |-> IF p \in paths THEN [NewItem EXCEPT !.phase = "queued"]
                                               ELSE NewItem]]
                  ELSE SetCmd(c, [begun EXCEPT !.pc = "waves"]) /\ UNCHANGED item
        BY <2>1 DEF Start
      <3> DEFINE begun == [cmd[c] EXCEPT
                    !.paths = paths, !.force = force, !.stop = stop, !.dry = dry,
                    !.invalid = {p \in paths : IsInvalid(ledger[p])},
                    !.fresh = {p \in paths : IsFresh(ledger[p], text[p])},
                    !.external = {p \in Plans \ paths : IsImplemented(ledger[p])}]
      <3>2. begun \in CommandRows
        <4>1. /\ {p \in paths : IsInvalid(ledger[p])} \in SUBSET Plans
              /\ {p \in paths : IsFresh(ledger[p], text[p])} \in SUBSET Plans
              /\ {p \in Plans \ paths : IsImplemented(ledger[p])} \in SUBSET Plans
              /\ paths \in SUBSET Plans
          OBVIOUS
        <4>2. begun = Begun(cmd[c], paths, force, stop, dry, {p \in paths : IsInvalid(ledger[p])},
                            {p \in paths : IsFresh(ledger[p], text[p])},
                            {p \in Plans \ paths : IsImplemented(ledger[p])})
          BY DEF Begun
        <4> HIDE DEF begun
        <4> QED BY <2>0, <4>1, <4>2, BegunType
      <3> HIDE DEF begun
      <3>3. [begun EXCEPT !.pc = "wave"] \in CommandRows /\ [begun EXCEPT !.pc = "waves"] \in CommandRows
        BY <3>2 DEF CommandRows
      <3>4. KeepRest
        BY <2>1 DEF Start
      <3>5. CASE Cardinality(paths) = 1
        <4>1. /\ SetCmd(c, [begun EXCEPT !.pc = "wave"])
              /\ item' = [item EXCEPT ![c] =
                     [p \in Plans |-> IF p \in paths THEN [NewItem EXCEPT !.phase = "queued"]
                                      ELSE NewItem]]
          BY <3>1, <3>5 DEF begun
        <4>2. paths \in SUBSET Plans
          OBVIOUS
        <4> QED BY <3>3, <3>4, <4>1, <4>2, BatchStepType
      <3>6. CASE Cardinality(paths) # 1
        <4>1. SetCmd(c, [begun EXCEPT !.pc = "waves"]) /\ UNCHANGED item
          BY <3>1, <3>6 DEF begun
        <4> QED BY <3>3, <3>4, <4>1, BatchStepType
      <3> QED BY <3>5, <3>6
    <2>2. ASSUME NEW c \in Commands, OpenWave(c) PROVE RowsOK'
      <3> DEFINE x == cmd[c]
                 wave == Waves(x.paths)[x.wave]
                 class == [p \in Plans |-> IF p \in wave THEN Classify(x, p) ELSE x.result[p]]
                 ready == {p \in wave : class[p] = None}
                 left == [p \in Plans |-> IF p \in ready THEN "skipped" ELSE class[p]]
      <3>1. x.result \in [Plans -> Results] /\ x.wave \in Nat
        BY <2>0 DEF CommandRows
      <3>2. class \in [Plans -> Results]
        BY <2>0, <3>1, ClassType
      <3>3. left \in [Plans -> Results]
        BY <3>2 DEF Results
      <3>4. [x EXCEPT !.wave = @ + 1, !.result = left] \in CommandRows
        <4>1. x.wave + 1 \in Nat
          BY <3>1
        <4> QED BY <2>0, <3>3, <4>1, NextWaveType
      <3>5. [x EXCEPT !.pc = "wave", !.result = class] \in CommandRows
        BY <2>0, <3>2 DEF CommandRows
      <3>6. KeepRest
        BY <2>2 DEF OpenWave
      <3>7. CASE Return(c, x) /\ UNCHANGED item
        BY <2>0, <3>6, <3>7, ReturnType, BatchStepType DEF Return
      <3>8. CASE Return(c, [x EXCEPT !.failed = TRUE, !.result = Flush(x)]) /\ UNCHANGED item
        BY <2>0, <3>6, <3>8, FlushType, ReturnType, BatchStepType DEF Return
      <3>9. CASE SetCmd(c, [x EXCEPT !.wave = @ + 1, !.result = left]) /\ UNCHANGED item
        BY <3>4, <3>6, <3>9, BatchStepType
      <3>10. CASE /\ SetCmd(c, [x EXCEPT !.pc = "wave", !.result = class])
                  /\ item' = [item EXCEPT ![c] =
                          [p \in Plans |-> IF p \in ready THEN [NewItem EXCEPT !.phase = "queued"]
                                           ELSE NewItem]]
        <4>1. item' = [item EXCEPT ![c] =
                          [p \in Plans |-> IF p \in ready \cap Plans THEN [NewItem EXCEPT !.phase = "queued"]
                                           ELSE NewItem]]
          BY <3>10
        <4> HIDE DEF class, ready
        <4> QED BY <3>5, <3>6, <3>10, <4>1, BatchStepType
      <3> QED BY <2>2, <3>7, <3>8, <3>9, <3>10 DEF OpenWave
    <2>3. ASSUME NEW c \in Commands, CloseWave(c) PROVE RowsOK'
      <3> DEFINE x == cmd[c]
                 later == [x EXCEPT !.pc = "waves", !.wave = @ + 1,
                             !.stopped = @ \/ (x.stop /\ WaveHadFailure(x))]
      <3>1. later \in CommandRows
        <4>1. x.wave \in Nat /\ x.stop \in BOOLEAN /\ x.stopped \in BOOLEAN
          BY <2>0 DEF CommandRows
        <4>2. x.wave + 1 \in Nat
          BY <4>1
        <4>3. (x.stopped \/ (x.stop /\ WaveHadFailure(x))) \in BOOLEAN
          BY DEF WaveHadFailure
        <4> QED BY <2>0, <4>2, <4>3, NextWaveType
      <3>2. KeepRest
        BY <2>3 DEF CloseWave
      <3>3. CASE Return(c, x) /\ UNCHANGED item
        BY <2>0, <3>2, <3>3, ReturnType, BatchStepType DEF Return
      <3>4. CASE SetCmd(c, later) /\ UNCHANGED item
        BY <3>1, <3>2, <3>4, BatchStepType
      <3>5. CASE /\ Return(c, [x EXCEPT !.failed = TRUE, !.result = Flush(x)])
                 /\ item' = [item EXCEPT ![c] = [p \in Plans |-> NewItem]]
        <4>1. \E S \in SUBSET Plans : item' = [item EXCEPT ![c] =
                 [p \in Plans |-> IF p \in S THEN [NewItem EXCEPT !.phase = "queued"] ELSE NewItem]]
          <5> WITNESS {} \in SUBSET Plans
          <5> QED BY <3>5
        <4> DEFINE flushed == [x EXCEPT !.failed = TRUE, !.result = Flush(x)]
                   returned == [NewCommand EXCEPT !.pc = "returned", !.paths = flushed.paths,
                      !.stop = flushed.stop, !.dry = flushed.dry, !.cancelled = flushed.cancelled,
                      !.failed = flushed.failed, !.result = flushed.result]
        <4>2. flushed \in CommandRows
          BY <2>0, FlushType
        <4>3. SetCmd(c, returned)
          BY <3>5 DEF Return
        <4>4. returned \in CommandRows
          <5> HIDE DEF flushed
          <5> QED BY <4>2, ReturnType
        <4> HIDE DEF returned
        <4> QED BY <3>2, <4>1, <4>3, <4>4, BatchStepType
      <3> QED BY <2>3, <3>3, <3>4, <3>5 DEF CloseWave
    <2>4. ASSUME NEW c \in Commands, NEW p \in Plans, ItemSteps(c, p) PROVE RowsOK'
      <3>1. item[c][p] \in ItemState /\ ledger[p] \in Ledgers /\ text[p] \in Texts
        BY DEF RowsOK
      <3>2. ASSUME Take(c, p) PROVE RowsOK'
        <4>1. [NewItem EXCEPT !.phase = "check", !.hash = text[p], !.was = ledger[p]] \in ItemState
          BY <3>1, NewItemType DEF ItemState
        <4> HIDE DEF NewItem
        <4>2. item' \in [Commands -> [Plans -> ItemState]]
          BY <3>2, <4>1 DEF Take, SetItem, RowsOK
        <4> QED BY <3>2, <4>2 DEF Take, KeepRest, RowsOK
      <3>3. ASSUME Check(c, p) PROVE RowsOK'
        <4>1. \/ \E state \in Results : Complete(c, p, state)
              \/ Goes(c, p, "pending")
          BY <3>3 DEF Check, Results
        <4>2. KeepRest
          BY <3>3 DEF Check
        <4> QED BY <4>1, <4>2, CompleteType, GoesType DEF KeepRest, RowsOK
      <3>4. ASSUME RecordPending(c, p) PROVE RowsOK'
        BY <3>1, <3>4, RecordType, GoesType DEF RecordPending, RowsOK, Open, ItemState
      <3>5. ASSUME RecordInProgress(c, p) PROVE RowsOK'
        BY <3>1, <3>5, RecordType, GoesType DEF RecordInProgress, RowsOK, Open, ItemState
      <3>6. ASSUME RunEnds(c, p) PROVE RowsOK'
        <4>1. PICK ok \in BOOLEAN :
                /\ SetItem(c, p, [item[c][p] EXCEPT !.phase = "record", !.ok = ok])
                /\ built' = IF ok THEN built \cup {<<p, item[c][p].hash>>} ELSE built
          BY <3>6 DEF RunEnds
        <4>2. [item[c][p] EXCEPT !.phase = "record", !.ok = ok] \in ItemState
          BY <3>1 DEF ItemState
        <4>3. item' \in [Commands -> [Plans -> ItemState]]
          BY <4>1, <4>2 DEF SetItem, RowsOK
        <4>4. <<p, item[c][p].hash>> \in Plans \X Texts
          BY <3>1 DEF ItemState
        <4>5. built' \subseteq Plans \X Texts
          BY <4>1, <4>4 DEF RowsOK
        <4> QED BY <3>6, <4>3, <4>5 DEF RunEnds, RowsOK
      <3>7. ASSUME RecordTerminal(c, p) PROVE RowsOK'
        <4>1. Terminal(item[c][p]) \in {"implemented", "failed"} /\ item[c][p].hash \in Texts
          BY <3>1 DEF Terminal, ItemState
        <4> QED BY <3>7, <4>1, RecordType, CompleteType DEF RecordTerminal, RowsOK, Results
      <3> QED BY <2>4, <3>2, <3>3, <3>4, <3>5, <3>6, <3>7 DEF ItemSteps
    <2>5. ASSUME NEW c \in Commands, NEW p \in Plans, BackendFails(c, p) PROVE RowsOK'
      <3>1. troubles' \in 0 .. MaxTroubles
        BY <2>5, PlanAssumption DEF BackendFails, Trouble, RowsOK, PlanAssumption
      <3>2. cmd' \in [Commands -> CommandRows] /\ item' \in [Commands -> [Plans -> ItemState]]
        BY <2>5, CompleteType DEF BackendFails, Results
      <3>3. orphans' \subseteq Plans
        BY <2>5 DEF BackendFails, RowsOK
      <3> QED BY <2>5, <3>1, <3>2, <3>3 DEF BackendFails, RowsOK
    <2>6. ASSUME NEW c \in Commands, Cancel(c) \/ Crash(c) PROVE RowsOK'
      <3>1. troubles' \in 0 .. MaxTroubles
        BY <2>6, PlanAssumption DEF Cancel, Crash, Trouble, RowsOK, PlanAssumption
      <3>2. CASE Cancel(c)
        <4>1. [cmd[c] EXCEPT !.cancelled = TRUE] \in CommandRows
          BY <2>0 DEF CommandRows
        <4> QED BY <3>1, <3>2, <4>1 DEF Cancel, SetCmd, RowsOK
      <3>3. CASE Crash(c)
        <4>1. [NewCommand EXCEPT !.pc = "crashed"] \in CommandRows
          BY NewCommandType DEF CommandRows
        <4>2. cmd' \in [Commands -> CommandRows]
          BY <3>3, <4>1 DEF Crash, SetCmd, RowsOK
        <4>3. item' \in [Commands -> [Plans -> ItemState]]
          BY <3>3, NewItemType DEF Crash, RowsOK
        <4>4. orphans' \subseteq Plans
          BY <3>3 DEF Crash, RowsOK
        <4> QED BY <3>1, <3>3, <4>2, <4>3, <4>4 DEF Crash, RowsOK
      <3> QED BY <2>6, <3>2, <3>3
    <2>7. ASSUME NEW p \in Plans, Edit(p) PROVE RowsOK'
      <3>1. troubles' \in 0 .. MaxTroubles
        BY <2>7, PlanAssumption DEF Edit, Trouble, RowsOK, PlanAssumption
      <3>2. text[p] + 1 \in Texts
        BY <2>7, PlanAssumption DEF Edit, RowsOK, Texts, PlanAssumption
      <3> QED BY <2>7, <3>1, <3>2 DEF Edit, RowsOK
    <2>8. ASSUME NEW p \in Plans, OtherBegins(p) PROVE RowsOK'
      <3>1. troubles' \in 0 .. MaxTroubles
        BY <2>8, PlanAssumption DEF OtherBegins, Trouble, RowsOK, PlanAssumption
      <3>2. text[p] \in Texts
        BY DEF RowsOK
      <3> QED BY <2>8, <3>1, <3>2, RecordType DEF OtherBegins, RowsOK, Open
    <2>9. ASSUME OtherEnds PROVE RowsOK'
      <3>1. other \in Plans \X Texts
        BY <2>9 DEF OtherEnds, RowsOK
      <3>2. PICK ok \in BOOLEAN :
              /\ RecordLedger(other[1], IF ok THEN "implemented" ELSE "failed", other[2])
              /\ built' = IF ok THEN built \cup {other} ELSE built
        BY <2>9 DEF OtherEnds
      <3>3. built' \subseteq Plans \X Texts
        BY <3>1, <3>2 DEF RowsOK
      <3>4. ledger' \in [Plans -> Ledgers] /\ orphans' \subseteq Plans
        <4>1. other[1] \in Plans /\ other[2] \in Texts
          BY <3>1
        <4> QED BY <3>2, <4>1, RecordType
      <3> QED BY <2>9, <3>3, <3>4 DEF OtherEnds, RowsOK
    <2>10. CASE UNCHANGED planVars
      BY <2>10 DEF planVars, RowsOK
    <2> QED BY <2>1, <2>2, <2>3, <2>4, <2>5, <2>6, <2>7, <2>8, <2>9, <2>10 DEF PlanNext
  <1> QED BY <1>1, <1>2, PTL DEF PlanSpec

-----------------------------------------------------------------------------
(* The inductive invariant *)

\* Implement has come past its questions about the dependencies.
Going == {"pending", "in_progress", "run", "record"}

\* It has recorded the Plan as open.
Recording == {"in_progress", "run", "record"}

\* Only a wave has workers.
Resting ==
  \A c \in Commands, p \in Plans : cmd[c].pc # "wave" => item[c][p].phase = "none"

\* Who ends a run, or records one that succeeded, tells of a run that did.
RunsAreBacked ==
  /\ \A c \in Commands, p \in Plans :
       item[c][p].phase = "record" /\ item[c][p].ok => <<p, item[c][p].hash>> \in built
  /\ \A p \in Plans : IsImplemented(ledger[p]) => \E h \in Texts : <<p, h>> \in built

BatchInv == Resting /\ RunsAreBacked /\ PlansInOrder /\ InProgressIsActive

-----------------------------------------------------------------------------
(* Steps of a batch, of its workers and of the other invocation *)

\* The workers' locals after a step of their command: kept, or queued Plans and nothing else.
Requeued(c) ==
  \E S \in SUBSET Plans :
    item' = [item EXCEPT ![c] =
               [p \in Plans |-> IF p \in S THEN [NewItem EXCEPT !.phase = "queued"] ELSE NewItem]]

\* Of a requeued command every Plan is queued or has no worker.
LEMMA RequeuedPhases ==
  ASSUME RowsOK, NEW c \in Commands, Requeued(c)
  PROVE  /\ \A d \in Commands \ {c} : item'[d] = item[d]
         /\ \A p \in Plans : item'[c][p].phase \in {"none", "queued"}
  <1>1. PICK S \in SUBSET Plans :
          item' = [item EXCEPT ![c] =
               [p \in Plans |-> IF p \in S THEN [NewItem EXCEPT !.phase = "queued"] ELSE NewItem]]
    BY DEF Requeued
  <1>2. \A p \in Plans : item'[c][p] = IF p \in S THEN [NewItem EXCEPT !.phase = "queued"] ELSE NewItem
    BY <1>1 DEF RowsOK
  <1>3. NewItem.phase = "none" /\ [NewItem EXCEPT !.phase = "queued"].phase = "queued"
    BY DEF NewItem
  <1> HIDE DEF NewItem
  <1>4. \A p \in Plans : item'[c][p].phase \in {"none", "queued"}
    BY <1>2, <1>3
  <1>5. \A d \in Commands \ {c} : item'[d] = item[d]
    BY <1>1 DEF RowsOK
  <1> QED BY <1>4, <1>5

\* A step that starts, opens, closes or cancels a batch finds its workers idle or leaves them
\* alone, and a command that is in no wave is left without workers.
LEMMA CommandStep ==
  ASSUME RowsOK, Resting, NEW c \in Commands,
         Start(c) \/ OpenWave(c) \/ CloseWave(c) \/ Cancel(c)
  PROVE  /\ UNCHANGED <<deps, ledger, built, other, orphans>>
         /\ \A d \in Commands \ {c} : cmd'[d] = cmd[d]
         /\ \/ UNCHANGED item
            \/ /\ Requeued(c)
               /\ \A p \in Plans : item[c][p].phase \in {"none", "queued"}
         /\ cmd'[c].pc # "wave" => \A p \in Plans : item'[c][p].phase = "none"
  <1>1. cmd[c] \in CommandRows /\ item[c] \in [Plans -> ItemState]
    BY DEF RowsOK
  <1>2. cmd \in [Commands -> CommandRows] /\ item \in [Commands -> [Plans -> ItemState]]
    BY DEF RowsOK
  <1>3. UNCHANGED <<deps, ledger, built, other, orphans>>
    BY DEF Start, OpenWave, CloseWave, Cancel, KeepRest
  <1>4. \A d \in Commands \ {c} : cmd'[d] = cmd[d]
    <2>1. \E x : SetCmd(c, x)
      BY DEF Start, OpenWave, CloseWave, Cancel, Return
    <2> QED BY <2>1, <1>2 DEF SetCmd
  <1>5. ASSUME NEW x, SetCmd(c, x) PROVE cmd'[c] = x
    BY <1>2, <1>5 DEF SetCmd
  <1>6. CASE Start(c)
    <2>1. \A p \in Plans : item[c][p].phase = "none"
      BY <1>6 DEF Start, Resting
    <2>2. \/ Requeued(c) /\ cmd'[c].pc = "wave"
          \/ UNCHANGED item
      <3>1. PICK paths \in (SUBSET Plans) \ {{}}, force \in BOOLEAN, stop \in BOOLEAN, dry \in BOOLEAN :
              LET begun == [cmd[c] EXCEPT
                    !.paths = paths, !.force = force, !.stop = stop, !.dry = dry,
                    !.invalid = {p \in paths : IsInvalid(ledger[p])},
                    !.fresh = {p \in paths : IsFresh(ledger[p], text[p])},
                    !.external = {p \in Plans \ paths : IsImplemented(ledger[p])}]
              IN  IF Cardinality(paths) = 1
                  THEN /\ stop
                       /\ SetCmd(c, [begun EXCEPT !.pc = "wave"])
                       /\ item' = [item EXCEPT ![c] =
                              [p \in Plans |-> IF p \in paths THEN [NewItem EXCEPT !.phase = "queued"]
                                               ELSE NewItem]]
                  ELSE SetCmd(c, [begun EXCEPT !.pc = "waves"]) /\ UNCHANGED item
        BY <1>6 DEF Start
      <3> DEFINE begun == [cmd[c] EXCEPT
                    !.paths = paths, !.force = force, !.stop = stop, !.dry = dry,
                    !.invalid = {p \in paths : IsInvalid(ledger[p])},
                    !.fresh = {p \in paths : IsFresh(ledger[p], text[p])},
                    !.external = {p \in Plans \ paths : IsImplemented(ledger[p])}]
      <3>2. [begun EXCEPT !.pc = "wave"].pc = "wave"
        BY <1>1 DEF CommandRows
      <3> HIDE DEF begun
      <3>3. CASE Cardinality(paths) = 1
        <4>1. SetCmd(c, [begun EXCEPT !.pc = "wave"])
          BY <3>1, <3>3 DEF begun
        <4>2. Requeued(c)
          BY <3>1, <3>3 DEF Requeued
        <4> QED BY <3>2, <4>1, <4>2, <1>5
      <3> QED BY <3>1, <3>3
    <2> QED BY <1>3, <1>4, <2>1, <2>2
  <1>7. CASE OpenWave(c)
    <2>1. \A p \in Plans : item[c][p].phase = "none"
      BY <1>7 DEF OpenWave, Resting
    <2>2. \/ UNCHANGED item
          \/ Requeued(c) /\ cmd'[c].pc = "wave"
      <3> DEFINE x == cmd[c]
                 wave == Waves(x.paths)[x.wave]
                 class == [p \in Plans |-> IF p \in wave THEN Classify(x, p) ELSE x.result[p]]
                 ready == {p \in wave : class[p] = None}
      <3> SUFFICES ASSUME /\ SetCmd(c, [x EXCEPT !.pc = "wave", !.result = class])
                          /\ item' = [item EXCEPT ![c] =
                               [p \in Plans |-> IF p \in ready THEN [NewItem EXCEPT !.phase = "queued"]
                                                ELSE NewItem]]
                   PROVE  Requeued(c) /\ cmd'[c].pc = "wave"
        BY <1>7 DEF OpenWave
      <3> HIDE DEF class, ready
      <3>1. Requeued(c)
        <4> SUFFICES item' = [item EXCEPT ![c] =
                               [p \in Plans |-> IF p \in ready \cap Plans
                                                THEN [NewItem EXCEPT !.phase = "queued"] ELSE NewItem]]
          BY DEF Requeued
        <4> QED OBVIOUS
      <3>2. [x EXCEPT !.pc = "wave", !.result = class].pc = "wave"
        BY <1>1 DEF CommandRows
      <3> QED BY <3>1, <3>2, <1>5
    <2>3. \A p \in Plans : item[c][p].phase \in {"none", "queued"}
      BY <2>1
    <2> QED BY <1>3, <1>4, <2>1, <2>2, <2>3
  <1>8. CASE CloseWave(c)
    <2>1. \A p \in Plans : item[c][p].phase \in {"none", "queued"}
      BY <1>1, <1>8 DEF CloseWave, Busy, ItemState
    <2>2. CASE Queued(c) = {} /\ UNCHANGED item
      <3>1. \A p \in Plans : item[c][p].phase = "none"
        BY <2>1, <2>2 DEF Queued
      <3> QED BY <1>3, <1>4, <2>2, <3>1
    <2>3. CASE item' = [item EXCEPT ![c] = [p \in Plans |-> NewItem]]
      <3>1. Requeued(c)
        <4> USE DEF Requeued
        <4> WITNESS {} \in SUBSET Plans
        <4> QED BY <2>3
      <3>2. \A p \in Plans : item'[c][p].phase = "none"
        BY <2>3, <1>2 DEF NewItem
      <3> QED BY <1>3, <1>4, <2>1, <3>1, <3>2
    <2> QED BY <1>8, <2>2, <2>3 DEF CloseWave
  <1>9. CASE Cancel(c)
    <2>1. UNCHANGED item
      BY <1>9 DEF Cancel
    <2>2. cmd'[c].pc = cmd[c].pc
      BY <1>1, <1>5, <1>9 DEF Cancel, CommandRows
    <2> QED BY <1>3, <1>4, <2>1, <2>2 DEF Resting
  <1> QED BY <1>6, <1>7, <1>8, <1>9

\* A worker that decides about its Plan, or goes on, keeps to its own locals and stays in
\* its wave.
LEMMA WorkerStep ==
  ASSUME RowsOK, NEW c \in Commands, NEW p \in Plans, NEW phase, NEW state,
         Goes(c, p, phase) \/ Complete(c, p, state)
  PROVE  /\ \A d \in Commands : cmd'[d].pc = cmd[d].pc
         /\ \A d \in Commands, q \in Plans :
              <<d, q>> # <<c, p>> => item'[d][q] = item[d][q]
         /\ Goes(c, p, phase) => /\ item'[c][p].phase = phase
                                 /\ item'[c][p].hash = item[c][p].hash
                                 /\ item'[c][p].ok = item[c][p].ok
         /\ Complete(c, p, state) => item'[c][p].phase = "none"
  <1>1. cmd \in [Commands -> CommandRows] /\ item \in [Commands -> [Plans -> ItemState]]
    BY DEF RowsOK
  <1>2. item[c][p] \in ItemState
    BY <1>1
  <1>3. CASE Goes(c, p, phase)
    <2>1. UNCHANGED cmd
      BY <1>3 DEF Goes
    <2>2. item' = [item EXCEPT ![c][p] = [item[c][p] EXCEPT !.phase = phase]]
      BY <1>3 DEF Goes, SetItem
    <2>3. item'[c][p] = [item[c][p] EXCEPT !.phase = phase]
      BY <1>1, <2>2
    <2>4. \A d \in Commands, q \in Plans : <<d, q>> # <<c, p>> => item'[d][q] = item[d][q]
      BY <1>1, <2>2
    <2>5. /\ item'[c][p].phase = phase
          /\ item'[c][p].hash = item[c][p].hash
          /\ item'[c][p].ok = item[c][p].ok
      BY <1>2, <2>3 DEF ItemState
    <2>6. Complete(c, p, state) => item'[c][p].phase = "none"
      <3>1. Complete(c, p, state) => item'[c][p] = NewItem
        BY <1>1 DEF Complete, SetItem
      <3> QED BY <3>1 DEF NewItem
    <2> QED BY <2>1, <2>4, <2>5, <2>6
  <1>4. CASE ~Goes(c, p, phase) /\ Complete(c, p, state)
    <2>1. cmd' = [cmd EXCEPT ![c] = [cmd[c] EXCEPT !.result[p] = state]]
      BY <1>4 DEF Complete, SetCmd
    <2>2. [cmd[c] EXCEPT !.result[p] = state].pc = cmd[c].pc
      BY <1>1 DEF CommandRows
    <2>3. \A d \in Commands : cmd'[d].pc = cmd[d].pc
      BY <1>1, <2>1, <2>2
    <2>4. item' = [item EXCEPT ![c][p] = NewItem]
      BY <1>4 DEF Complete, SetItem
    <2>5. \A d \in Commands, q \in Plans : <<d, q>> # <<c, p>> => item'[d][q] = item[d][q]
      BY <1>1, <2>4
    <2>6. item'[c][p].phase = "none"
      BY <1>1, <2>4 DEF NewItem
    <2> QED BY <1>4, <2>3, <2>5, <2>6
  <1> QED BY <1>3, <1>4


\* Recording a Plan's ledger takes nobody else's place.
LEMMA RecordStep ==
  ASSUME RowsOK, NEW p \in Plans, NEW status, NEW h, RecordLedger(p, status, h)
  PROVE  /\ ledger'[p] = [status |-> status, hash |-> h] /\ ledger'[p].status = status
         /\ \A q \in Plans \ {p} : ledger'[q] = ledger[q]
         /\ \A q \in Plans \ {p} : q \in orphans => q \in orphans'
  BY DEF RecordLedger, RowsOK

-----------------------------------------------------------------------------
\* Only a wave has workers, whatever happens to the command.
LEMMA RestingHolds ==
  ASSUME RowsOK, Resting, [PlanNext]_planVars
  PROVE  Resting'
  <1>0. /\ cmd \in [Commands -> CommandRows] /\ item \in [Commands -> [Plans -> ItemState]]
    BY DEF RowsOK
  <1>1. ASSUME NEW c \in Commands, Start(c) \/ OpenWave(c) \/ CloseWave(c) \/ Cancel(c)
        PROVE Resting'
    <2>1. \A d \in Commands \ {c} : cmd'[d] = cmd[d] /\ item'[d] = item[d]
      BY <1>1, CommandStep, RequeuedPhases
    <2>2. cmd'[c].pc # "wave" => \A p \in Plans : item'[c][p].phase = "none"
      BY <1>1, CommandStep
    <2> QED BY <2>1, <2>2 DEF Resting
  <1>2. ASSUME NEW c \in Commands, NEW p \in Plans,
               item[c][p].phase # "none",
               \E phase, state : Goes(c, p, phase) \/ Complete(c, p, state)
        PROVE Resting'
    <2>1. /\ \A d \in Commands : cmd'[d].pc = cmd[d].pc
          /\ \A d \in Commands, q \in Plans : <<d, q>> # <<c, p>> => item'[d][q] = item[d][q]
      BY <1>2, WorkerStep
    <2>2. cmd[c].pc = "wave"
      BY <1>2 DEF Resting
    <2> QED BY <2>1, <2>2 DEF Resting
  <1>3. ASSUME NEW c \in Commands, NEW p \in Plans, Take(c, p) \/ RunEnds(c, p)
        PROVE Resting'
    <2>1. UNCHANGED cmd /\ \E x : SetItem(c, p, x) /\ item[c][p].phase # "none"
      BY <1>3 DEF Take, RunEnds
    <2>2. \A d \in Commands, q \in Plans : <<d, q>> # <<c, p>> => item'[d][q] = item[d][q]
      BY <1>0, <2>1 DEF SetItem
    <2> QED BY <2>1, <2>2 DEF Resting
  <1>4. ASSUME NEW c \in Commands, Crash(c) PROVE Resting'
    <2>1. \A p \in Plans : item'[c][p].phase = "none"
      BY <1>0, <1>4 DEF Crash, NewItem
    <2>2. \A d \in Commands \ {c} : cmd'[d] = cmd[d] /\ item'[d] = item[d]
      BY <1>0, <1>4 DEF Crash, SetCmd
    <2> QED BY <2>1, <2>2 DEF Resting
  <1>5. CASE UNCHANGED <<cmd, item>>
    BY <1>5 DEF Resting
  <1>6. ASSUME NEW c \in Commands, NEW p \in Plans, ItemSteps(c, p) \/ BackendFails(c, p)
        PROVE Resting'
    BY <1>2, <1>3, <1>6 DEF ItemSteps, BackendFails, Check, RecordPending, RecordInProgress, RecordTerminal
  <1>7. ASSUME NEW p \in Plans, Edit(p) \/ OtherBegins(p) PROVE Resting'
    BY <1>5, <1>7 DEF Edit, OtherBegins
  <1>8. CASE OtherEnds \/ UNCHANGED planVars
    BY <1>5, <1>8 DEF OtherEnds, planVars
  <1> QED BY <1>1, <1>4, <1>6, <1>7, <1>8 DEF PlanNext

\* A ledger stays backed by the runs, and a run by what it tells, when runs are only added
\* and nobody else comes to record one.
LEMMA StillBacked ==
  ASSUME RowsOK, RunsAreBacked, built \subseteq built',
         \A c \in Commands, p \in Plans :
           item'[c][p].phase = "record" /\ item'[c][p].ok =>
             item'[c][p] = item[c][p] \/ <<p, item'[c][p].hash>> \in built',
         \A p \in Plans :
           \/ ledger'[p] = ledger[p]
           \/ ~IsImplemented(ledger'[p])
           \/ \E h \in Texts : <<p, h>> \in built'
  PROVE  RunsAreBacked'
  <1>1. ASSUME NEW c \in Commands, NEW p \in Plans, item'[c][p].phase = "record", item'[c][p].ok
        PROVE <<p, item'[c][p].hash>> \in built'
    BY <1>1 DEF RunsAreBacked
  <1>2. ASSUME NEW p \in Plans, IsImplemented(ledger'[p])
        PROVE \E h \in Texts : <<p, h>> \in built'
    <2>1. ledger'[p] = ledger[p] => IsImplemented(ledger[p])
      BY <1>2
    <2> QED BY <1>2, <2>1 DEF RunsAreBacked
  <1> QED BY <1>1, <1>2 DEF RunsAreBacked

\* The order of Plans is kept by whoever asks for the ledgers of the dependencies first.
LEMMA StillInOrder ==
  ASSUME RunsAreBacked, PlansInOrder, built \subseteq built', deps' = deps,
         \A c \in Commands, p \in Plans :
           item'[c][p].phase \in Going =>
             item[c][p].phase \in Going \/ DependenciesImplemented(p),
         deps \in [Plans -> SUBSET Plans]
  PROVE  PlansInOrder'
  <1> SUFFICES ASSUME NEW c \in Commands, NEW p \in Plans, item'[c][p].phase \in Going, NEW d \in deps[p]
               PROVE  \E h \in Texts : <<d, h>> \in built'
    BY DEF PlansInOrder, Going
  <1>1. d \in Plans
    OBVIOUS
  <1>2. CASE item[c][p].phase \in Going
    BY <1>2 DEF PlansInOrder, Going
  <1>3. CASE DependenciesImplemented(p)
    <2>1. IsImplemented(ledger[d])
      BY <1>3 DEF DependenciesImplemented
    <2> QED BY <1>1, <2>1 DEF RunsAreBacked
  <1> QED BY <1>2, <1>3

\* A Plan is not left behind as open by a step that records nothing when those who record
\* it stay, or it becomes an orphan.
LEMMA StillActive ==
  ASSUME InProgressIsActive, other' = other, ledger' = ledger,
         \A c \in Commands, p \in Plans :
           item[c][p].phase \in Recording =>
             \/ item'[c][p].phase \in Recording
             \/ p \in orphans'
             \/ ledger[p] = None \/ ledger[p].status \notin Open,
         orphans \subseteq orphans'
  PROVE  InProgressIsActive'
  <1> SUFFICES ASSUME NEW p \in Plans, ledger[p] # None, ledger[p].status \in Open
               PROVE  \/ p \in orphans'
                      \/ other # None /\ other[1] = p
                      \/ \E c \in Commands : item'[c][p].phase \in Recording
    BY DEF InProgressIsActive, Recording
  <1> QED BY DEF InProgressIsActive, Recording

\* Nor by a step that records another Plan, or this one as closed.
LEMMA RecordKeepsActive ==
  ASSUME RowsOK, InProgressIsActive, NEW p \in Plans, NEW status, NEW h,
         RecordLedger(p, status, h),
         \/ status \notin Open
         \/ other' # None /\ other'[1] = p
         \/ \E c \in Commands : item'[c][p].phase \in Recording,
         \A q \in Plans \ {p} : other # None /\ other[1] = q => other' # None /\ other'[1] = q,
         \A c \in Commands, q \in Plans \ {p} : item'[c][q] = item[c][q]
  PROVE  InProgressIsActive'
  <1> SUFFICES ASSUME NEW q \in Plans, ledger'[q] # None, ledger'[q].status \in Open
               PROVE  \/ q \in orphans'
                      \/ other' # None /\ other'[1] = q
                      \/ \E c \in Commands : item'[c][q].phase \in Recording
    BY DEF InProgressIsActive, Recording
  <1>1. CASE q = p
    <2>1. ledger'[p].status = status
      BY RecordStep
    <2> QED BY <1>1, <2>1
  <1>2. CASE q # p
    <2>1. ledger'[q] = ledger[q] /\ (q \in orphans => q \in orphans')
      BY <1>2, RecordStep
    <2>2. \/ q \in orphans
          \/ other # None /\ other[1] = q
          \/ \E c \in Commands : item[c][q].phase \in Recording
      BY <2>1 DEF InProgressIsActive, Recording
    <2> QED BY <1>2, <2>1, <2>2
  <1> QED BY <1>1, <1>2

-----------------------------------------------------------------------------
(* The invariant is kept, actor by actor *)

Kept == RunsAreBacked' /\ PlansInOrder' /\ InProgressIsActive'

\* A step of a command keeps it: no worker of the command is at work when its locals change.
LEMMA CommandKeeps ==
  ASSUME RowsOK, BatchInv, NEW c \in Commands,
         Start(c) \/ OpenWave(c) \/ CloseWave(c) \/ Cancel(c)
  PROVE  Kept
  <1>1. UNCHANGED <<deps, ledger, built, other, orphans>>
    BY CommandStep DEF BatchInv
  <1>2. ASSUME NEW d \in Commands, NEW p \in Plans
        PROVE \/ item'[d][p] = item[d][p]
              \/ /\ item[d][p].phase \in {"none", "queued"}
                 /\ item'[d][p].phase \in {"none", "queued"}
    BY CommandStep, RequeuedPhases DEF BatchInv
  <1>3. ASSUME NEW d \in Commands, NEW p \in Plans
        PROVE /\ item'[d][p].phase = "record" => item'[d][p] = item[d][p]
              /\ item'[d][p].phase \in Going => item[d][p].phase \in Going
              /\ item[d][p].phase \in Recording => item'[d][p].phase \in Recording
    BY <1>2 DEF Going, Recording
  <1>4. RunsAreBacked'
    BY <1>1, <1>3, StillBacked DEF BatchInv
  <1>5. PlansInOrder'
    BY <1>1, <1>3, StillInOrder DEF BatchInv, RowsOK
  <1>6. InProgressIsActive'
    BY <1>1, <1>3, StillActive DEF BatchInv
  <1> QED BY <1>4, <1>5, <1>6 DEF Kept

\* A crash ends the workers of its command, and the Plans they had recorded are orphans.
LEMMA CrashKeeps ==
  ASSUME RowsOK, BatchInv, NEW c \in Commands, Crash(c)
  PROVE  Kept
  <1>1. UNCHANGED <<deps, ledger, built, other>> /\ orphans \subseteq orphans'
    BY DEF Crash
  <1>2. item \in [Commands -> [Plans -> ItemState]]
    BY DEF RowsOK
  <1>3. ASSUME NEW d \in Commands, NEW p \in Plans
        PROVE \/ item'[d][p] = item[d][p]
              \/ d = c /\ item'[d][p].phase = "none"
    BY <1>2 DEF Crash, NewItem
  <1>4. ASSUME NEW p \in Plans, item[c][p].phase \in Recording
        PROVE p \in orphans' \/ ledger[p].status \notin Open
    BY <1>4 DEF Crash, Recording
  <1>5. ASSUME NEW d \in Commands, NEW p \in Plans
        PROVE /\ item'[d][p].phase = "record" => item'[d][p] = item[d][p]
              /\ item'[d][p].phase \in Going => item[d][p].phase \in Going
              /\ item[d][p].phase \in Recording =>
                   \/ item'[d][p].phase \in Recording
                   \/ p \in orphans'
                   \/ ledger[p] = None \/ ledger[p].status \notin Open
    BY <1>3, <1>4 DEF Going
  <1>6. RunsAreBacked'
    BY <1>1, <1>5, StillBacked DEF BatchInv
  <1>7. PlansInOrder'
    BY <1>1, <1>5, StillInOrder DEF BatchInv, RowsOK
  <1>8. InProgressIsActive'
    BY <1>1, <1>5, StillActive DEF BatchInv
  <1> QED BY <1>6, <1>7, <1>8 DEF Kept

\* A worker keeps it in each of its steps.
LEMMA WorkerKeeps ==
  ASSUME RowsOK, BatchInv, NEW c \in Commands, NEW p \in Plans,
         ItemSteps(c, p) \/ BackendFails(c, p)
  PROVE  Kept
  <1>0. item \in [Commands -> [Plans -> ItemState]] /\ item[c][p] \in ItemState
    BY DEF RowsOK
  <1>1. ASSUME /\ UNCHANGED <<deps, ledger, built, other>>
               /\ orphans \subseteq orphans'
               /\ \A d \in Commands, q \in Plans : <<d, q>> # <<c, p>> => item'[d][q] = item[d][q]
               /\ item'[c][p].phase # "record"
               /\ item'[c][p].phase \in Going => DependenciesImplemented(p)
               /\ item[c][p].phase \in Recording =>
                    p \in orphans' \/ ledger[p] = None \/ ledger[p].status \notin Open
        PROVE Kept
    <2>1. ASSUME NEW d \in Commands, NEW q \in Plans
          PROVE /\ item'[d][q].phase = "record" => item'[d][q] = item[d][q]
                /\ item'[d][q].phase \in Going => item[d][q].phase \in Going \/ DependenciesImplemented(q)
                /\ item[d][q].phase \in Recording =>
                     \/ item'[d][q].phase \in Recording
                     \/ q \in orphans'
                     \/ ledger[q] = None \/ ledger[q].status \notin Open
      <3>1. CASE <<d, q>> = <<c, p>>
        BY <1>1, <3>1
      <3>2. CASE <<d, q>> # <<c, p>>
        BY <1>1, <3>2
      <3> QED BY <3>1, <3>2
    <2>2. RunsAreBacked'
      BY <1>1, <2>1, StillBacked DEF BatchInv
    <2>3. PlansInOrder'
      BY <1>1, <2>1, StillInOrder DEF BatchInv, RowsOK
    <2>4. InProgressIsActive'
      BY <1>1, <2>1, StillActive DEF BatchInv
    <2> QED BY <2>2, <2>3, <2>4 DEF Kept
  <1>2. CASE Take(c, p)
    <2>1. item' = [item EXCEPT ![c][p] =
                     [NewItem EXCEPT !.phase = "check", !.hash = text[p], !.was = ledger[p]]]
      BY <1>2 DEF Take, SetItem
    <2>2. [NewItem EXCEPT !.phase = "check", !.hash = text[p], !.was = ledger[p]].phase = "check"
      BY DEF NewItem
    <2> HIDE DEF NewItem
    <2>3. \A d \in Commands, q \in Plans : <<d, q>> # <<c, p>> => item'[d][q] = item[d][q]
      BY <1>0, <2>1
    <2>4. item'[c][p].phase = "check"
      BY <1>0, <2>1, <2>2
    <2>5. item[c][p].phase = "queued"
      BY <1>2 DEF Take
    <2>6. UNCHANGED <<deps, ledger, built, other, orphans>>
      BY <1>2 DEF Take, KeepRest
    <2> QED BY <1>1, <2>3, <2>4, <2>5, <2>6 DEF Going, Recording
  <1>3. CASE Check(c, p)
    <2>1. \/ \E state : Complete(c, p, state)
          \/ Goes(c, p, "pending") /\ DependenciesImplemented(p)
      BY <1>3 DEF Check
    <2>2. UNCHANGED <<deps, ledger, built, other, orphans>> /\ item[c][p].phase = "check"
      BY <1>3 DEF Check, KeepRest
    <2>3. \A d \in Commands, q \in Plans : <<d, q>> # <<c, p>> => item'[d][q] = item[d][q]
      BY <2>1, WorkerStep
    <2>4. \/ item'[c][p].phase = "none"
          \/ item'[c][p].phase = "pending" /\ DependenciesImplemented(p)
      BY <2>1, WorkerStep
    <2> QED BY <1>1, <2>2, <2>3, <2>4 DEF Going, Recording
  <1>4. ASSUME NEW status \in Open, NEW phase \in Recording \ {"record"},
               item[c][p].phase \in Going,
               RecordLedger(p, status, item[c][p].hash), Goes(c, p, phase),
               UNCHANGED <<deps, other, built>>
        PROVE Kept
    <2>1. /\ \A d \in Commands, q \in Plans : <<d, q>> # <<c, p>> => item'[d][q] = item[d][q]
          /\ item'[c][p].phase = phase
      BY <1>4, WorkerStep
    <2>2. \A q \in Plans : ledger'[q] = ledger[q] \/ ~IsImplemented(ledger'[q])
      <3>1. RecordLedger(p, status, item[c][p].hash)
        BY <1>4
      <3>2. ledger'[p].status = status /\ \A q \in Plans \ {p} : ledger'[q] = ledger[q]
        BY <3>1, RecordStep
      <3>3. status # "implemented"
        BY DEF Open
      <3> QED BY <3>2, <3>3 DEF IsImplemented
    <2>3. ASSUME NEW d \in Commands, NEW q \in Plans
          PROVE /\ item'[d][q].phase = "record" => item'[d][q] = item[d][q]
                /\ item'[d][q].phase \in Going => item[d][q].phase \in Going
      <3>1. CASE <<d, q>> = <<c, p>>
        BY <1>4, <2>1, <3>1 DEF Recording
      <3>2. CASE <<d, q>> # <<c, p>>
        BY <2>1, <3>2
      <3> QED BY <3>1, <3>2
    <2>4. RunsAreBacked'
      BY <1>4, <2>2, <2>3, StillBacked DEF BatchInv
    <2>5. PlansInOrder'
      BY <1>4, <2>3, StillInOrder DEF BatchInv, RowsOK
    <2>6. InProgressIsActive'
      <3>1. \E d \in Commands : item'[d][p].phase \in Recording
        BY <2>1
      <3>2. \A d \in Commands, q \in Plans \ {p} : item'[d][q] = item[d][q]
        BY <2>1
      <3>3. other' = other
        BY <1>4
      <3> QED BY <1>4, <3>1, <3>2, <3>3, RecordKeepsActive DEF BatchInv
    <2> QED BY <2>4, <2>5, <2>6 DEF Kept
  <1>5. CASE RecordPending(c, p)
    BY <1>4, <1>5 DEF RecordPending, Going, Recording, Open
  <1>6. CASE RecordInProgress(c, p)
    BY <1>4, <1>6 DEF RecordInProgress, Going, Recording, Open
  <1>7. CASE RunEnds(c, p)
    <2>1. PICK ok \in BOOLEAN :
            /\ item' = [item EXCEPT ![c][p] = [item[c][p] EXCEPT !.phase = "record", !.ok = ok]]
            /\ built' = IF ok THEN built \cup {<<p, item[c][p].hash>>} ELSE built
      BY <1>7 DEF RunEnds, SetItem
    <2>2. /\ \A d \in Commands, q \in Plans : <<d, q>> # <<c, p>> => item'[d][q] = item[d][q]
          /\ item'[c][p] = [item[c][p] EXCEPT !.phase = "record", !.ok = ok]
      BY <1>0, <2>1
    <2>3. /\ item'[c][p].phase = "record" /\ item'[c][p].ok = ok
          /\ item'[c][p].hash = item[c][p].hash
      BY <1>0, <2>2 DEF ItemState
    <2>4. item[c][p].phase = "run" /\ UNCHANGED <<deps, ledger, other, orphans>>
      BY <1>7 DEF RunEnds
    <2>5. item'[c][p].ok => <<p, item'[c][p].hash>> \in built'
      BY <2>1, <2>3
    <2>6. built \subseteq built'
      BY <2>1
    <2>7. ASSUME NEW d \in Commands, NEW q \in Plans
          PROVE /\ item'[d][q].phase = "record" /\ item'[d][q].ok =>
                     item'[d][q] = item[d][q] \/ <<q, item'[d][q].hash>> \in built'
                /\ item'[d][q].phase \in Going => item[d][q].phase \in Going
                /\ item[d][q].phase \in Recording => item'[d][q].phase \in Recording
      <3>1. CASE <<d, q>> = <<c, p>>
        BY <2>3, <2>4, <2>5, <3>1 DEF Going, Recording
      <3>2. CASE <<d, q>> # <<c, p>>
        BY <2>2, <3>2
      <3> QED BY <3>1, <3>2
    <2>8. RunsAreBacked'
      BY <2>4, <2>6, <2>7, StillBacked DEF BatchInv
    <2>9. PlansInOrder'
      BY <2>4, <2>6, <2>7, StillInOrder DEF BatchInv, RowsOK
    <2>10. InProgressIsActive'
      BY <2>4, <2>7, StillActive DEF BatchInv
    <2> QED BY <2>8, <2>9, <2>10 DEF Kept
  <1>8. CASE RecordTerminal(c, p)
    <2>1. /\ RecordLedger(p, Terminal(item[c][p]), item[c][p].hash)
          /\ Complete(c, p, Terminal(item[c][p]))
          /\ item[c][p].phase = "record" /\ UNCHANGED <<deps, other, built>>
      BY <1>8 DEF RecordTerminal
    <2>2. /\ \A d \in Commands, q \in Plans : <<d, q>> # <<c, p>> => item'[d][q] = item[d][q]
          /\ item'[c][p].phase = "none"
      BY <2>1, WorkerStep
    <2>3. \A q \in Plans :
            \/ ledger'[q] = ledger[q]
            \/ ~IsImplemented(ledger'[q])
            \/ \E h \in Texts : <<q, h>> \in built'
      <3> SUFFICES ASSUME IsImplemented(ledger'[p]) PROVE \E h \in Texts : <<p, h>> \in built'
        BY <2>1, RecordStep
      <3>1. Terminal(item[c][p]) = "implemented"
        BY <2>1, RecordStep DEF IsImplemented
      <3>2. item[c][p].ok
        BY <3>1 DEF Terminal
      <3>3. <<p, item[c][p].hash>> \in built
        BY <2>1, <3>2 DEF BatchInv, RunsAreBacked
      <3> QED BY <1>0, <2>1, <3>3 DEF ItemState
    <2>4. ASSUME NEW d \in Commands, NEW q \in Plans
          PROVE /\ item'[d][q].phase = "record" => item'[d][q] = item[d][q]
                /\ item'[d][q].phase \in Going => item[d][q].phase \in Going
      <3>1. CASE <<d, q>> = <<c, p>>
        BY <2>2, <3>1 DEF Going
      <3>2. CASE <<d, q>> # <<c, p>>
        BY <2>2, <3>2
      <3> QED BY <3>1, <3>2
    <2>5. RunsAreBacked'
      BY <2>1, <2>3, <2>4, StillBacked DEF BatchInv
    <2>6. PlansInOrder'
      BY <2>1, <2>4, StillInOrder DEF BatchInv, RowsOK
    <2>7. InProgressIsActive'
      <3>1. Terminal(item[c][p]) \notin Open
        BY DEF Terminal, Open
      <3>2. \A d \in Commands, q \in Plans \ {p} : item'[d][q] = item[d][q]
        BY <2>2
      <3>3. other' = other
        BY <2>1
      <3> QED BY <2>1, <3>1, <3>2, <3>3, RecordKeepsActive DEF BatchInv
    <2> QED BY <2>5, <2>6, <2>7 DEF Kept
  <1>9. CASE BackendFails(c, p)
    <2>1. Complete(c, p, "failed") /\ UNCHANGED <<deps, ledger, built, other>>
      BY <1>9 DEF BackendFails
    <2>2. /\ \A d \in Commands, q \in Plans : <<d, q>> # <<c, p>> => item'[d][q] = item[d][q]
          /\ item'[c][p].phase = "none"
      BY <2>1, WorkerStep
    <2>3. /\ item[c][p].phase \in {"check", "pending", "in_progress", "record"}
          /\ orphans' = IF item[c][p].phase \in {"in_progress", "record"} /\ ledger[p].status \in Open
                        THEN orphans \cup {p} ELSE orphans
      BY <1>9 DEF BackendFails
    <2>4. item[c][p].phase \in Recording => p \in orphans' \/ ledger[p].status \notin Open
      BY <2>3 DEF Recording
    <2>5. orphans \subseteq orphans'
      BY <2>3
    <2> QED BY <1>1, <2>1, <2>2, <2>4, <2>5 DEF Going
  <1> QED BY <1>2, <1>3, <1>5, <1>6, <1>7, <1>8, <1>9 DEF ItemSteps

\* So do the other invocation and whoever edits a Plan.
LEMMA OthersKeep ==
  ASSUME RowsOK, BatchInv,
         (\E p \in Plans : Edit(p) \/ OtherBegins(p)) \/ OtherEnds \/ UNCHANGED planVars
  PROVE  Kept
  <1>1. CASE (\E p \in Plans : Edit(p)) \/ UNCHANGED planVars
    <2>1. UNCHANGED <<deps, ledger, item, other, built, orphans>>
      BY <1>1 DEF Edit, planVars
    <2>2. RunsAreBacked'
      BY <2>1 DEF BatchInv, RunsAreBacked
    <2>3. PlansInOrder'
      BY <2>1 DEF BatchInv, PlansInOrder
    <2>4. InProgressIsActive'
      BY <2>1 DEF BatchInv, InProgressIsActive
    <2> QED BY <2>2, <2>3, <2>4 DEF Kept
  <1>2. ASSUME NEW p \in Plans, OtherBegins(p) PROVE Kept
    <2>1. /\ RecordLedger(p, "in_progress", text[p]) /\ other = None /\ other' = <<p, text[p]>>
          /\ UNCHANGED <<deps, item, built>>
      BY <1>2 DEF OtherBegins
    <2>2. \A q \in Plans : ledger'[q] = ledger[q] \/ ~IsImplemented(ledger'[q])
      <3>1. RecordLedger(p, "in_progress", text[p])
        BY <2>1
      <3>2. ledger'[p].status = "in_progress" /\ \A q \in Plans \ {p} : ledger'[q] = ledger[q]
        BY <3>1, RecordStep
      <3> QED BY <3>2 DEF IsImplemented
    <2>3. RunsAreBacked'
      BY <2>1, <2>2, StillBacked DEF BatchInv
    <2>4. PlansInOrder'
      BY <2>1 DEF BatchInv, PlansInOrder
    <2>5. other' # None /\ other'[1] = p
      <3>1. text[p] \in Texts
        BY DEF RowsOK
      <3> QED BY <2>1, <3>1, PlanAssumption DEF PlanAssumption, Texts
    <2>6. InProgressIsActive'
      BY <2>1, <2>5, RecordKeepsActive DEF BatchInv
    <2> QED BY <2>3, <2>4, <2>6 DEF Kept
  <1>3. CASE OtherEnds
    <2>1. PICK ok \in BOOLEAN :
            /\ RecordLedger(other[1], IF ok THEN "implemented" ELSE "failed", other[2])
            /\ built' = IF ok THEN built \cup {other} ELSE built
      BY <1>3 DEF OtherEnds
    <2>2. other \in Plans \X Texts /\ UNCHANGED <<deps, item>>
      BY <1>3 DEF OtherEnds, RowsOK
    <2>3. PICK p \in Plans, h \in Texts : other = <<p, h>>
      BY <2>2
    <2>4. PICK status \in {"implemented", "failed"} :
            /\ RecordLedger(p, status, h)
            /\ status = "implemented" => <<p, h>> \in built'
      BY <2>1, <2>3
    <2>5. built \subseteq built'
      BY <2>1
    <2>6. \A q \in Plans :
            \/ ledger'[q] = ledger[q]
            \/ ~IsImplemented(ledger'[q])
            \/ \E k \in Texts : <<q, k>> \in built'
      BY <2>3, <2>4, RecordStep DEF IsImplemented
    <2>7. RunsAreBacked'
      BY <2>2, <2>5, <2>6, StillBacked DEF BatchInv
    <2>8. PlansInOrder'
      BY <2>2, <2>5 DEF BatchInv, PlansInOrder
    <2>9. InProgressIsActive'
      <3>1. \A q \in Plans \ {p} : other[1] # q
        BY <2>3
      <3>2. status \notin Open
        BY DEF Open
      <3> QED BY <2>2, <2>4, <3>1, <3>2, RecordKeepsActive DEF BatchInv
    <2> QED BY <2>7, <2>8, <2>9 DEF Kept
  <1> QED BY <1>1, <1>2, <1>3

-----------------------------------------------------------------------------
\* The inductive invariant holds of every execution.
LEMMA BatchInvHolds == PlanSpec => []BatchInv
  <1>1. PlanInit => BatchInv
    <2> SUFFICES ASSUME PlanInit PROVE BatchInv
      OBVIOUS
    <2>1. \A c \in Commands, p \in Plans : item[c][p].phase = "none"
      BY DEF PlanInit, NewItem
    <2>2. \A p \in Plans : ledger[p] = None \/ ledger[p].status = "invalid"
      BY DEF PlanInit
    <2>3. Resting
      BY <2>1 DEF Resting
    <2>4. RunsAreBacked
      BY <2>1, <2>2 DEF RunsAreBacked, IsImplemented
    <2>5. PlansInOrder
      BY <2>1 DEF PlansInOrder
    <2>6. InProgressIsActive
      BY <2>2 DEF InProgressIsActive, Open
    <2> QED BY <2>3, <2>4, <2>5, <2>6 DEF BatchInv
  <1>2. RowsOK /\ BatchInv /\ [PlanNext]_planVars => BatchInv'
    <2> SUFFICES ASSUME RowsOK, BatchInv, [PlanNext]_planVars PROVE BatchInv'
      OBVIOUS
    <2>1. Resting'
      BY RestingHolds DEF BatchInv
    <2>2. Kept
      BY CommandKeeps, CrashKeeps, WorkerKeeps, OthersKeep DEF PlanNext
    <2> QED BY <2>1, <2>2 DEF Kept, BatchInv
  <1> QED BY <1>1, <1>2, RowsHold, PTL DEF PlanSpec

\* However many commands and invocations overlap, a Plan's run starts only when a run of each
\* of its dependencies has succeeded (planbatch.classify, externalDependencyDiagnostics).
THEOREM PlansRunInOrder == PlanSpec => []PlansInOrder
  <1>1. BatchInv => PlansInOrder
    BY DEF BatchInv
  <1> QED BY <1>1, BatchInvHolds, PTL

\* A Plan whose ledger says that it is open is being implemented by somebody, or a crash or a
\* refused request kept its worker from recording how it ended (Implement).
THEOREM OpenLedgersAreActive == PlanSpec => []InProgressIsActive
  <1>1. BatchInv => InProgressIsActive
    BY DEF BatchInv
  <1> QED BY <1>1, BatchInvHolds, PTL

-----------------------------------------------------------------------------
(* The waves of a batch *)

\* Numbers that begin at zero and go on forever are all numbers.
LEMMA AllNumbers ==
  ASSUME NEW S, 0 \in S, \A n \in Nat : n \in S => n + 1 \in S
  PROVE  Nat \subseteq S
  <1> SUFFICES ASSUME Nat \ S # {} PROVE FALSE
    OBVIOUS
  <1>1. \E x \in Nat \ S : \A y \in Nat \ S : ~ (<<y, x>> \in OpToRel(<, Nat))
    BY WFMin, NatLessThanWellFounded, Zenon
  <1>2. PICK x \in Nat \ S : \A y \in Nat \ S : ~ (<<y, x>> \in OpToRel(<, Nat))
    BY <1>1
  <1>3. \A y \in Nat \ S : ~ (y < x)
    BY <1>2, Zenon DEF OpToRel
  <1>4. x # 0
    OBVIOUS
  <1>5. x - 1 \in Nat /\ x - 1 < x /\ (x - 1) + 1 = x
    BY <1>4
  <1>6. x - 1 \in S
    BY <1>3, <1>5
  <1> QED BY <1>5, <1>6

\* The Plans whose dependencies, of those selected, are done.
Freed(paths, g, done) == {p \in paths : g[p] \cap paths \subseteq done}

\* The Plans that can be done in so many waves, by the waves before.
Layers(paths, g) ==
  CHOOSE u : u = [n \in Nat |-> IF n = 0 THEN {} ELSE Freed(paths, g, u[n - 1])]

\* The same up to wave n.
LayersTo(u, n, paths, g) ==
  u = [i \in 0 .. n |-> IF i = 0 THEN {} ELSE Freed(paths, g, u[i - 1])]

\* The waves of paths, by the dependencies g.
WavesBy(paths, g) ==
  [n \in 1 .. Cardinality(paths) + 1 |-> Layers(paths, g)[n] \ Layers(paths, g)[n - 1]]

\* These are the waves that a batch goes through.
LEMMA WavesAreDifferences ==
  ASSUME NEW paths
  PROVE  Waves(paths) = WavesBy(paths, deps)
  BY DEF Waves, WavesBy, Layers, Freed

\* The first waves are the same however many there are to come.
LEMMA LayersAgree ==
  ASSUME NEW paths, NEW g, NEW n \in Nat, NEW m \in Nat, NEW u, NEW v,
         LayersTo(u, n, paths, g), LayersTo(v, m, paths, g)
  PROVE  \A i \in Nat : i <= n /\ i <= m => u[i] = v[i]
  <1> DEFINE S == {i \in Nat : i <= n /\ i <= m => u[i] = v[i]}
  <1>1. 0 \in S
    BY DEF LayersTo
  <1>2. ASSUME NEW i \in Nat, i \in S PROVE i + 1 \in S
    <2> SUFFICES ASSUME i + 1 <= n, i + 1 <= m PROVE u[i + 1] = v[i + 1]
      OBVIOUS
    <2>1. u[i] = v[i]
      BY <1>2
    <2>2. /\ i + 1 \in 0 .. n /\ i + 1 \in 0 .. m
          /\ i + 1 # 0 /\ (i + 1) - 1 = i
      OBVIOUS
    <2>3. u[i + 1] = Freed(paths, g, u[i])
      BY <2>2 DEF LayersTo
    <2>4. v[i + 1] = Freed(paths, g, v[i])
      BY <2>2 DEF LayersTo
    <2> QED BY <2>1, <2>3, <2>4
  <1> HIDE DEF S
  <1>3. Nat \subseteq S
    BY <1>1, <1>2, AllNumbers
  <1> QED BY <1>3 DEF S

\* There are as many waves as one likes.
LEMMA LayersExist ==
  ASSUME NEW paths, NEW g
  PROVE  \A n \in Nat : \E u : LayersTo(u, n, paths, g)
  <1> DEFINE S == {n \in Nat : \E u : LayersTo(u, n, paths, g)}
  <1>1. 0 \in S
    <2> DEFINE u == [i \in 0 .. 0 |-> {}]
               ui(i) == {}
               wi(i) == IF i = 0 THEN {} ELSE Freed(paths, g, u[i - 1])
    <2>1. \A i \in 0 .. 0 : ui(i) = wi(i)
      OBVIOUS
    <2>2. [i \in 0 .. 0 |-> ui(i)] = [i \in 0 .. 0 |-> wi(i)]
      <3> HIDE DEF ui, wi
      <3> QED BY <2>1
    <2>3. LayersTo(u, 0, paths, g)
      BY <2>2, Zenon DEF LayersTo
    <2> QED BY <2>3
  <1>2. ASSUME NEW n \in Nat, n \in S PROVE n + 1 \in S
    <2>1. PICK u : LayersTo(u, n, paths, g)
      BY <1>2
    <2> DEFINE next == Freed(paths, g, u[n])
               v == [i \in 0 .. n + 1 |-> IF i = n + 1 THEN next ELSE u[i]]
               w == [i \in 0 .. n + 1 |->
                       IF i = 0 THEN {} ELSE Freed(paths, g, v[i - 1])]
    <2>2. ASSUME NEW i \in 0 .. n + 1 PROVE v[i] = w[i]
      <3>1. CASE i = n + 1
        <4>1. v[i] = next /\ v[i - 1] = u[n] /\ i # 0
          BY <3>1
        <4>2. w[i] = Freed(paths, g, v[i - 1])
          BY <4>1
        <4> QED BY <4>1, <4>2
      <3>2. CASE i = 0
        <4>1. v[i] = u[i]
          BY <3>2
        <4>2. u[i] = {}
          BY <2>1, <3>2 DEF LayersTo
        <4> QED BY <3>2, <4>1, <4>2
      <3>3. CASE i # n + 1 /\ i # 0
        <4>1. i \in 0 .. n /\ i - 1 \in 0 .. n + 1 /\ i - 1 # n + 1
          BY <3>3
        <4>2. v[i] = u[i] /\ v[i - 1] = u[i - 1]
          BY <3>3, <4>1
        <4>3. u[i] = Freed(paths, g, u[i - 1])
          BY <2>1, <3>3, <4>1, Zenon DEF LayersTo
        <4>4. w[i] = Freed(paths, g, v[i - 1])
          BY <3>3
        <4> QED BY <4>2, <4>3, <4>4
      <3> QED BY <3>1, <3>2, <3>3
    <2>3. v = w
      <3> HIDE DEF next
      <3>1. \A i \in 0 .. n + 1 : v[i] = w[i]
        BY <2>2
      <3> DEFINE vi(i) == IF i = n + 1 THEN next ELSE u[i]
                 wi(i) == IF i = 0 THEN {} ELSE Freed(paths, g, v[i - 1])
      <3>2. \A i \in 0 .. n + 1 : vi(i) = wi(i)
        BY <3>1
      <3> HIDE DEF vi, wi
      <3>3. [i \in 0 .. n + 1 |-> vi(i)] = [i \in 0 .. n + 1 |-> wi(i)]
        BY <3>2
      <3> QED BY <3>3 DEF vi, wi
    <2>4. LayersTo(v, n + 1, paths, g)
      BY <2>3 DEF LayersTo
    <2> QED BY <2>4
  <1> HIDE DEF S
  <1>3. Nat \subseteq S
    BY <1>1, <1>2, AllNumbers
  <1> QED BY <1>3 DEF S

\* So the waves follow from one another without end.
LEMMA LayersFollow ==
  ASSUME NEW paths, NEW g
  PROVE  /\ Layers(paths, g)[0] = {}
         /\ \A n \in Nat :
              Layers(paths, g)[n + 1] = Freed(paths, g, Layers(paths, g)[n])
  <1> DEFINE to(n) == CHOOSE a : LayersTo(a, n, paths, g)
             u == [n \in Nat |-> to(n)[n]]
             ui(n) == to(n)[n]
             wi(n) == IF n = 0 THEN {} ELSE Freed(paths, g, u[n - 1])
             F == Layers(paths, g)
  <1>1. ASSUME NEW n \in Nat PROVE LayersTo(to(n), n, paths, g)
    BY LayersExist, Zenon
  <1> HIDE DEF to
  <1>2. ASSUME NEW n \in Nat PROVE ui(n) = wi(n)
    <2>1. to(n)[n] = IF n = 0 THEN {} ELSE Freed(paths, g, to(n)[n - 1])
      <3>1. n \in 0 .. n
        OBVIOUS
      <3> QED BY <1>1, <3>1, Zenon DEF LayersTo
    <2>2. CASE n = 0
      BY <2>1, <2>2
    <2>3. CASE n # 0
      <3>1. n - 1 \in Nat /\ n - 1 <= n - 1 /\ n - 1 <= n
        BY <2>3
      <3>2. LayersTo(to(n), n, paths, g) /\ LayersTo(to(n - 1), n - 1, paths, g)
        BY <1>1, <3>1
      <3>3. to(n)[n - 1] = to(n - 1)[n - 1]
        BY <3>1, <3>2, LayersAgree
      <3>4. u[n - 1] = to(n - 1)[n - 1]
        BY <3>1
      <3> QED BY <2>1, <2>3, <3>3, <3>4
    <2> QED BY <2>2, <2>3
  <1>3. u = [n \in Nat |-> wi(n)]
    <2> HIDE DEF ui, wi
    <2>1. [n \in Nat |-> ui(n)] = [n \in Nat |-> wi(n)]
      BY <1>2
    <2> QED BY <2>1 DEF ui
  <1>4. \E v : v = [n \in Nat |-> IF n = 0 THEN {} ELSE Freed(paths, g, v[n - 1])]
    BY <1>3
  <1>5. F = [n \in Nat |-> IF n = 0 THEN {} ELSE Freed(paths, g, F[n - 1])]
    BY <1>4, Zenon DEF Layers
  <1> HIDE DEF F
  <1>6. F[0] = {}
    BY <1>5
  <1>7. ASSUME NEW n \in Nat
        PROVE F[n + 1] = Freed(paths, g, F[n])
    <2>1. n + 1 \in Nat /\ n + 1 # 0 /\ (n + 1) - 1 = n
      OBVIOUS
    <2> QED BY <1>5, <2>1, Zenon
  <1> QED BY <1>6, <1>7 DEF F

\* What can be done in so many waves can be done in more, and once a wave adds nothing none does.
LEMMA LayersGrow ==
  ASSUME NEW paths, NEW g
  PROVE  /\ \A n \in Nat : Layers(paths, g)[n] \subseteq Layers(paths, g)[n + 1]
         /\ \A m, n \in Nat : m <= n => Layers(paths, g)[m] \subseteq Layers(paths, g)[n]
         /\ \A m, n \in Nat :
              m <= n /\ Layers(paths, g)[m + 1] \subseteq Layers(paths, g)[m] =>
                Layers(paths, g)[n + 1] \subseteq Layers(paths, g)[n]
  <1> DEFINE F == Layers(paths, g)
  <1>0. F[0] = {} /\ \A n \in Nat : F[n + 1] = Freed(paths, g, F[n])
    BY LayersFollow
  <1>1. F[0] = {}
    BY <1>0
  <1>2. \A n \in Nat : F[n + 1] = Freed(paths, g, F[n])
    BY <1>0
  <1> HIDE DEF F
  <1>3. \A n \in Nat : F[n] \subseteq F[n + 1]
    <2> DEFINE S == {n \in Nat : F[n] \subseteq F[n + 1]}
    <2>1. 0 \in S
      BY <1>1
    <2>2. ASSUME NEW n \in Nat, n \in S PROVE n + 1 \in S
      <3>1. F[n] \subseteq F[n + 1]
        BY <2>2
      <3>2. /\ F[n + 1] = Freed(paths, g, F[n])
            /\ F[(n + 1) + 1] = Freed(paths, g, F[n + 1])
        BY <1>2
      <3> QED BY <3>1, <3>2 DEF Freed
    <2> HIDE DEF S
    <2>3. Nat \subseteq S
      BY <2>1, <2>2, AllNumbers
    <2> QED BY <2>3 DEF S
  <1>4. ASSUME NEW m \in Nat PROVE \A n \in Nat : m <= n => F[m] \subseteq F[n]
    <2> DEFINE S == {n \in Nat : m <= n => F[m] \subseteq F[n]}
    <2>1. 0 \in S
      OBVIOUS
    <2>2. ASSUME NEW n \in Nat, n \in S PROVE n + 1 \in S
      <3>1. CASE m = n + 1
        BY <3>1
      <3>2. CASE m # n + 1
        <4>1. m <= n + 1 => m <= n
          BY <3>2
        <4> QED BY <1>3, <2>2, <4>1
      <3> QED BY <3>1, <3>2
    <2> HIDE DEF S
    <2>3. Nat \subseteq S
      BY <2>1, <2>2, AllNumbers
    <2> QED BY <2>3 DEF S
  <1>5. ASSUME NEW m \in Nat, F[m + 1] \subseteq F[m]
        PROVE \A n \in Nat : m <= n => F[n + 1] \subseteq F[n]
    <2> DEFINE S == {n \in Nat : m <= n => F[n + 1] \subseteq F[n]}
    <2>1. 0 \in S
      BY <1>5
    <2>2. ASSUME NEW n \in Nat, n \in S PROVE n + 1 \in S
      <3>1. CASE m = n + 1
        BY <1>5, <3>1
      <3>2. CASE m # n + 1
        <4>1. m <= n + 1 => m <= n
          BY <3>2
        <4>2. /\ F[n + 1] = Freed(paths, g, F[n])
              /\ F[(n + 1) + 1] = Freed(paths, g, F[n + 1])
          BY <1>2
        <4> QED BY <2>2, <4>1, <4>2 DEF Freed
      <3> QED BY <3>1, <3>2
    <2> HIDE DEF S
    <2>3. Nat \subseteq S
      BY <2>1, <2>2, AllNumbers
    <2> QED BY <2>3 DEF S
  <1> QED BY <1>3, <1>4, <1>5 DEF F

\* The waves W of paths, by the dependencies g among them: no Plan is in two of them, what it
\* depends on is in an earlier one, and there are no more of them than Plans.
Layered(W, paths, g) ==
  /\ DOMAIN W = 1 .. Cardinality(paths) + 1
  /\ \A n \in DOMAIN W : W[n] \subseteq paths
  /\ \A m, n \in DOMAIN W : m < n => W[m] \cap W[n] = {}
  /\ \A n \in DOMAIN W : \A p \in W[n] : \A d \in g[p] \cap paths :
       \E m \in DOMAIN W : m < n /\ d \in W[m]
  /\ \A n \in DOMAIN W : W[n] # {} => n <= Cardinality(paths)

\* Waves are what they are called.
LEMMA WavesAreLayered ==
  ASSUME NEW paths \in SUBSET Plans
  PROVE  Layered(Waves(paths), paths, deps)
  <1> DEFINE F == Layers(paths, deps)
             W == Waves(paths)
             N == Cardinality(paths)
  <1>1. IsFiniteSet(paths) /\ N \in Nat
    BY PlanAssumption, FS_Subset, FS_CardinalityType DEF PlanAssumption
  <1>2. W = [n \in 1 .. N + 1 |-> F[n] \ F[n - 1]]
    BY WavesAreDifferences DEF WavesBy
  <1>3. F[0] = {} /\ \A n \in Nat : F[n + 1] = Freed(paths, deps, F[n])
    BY LayersFollow
  <1>4. /\ \A m, n \in Nat : m <= n => F[m] \subseteq F[n]
        /\ \A m, n \in Nat : m <= n /\ F[m + 1] \subseteq F[m] => F[n + 1] \subseteq F[n]
    BY LayersGrow
  <1> HIDE DEF F, W, N
  <1>5. DOMAIN W = 1 .. N + 1 /\ \A n \in 1 .. N + 1 : W[n] = F[n] \ F[n - 1]
    BY <1>2
  <1>6. ASSUME NEW n \in 1 .. N + 1
        PROVE n - 1 \in Nat /\ n \in Nat /\ (n - 1) + 1 = n
    BY <1>1
  <1>7. ASSUME NEW n \in 1 .. N + 1 PROVE W[n] \subseteq paths
    <2>1. F[n] \subseteq paths
      BY <1>3, <1>6 DEF Freed
    <2> QED BY <1>5, <2>1
  <1>8. ASSUME NEW m \in 1 .. N + 1, NEW n \in 1 .. N + 1, m < n PROVE W[m] \cap W[n] = {}
    <2>1. m <= n - 1 /\ m \in Nat /\ n - 1 \in Nat
      BY <1>1, <1>8
    <2>2. F[m] \subseteq F[n - 1]
      BY <1>4, <2>1
    <2> QED BY <1>5, <2>2
  <1>9. \A n \in Nat : \A d \in F[n] : \E m \in Nat \ {0} : m <= n /\ d \in F[m] \ F[m - 1]
    <2> DEFINE S == {n \in Nat : \A d \in F[n] : \E m \in Nat \ {0} : m <= n /\ d \in F[m] \ F[m - 1]}
    <2>1. 0 \in S
      BY <1>3
    <2>2. ASSUME NEW n \in Nat, n \in S PROVE n + 1 \in S
      <3> SUFFICES ASSUME NEW d \in F[n + 1]
                   PROVE \E m \in Nat \ {0} : m <= n + 1 /\ d \in F[m] \ F[m - 1]
        OBVIOUS
      <3>1. CASE d \in F[n]
        <4>1. PICK m \in Nat \ {0} : m <= n /\ d \in F[m] \ F[m - 1]
          BY <2>2, <3>1
        <4> QED BY <4>1
      <3>2. CASE d \notin F[n]
        <4>1. n + 1 \in Nat \ {0} /\ (n + 1) - 1 = n /\ n + 1 <= n + 1
          OBVIOUS
        <4> QED BY <3>2, <4>1
      <3> QED BY <3>1, <3>2
    <2> HIDE DEF S
    <2>3. Nat \subseteq S
      BY <2>1, <2>2, AllNumbers
    <2> QED BY <2>3 DEF S
  <1>10. ASSUME NEW n \in 1 .. N + 1, NEW p \in W[n], NEW d \in deps[p] \cap paths
         PROVE \E m \in 1 .. N + 1 : m < n /\ d \in W[m]
    <2>1. p \in F[n]
      BY <1>5
    <2>2. deps[p] \cap paths \subseteq F[n - 1]
      BY <1>3, <1>6, <2>1 DEF Freed
    <2>3. PICK m \in Nat \ {0} : m <= n - 1 /\ d \in F[m] \ F[m - 1]
      BY <1>6, <1>9, <2>2
    <2>4. m \in 1 .. N + 1 /\ m < n
      BY <1>1, <2>3
    <2> QED BY <1>5, <2>3, <2>4
  <1>11. ASSUME NEW n \in 1 .. N + 1, W[n] # {} PROVE n <= N
    <2> SUFFICES ASSUME n = N + 1 PROVE FALSE
      BY <1>1
    <2>1. ASSUME NEW m \in 1 .. N + 1 PROVE W[m] # {}
      <3> SUFFICES ASSUME W[m] = {} PROVE FALSE
        OBVIOUS
      <3>1. F[m] \subseteq F[m - 1]
        BY <1>5
      <3>2. m - 1 \in Nat /\ n - 1 \in Nat /\ m - 1 <= n - 1 /\ (m - 1) + 1 = m /\ (n - 1) + 1 = n
        BY <1>1
      <3>3. F[n] \subseteq F[n - 1]
        BY <1>4, <3>1, <3>2
      <3> QED BY <1>5, <1>11, <3>3
    <2> DEFINE f == [m \in 1 .. N + 1 |-> CHOOSE p : p \in W[m]]
    <2>2. ASSUME NEW m \in 1 .. N + 1 PROVE f[m] \in W[m]
      BY <2>1
    <2>3. f \in [1 .. N + 1 -> paths]
      BY <1>7, <2>2
    <2>4. ASSUME NEW a \in 1 .. N + 1, NEW b \in 1 .. N + 1, f[a] = f[b] PROVE a = b
      <3>1. f[a] \in W[a] \cap W[b]
        BY <2>2, <2>4
      <3> QED BY <1>1, <1>8, <3>1
    <2>5. f \in Injection(1 .. N + 1, paths)
      <3> HIDE DEF f
      <3> QED BY <2>3, <2>4 DEF Injection, IsInjective
    <2>6. Cardinality(1 .. N + 1) <= Cardinality(paths)
      <3> HIDE DEF f
      <3> QED BY <1>1, <2>5, FS_Injection
    <2>7. Cardinality(1 .. N + 1) = N + 1
      <3>1. 1 \in Int /\ N + 1 \in Int /\ ~ (1 > N + 1) /\ (N + 1) - 1 + 1 = N + 1
        BY <1>1
      <3>2. Cardinality(1 .. N + 1) = IF 1 > N + 1 THEN 0 ELSE (N + 1) - 1 + 1
        BY <3>1, FS_Interval
      <3> QED BY <3>1, <3>2
    <2> QED BY <1>1, <2>6, <2>7 DEF N
  <1> QED BY <1>5, <1>7, <1>8, <1>10, <1>11 DEF Layered, W, N

-----------------------------------------------------------------------------
(* What a command x with the locals its says of the Plans it gives up: W are the waves of *)
(* its paths, g the dependencies.                                                         *)

Many(x) == Cardinality(x.paths) > 1

\* NothingGivenUp, of one command.
Reasoned(x, g) ==
  \A p \in Plans :
    /\ x.result[p] = "blocked" =>
         \E d \in g[p] : x.result[d] \in {"failed", "blocked", "skipped"} \/ d \notin x.paths
    /\ x.result[p] = "skipped" =>
         \/ x.cancelled
         \/ x.stop /\ \E q \in x.paths : x.result[q] = "failed"

\* StopsAfterFailure, of one command.
Stops(x, its, W) ==
  x.stop /\ Many(x) =>
    \A m, n \in DOMAIN W : m < n =>
      \A p \in W[m], q \in W[n] :
        x.result[p] = "failed" => its[q].phase = "none" /\ x.result[q] # "implemented"

\* Every Plan of an earlier wave has been decided.
Decided(x, W) ==
  \A m \in DOMAIN W : m < x.wave => \A p \in W[m] : x.result[p] # None

\* Nothing has been done about a wave that has not been opened.
Ahead(x, its, W) ==
  \A m \in DOMAIN W : m > x.wave \/ (m = x.wave /\ x.pc = "waves") =>
    \A p \in W[m] : x.result[p] = None /\ its[p].phase = "none"

\* Workers take undecided Plans of the open wave, and leave none of them.
AtWork(x, its, W) ==
  x.pc = "wave" =>
    /\ \A p \in Plans : its[p].phase # "none" => x.result[p] = None
    /\ Many(x) =>
         /\ W[x.wave] # {}
         /\ \A p \in Plans : its[p].phase # "none" => p \in W[x.wave]
         /\ \A p \in W[x.wave] : x.result[p] # None \/ its[p].phase # "none"

\* A batch has stopped when a Plan of an earlier wave has failed and it was told to.
Stopping(x, W) ==
  /\ x.stopped => x.stop /\ \E q \in x.paths : x.result[q] = "failed"
  /\ x.stop /\ (\E m \in DOMAIN W : m < x.wave /\ \E p \in W[m] : x.result[p] = "failed") => x.stopped
  /\ x.pc = "wave" => ~x.stopped

\* Where a command is among its waves.
Walk(x, its, W, g) ==
  /\ Reasoned(x, g)
  /\ Stops(x, its, W)
  /\ x.pc \in {"idle", "crashed"} => \A p \in Plans : x.result[p] = None
  /\ x.pc \notin {"waves", "wave"} => x.wave = 1
  /\ x.pc = "idle" => ~x.stopped
  /\ x.pc = "waves" => Many(x)
  /\ x.pc \in {"waves", "wave"} =>
       /\ x.wave \in 1 .. Cardinality(x.paths) + 1
       /\ Many(x) => Decided(x, W) /\ Ahead(x, its, W) /\ Stopping(x, W)
       /\ AtWork(x, its, W)

WalkInv == \A c \in Commands : Walk(cmd[c], item[c], WavesBy(cmd[c].paths, deps), deps)

-----------------------------------------------------------------------------
(* One command's steps *)

\* No result is not one of the results.
LEMMA NoResult ==
  /\ None # "implemented" /\ None # "already_implemented" /\ None # "failed"
  /\ None # "blocked" /\ None # "skipped"
  BY PlanAssumption DEF PlanAssumption

\* A command that has not begun, or that died, has decided nothing.
LEMMA WalkAtRest ==
  ASSUME NEW x \in CommandRows, NEW its \in [Plans -> ItemState], NEW W, NEW g,
         x.pc \in {"idle", "crashed"}, x.wave = 1, ~x.stopped,
         \A p \in Plans : x.result[p] = None,
         \A n \in DOMAIN W : W[n] \subseteq Plans
  PROVE  Walk(x, its, W, g)
  <1>1. Reasoned(x, g)
    BY NoResult DEF Reasoned
  <1>2. Stops(x, its, W)
    BY NoResult DEF Stops
  <1> QED BY <1>1, <1>2 DEF Walk

\* Neither has one that has just begun.
LEMMA WalkBegins ==
  ASSUME NEW x \in CommandRows, NEW its \in [Plans -> ItemState], NEW W, NEW g,
         Layered(W, x.paths, g), Cardinality(x.paths) \in Nat,
         x.wave = 1, ~x.stopped,
         \A p \in Plans : x.result[p] = None,
         \/ x.pc = "waves" /\ Many(x) /\ \A p \in Plans : its[p].phase = "none"
         \/ x.pc = "wave" /\ ~Many(x)
  PROVE  Walk(x, its, W, g)
  <1>0. x.paths \subseteq Plans
    BY DEF CommandRows
  <1>1. \A n \in DOMAIN W : W[n] \subseteq Plans /\ n \in Nat /\ n >= 1
    BY <1>0 DEF Layered
  <1>2. Reasoned(x, g)
    BY NoResult DEF Reasoned
  <1>3. Stops(x, its, W)
    BY <1>1, NoResult DEF Stops
  <1>4. Decided(x, W)
    BY <1>1 DEF Decided
  <1>5. Many(x) => Ahead(x, its, W)
    BY <1>1 DEF Ahead
  <1>6. Many(x) => Stopping(x, W)
    BY <1>1 DEF Stopping
  <1>7. AtWork(x, its, W)
    BY DEF AtWork
  <1>8. x.wave \in 1 .. Cardinality(x.paths) + 1
    OBVIOUS
  <1> QED BY <1>2, <1>3, <1>4, <1>5, <1>6, <1>7, <1>8 DEF Walk

\* A worker decides about its Plan.
LEMMA WalkDecides ==
  ASSUME NEW x \in CommandRows, NEW its \in [Plans -> ItemState], NEW W, NEW g,
         NEW y \in CommandRows, NEW its2 \in [Plans -> ItemState], NEW p \in Plans,
         NEW state \in {"implemented", "already_implemented", "failed"},
         Layered(W, x.paths, g), Cardinality(x.paths) \in Nat, Walk(x, its, W, g),
         x.pc = "wave", its[p].phase # "none",
         /\ y.pc = x.pc /\ y.paths = x.paths /\ y.stop = x.stop /\ y.wave = x.wave
         /\ y.stopped = x.stopped /\ y.cancelled = x.cancelled,
         y.result[p] = state, \A q \in Plans \ {p} : y.result[q] = x.result[q],
         its2[p].phase = "none", \A q \in Plans \ {p} : its2[q] = its[q],
         g \in [Plans -> SUBSET Plans]
  PROVE  Walk(y, its2, W, g)
  <1>0. x.paths \subseteq Plans /\ \A n \in DOMAIN W : W[n] \subseteq Plans /\ n \in Nat
    BY DEF CommandRows, Layered
  <1>1. x.result[p] = None
    BY DEF Walk, AtWork
  <1>2. state # None /\ state # "blocked" /\ state # "skipped"
    BY NoResult
  <1>3. Many(y) <=> Many(x)
    BY DEF Many
  <1>4. Many(x) => x.wave \in DOMAIN W /\ p \in W[x.wave]
    BY DEF Walk, AtWork, Layered
  <1>5. ASSUME Many(x), NEW m \in DOMAIN W, m # x.wave PROVE p \notin W[m]
    BY <1>0, <1>4, <1>5 DEF Layered
  <1>6. \A q \in Plans : x.result[q] # None => y.result[q] = x.result[q]
    BY <1>1
  <1>7. Reasoned(y, g)
    <2>1. ASSUME NEW q \in Plans, y.result[q] = "blocked"
          PROVE \E d \in g[q] : y.result[d] \in {"failed", "blocked", "skipped"} \/ d \notin y.paths
      <3>1. x.result[q] = "blocked"
        BY <1>2, <2>1
      <3>2. PICK d \in g[q] : x.result[d] \in {"failed", "blocked", "skipped"} \/ d \notin x.paths
        BY <3>1 DEF Walk, Reasoned
      <3>3. d \in Plans
        OBVIOUS
      <3> QED BY <1>6, <3>2, <3>3, NoResult
    <2>2. ASSUME NEW q \in Plans, y.result[q] = "skipped"
          PROVE y.cancelled \/ (y.stop /\ \E r \in y.paths : y.result[r] = "failed")
      <3>1. x.result[q] = "skipped"
        BY <1>2, <2>2
      <3>2. x.cancelled \/ (x.stop /\ \E r \in x.paths : x.result[r] = "failed")
        BY <3>1 DEF Walk, Reasoned
      <3> QED BY <1>0, <1>6, <3>2, NoResult
    <2> QED BY <2>1, <2>2 DEF Reasoned
  <1>8. Stops(y, its2, W)
    <2> SUFFICES ASSUME x.stop, Many(x), NEW m \in DOMAIN W, NEW n \in DOMAIN W, m < n,
                        NEW q \in W[m], NEW r \in W[n], y.result[q] = "failed"
                 PROVE  its2[r].phase = "none" /\ y.result[r] # "implemented"
      BY <1>3 DEF Stops
    <2>0. q \in Plans /\ r \in Plans
      BY <1>0
    <2>1. CASE q = p
      <3>1. m = x.wave
        BY <1>5, <2>1
      <3>2. x.result[r] = None /\ its[r].phase = "none"
        BY <1>0, <3>1 DEF Walk, Ahead
      <3>3. r # p
        BY <3>2
      <3> QED BY <2>0, <3>2, <3>3, NoResult
    <2>2. CASE q # p
      <3>1. x.result[q] = "failed"
        BY <2>0, <2>2
      <3>2. its[r].phase = "none" /\ x.result[r] # "implemented"
        BY <3>1 DEF Walk, Stops
      <3>3. r # p
        BY <3>2
      <3> QED BY <2>0, <3>2, <3>3
    <2> QED BY <2>1, <2>2
  <1>9. Many(x) => Decided(y, W)
    BY <1>0, <1>6 DEF Walk, Decided
  <1>10. Many(x) => Ahead(y, its2, W)
    <2> SUFFICES ASSUME Many(x), NEW m \in DOMAIN W, m > x.wave, NEW q \in W[m]
                 PROVE  y.result[q] = None /\ its2[q].phase = "none"
      BY DEF Ahead
    <2>1. q # p
      BY <1>0, <1>4, <1>5
    <2>2. x.result[q] = None /\ its[q].phase = "none"
      BY DEF Walk, Ahead
    <2> QED BY <1>0, <2>1, <2>2
  <1>11. Many(x) => Stopping(y, W)
    <2> SUFFICES ASSUME Many(x) PROVE Stopping(y, W)
      OBVIOUS
    <2>1. ~y.stopped
      BY DEF Walk, Stopping
    <2>2. ASSUME NEW m \in DOMAIN W, m < y.wave, NEW q \in W[m], y.result[q] = "failed", y.stop
          PROVE FALSE
      <3>1. q # p
        BY <1>0, <1>5, <2>2
      <3>2. x.result[q] = "failed"
        BY <1>0, <2>2, <3>1
      <3> QED BY <2>1, <2>2, <3>2 DEF Walk, Stopping
    <2> QED BY <2>1, <2>2 DEF Stopping
  <1>12. AtWork(y, its2, W)
    <2>1. ASSUME NEW q \in Plans, its2[q].phase # "none"
          PROVE q # p /\ y.result[q] = x.result[q] /\ its[q].phase # "none"
      BY <2>1
    <2>2. \A q \in Plans : its2[q].phase # "none" => y.result[q] = None
      BY <2>1 DEF Walk, AtWork
    <2>3. ASSUME Many(x)
          PROVE /\ W[x.wave] # {}
                /\ \A q \in Plans : its2[q].phase # "none" => q \in W[x.wave]
                /\ \A q \in W[x.wave] : y.result[q] # None \/ its2[q].phase # "none"
      <3>1. W[x.wave] # {}
        BY <2>3 DEF Walk, AtWork
      <3>2. \A q \in Plans : its2[q].phase # "none" => q \in W[x.wave]
        BY <2>1, <2>3 DEF Walk, AtWork
      <3>3. ASSUME NEW q \in W[x.wave] PROVE y.result[q] # None \/ its2[q].phase # "none"
        <4>1. q \in Plans
          BY <1>0, <1>4, <2>3
        <4>2. x.result[q] # None \/ its[q].phase # "none"
          BY <2>3 DEF Walk, AtWork
        <4> QED BY <1>2, <4>1, <4>2
      <3> QED BY <3>1, <3>2, <3>3
    <2> QED BY <1>3, <2>2, <2>3 DEF AtWork
  <1> QED BY <1>3, <1>7, <1>8, <1>9, <1>10, <1>11, <1>12 DEF Walk

\* A worker goes on with its Plan.
LEMMA WalkGoesOn ==
  ASSUME NEW x \in CommandRows, NEW its \in [Plans -> ItemState], NEW W, NEW g,
         NEW its2 \in [Plans -> ItemState], NEW p \in Plans,
         Layered(W, x.paths, g), Walk(x, its, W, g),
         x.pc = "wave", its[p].phase # "none", its2[p].phase # "none",
         \A q \in Plans \ {p} : its2[q] = its[q]
  PROVE  Walk(x, its2, W, g)
  <1>0. \A n \in DOMAIN W : W[n] \subseteq Plans
    BY DEF CommandRows, Layered
  <1>1. \A q \in Plans : its2[q].phase = "none" <=> its[q].phase = "none"
    OBVIOUS
  <1>2. Stops(x, its2, W)
    BY <1>0, <1>1 DEF Walk, Stops
  <1>3. Many(x) => Ahead(x, its2, W)
    BY <1>0, <1>1 DEF Walk, Ahead
  <1>4. AtWork(x, its2, W)
    <2>1. \A q \in Plans : its2[q].phase # "none" => x.result[q] = None
      BY <1>1 DEF Walk, AtWork
    <2>2. ASSUME Many(x)
          PROVE /\ W[x.wave] # {}
                /\ \A q \in Plans : its2[q].phase # "none" => q \in W[x.wave]
                /\ \A q \in W[x.wave] : x.result[q] # None \/ its2[q].phase # "none"
      <3>1. x.wave \in DOMAIN W
        BY <2>2 DEF Walk, Layered
      <3> QED BY <1>0, <1>1, <2>2, <3>1 DEF Walk, AtWork
    <2> QED BY <2>1, <2>2 DEF AtWork
  <1> QED BY <1>2, <1>3, <1>4 DEF Walk

\* The context of a command is cancelled.
LEMMA WalkIsCancelled ==
  ASSUME NEW x \in CommandRows, NEW its \in [Plans -> ItemState], NEW W, NEW g,
         NEW y \in CommandRows, Walk(x, its, W, g),
         /\ y.pc = x.pc /\ y.paths = x.paths /\ y.stop = x.stop /\ y.wave = x.wave
         /\ y.stopped = x.stopped /\ y.cancelled /\ y.result = x.result
  PROVE  Walk(y, its, W, g)
  <1>1. Many(y) <=> Many(x)
    BY DEF Many
  <1>2. Reasoned(y, g)
    BY DEF Walk, Reasoned
  <1>3. Stops(y, its, W)
    BY <1>1 DEF Walk, Stops
  <1>4. Many(x) /\ x.pc \in {"waves", "wave"} => Decided(y, W)
    BY DEF Walk, Decided
  <1>5. Many(x) /\ x.pc \in {"waves", "wave"} => Ahead(y, its, W)
    BY DEF Walk, Ahead
  <1>6. Many(x) /\ x.pc \in {"waves", "wave"} => Stopping(y, W)
    BY DEF Walk, Stopping
  <1>7. x.pc \in {"waves", "wave"} => AtWork(y, its, W)
    BY <1>1 DEF Walk, AtWork
  <1> QED BY <1>1, <1>2, <1>3, <1>4, <1>5, <1>6, <1>7 DEF Walk

\* A command returns, and gives up what is left when it was cancelled.
LEMMA WalkReturns ==
  ASSUME NEW x \in CommandRows, NEW its \in [Plans -> ItemState], NEW W, NEW g,
         NEW y \in CommandRows, NEW its2 \in [Plans -> ItemState],
         Layered(W, x.paths, g), Walk(x, its, W, g), g \in [Plans -> SUBSET Plans],
         /\ y.pc = "returned" /\ y.wave = 1
         /\ y.paths = x.paths /\ y.stop = x.stop /\ y.cancelled = x.cancelled,
         \A p \in Plans :
           \/ y.result[p] = x.result[p]
           \/ x.result[p] = None /\ y.result[p] = "skipped" /\ x.cancelled,
         \A p \in Plans : its2[p].phase = "none"
  PROVE  Walk(y, its2, W, g)
  <1>0. x.paths \subseteq Plans /\ \A n \in DOMAIN W : W[n] \subseteq Plans
    BY DEF CommandRows, Layered
  <1>1. Many(y) <=> Many(x)
    BY DEF Many
  <1>2. \A p \in Plans : x.result[p] # None => y.result[p] = x.result[p]
    OBVIOUS
  <1>3. Reasoned(y, g)
    <2>1. ASSUME NEW q \in Plans, y.result[q] = "blocked"
          PROVE \E d \in g[q] : y.result[d] \in {"failed", "blocked", "skipped"} \/ d \notin y.paths
      <3>1. x.result[q] = "blocked"
        BY <2>1
      <3>2. PICK d \in g[q] : x.result[d] \in {"failed", "blocked", "skipped"} \/ d \notin x.paths
        BY <3>1 DEF Walk, Reasoned
      <3>3. d \in Plans
        OBVIOUS
      <3> QED BY <1>2, <3>2, <3>3, NoResult
    <2>2. ASSUME NEW q \in Plans, y.result[q] = "skipped", ~y.cancelled
          PROVE y.stop /\ \E r \in y.paths : y.result[r] = "failed"
      <3>1. x.result[q] = "skipped" /\ ~x.cancelled
        BY <2>2
      <3>2. x.stop /\ \E r \in x.paths : x.result[r] = "failed"
        BY <3>1 DEF Walk, Reasoned
      <3> QED BY <1>0, <1>2, <3>2, NoResult
    <2> QED BY <2>1, <2>2 DEF Reasoned
  <1>4. Stops(y, its2, W)
    <2> SUFFICES ASSUME x.stop, Many(x), NEW m \in DOMAIN W, NEW n \in DOMAIN W, m < n,
                        NEW q \in W[m], NEW r \in W[n], y.result[q] = "failed"
                 PROVE  its2[r].phase = "none" /\ y.result[r] # "implemented"
      BY <1>1 DEF Stops
    <2>0. q \in Plans /\ r \in Plans
      BY <1>0
    <2>1. x.result[q] = "failed"
      BY <2>0
    <2>2. x.result[r] # "implemented"
      BY <2>1 DEF Walk, Stops
    <2>3. y.result[r] # "implemented"
      BY <2>0, <2>2
    <2> QED BY <2>0, <2>3
  <1> QED BY <1>3, <1>4 DEF Walk

\* A wave's Plan is blocked by one that an earlier wave has decided otherwise, or by one that is
\* not selected; and no Plan is classified as implemented or as skipped.
LEMMA ClassReasons ==
  ASSUME NEW x \in CommandRows, NEW its \in [Plans -> ItemState], NEW W, NEW p \in Plans,
         deps \in [Plans -> SUBSET Plans],
         Layered(W, x.paths, deps), Walk(x, its, W, deps), Many(x), x.pc = "waves",
         x.wave \in DOMAIN W, p \in W[x.wave]
  PROVE  /\ Classify(x, p) \notin {"implemented", "skipped"}
         /\ Classify(x, p) = "blocked" =>
              \E d \in deps[p] :
                \/ d \in x.paths /\ d \notin W[x.wave] /\ x.result[d] \in {"failed", "blocked", "skipped"}
                \/ d \notin x.paths
  <1>1. Classify(x, p) \in {"failed", "already_implemented", "blocked", None}
    BY DEF Classify
  <1>2. ASSUME Classify(x, p) = "blocked"
        PROVE  \E d \in deps[p] : ~DependencyImplemented(x, d)
    BY <1>2, NoResult DEF Classify
  <1>3. ASSUME NEW d \in deps[p], ~DependencyImplemented(x, d), d \in x.paths
        PROVE  d \notin W[x.wave] /\ x.result[d] \in {"failed", "blocked", "skipped"}
    <2>1. PICK m \in DOMAIN W : m < x.wave /\ d \in W[m]
      BY <1>3 DEF Layered
    <2>2. d \notin W[x.wave]
      BY <2>1 DEF Layered
    <2>3. x.result[d] # None
      BY <2>1 DEF Walk, Decided
    <2>4. x.result[d] \in Results
      BY <1>3 DEF CommandRows
    <2>5. x.result[d] \notin {"implemented", "already_implemented"}
      BY <1>3, <2>3 DEF DependencyImplemented
    <2> QED BY <2>2, <2>3, <2>4, <2>5 DEF Results
  <1> QED BY <1>1, <1>2, <1>3, NoResult

\* What a command's results say once a wave has been classified.
LEMMA ClassifiedResults ==
  ASSUME NEW x \in CommandRows, NEW its \in [Plans -> ItemState], NEW W, NEW y \in CommandRows,
         deps \in [Plans -> SUBSET Plans],
         Layered(W, x.paths, deps), Walk(x, its, W, deps), x.pc = "waves", x.wave \in DOMAIN W,
         y.paths = x.paths /\ y.stop = x.stop /\ y.cancelled = x.cancelled,
         \A p \in Plans \ W[x.wave] : y.result[p] = x.result[p],
         \A p \in W[x.wave] :
           \/ y.result[p] = Classify(x, p)
           \/ Classify(x, p) = None /\ y.result[p] = "skipped" /\ x.stopped
  PROVE  /\ \A p \in Plans : x.result[p] # None => y.result[p] = x.result[p]
         /\ Reasoned(y, deps)
         /\ \A m, n \in DOMAIN W : m < n =>
              \A p \in W[m], q \in W[n] :
                x.stop /\ y.result[p] = "failed" => y.result[q] # "implemented"
  <1>0. x.paths \subseteq Plans /\ \A n \in DOMAIN W : W[n] \subseteq x.paths /\ n \in Nat
    BY DEF CommandRows, Layered
  <1>1. Many(x)
    BY DEF Walk
  <1>2. \A p \in W[x.wave] : x.result[p] = None
    BY <1>1 DEF Walk, Ahead
  <1>3. \A p \in Plans : x.result[p] # None => y.result[p] = x.result[p]
    BY <1>2
  <1>4. Reasoned(y, deps)
    <2>1. ASSUME NEW p \in Plans, y.result[p] = "blocked"
          PROVE \E d \in deps[p] : y.result[d] \in {"failed", "blocked", "skipped"} \/ d \notin y.paths
      <3>1. CASE p \in W[x.wave]
        <4>1. Classify(x, p) = "blocked"
          BY <2>1, <3>1
        <4>2. PICK d \in deps[p] :
                \/ d \in x.paths /\ d \notin W[x.wave] /\ x.result[d] \in {"failed", "blocked", "skipped"}
                \/ d \notin x.paths
          BY <1>1, <3>1, <4>1, ClassReasons
        <4>3. d \in Plans
          OBVIOUS
        <4> QED BY <4>2, <4>3
      <3>2. CASE p \notin W[x.wave]
        <4>1. x.result[p] = "blocked"
          BY <2>1, <3>2
        <4>2. PICK d \in deps[p] : x.result[d] \in {"failed", "blocked", "skipped"} \/ d \notin x.paths
          BY <4>1 DEF Walk, Reasoned
        <4>3. d \in Plans
          OBVIOUS
        <4> QED BY <1>3, <4>2, <4>3, NoResult
      <3> QED BY <3>1, <3>2
    <2>2. ASSUME NEW p \in Plans, y.result[p] = "skipped", ~y.cancelled
          PROVE y.stop /\ \E q \in y.paths : y.result[q] = "failed"
      <3>1. x.stop /\ \E q \in x.paths : x.result[q] = "failed"
        <4>1. CASE p \in W[x.wave]
          <5>1. Classify(x, p) # "skipped"
            BY <1>1, <4>1, ClassReasons
          <5>2. x.stopped
            BY <2>2, <4>1, <5>1
          <5> QED BY <1>1, <5>2 DEF Walk, Stopping
        <4>2. CASE p \notin W[x.wave]
          <5>1. x.result[p] = "skipped" /\ ~x.cancelled
            BY <2>2, <4>2
          <5> QED BY <5>1 DEF Walk, Reasoned
        <4> QED BY <4>1, <4>2
      <3> QED BY <1>0, <1>3, <3>1, NoResult
    <2> QED BY <2>1, <2>2 DEF Reasoned
  <1>5. ASSUME NEW m \in DOMAIN W, NEW n \in DOMAIN W, m < n, NEW p \in W[m], NEW q \in W[n],
               x.stop, y.result[p] = "failed"
        PROVE  y.result[q] # "implemented"
    <2>0. p \in Plans /\ q \in Plans
      BY <1>0
    <2>1. CASE q \in W[x.wave]
      <3>1. Classify(x, q) # "implemented"
        BY <1>1, <2>0, <2>1, ClassReasons
      <3>2. y.result[q] = Classify(x, q) \/ y.result[q] = "skipped"
        BY <2>1
      <3> QED BY <3>1, <3>2
    <2>2. CASE q \notin W[x.wave] /\ p \in W[x.wave]
      <3>1. m = x.wave
        BY <1>0, <2>2 DEF Layered
      <3>2. x.result[q] = None
        BY <1>0, <1>1, <1>5, <3>1 DEF Walk, Ahead
      <3> QED BY <2>0, <2>2, <3>2, NoResult
    <2>3. CASE q \notin W[x.wave] /\ p \notin W[x.wave]
      <3>1. x.result[p] = "failed" /\ y.result[q] = x.result[q]
        BY <1>5, <2>0, <2>3
      <3>2. x.result[q] # "implemented"
        BY <1>1, <1>5, <3>1 DEF Walk, Stops
      <3> QED BY <3>1, <3>2
    <2> QED BY <2>1, <2>2, <2>3
  <1> QED BY <1>3, <1>4, <1>5

\* A batch that has stopped skips a wave.
LEMMA WalkSkips ==
  ASSUME NEW x \in CommandRows, NEW its \in [Plans -> ItemState], NEW W, NEW y \in CommandRows,
         deps \in [Plans -> SUBSET Plans], Cardinality(x.paths) \in Nat,
         Layered(W, x.paths, deps), Walk(x, its, W, deps), x.pc = "waves",
         W[x.wave] # {}, x.stopped,
         /\ y.pc = "waves" /\ y.paths = x.paths /\ y.stop = x.stop /\ y.wave = x.wave + 1
         /\ y.stopped /\ y.cancelled = x.cancelled,
         \A p \in Plans \ W[x.wave] : y.result[p] = x.result[p],
         \A p \in W[x.wave] :
           \/ y.result[p] = Classify(x, p) /\ Classify(x, p) # None
           \/ Classify(x, p) = None /\ y.result[p] = "skipped" /\ x.stopped
  PROVE  Walk(y, its, W, deps)
  <1>0. x.paths \subseteq Plans /\ \A n \in DOMAIN W : W[n] \subseteq x.paths /\ n \in Nat
    BY DEF CommandRows, Layered
  <1>1. Many(x) /\ (Many(y) <=> Many(x))
    BY DEF Walk, Many
  <1>2. x.wave \in DOMAIN W /\ x.wave <= Cardinality(x.paths)
    <2>1. x.wave \in DOMAIN W
      BY DEF Walk, Layered
    <2> QED BY <2>1 DEF Layered
  <1>3. y.wave \in 1 .. Cardinality(y.paths) + 1
    BY <1>0, <1>2 DEF Layered
  <1>4. /\ \A p \in Plans : x.result[p] # None => y.result[p] = x.result[p]
        /\ Reasoned(y, deps)
        /\ \A m, n \in DOMAIN W : m < n =>
             \A p \in W[m], q \in W[n] :
               x.stop /\ y.result[p] = "failed" => y.result[q] # "implemented"
    BY <1>2, ClassifiedResults
  <1>5. Decided(y, W)
    <2> SUFFICES ASSUME NEW m \in DOMAIN W, m < y.wave, NEW p \in W[m] PROVE y.result[p] # None
      BY DEF Decided
    <2>1. CASE m = x.wave
      BY <2>1, NoResult
    <2>2. CASE m # x.wave
      <3>1. m < x.wave
        BY <1>0, <1>2, <2>2
      <3>2. x.result[p] # None
        BY <1>1, <3>1 DEF Walk, Decided
      <3> QED BY <1>0, <1>4, <3>2
    <2> QED BY <2>1, <2>2
  <1>6. Ahead(y, its, W)
    <2> SUFFICES ASSUME NEW m \in DOMAIN W, m >= y.wave, NEW p \in W[m]
                 PROVE  y.result[p] = None /\ its[p].phase = "none"
      BY <1>0, <1>3 DEF Ahead
    <2>1. m > x.wave
      BY <1>0, <1>2
    <2>2. x.result[p] = None /\ its[p].phase = "none"
      BY <1>1, <2>1 DEF Walk, Ahead
    <2>3. p \notin W[x.wave]
      BY <1>2, <2>1 DEF Layered
    <2> QED BY <1>0, <2>2, <2>3
  <1>7. Stopping(y, W)
    <2>1. x.stop /\ \E q \in x.paths : x.result[q] = "failed"
      BY <1>1 DEF Walk, Stopping
    <2> QED BY <1>0, <1>4, <2>1, NoResult DEF Stopping
  <1>8. Stops(y, its, W)
    <2> SUFFICES ASSUME x.stop, NEW m \in DOMAIN W, NEW n \in DOMAIN W, m < n,
                        NEW q \in W[m], NEW r \in W[n], y.result[q] = "failed"
                 PROVE  its[r].phase = "none" /\ y.result[r] # "implemented"
      BY DEF Stops
    <2>1. y.result[r] # "implemented"
      BY <1>4
    <2>2. its[r].phase = "none"
      <3>1. CASE n >= x.wave
        BY <1>0, <1>1, <1>2, <3>1 DEF Walk, Ahead
      <3>2. CASE ~(n >= x.wave)
        <4>1. m # x.wave /\ m < x.wave
          BY <1>0, <1>2, <3>2
        <4>2. q \notin W[x.wave]
          BY <1>2, <4>1 DEF Layered
        <4>3. x.result[q] = "failed"
          BY <1>0, <4>2
        <4> QED BY <1>1, <4>3 DEF Walk, Stops
      <3> QED BY <3>1, <3>2
    <2> QED BY <2>1, <2>2
  <1>9. AtWork(y, its, W)
    BY DEF AtWork
  <1> QED BY <1>1, <1>3, <1>4, <1>5, <1>6, <1>7, <1>8, <1>9 DEF Walk

\* A batch that goes on opens a wave, and queues what is ready in it.
LEMMA WalkOpens ==
  ASSUME NEW x \in CommandRows, NEW its \in [Plans -> ItemState], NEW W, NEW y \in CommandRows,
         NEW its2 \in [Plans -> ItemState],
         deps \in [Plans -> SUBSET Plans], Cardinality(x.paths) \in Nat,
         Layered(W, x.paths, deps), Walk(x, its, W, deps), x.pc = "waves",
         W[x.wave] # {}, ~x.stopped,
         /\ y.pc = "wave" /\ y.paths = x.paths /\ y.stop = x.stop /\ y.wave = x.wave
         /\ ~y.stopped /\ y.cancelled = x.cancelled,
         \A p \in Plans \ W[x.wave] : y.result[p] = x.result[p],
         \A p \in W[x.wave] : y.result[p] = Classify(x, p),
         \A p \in Plans : its2[p].phase # "none" <=> p \in W[x.wave] /\ y.result[p] = None
  PROVE  Walk(y, its2, W, deps)
  <1>0. x.paths \subseteq Plans /\ \A n \in DOMAIN W : W[n] \subseteq x.paths /\ n \in Nat
    BY DEF CommandRows, Layered
  <1>1. Many(x) /\ (Many(y) <=> Many(x))
    BY DEF Walk, Many
  <1>2. x.wave \in DOMAIN W /\ x.wave \in 1 .. Cardinality(x.paths) + 1
    BY DEF Walk, Layered
  <1>3. /\ \A p \in Plans : x.result[p] # None => y.result[p] = x.result[p]
        /\ Reasoned(y, deps)
        /\ \A m, n \in DOMAIN W : m < n =>
             \A p \in W[m], q \in W[n] :
               x.stop /\ y.result[p] = "failed" => y.result[q] # "implemented"
    BY <1>2, ClassifiedResults
  <1>4. Decided(y, W)
    BY <1>0, <1>1, <1>3 DEF Walk, Decided
  <1>5. Ahead(y, its2, W)
    <2> SUFFICES ASSUME NEW m \in DOMAIN W, m > x.wave, NEW p \in W[m]
                 PROVE  y.result[p] = None /\ its2[p].phase = "none"
      BY DEF Ahead
    <2>1. p \notin W[x.wave]
      BY <1>2 DEF Layered
    <2>2. x.result[p] = None
      BY <1>1 DEF Walk, Ahead
    <2> QED BY <1>0, <2>1, <2>2
  <1>6. ASSUME x.stop, NEW m \in DOMAIN W, m < x.wave, NEW p \in W[m], y.result[p] = "failed"
        PROVE FALSE
    <2>1. p \notin W[x.wave]
      BY <1>2, <1>6 DEF Layered
    <2>2. x.result[p] = "failed"
      BY <1>0, <1>6, <2>1
    <2> QED BY <1>1, <1>6, <2>2 DEF Walk, Stopping
  <1>7. Stopping(y, W)
    BY <1>6 DEF Stopping
  <1>8. Stops(y, its2, W)
    <2> SUFFICES ASSUME x.stop, NEW m \in DOMAIN W, NEW n \in DOMAIN W, m < n,
                        NEW q \in W[m], NEW r \in W[n], y.result[q] = "failed"
                 PROVE  its2[r].phase = "none" /\ y.result[r] # "implemented"
      BY DEF Stops
    <2>1. y.result[r] # "implemented"
      BY <1>3
    <2>2. ASSUME its2[r].phase # "none" PROVE FALSE
      <3>1. r \in W[x.wave]
        BY <1>0, <2>2
      <3>2. n = x.wave
        BY <1>0, <1>2, <3>1 DEF Layered
      <3> QED BY <1>6, <3>2
    <2> QED BY <2>1, <2>2
  <1>9. AtWork(y, its2, W)
    BY <1>0, <1>2 DEF AtWork
  <1> QED BY <1>1, <1>2, <1>3, <1>4, <1>5, <1>7, <1>8, <1>9 DEF Walk

\* A wave whose workers have ended is closed, and the next one comes.
LEMMA WalkCloses ==
  ASSUME NEW x \in CommandRows, NEW its \in [Plans -> ItemState], NEW W, NEW g, NEW y \in CommandRows,
         Cardinality(x.paths) \in Nat,
         Layered(W, x.paths, g), Walk(x, its, W, g), x.pc = "wave", Many(x),
         \A p \in Plans : its[p].phase = "none",
         /\ y.pc = "waves" /\ y.paths = x.paths /\ y.stop = x.stop /\ y.wave = x.wave + 1
         /\ y.cancelled = x.cancelled /\ y.result = x.result,
         y.stopped <=> x.stopped \/ (x.stop /\ \E p \in W[x.wave] : x.result[p] = "failed")
  PROVE  Walk(y, its, W, g)
  <1>0. x.paths \subseteq Plans /\ \A n \in DOMAIN W : W[n] \subseteq x.paths /\ n \in Nat
    BY DEF CommandRows, Layered
  <1>1. Many(y)
    BY DEF Many
  <1>2. x.wave \in DOMAIN W /\ x.wave <= Cardinality(x.paths)
    <2>1. x.wave \in DOMAIN W /\ W[x.wave] # {}
      BY DEF Walk, AtWork, Layered
    <2> QED BY <2>1 DEF Layered
  <1>3. y.wave \in 1 .. Cardinality(y.paths) + 1
    BY <1>0, <1>2 DEF Layered
  <1>4. \A m \in DOMAIN W : m < y.wave <=> m < x.wave \/ m = x.wave
    BY <1>0, <1>2
  <1>5. Reasoned(y, g)
    BY DEF Walk, Reasoned
  <1>6. Stops(y, its, W)
    BY <1>1 DEF Walk, Stops
  <1>7. Decided(y, W)
    <2> SUFFICES ASSUME NEW m \in DOMAIN W, m < y.wave, NEW p \in W[m] PROVE x.result[p] # None
      BY DEF Decided
    <2>1. CASE m = x.wave
      BY <1>0, <2>1 DEF Walk, AtWork
    <2>2. CASE m < x.wave
      BY <2>2 DEF Walk, Decided
    <2> QED BY <1>4, <2>1, <2>2
  <1>8. Ahead(y, its, W)
    <2> SUFFICES ASSUME NEW m \in DOMAIN W, m >= y.wave, NEW p \in W[m]
                 PROVE  x.result[p] = None /\ its[p].phase = "none"
      BY <1>0, <1>3 DEF Ahead
    <2>1. m > x.wave
      BY <1>0, <1>2
    <2> QED BY <2>1 DEF Walk, Ahead
  <1>9. Stopping(y, W)
    <2>1. y.stopped => x.stop /\ \E q \in x.paths : x.result[q] = "failed"
      BY <1>0, <1>2 DEF Walk, Stopping
    <2>2. ASSUME x.stop, NEW m \in DOMAIN W, m < y.wave, NEW p \in W[m], x.result[p] = "failed"
          PROVE y.stopped
      <3>1. CASE m = x.wave
        BY <2>2, <3>1
      <3>2. CASE m < x.wave
        BY <2>2, <3>2 DEF Walk, Stopping
      <3> QED BY <1>4, <2>2, <3>1, <3>2
    <2> QED BY <2>1, <2>2 DEF Stopping
  <1>10. AtWork(y, its, W)
    BY DEF AtWork
  <1> QED BY <1>1, <1>3, <1>5, <1>6, <1>7, <1>8, <1>9, <1>10 DEF Walk

-----------------------------------------------------------------------------
(* Every step of the program keeps each command among its waves *)

\* The waves that a command's Plans have.
LEMMA CommandWaves ==
  ASSUME NEW paths \in SUBSET Plans
  PROVE  /\ Waves(paths) = WavesBy(paths, deps)
         /\ Layered(WavesBy(paths, deps), paths, deps)
         /\ IsFiniteSet(paths) /\ Cardinality(paths) \in Nat
  <1>1. IsFiniteSet(paths) /\ Cardinality(paths) \in Nat
    BY PlanAssumption, FS_Subset, FS_CardinalityType DEF PlanAssumption
  <1>2. Waves(paths) = WavesBy(paths, deps)
    BY WavesAreDifferences
  <1>3. Layered(Waves(paths), paths, deps)
    BY WavesAreLayered
  <1> QED BY <1>1, <1>2, <1>3

\* What a command is set to.
LEMMA CommandIsSet ==
  ASSUME RowsOK, NEW c \in Commands, NEW x, SetCmd(c, x)
  PROVE  cmd'[c] = x /\ \A d \in Commands \ {c} : cmd'[d] = cmd[d]
  BY DEF SetCmd, RowsOK

\* A command begins.
LEMMA StartWalks ==
  ASSUME RowsOK, RowsOK', Resting, WalkInv, NEW c \in Commands, Start(c)
  PROVE  Walk(cmd'[c], item'[c], WavesBy(cmd'[c].paths, deps), deps)
  <1> DEFINE y == cmd'[c]
  <1>1. PICK paths \in (SUBSET Plans) \ {{}}, force \in BOOLEAN, stop \in BOOLEAN, dry \in BOOLEAN :
          LET begun == [cmd[c] EXCEPT
                !.paths = paths, !.force = force, !.stop = stop, !.dry = dry,
                !.invalid = {p \in paths : IsInvalid(ledger[p])},
                !.fresh = {p \in paths : IsFresh(ledger[p], text[p])},
                !.external = {p \in Plans \ paths : IsImplemented(ledger[p])}]
          IN  IF Cardinality(paths) = 1
              THEN /\ stop
                   /\ SetCmd(c, [begun EXCEPT !.pc = "wave"])
                   /\ item' = [item EXCEPT ![c] =
                          [p \in Plans |-> IF p \in paths THEN [NewItem EXCEPT !.phase = "queued"]
                                           ELSE NewItem]]
              ELSE SetCmd(c, [begun EXCEPT !.pc = "waves"]) /\ UNCHANGED item
    BY DEF Start
  <1> DEFINE begun == [cmd[c] EXCEPT
                !.paths = paths, !.force = force, !.stop = stop, !.dry = dry,
                !.invalid = {p \in paths : IsInvalid(ledger[p])},
                !.fresh = {p \in paths : IsFresh(ledger[p], text[p])},
                !.external = {p \in Plans \ paths : IsImplemented(ledger[p])}]
  <1>2. cmd[c] \in CommandRows /\ cmd[c].pc = "idle"
    BY DEF RowsOK, Start
  <1>3. /\ begun.paths = paths /\ begun.wave = cmd[c].wave /\ begun.stopped = cmd[c].stopped
        /\ begun.result = cmd[c].result
        /\ [begun EXCEPT !.pc = "wave"].pc = "wave" /\ [begun EXCEPT !.pc = "waves"].pc = "waves"
        /\ \A pc \in {"wave", "waves"} :
             /\ [begun EXCEPT !.pc = pc].paths = begun.paths
             /\ [begun EXCEPT !.pc = pc].wave = begun.wave
             /\ [begun EXCEPT !.pc = pc].stopped = begun.stopped
             /\ [begun EXCEPT !.pc = pc].result = begun.result
    BY <1>2 DEF CommandRows
  <1> HIDE DEF begun
  <1>4. \/ /\ Cardinality(paths) = 1 /\ y = [begun EXCEPT !.pc = "wave"]
        \/ /\ Cardinality(paths) # 1 /\ y = [begun EXCEPT !.pc = "waves"] /\ UNCHANGED item
    BY <1>1, CommandIsSet DEF begun
  <1>5. y \in CommandRows /\ item'[c] \in [Plans -> ItemState]
    BY DEF RowsOK
  <1>6. /\ y.paths = paths /\ y.wave = cmd[c].wave /\ y.stopped = cmd[c].stopped
        /\ y.result = cmd[c].result
    BY <1>3, <1>4
  <1>7. Walk(cmd[c], item[c], WavesBy(cmd[c].paths, deps), deps)
    BY DEF WalkInv
  <1>8. y.wave = 1 /\ ~y.stopped /\ \A p \in Plans : y.result[p] = None
    BY <1>2, <1>6, <1>7 DEF Walk
  <1>9. \A p \in Plans : item[c][p].phase = "none"
    BY <1>2 DEF Resting
  <1>10. /\ Cardinality(paths) \in Nat /\ Cardinality(paths) # 0
         /\ Layered(WavesBy(paths, deps), paths, deps)
    <2>1. paths \in SUBSET Plans /\ paths # {}
      OBVIOUS
    <2>2. /\ IsFiniteSet(paths) /\ Cardinality(paths) \in Nat
          /\ Layered(WavesBy(paths, deps), paths, deps)
      BY <2>1, CommandWaves
    <2>3. Cardinality(paths) # 0
      BY <2>1, <2>2, FS_EmptySet
    <2> QED BY <2>2, <2>3
  <1>11. \/ y.pc = "waves" /\ Many(y) /\ \A p \in Plans : item'[c][p].phase = "none"
         \/ y.pc = "wave" /\ ~Many(y)
    <2>1. CASE Cardinality(paths) = 1
      <3>1. y.pc = "wave"
        BY <1>3, <1>4, <2>1
      <3>2. ~Many(y)
        BY <1>6, <2>1 DEF Many
      <3> QED BY <3>1, <3>2
    <2>2. CASE Cardinality(paths) # 1
      <3>1. y.pc = "waves" /\ UNCHANGED item
        BY <1>3, <1>4, <2>2
      <3>2. Cardinality(paths) > 1
        BY <1>10, <2>2
      <3>3. Many(y)
        BY <1>6, <3>2 DEF Many
      <3> QED BY <1>9, <3>1, <3>3
    <2> QED BY <2>1, <2>2
  <1> HIDE DEF y
  <1>12. Walk(y, item'[c], WavesBy(paths, deps), deps)
    BY <1>5, <1>6, <1>8, <1>10, <1>11, WalkBegins
  <1> QED BY <1>6, <1>12 DEF y

\* A command returns, flushed or not.
LEMMA ReturnWalks ==
  ASSUME RowsOK, RowsOK', WalkInv, NEW c \in Commands, NEW x \in CommandRows, Return(c, x),
         x.paths = cmd[c].paths /\ x.stop = cmd[c].stop /\ x.cancelled = cmd[c].cancelled,
         \A p \in Plans :
           \/ x.result[p] = cmd[c].result[p]
           \/ cmd[c].result[p] = None /\ x.result[p] = "skipped" /\ cmd[c].cancelled,
         \A p \in Plans : item'[c][p].phase = "none"
  PROVE  Walk(cmd'[c], item'[c], WavesBy(cmd'[c].paths, deps), deps)
  <1> DEFINE y == cmd'[c]
  <1>1. y = [NewCommand EXCEPT !.pc = "returned", !.paths = x.paths, !.stop = x.stop, !.dry = x.dry,
               !.cancelled = x.cancelled, !.failed = x.failed, !.result = x.result]
    BY CommandIsSet DEF Return
  <1>2. /\ y.pc = "returned" /\ y.wave = 1 /\ y.paths = x.paths /\ y.stop = x.stop
        /\ y.cancelled = x.cancelled /\ y.result = x.result
    BY <1>1 DEF NewCommand
  <1>3. /\ y \in CommandRows /\ cmd[c] \in CommandRows /\ deps \in [Plans -> SUBSET Plans]
        /\ item'[c] \in [Plans -> ItemState] /\ item[c] \in [Plans -> ItemState]
    BY DEF RowsOK
  <1>4. Walk(cmd[c], item[c], WavesBy(cmd[c].paths, deps), deps)
    BY DEF WalkInv
  <1>5. Layered(WavesBy(cmd[c].paths, deps), cmd[c].paths, deps)
    <2>1. cmd[c].paths \in SUBSET Plans
      BY <1>3 DEF CommandRows
    <2> QED BY <2>1, CommandWaves
  <1> HIDE DEF y
  <1>6. Walk(y, item'[c], WavesBy(cmd[c].paths, deps), deps)
    BY <1>2, <1>3, <1>4, <1>5, WalkReturns
  <1> QED BY <1>2, <1>6 DEF y

\* What a batch gives up when it is flushed had not been decided.
LEMMA FlushGivesUp ==
  ASSUME NEW x \in CommandRows, NEW p \in Plans
  PROVE  \/ Flush(x)[p] = x.result[p]
         \/ x.result[p] = None /\ Flush(x)[p] = "skipped"
  BY DEF Flush

\* A batch goes on to its next wave.
LEMMA OpenWaveWalks ==
  ASSUME RowsOK, RowsOK', Resting, WalkInv, NEW c \in Commands, OpenWave(c)
  PROVE  Walk(cmd'[c], item'[c], WavesBy(cmd'[c].paths, deps), deps)
  <1> DEFINE x == cmd[c]
             y == cmd'[c]
             W == WavesBy(x.paths, deps)
             wave == W[x.wave]
             class == [p \in Plans |-> IF p \in wave THEN Classify(x, p) ELSE x.result[p]]
             ready == {p \in wave : class[p] = None}
             left == [p \in Plans |-> IF p \in ready THEN "skipped" ELSE class[p]]
             flushed == [x EXCEPT !.failed = TRUE, !.result = Flush(x)]
  <1>1. x \in CommandRows /\ y \in CommandRows /\ deps \in [Plans -> SUBSET Plans]
    BY DEF RowsOK
  <1>2. item[c] \in [Plans -> ItemState] /\ item'[c] \in [Plans -> ItemState]
    BY DEF RowsOK
  <1>3. x.pc = "waves" /\ \A p \in Plans : item[c][p].phase = "none"
    BY DEF OpenWave, Resting
  <1>4. Walk(x, item[c], W, deps)
    BY DEF WalkInv
  <1>5. Waves(x.paths) = W /\ Layered(W, x.paths, deps) /\ Cardinality(x.paths) \in Nat
    <2>1. x.paths \in SUBSET Plans
      BY <1>1 DEF CommandRows
    <2> QED BY <2>1, CommandWaves
  <1>6. \/ Return(c, x) /\ UNCHANGED item
        \/ x.cancelled /\ Return(c, flushed) /\ UNCHANGED item
        \/ /\ wave # {} /\ x.stopped
           /\ SetCmd(c, [x EXCEPT !.wave = x.wave + 1, !.result = left]) /\ UNCHANGED item
        \/ /\ wave # {} /\ ~x.stopped
           /\ SetCmd(c, [x EXCEPT !.pc = "wave", !.result = class])
           /\ item' = [item EXCEPT ![c] =
                         [p \in Plans |-> IF p \in ready THEN [NewItem EXCEPT !.phase = "queued"]
                                          ELSE NewItem]]
    BY <1>5 DEF OpenWave
  <1>7. x.wave \in DOMAIN W /\ wave \subseteq Plans
    BY <1>1, <1>3, <1>4, <1>5 DEF Walk, Layered, CommandRows
  <1>8. CASE Return(c, x) /\ UNCHANGED item
    BY <1>1, <1>3, <1>8, ReturnWalks
  <1>9. CASE x.cancelled /\ Return(c, flushed) /\ UNCHANGED item
    <2>1. flushed \in CommandRows
      BY <1>1, FlushType
    <2>2. /\ flushed.paths = x.paths /\ flushed.stop = x.stop /\ flushed.cancelled = x.cancelled
          /\ flushed.result = Flush(x)
      BY <1>1 DEF CommandRows
    <2>3. Return(c, flushed)
      BY <1>9
    <2>4. \A p \in Plans :
           \/ flushed.result[p] = x.result[p]
           \/ x.result[p] = None /\ flushed.result[p] = "skipped" /\ x.cancelled
      BY <1>1, <1>9, <2>2, FlushGivesUp
    <2>5. \A p \in Plans : item'[c][p].phase = "none"
      BY <1>3, <1>9
    <2> HIDE DEF flushed
    <2> QED BY <2>1, <2>2, <2>3, <2>4, <2>5, ReturnWalks
  <1>10. CASE /\ wave # {} /\ x.stopped
              /\ SetCmd(c, [x EXCEPT !.wave = x.wave + 1, !.result = left]) /\ UNCHANGED item
    <2>1. y = [x EXCEPT !.wave = x.wave + 1, !.result = left]
      <3> HIDE DEF left
      <3> QED BY <1>10, CommandIsSet
    <2>2. /\ y.pc = "waves" /\ y.paths = x.paths /\ y.stop = x.stop /\ y.wave = x.wave + 1
          /\ y.stopped /\ y.cancelled = x.cancelled /\ y.result = left
      <3> HIDE DEF left
      <3> QED BY <1>1, <1>3, <1>10, <2>1 DEF CommandRows
    <2>3. \A p \in Plans \ wave : left[p] = x.result[p]
      OBVIOUS
    <2>4. ASSUME NEW p \in wave
          PROVE \/ left[p] = Classify(x, p) /\ Classify(x, p) # None
                \/ Classify(x, p) = None /\ left[p] = "skipped" /\ x.stopped
      BY <1>7, <1>10
    <2>5. wave # {} /\ x.stopped
      BY <1>10
    <2> HIDE DEF left, y, W, x
    <2>6. Walk(y, item[c], W, deps)
      BY <1>1, <1>2, <1>3, <1>4, <1>5, <2>2, <2>3, <2>4, <2>5, WalkSkips
    <2> QED BY <1>10, <2>2, <2>6 DEF y, W, x
  <1>11. CASE /\ wave # {} /\ ~x.stopped
              /\ SetCmd(c, [x EXCEPT !.pc = "wave", !.result = class])
              /\ item' = [item EXCEPT ![c] =
                            [p \in Plans |-> IF p \in ready THEN [NewItem EXCEPT !.phase = "queued"]
                                             ELSE NewItem]]
    <2>1. y = [x EXCEPT !.pc = "wave", !.result = class]
      <3> HIDE DEF class
      <3> QED BY <1>11, CommandIsSet
    <2>2. /\ y.pc = "wave" /\ y.paths = x.paths /\ y.stop = x.stop /\ y.wave = x.wave
          /\ ~y.stopped /\ y.cancelled = x.cancelled /\ y.result = class
      <3> HIDE DEF class
      <3> QED BY <1>1, <1>3, <1>11, <2>1 DEF CommandRows
    <2>3. /\ \A p \in Plans \ wave : class[p] = x.result[p]
          /\ \A p \in wave : class[p] = Classify(x, p)
      BY <1>7
    <2>4. \A p \in Plans : item'[c][p].phase # "none" <=> p \in ready
      <3>1. item'[c] = [p \in Plans |-> IF p \in ready THEN [NewItem EXCEPT !.phase = "queued"]
                                       ELSE NewItem]
        <4> HIDE DEF ready
        <4> QED BY <1>11 DEF RowsOK
      <3>2. NewItem.phase = "none" /\ [NewItem EXCEPT !.phase = "queued"].phase = "queued"
        BY DEF NewItem
      <3> HIDE DEF ready, NewItem
      <3> QED BY <3>1, <3>2
    <2>5. \A p \in Plans : p \in ready <=> p \in wave /\ class[p] = None
      OBVIOUS
    <2>6. wave # {} /\ ~x.stopped
      BY <1>11
    <2> HIDE DEF ready, class, y, W, x
    <2>7. Walk(y, item'[c], W, deps)
      BY <1>1, <1>2, <1>3, <1>4, <1>5, <2>2, <2>3, <2>4, <2>5, <2>6, WalkOpens
    <2> QED BY <2>2, <2>7 DEF y, W, x
  <1> QED BY <1>6, <1>8, <1>9, <1>10, <1>11

\* A batch closes a wave, or gives the rest of it up.
LEMMA CloseWaveWalks ==
  ASSUME RowsOK, RowsOK', WalkInv, NEW c \in Commands, CloseWave(c)
  PROVE  Walk(cmd'[c], item'[c], WavesBy(cmd'[c].paths, deps), deps)
  <1> DEFINE x == cmd[c]
             y == cmd'[c]
             W == WavesBy(x.paths, deps)
             later == [x EXCEPT !.pc = "waves", !.wave = x.wave + 1,
                         !.stopped = x.stopped \/ (x.stop /\ WaveHadFailure(x))]
             flushed == [x EXCEPT !.failed = TRUE, !.result = Flush(x)]
  <1>1. x \in CommandRows /\ y \in CommandRows
    BY DEF RowsOK
  <1>2. item[c] \in [Plans -> ItemState]
    BY DEF RowsOK
  <1>3. Walk(x, item[c], W, deps)
    BY DEF WalkInv
  <1>4. Waves(x.paths) = W /\ Layered(W, x.paths, deps) /\ Cardinality(x.paths) \in Nat
    <2>1. x.paths \in SUBSET Plans
      BY <1>1 DEF CommandRows
    <2> QED BY <2>1, CommandWaves
  <1>5. \/ Queued(c) = {} /\ ~Batch(c) /\ Return(c, x) /\ UNCHANGED item
        \/ Queued(c) = {} /\ Batch(c) /\ SetCmd(c, later) /\ UNCHANGED item
        \/ /\ x.cancelled /\ Return(c, flushed)
           /\ item' = [item EXCEPT ![c] = [p \in Plans |-> NewItem]]
    BY DEF CloseWave
  <1>6. x.pc = "wave" /\ Busy(c) = {}
    BY DEF CloseWave
  <1>7. Queued(c) = {} => \A p \in Plans : item[c][p].phase = "none"
    BY <1>6 DEF Queued, Busy
  <1>8. CASE Queued(c) = {} /\ ~Batch(c) /\ Return(c, x) /\ UNCHANGED item
    BY <1>1, <1>7, <1>8, ReturnWalks
  <1>9. CASE Queued(c) = {} /\ Batch(c) /\ SetCmd(c, later) /\ UNCHANGED item
    <2>1. y = later
      <3> HIDE DEF later
      <3> QED BY <1>9, CommandIsSet
    <2>2. /\ y.pc = "waves" /\ y.paths = x.paths /\ y.stop = x.stop /\ y.wave = x.wave + 1
          /\ y.cancelled = x.cancelled /\ y.result = x.result
          /\ y.stopped = (x.stopped \/ (x.stop /\ WaveHadFailure(x)))
      BY <1>1, <2>1 DEF CommandRows
    <2>3. y.stopped <=> x.stopped \/ (x.stop /\ \E p \in W[x.wave] : x.result[p] = "failed")
      BY <1>4, <2>2 DEF WaveHadFailure
    <2>4. Many(x)
      BY <1>9 DEF Many, Batch
    <2>5. \A p \in Plans : item[c][p].phase = "none"
      BY <1>7, <1>9
    <2> HIDE DEF y, W, x
    <2>6. Walk(y, item[c], W, deps)
      BY <1>1, <1>2, <1>3, <1>4, <1>6, <2>2, <2>3, <2>4, <2>5, WalkCloses
    <2> QED BY <1>9, <2>2, <2>6 DEF y, W, x
  <1>10. CASE /\ x.cancelled /\ Return(c, flushed)
              /\ item' = [item EXCEPT ![c] = [p \in Plans |-> NewItem]]
    <2>1. flushed \in CommandRows
      BY <1>1, FlushType
    <2>2. /\ flushed.paths = x.paths /\ flushed.stop = x.stop /\ flushed.cancelled = x.cancelled
          /\ flushed.result = Flush(x)
      BY <1>1 DEF CommandRows
    <2>3. Return(c, flushed)
      BY <1>10
    <2>4. \A p \in Plans :
           \/ flushed.result[p] = x.result[p]
           \/ x.result[p] = None /\ flushed.result[p] = "skipped" /\ x.cancelled
      BY <1>1, <1>10, <2>2, FlushGivesUp
    <2>5. \A p \in Plans : item'[c][p].phase = "none"
      BY <1>10 DEF RowsOK, NewItem
    <2> HIDE DEF flushed
    <2> QED BY <2>1, <2>2, <2>3, <2>4, <2>5, ReturnWalks
  <1> QED BY <1>5, <1>8, <1>9, <1>10

\* A command is cancelled, or its process dies.
LEMMA CancelOrCrashWalks ==
  ASSUME RowsOK, RowsOK', WalkInv, NEW c \in Commands, Cancel(c) \/ Crash(c)
  PROVE  Walk(cmd'[c], item'[c], WavesBy(cmd'[c].paths, deps), deps)
  <1> DEFINE x == cmd[c]
             y == cmd'[c]
             W == WavesBy(x.paths, deps)
  <1>1. x \in CommandRows /\ y \in CommandRows /\ item[c] \in [Plans -> ItemState]
    BY DEF RowsOK
  <1>2. item'[c] \in [Plans -> ItemState]
    BY DEF RowsOK
  <1>3. Walk(x, item[c], W, deps)
    BY DEF WalkInv
  <1>4. CASE Cancel(c)
    <2>1. y = [x EXCEPT !.cancelled = TRUE] /\ UNCHANGED item
      BY <1>4, CommandIsSet DEF Cancel
    <2>2. /\ y.pc = x.pc /\ y.paths = x.paths /\ y.stop = x.stop /\ y.wave = x.wave
          /\ y.stopped = x.stopped /\ y.cancelled /\ y.result = x.result
      BY <1>1, <2>1 DEF CommandRows
    <2> HIDE DEF x, y, W
    <2>3. Walk(y, item[c], W, deps)
      BY <1>1, <1>3, <2>2, WalkIsCancelled
    <2> QED BY <2>1, <2>2, <2>3 DEF x, y, W
  <1>5. CASE Crash(c)
    <2>1. y = [NewCommand EXCEPT !.pc = "crashed"]
      BY <1>5, CommandIsSet DEF Crash
    <2>2. /\ y.pc = "crashed" /\ y.paths = {} /\ y.wave = 1 /\ ~y.stopped
          /\ \A p \in Plans : y.result[p] = None
      BY <2>1 DEF NewCommand
    <2>3. {} \in SUBSET Plans
      OBVIOUS
    <2>4. Layered(WavesBy({}, deps), {}, deps)
      BY <2>3, CommandWaves
    <2>5. \A n \in DOMAIN WavesBy({}, deps) : WavesBy({}, deps)[n] \subseteq Plans
      BY <2>4 DEF Layered
    <2> HIDE DEF y
    <2>6. Walk(y, item'[c], WavesBy({}, deps), deps)
      BY <1>1, <1>2, <2>2, <2>5, WalkAtRest
    <2> QED BY <2>2, <2>6 DEF y
  <1> QED BY <1>4, <1>5

\* A worker's step.
LEMMA WorkerWalks ==
  ASSUME RowsOK, RowsOK', Resting, WalkInv, NEW c \in Commands, NEW p \in Plans,
         item[c][p].phase # "none",
         \/ \E state \in {"implemented", "already_implemented", "failed"} : Complete(c, p, state)
         \/ \E it \in ItemState : it.phase # "none" /\ SetItem(c, p, it) /\ UNCHANGED cmd
  PROVE  Walk(cmd'[c], item'[c], WavesBy(cmd'[c].paths, deps), deps)
  <1> DEFINE x == cmd[c]
             y == cmd'[c]
             W == WavesBy(x.paths, deps)
             its == item[c]
             its2 == item'[c]
  <1>1. /\ x \in CommandRows /\ y \in CommandRows /\ its \in [Plans -> ItemState]
        /\ deps \in [Plans -> SUBSET Plans]
    BY DEF RowsOK
  <1>2. its2 \in [Plans -> ItemState]
    BY DEF RowsOK
  <1>3. Walk(x, its, W, deps)
    BY DEF WalkInv
  <1>4. Layered(W, x.paths, deps) /\ Cardinality(x.paths) \in Nat
    <2>1. x.paths \in SUBSET Plans
      BY <1>1 DEF CommandRows
    <2> QED BY <2>1, CommandWaves
  <1>5. x.pc = "wave" /\ its[p].phase # "none"
    BY DEF Resting
  <1>6. ASSUME NEW it, SetItem(c, p, it)
        PROVE its2[p] = it /\ \A q \in Plans \ {p} : its2[q] = its[q]
    BY <1>6 DEF SetItem, RowsOK
  <1>7. ASSUME NEW state \in {"implemented", "already_implemented", "failed"}, Complete(c, p, state)
        PROVE Walk(y, its2, WavesBy(y.paths, deps), deps)
    <2>1. y = [x EXCEPT !.result[p] = state]
      BY <1>7, CommandIsSet DEF Complete
    <2>2. its2[p] = NewItem /\ \A q \in Plans \ {p} : its2[q] = its[q]
      BY <1>6, <1>7 DEF Complete
    <2>3. /\ y.pc = x.pc /\ y.paths = x.paths /\ y.stop = x.stop /\ y.wave = x.wave
          /\ y.stopped = x.stopped /\ y.cancelled = x.cancelled
          /\ y.result = [x.result EXCEPT ![p] = state]
      BY <1>1, <2>1 DEF CommandRows
    <2>4. y.result[p] = state /\ \A q \in Plans \ {p} : y.result[q] = x.result[q]
      BY <1>1, <2>3 DEF CommandRows
    <2>5. its2[p].phase = "none"
      BY <2>2 DEF NewItem
    <2>6. \A q \in Plans \ {p} : its2[q] = its[q]
      BY <2>2
    <2>7. /\ y.pc = x.pc /\ y.paths = x.paths /\ y.stop = x.stop /\ y.wave = x.wave
          /\ y.stopped = x.stopped /\ y.cancelled = x.cancelled
      BY <2>3
    <2> HIDE DEF x, y, W, its, its2
    <2>8. Walk(y, its2, W, deps)
      BY <1>1, <1>2, <1>3, <1>4, <1>5, <2>4, <2>5, <2>6, <2>7, WalkDecides
    <2> QED BY <2>7, <2>8 DEF W
  <1>8. ASSUME NEW it \in ItemState, it.phase # "none", SetItem(c, p, it), UNCHANGED cmd
        PROVE Walk(y, its2, WavesBy(y.paths, deps), deps)
    <2>1. its2[p].phase # "none" /\ \A q \in Plans \ {p} : its2[q] = its[q]
      BY <1>6, <1>8
    <2>2. y = x
      BY <1>8
    <2> HIDE DEF x, y, W, its, its2
    <2>3. Walk(x, its2, W, deps)
      BY <1>1, <1>2, <1>3, <1>4, <1>5, <2>1, WalkGoesOn
    <2> QED BY <2>2, <2>3 DEF W
  <1> QED BY <1>7, <1>8

\* A worker's step is one of these.
LEMMA WorkerSteps ==
  ASSUME RowsOK, NEW c \in Commands, NEW p \in Plans, ItemSteps(c, p) \/ BackendFails(c, p)
  PROVE  /\ item[c][p].phase # "none"
         /\ \/ \E state \in {"implemented", "already_implemented", "failed"} : Complete(c, p, state)
            \/ \E it \in ItemState : it.phase # "none" /\ SetItem(c, p, it) /\ UNCHANGED cmd
         /\ UNCHANGED deps
         /\ \A d \in Commands \ {c} : cmd'[d] = cmd[d] /\ item'[d] = item[d]
  <1>1. item[c][p] \in ItemState /\ ledger[p] \in Ledgers /\ text[p] \in Texts
    BY DEF RowsOK
  <1>2. ASSUME NEW phase \in {"pending", "in_progress", "run"}, Goes(c, p, phase)
        PROVE \E it \in ItemState : it.phase # "none" /\ SetItem(c, p, it) /\ UNCHANGED cmd
    <2>1. [item[c][p] EXCEPT !.phase = phase] \in ItemState
      BY <1>1 DEF ItemState
    <2>2. [item[c][p] EXCEPT !.phase = phase].phase = phase
      BY <1>1 DEF ItemState
    <2> QED BY <1>2, <2>1, <2>2 DEF Goes
  <1>3. /\ item[c][p].phase # "none"
        /\ \/ \E state \in {"implemented", "already_implemented", "failed"} : Complete(c, p, state)
           \/ \E it \in ItemState : it.phase # "none" /\ SetItem(c, p, it) /\ UNCHANGED cmd
        /\ UNCHANGED deps
    <2>1. CASE Take(c, p)
      <3> DEFINE it == [NewItem EXCEPT !.phase = "check", !.hash = text[p], !.was = ledger[p]]
      <3>1. it \in ItemState
        BY <1>1, NewItemType DEF ItemState
      <3>2. it.phase = "check"
        BY DEF NewItem
      <3>3. SetItem(c, p, it) /\ UNCHANGED cmd
        BY <2>1 DEF Take
      <3>4. item[c][p].phase = "queued" /\ UNCHANGED deps
        BY <2>1 DEF Take, KeepRest
      <3> HIDE DEF it
      <3> QED BY <3>1, <3>2, <3>3, <3>4
    <2>2. CASE Check(c, p)
      <3>1. \/ \E state \in {"implemented", "already_implemented", "failed"} : Complete(c, p, state)
            \/ Goes(c, p, "pending")
        BY <2>2 DEF Check
      <3>2. item[c][p].phase = "check" /\ UNCHANGED deps
        BY <2>2 DEF Check, KeepRest
      <3> QED BY <1>2, <3>1, <3>2
    <2>3. CASE RecordPending(c, p)
      BY <1>2, <2>3 DEF RecordPending
    <2>4. CASE RecordInProgress(c, p)
      BY <1>2, <2>4 DEF RecordInProgress
    <2>5. CASE RunEnds(c, p)
      <3>1. PICK ok \in BOOLEAN :
              SetItem(c, p, [item[c][p] EXCEPT !.phase = "record", !.ok = ok])
        BY <2>5 DEF RunEnds
      <3> DEFINE it == [item[c][p] EXCEPT !.phase = "record", !.ok = ok]
      <3>2. it \in ItemState /\ it.phase = "record"
        BY <1>1 DEF ItemState
      <3>3. item[c][p].phase = "run" /\ UNCHANGED <<deps, cmd>>
        BY <2>5 DEF RunEnds
      <3>4. SetItem(c, p, it)
        BY <3>1
      <3> HIDE DEF it
      <3> QED BY <3>2, <3>3, <3>4
    <2>6. CASE RecordTerminal(c, p)
      <3>1. Complete(c, p, Terminal(item[c][p])) /\ item[c][p].phase = "record" /\ UNCHANGED deps
        BY <2>6 DEF RecordTerminal
      <3>2. Terminal(item[c][p]) \in {"implemented", "failed"}
        BY DEF Terminal
      <3> QED BY <3>1, <3>2
    <2>7. CASE BackendFails(c, p)
      BY <2>7 DEF BackendFails
    <2> QED BY <2>1, <2>2, <2>3, <2>4, <2>5, <2>6, <2>7 DEF ItemSteps
  <1>4. ASSUME NEW d \in Commands \ {c} PROVE cmd'[d] = cmd[d] /\ item'[d] = item[d]
    <2>1. UNCHANGED cmd \/ \E x : SetCmd(c, x)
      BY <1>3 DEF Complete
    <2>2. \E it : SetItem(c, p, it)
      BY <1>3 DEF Complete
    <2>3. item'[d] = item[d]
      BY <2>2 DEF SetItem, RowsOK
    <2>4. cmd'[d] = cmd[d]
      BY <2>1, CommandIsSet
    <2> QED BY <2>3, <2>4
  <1> QED BY <1>3, <1>4

\* Every command stays among its waves.
LEMMA WalkInvHolds == PlanSpec => []WalkInv
  <1>1. PlanInit => WalkInv
    <2> SUFFICES ASSUME PlanInit, NEW c \in Commands
                 PROVE  Walk(cmd[c], item[c], WavesBy(cmd[c].paths, deps), deps)
      BY DEF WalkInv
    <2>1. cmd[c] = NewCommand /\ item[c] = [p \in Plans |-> NewItem]
      BY DEF PlanInit
    <2>2. /\ NewCommand.pc = "idle" /\ NewCommand.paths = {} /\ NewCommand.wave = 1
          /\ ~NewCommand.stopped /\ \A p \in Plans : NewCommand.result[p] = None
      BY DEF NewCommand
    <2>3. cmd[c] \in CommandRows /\ item[c] \in [Plans -> ItemState]
      BY <2>1, NewItemType, NewCommandType
    <2>4. {} \in SUBSET Plans
      OBVIOUS
    <2>5. Layered(WavesBy({}, deps), {}, deps)
      BY <2>4, CommandWaves
    <2>6. \A n \in DOMAIN WavesBy({}, deps) : WavesBy({}, deps)[n] \subseteq Plans
      BY <2>5 DEF Layered
    <2> HIDE DEF NewCommand
    <2>7. Walk(cmd[c], item[c], WavesBy({}, deps), deps)
      BY <2>1, <2>2, <2>3, <2>6, WalkAtRest
    <2> QED BY <2>1, <2>2, <2>7
  <1>2. RowsOK /\ RowsOK' /\ BatchInv /\ WalkInv /\ [PlanNext]_planVars => WalkInv'
    <2> SUFFICES ASSUME RowsOK, RowsOK', BatchInv, WalkInv, [PlanNext]_planVars PROVE WalkInv'
      OBVIOUS
    <2>1. ASSUME NEW c \in Commands, deps' = deps,
                 \A d \in Commands \ {c} : cmd'[d] = cmd[d] /\ item'[d] = item[d],
                 Walk(cmd'[c], item'[c], WavesBy(cmd'[c].paths, deps), deps)
          PROVE WalkInv'
      BY <2>1 DEF WalkInv
    <2>2. ASSUME UNCHANGED <<deps, cmd, item>> PROVE WalkInv'
      BY <2>2 DEF WalkInv
    <2>3. Resting
      BY DEF BatchInv
    <2>4. ASSUME NEW c \in Commands, Start(c) \/ OpenWave(c) \/ CloseWave(c) \/ Cancel(c) PROVE WalkInv'
      <3>1. /\ UNCHANGED deps
            /\ \A d \in Commands \ {c} : cmd'[d] = cmd[d]
            /\ UNCHANGED item \/ Requeued(c)
        BY <2>3, <2>4, CommandStep
      <3>2. \A d \in Commands \ {c} : item'[d] = item[d]
        BY <3>1, RequeuedPhases
      <3>3. Walk(cmd'[c], item'[c], WavesBy(cmd'[c].paths, deps), deps)
        BY <2>3, <2>4, StartWalks, OpenWaveWalks, CloseWaveWalks, CancelOrCrashWalks
      <3> QED BY <2>1, <3>1, <3>2, <3>3
    <2>5. ASSUME NEW c \in Commands, Crash(c) PROVE WalkInv'
      <3>1. UNCHANGED deps /\ \A d \in Commands \ {c} : cmd'[d] = cmd[d] /\ item'[d] = item[d]
        BY <2>5, CommandIsSet DEF Crash, RowsOK
      <3>2. Walk(cmd'[c], item'[c], WavesBy(cmd'[c].paths, deps), deps)
        BY <2>5, CancelOrCrashWalks
      <3> QED BY <2>1, <3>1, <3>2
    <2>6. ASSUME NEW c \in Commands, NEW p \in Plans, ItemSteps(c, p) \/ BackendFails(c, p)
          PROVE WalkInv'
      <3>1. /\ item[c][p].phase # "none"
            /\ \/ \E state \in {"implemented", "already_implemented", "failed"} : Complete(c, p, state)
               \/ \E it \in ItemState : it.phase # "none" /\ SetItem(c, p, it) /\ UNCHANGED cmd
            /\ UNCHANGED deps
            /\ \A d \in Commands \ {c} : cmd'[d] = cmd[d] /\ item'[d] = item[d]
        BY <2>6, WorkerSteps
      <3>2. Walk(cmd'[c], item'[c], WavesBy(cmd'[c].paths, deps), deps)
        BY <2>3, <3>1, WorkerWalks
      <3> QED BY <2>1, <3>1, <3>2
    <2>7. ASSUME (\E p \in Plans : Edit(p) \/ OtherBegins(p)) \/ OtherEnds \/ UNCHANGED planVars
          PROVE WalkInv'
      <3>1. UNCHANGED <<deps, cmd, item>>
        BY <2>7 DEF Edit, OtherBegins, OtherEnds, planVars
      <3> QED BY <2>2, <3>1
    <2> QED BY <2>4, <2>5, <2>6, <2>7 DEF PlanNext
  <1> QED BY <1>1, <1>2, RowsHold, BatchInvHolds, PTL DEF PlanSpec

\* A batch ends early for a failure only: what it did not do it had to leave, and with
\* --stop-on failure it did leave it (Execute, waveHadFailure, flushRemaining).
THEOREM GivesUpWithReasonAlways == PlanSpec => []GivesUpWithReason
  <1>1. RowsOK /\ WalkInv => GivesUpWithReason
    <2> SUFFICES ASSUME RowsOK, WalkInv PROVE GivesUpWithReason
      OBVIOUS
    <2>1. ASSUME NEW c \in Commands
          PROVE /\ cmd[c] \in CommandState
                /\ Reasoned(cmd[c], deps)
                /\ Stops(cmd[c], item[c], Waves(cmd[c].paths))
      <3>1. cmd[c] \in CommandRows /\ Walk(cmd[c], item[c], WavesBy(cmd[c].paths, deps), deps)
        BY DEF RowsOK, WalkInv
      <3>2. cmd[c].paths \in SUBSET Plans
        BY <3>1 DEF CommandRows
      <3>3. Waves(cmd[c].paths) = WavesBy(cmd[c].paths, deps) /\ Cardinality(cmd[c].paths) \in Nat
        BY <3>2, CommandWaves
      <3>4. Cardinality(Plans) \in Nat /\ Cardinality(cmd[c].paths) <= Cardinality(Plans)
        BY <3>2, PlanAssumption, FS_Subset, FS_CardinalityType DEF PlanAssumption
      <3>5. cmd[c].wave \in 1 .. Cardinality(cmd[c].paths) + 1
        BY <3>1, <3>3 DEF Walk
      <3>6. cmd[c].wave \in 1 .. Cardinality(Plans) + 1
        BY <3>3, <3>4, <3>5
      <3>7. cmd[c] \in CommandState
        BY <3>1, <3>6 DEF CommandRows, CommandState
      <3> QED BY <3>1, <3>3, <3>7 DEF Walk
    <2>2. BatchTypeOK
      <3>1. cmd \in [Commands -> CommandState]
        BY <2>1 DEF RowsOK
      <3> QED BY <3>1 DEF RowsOK, BatchTypeOK
    <2>3. NothingGivenUp
      BY <2>1 DEF NothingGivenUp, Reasoned
    <2>4. StopsAfterFailure
      BY <2>1 DEF StopsAfterFailure, Stops, Many, Batch
    <2> QED BY <2>2, <2>3, <2>4 DEF GivesUpWithReason
  <1> QED BY <1>1, RowsHold, WalkInvHolds, PTL

-----------------------------------------------------------------------------
(* What the dependencies of a Plan lead to *)

\* LeadsTo, by the dependencies g.
LeadsBy(paths, g, p) ==
  {q \in paths : \A Z \in SUBSET paths :
                   (\A r \in {p} \cup Z : g[r] \cap paths \subseteq Z) => q \in Z}

\* Cyclic, by the dependencies g.
CyclicBy(paths, g, p) ==
  \E q \in {p} \cup LeadsBy(paths, g, p) : q \in LeadsBy(paths, g, q)

\* What a Plan leads to holds its dependencies and what each of its members leads to, and
\* nothing that a set which holds them need not have.
LEMMA LeadsFollow ==
  ASSUME NEW paths, NEW g, NEW p
  PROVE  /\ LeadsBy(paths, g, p) \subseteq paths
         /\ g[p] \cap paths \subseteq LeadsBy(paths, g, p)
         /\ \A q \in LeadsBy(paths, g, p) : g[q] \cap paths \subseteq LeadsBy(paths, g, p)
         /\ \A Z \in SUBSET paths :
              (\A r \in {p} \cup Z : g[r] \cap paths \subseteq Z) => LeadsBy(paths, g, p) \subseteq Z
         /\ \A q \in LeadsBy(paths, g, p) : LeadsBy(paths, g, q) \subseteq LeadsBy(paths, g, p)
  <1> DEFINE L == LeadsBy(paths, g, p)
  <1>1. L \subseteq paths /\ g[p] \cap paths \subseteq L
    BY DEF LeadsBy
  <1>2. ASSUME NEW q \in L PROVE g[q] \cap paths \subseteq L
    BY DEF LeadsBy
  <1>3. \A Z \in SUBSET paths : (\A r \in {p} \cup Z : g[r] \cap paths \subseteq Z) => L \subseteq Z
    BY DEF LeadsBy
  <1>4. ASSUME NEW q \in L PROVE LeadsBy(paths, g, q) \subseteq L
    <2>1. L \in SUBSET paths /\ \A r \in {q} \cup L : g[r] \cap paths \subseteq L
      BY <1>1, <1>2
    <2> HIDE DEF L
    <2> QED BY <2>1 DEF LeadsBy
  <1> QED BY <1>1, <1>2, <1>3, <1>4

\* What can be done wave by wave is on no circle.
LEMMA LayersHaveNoCircle ==
  ASSUME NEW paths, NEW g
  PROVE  \A n \in Nat : \A p \in Layers(paths, g)[n] : ~CyclicBy(paths, g, p)
  <1> DEFINE F == Layers(paths, g)
             L(p) == LeadsBy(paths, g, p)
  <1>1. F[0] = {} /\ \A n \in Nat : F[n + 1] = Freed(paths, g, F[n])
    BY LayersFollow
  <1>2. \A n \in Nat : F[n] \subseteq F[n + 1]
    BY LayersGrow
  <1> HIDE DEF F
  <1>3. ASSUME NEW n \in Nat, NEW p \in F[n + 1] PROVE L(p) \subseteq F[n]
    <2>1. F[n + 1] \subseteq paths /\ \A r \in F[n + 1] : g[r] \cap paths \subseteq F[n]
      BY <1>1 DEF Freed
    <2>2. F[n] \in SUBSET paths /\ \A r \in {p} \cup F[n] : g[r] \cap paths \subseteq F[n]
      BY <1>2, <2>1
    <2>3. \A Z \in SUBSET paths :
            (\A r \in {p} \cup Z : g[r] \cap paths \subseteq Z) => L(p) \subseteq Z
      BY LeadsFollow
    <2> HIDE DEF L
    <2> QED BY <2>2, <2>3
  <1> HIDE DEF L
  <1>4. \A n \in Nat : \A p \in F[n] : p \notin L(p)
    <2> DEFINE S == {n \in Nat : \A p \in F[n] : p \notin L(p)}
    <2>1. 0 \in S
      BY <1>1
    <2>2. ASSUME NEW n \in Nat, n \in S PROVE n + 1 \in S
      <3> SUFFICES ASSUME NEW p \in F[n + 1], p \in L(p) PROVE FALSE
        OBVIOUS
      <3>1. p \in F[n]
        BY <1>3
      <3> QED BY <2>2, <3>1
    <2> HIDE DEF S
    <2>3. Nat \subseteq S
      BY <2>1, <2>2, AllNumbers
    <2> QED BY <2>3 DEF S
  <1>5. ASSUME NEW n \in Nat, NEW p \in F[n] PROVE \A q \in {p} \cup L(p) : q \in F[n]
    <2>1. p \in F[n + 1]
      BY <1>2
    <2> QED BY <1>3, <2>1
  <1> QED BY <1>4, <1>5 DEF CyclicBy, F, L

\* From what is left when no wave can be added, dependencies lead round in a circle.
LEMMA CirclesAreLeft ==
  ASSUME NEW paths, IsFiniteSet(paths), NEW g, NEW B \in SUBSET paths,
         \A b \in B : \E d \in g[b] \cap paths : d \in B,
         NEW p \in B
  PROVE  CyclicBy(paths, g, p)
  <1> DEFINE L(q) == LeadsBy(paths, g, q)
             K == B \cap ({p} \cup L(p))
             sizes == {Cardinality(L(q)) : q \in K}
  <1>1. \A q \in paths : /\ L(q) \subseteq paths
                         /\ g[q] \cap paths \subseteq L(q)
                         /\ \A r \in L(q) : L(r) \subseteq L(q)
    BY LeadsFollow
  <1> HIDE DEF L
  <1>2. \A q \in paths : IsFiniteSet(L(q)) /\ Cardinality(L(q)) \in Nat
    BY <1>1, FS_Subset, FS_CardinalityType
  <1>3. sizes \in SUBSET Nat /\ sizes # {}
    <2>1. K \subseteq paths /\ p \in K
      OBVIOUS
    <2> HIDE DEF K
    <2> QED BY <1>2, <2>1
  <1>4. PICK q \in K : \A r \in K : Cardinality(L(q)) <= Cardinality(L(r))
    <2>1. \E m \in sizes : \A k \in sizes : ~ (<<k, m>> \in OpToRel(<, Nat))
      <3> HIDE DEF sizes
      <3> QED BY <1>3, WFMin, NatLessThanWellFounded, Zenon
    <2>2. PICK m \in sizes : \A k \in sizes : ~ (<<k, m>> \in OpToRel(<, Nat))
      BY <2>1
    <2>3. \A k \in sizes : ~ (k < m)
      <3> HIDE DEF sizes
      <3> QED BY <1>3, <2>2, Zenon DEF OpToRel
    <2>4. PICK q \in K : m = Cardinality(L(q))
      OBVIOUS
    <2>5. \A r \in K : Cardinality(L(r)) \in sizes
      OBVIOUS
    <2>6. \A k \in sizes : m <= k
      <3> HIDE DEF sizes
      <3> QED BY <1>3, <2>3
    <2> HIDE DEF sizes, K
    <2> QED BY <2>4, <2>5, <2>6
  <1>5. PICK d \in g[q] \cap paths : d \in B
    OBVIOUS
  <1>6. d \in L(q) /\ L(d) \subseteq L(q)
    BY <1>1, <1>5
  <1>7. d \in K
    BY <1>1, <1>5, <1>6
  <1>8. d \in L(d)
    <2> SUFFICES ASSUME d \notin L(d) PROVE FALSE
      OBVIOUS
    <2>1. L(d) \subseteq L(q) /\ L(d) # L(q) /\ IsFiniteSet(L(q))
      BY <1>2, <1>6
    <2>2. Cardinality(L(d)) < Cardinality(L(q))
      BY <1>2, <2>1, FS_Subset
    <2>3. Cardinality(L(q)) <= Cardinality(L(d))
      BY <1>4, <1>7
    <2> QED BY <1>2, <2>2, <2>3
  <1> QED BY <1>7, <1>8 DEF CyclicBy, L

\* The Plans that a batch leaves out of its waves are those whose dependencies lead round in a
\* circle, and after an empty wave there is no other.
LEMMA WavesLeaveCircles ==
  ASSUME NEW paths \in SUBSET Plans, NEW g, Layered(WavesBy(paths, g), paths, g)
  PROVE  /\ \A p \in paths :
              CyclicBy(paths, g, p) <=>
                \A n \in DOMAIN WavesBy(paths, g) : p \notin WavesBy(paths, g)[n]
         /\ \A m, n \in DOMAIN WavesBy(paths, g) :
              m <= n /\ WavesBy(paths, g)[m] = {} => WavesBy(paths, g)[n] = {}
  <1> DEFINE F == Layers(paths, g)
             W == WavesBy(paths, g)
             N == Cardinality(paths)
  <1>1. IsFiniteSet(paths) /\ N \in Nat
    BY PlanAssumption, FS_Subset, FS_CardinalityType DEF PlanAssumption
  <1>2. DOMAIN W = 1 .. N + 1 /\ \A n \in 1 .. N + 1 : W[n] = F[n] \ F[n - 1]
    BY DEF WavesBy
  <1>3. F[0] = {} /\ \A n \in Nat : F[n + 1] = Freed(paths, g, F[n])
    BY LayersFollow
  <1>4. /\ \A n \in Nat : F[n] \subseteq F[n + 1]
        /\ \A m, n \in Nat : m <= n /\ F[m + 1] \subseteq F[m] => F[n + 1] \subseteq F[n]
    BY LayersGrow
  <1>5. W[N + 1] = {}
    BY <1>1, <1>2 DEF Layered
  <1>6. \A n \in Nat : \A p \in F[n] : ~CyclicBy(paths, g, p)
    BY LayersHaveNoCircle
  <1> HIDE DEF F, W, N
  <1>7. ASSUME NEW p \in paths, CyclicBy(paths, g, p), NEW n \in DOMAIN W PROVE p \notin W[n]
    <2>1. n \in Nat /\ W[n] \subseteq F[n]
      BY <1>1, <1>2
    <2> QED BY <1>6, <1>7, <2>1
  <1>8. ASSUME NEW p \in paths, \A n \in DOMAIN W : p \notin W[n] PROVE CyclicBy(paths, g, p)
    <2> DEFINE S == {n \in Nat : n <= N + 1 => p \notin F[n]}
               B == paths \ F[N]
    <2>1. 0 \in S
      BY <1>3
    <2>2. ASSUME NEW n \in Nat, n \in S PROVE n + 1 \in S
      <3> SUFFICES ASSUME n + 1 <= N + 1 PROVE p \notin F[n + 1]
        OBVIOUS
      <3>1. n <= N + 1 /\ n + 1 \in 1 .. N + 1 /\ (n + 1) - 1 = n
        BY <1>1
      <3>2. p \notin F[n] /\ p \notin W[n + 1]
        BY <1>2, <1>8, <2>2, <3>1
      <3> QED BY <1>2, <3>1, <3>2
    <2>3. p \notin F[N]
      <3> HIDE DEF S
      <3>1. Nat \subseteq S
        BY <2>1, <2>2, AllNumbers
      <3>2. N \in S
        BY <1>1, <3>1
      <3> QED BY <1>1, <3>2 DEF S
    <2>4. F[N + 1] \subseteq F[N]
      <3>1. N + 1 \in 1 .. N + 1 /\ (N + 1) - 1 = N
        BY <1>1
      <3> QED BY <1>2, <1>5, <3>1
    <2>5. ASSUME NEW b \in B PROVE \E d \in g[b] \cap paths : d \in B
      <3>1. b \notin Freed(paths, g, F[N])
        BY <1>1, <1>3, <2>4
      <3> QED BY <3>1 DEF Freed
    <2>6. B \in SUBSET paths /\ p \in B
      BY <2>3
    <2> HIDE DEF B
    <2> QED BY <1>1, <2>5, <2>6, CirclesAreLeft
  <1>9. ASSUME NEW m \in DOMAIN W, NEW n \in DOMAIN W, m <= n, W[m] = {} PROVE W[n] = {}
    <2>1. /\ m - 1 \in Nat /\ n - 1 \in Nat /\ m - 1 <= n - 1
          /\ (m - 1) + 1 = m /\ (n - 1) + 1 = n
      BY <1>1, <1>2, <1>9
    <2>2. F[m] \subseteq F[m - 1]
      BY <1>2, <1>9
    <2>3. F[n] \subseteq F[n - 1]
      BY <1>4, <2>1, <2>2
    <2> QED BY <1>2, <2>3
  <1> QED BY <1>7, <1>8, <1>9 DEF W

-----------------------------------------------------------------------------
(* Every Plan that can be decided is *)

\* A batch decides nothing outside of its waves, and when it returns all that is in them.
Settled(x, W) ==
  Many(x) =>
    /\ \A p \in x.paths : (\A n \in DOMAIN W : p \notin W[n]) => x.result[p] = None
    /\ x.pc = "returned" => \A n \in DOMAIN W : \A p \in W[n] : x.result[p] # None

SettledInv == \A c \in Commands : Settled(cmd[c], WavesBy(cmd[c].paths, deps))

\* A run of the Plan is among those of runs.
Built(p, runs) == \E h \in Texts : <<p, h>> \in runs

\* What a command has read or said of a Plan that is implemented is true.
Backed(x, its, runs) ==
  \A p \in Plans :
    /\ x.result[p] = "implemented" /\ ~x.dry => Built(p, runs)
    /\ x.result[p] = "already_implemented" => Built(p, runs)
    /\ p \in x.fresh => Built(p, runs)
    /\ IsImplemented(its[p].was) => Built(p, runs)

BackedInv == \A c \in Commands : Backed(cmd[c], item[c], built)

\* A command that has decided nothing outside of its waves decides a Plan of one.
LEMMA SettledGoesOn ==
  ASSUME NEW x, NEW y, NEW W, Settled(x, W),
         y.paths = x.paths, y.pc # "returned",
         \A p \in x.paths :
           y.result[p] = x.result[p] \/ (Many(x) => \E n \in DOMAIN W : p \in W[n])
  PROVE  Settled(y, W)
  BY DEF Settled, Many

\* A batch that returns has come to an empty wave, or it gives up what is left.
LEMMA SettledReturns ==
  ASSUME NEW x \in CommandRows, NEW its, NEW y, NEW W, NEW g,
         Settled(x, W), Walk(x, its, W, g), Layered(W, x.paths, g),
         Cardinality(x.paths) \in Nat,
         \A m, n \in DOMAIN W : m <= n /\ W[m] = {} => W[n] = {},
         x.pc \in {"waves", "wave"}, y.paths = x.paths,
         \/ /\ Many(x) => W[x.wave] = {}
            /\ y.result = x.result
         \/ \A p \in Plans :
              y.result[p] = IF (\E n \in DOMAIN W : p \in W[n]) /\ x.result[p] = None
                            THEN "skipped" ELSE x.result[p]
  PROVE  Settled(y, W)
  <1> SUFFICES ASSUME Many(x) PROVE Settled(y, W)
    BY DEF Settled, Many
  <1>0. x.paths \subseteq Plans /\ \A n \in DOMAIN W : W[n] \subseteq Plans
    BY DEF CommandRows, Layered
  <1>1. /\ x.wave \in DOMAIN W /\ DOMAIN W \subseteq Nat
        /\ \A m \in DOMAIN W : m < x.wave => \A p \in W[m] : x.result[p] # None
    BY DEF Walk, Decided, Layered
  <1>2. \A p \in x.paths : (\A n \in DOMAIN W : p \notin W[n]) => x.result[p] = None
    BY DEF Settled
  <1>3. CASE W[x.wave] = {} /\ y.result = x.result
    <2>1. ASSUME NEW n \in DOMAIN W, NEW p \in W[n] PROVE x.result[p] # None
      <3>1. ~ (x.wave <= n)
        BY <1>1, <1>3
      <3>2. n < x.wave
        BY <1>1, <3>1
      <3> QED BY <1>1, <3>2
    <2> QED BY <1>2, <1>3, <2>1 DEF Settled
  <1>4. CASE \A p \in Plans :
              y.result[p] = IF (\E n \in DOMAIN W : p \in W[n]) /\ x.result[p] = None
                            THEN "skipped" ELSE x.result[p]
    <2>1. \A p \in x.paths : (\A n \in DOMAIN W : p \notin W[n]) => y.result[p] = None
      BY <1>0, <1>2, <1>4
    <2>2. \A n \in DOMAIN W : \A p \in W[n] : y.result[p] # None
      BY <1>0, <1>4, NoResult
    <2> QED BY <2>1, <2>2 DEF Settled
  <1> QED BY <1>3, <1>4

\* A command that says implemented of no Plan but those it had read as implemented says what
\* is true, and goes on to.
LEMMA BackedGoesOn ==
  ASSUME NEW x, NEW y, NEW its, NEW its2, NEW runs, NEW more,
         Backed(x, its, runs), runs \subseteq more,
         y.dry = x.dry, y.fresh \subseteq x.fresh,
         \A p \in Plans :
           \/ y.result[p] = x.result[p]
           \/ y.result[p] \notin {"implemented", "already_implemented"}
           \/ y.result[p] = "already_implemented" /\ p \in x.fresh,
         \A p \in Plans : its2[p].was = its[p].was \/ its2[p].was = None
  PROVE  Backed(y, its2, more)
  <1>1. \A p \in Plans : Built(p, runs) => Built(p, more)
    BY DEF Built
  <1>2. ~IsImplemented(None)
    BY DEF IsImplemented
  <1> SUFFICES ASSUME NEW p \in Plans
               PROVE  /\ y.result[p] = "implemented" /\ ~y.dry => Built(p, more)
                      /\ y.result[p] = "already_implemented" => Built(p, more)
                      /\ p \in y.fresh => Built(p, more)
                      /\ IsImplemented(its2[p].was) => Built(p, more)
    BY DEF Backed
  <1>3. /\ x.result[p] = "implemented" /\ ~x.dry => Built(p, runs)
        /\ x.result[p] = "already_implemented" => Built(p, runs)
        /\ p \in x.fresh => Built(p, runs)
        /\ IsImplemented(its[p].was) => Built(p, runs)
    BY DEF Backed
  <1>4. y.result[p] = "implemented" /\ ~y.dry => Built(p, more)
    BY <1>1, <1>3
  <1>5. y.result[p] = "already_implemented" => Built(p, more)
    BY <1>1, <1>3
  <1>6. p \in y.fresh => Built(p, more)
    BY <1>1, <1>3
  <1>7. IsImplemented(its2[p].was) => Built(p, more)
    BY <1>1, <1>2, <1>3
  <1> QED BY <1>4, <1>5, <1>6, <1>7

\* A requeued worker has read no ledger.
LEMMA RequeuedLedgers ==
  ASSUME RowsOK, NEW c \in Commands, Requeued(c)
  PROVE  \A p \in Plans : item'[c][p].was = None
  <1>1. PICK S \in SUBSET Plans :
          item' = [item EXCEPT ![c] =
               [p \in Plans |-> IF p \in S THEN [NewItem EXCEPT !.phase = "queued"] ELSE NewItem]]
    BY DEF Requeued
  <1>2. \A p \in Plans : item'[c][p] = IF p \in S THEN [NewItem EXCEPT !.phase = "queued"] ELSE NewItem
    BY <1>1 DEF RowsOK
  <1>3. NewItem.was = None /\ [NewItem EXCEPT !.phase = "queued"].was = None
    BY DEF NewItem
  <1> HIDE DEF NewItem
  <1> QED BY <1>2, <1>3

\* What is left of a command that returns.
LEMMA ReturnKeeps ==
  ASSUME RowsOK, NEW c \in Commands, NEW x, Return(c, x)
  PROVE  /\ cmd'[c].pc = "returned" /\ cmd'[c].paths = x.paths /\ cmd'[c].dry = x.dry
         /\ cmd'[c].fresh = {} /\ cmd'[c].result = x.result
  <1>1. cmd'[c] = [NewCommand EXCEPT !.pc = "returned", !.paths = x.paths, !.stop = x.stop, !.dry = x.dry,
               !.cancelled = x.cancelled, !.failed = x.failed, !.result = x.result]
    BY CommandIsSet DEF Return
  <1> QED BY <1>1 DEF NewCommand

\* What SettledInv and BackedInv say of one command, before a step and after it.
SettledAndBacked(c) ==
  Settled(cmd[c], WavesBy(cmd[c].paths, deps)) /\ Backed(cmd[c], item[c], built)

\* A command begins.
LEMMA StartSettles ==
  ASSUME RowsOK, Resting, WalkInv, RunsAreBacked, NEW c \in Commands, Start(c),
         SettledAndBacked(c)
  PROVE  SettledAndBacked(c)'
  <1> DEFINE x == cmd[c]
             y == cmd'[c]
  <1>1. PICK paths \in (SUBSET Plans) \ {{}}, force \in BOOLEAN, stop \in BOOLEAN, dry \in BOOLEAN :
          LET begun == [x EXCEPT
                !.paths = paths, !.force = force, !.stop = stop, !.dry = dry,
                !.invalid = {p \in paths : IsInvalid(ledger[p])},
                !.fresh = {p \in paths : IsFresh(ledger[p], text[p])},
                !.external = {p \in Plans \ paths : IsImplemented(ledger[p])}]
          IN  IF Cardinality(paths) = 1
              THEN /\ stop
                   /\ SetCmd(c, [begun EXCEPT !.pc = "wave"])
                   /\ item' = [item EXCEPT ![c] =
                          [p \in Plans |-> IF p \in paths THEN [NewItem EXCEPT !.phase = "queued"]
                                           ELSE NewItem]]
              ELSE SetCmd(c, [begun EXCEPT !.pc = "waves"]) /\ UNCHANGED item
    BY DEF Start
  <1> DEFINE begun == [x EXCEPT
                !.paths = paths, !.force = force, !.stop = stop, !.dry = dry,
                !.invalid = {p \in paths : IsInvalid(ledger[p])},
                !.fresh = {p \in paths : IsFresh(ledger[p], text[p])},
                !.external = {p \in Plans \ paths : IsImplemented(ledger[p])}]
  <1>2. x \in CommandRows /\ x.pc = "idle"
    BY DEF RowsOK, Start
  <1>3. begun.fresh = {p \in paths : IsFresh(ledger[p], text[p])} /\ begun.result = x.result
    BY <1>2 DEF CommandRows
  <1>4. \A pc \in {"wave", "waves"} :
             /\ [begun EXCEPT !.pc = pc].pc = pc
             /\ [begun EXCEPT !.pc = pc].fresh = begun.fresh
             /\ [begun EXCEPT !.pc = pc].result = begun.result
    BY <1>2 DEF CommandRows
  <1> HIDE DEF begun
  <1>5. y = [begun EXCEPT !.pc = "wave"] \/ y = [begun EXCEPT !.pc = "waves"]
    BY <1>1, CommandIsSet DEF begun
  <1>6. /\ y.pc # "returned" /\ y.fresh = {p \in paths : IsFresh(ledger[p], text[p])}
        /\ y.result = x.result
    BY <1>3, <1>4, <1>5
  <1>7. Walk(x, item[c], WavesBy(x.paths, deps), deps)
    BY DEF WalkInv
  <1>8. \A p \in Plans : y.result[p] = None
    BY <1>2, <1>6, <1>7 DEF Walk
  <1>9. UNCHANGED <<deps, built>> /\ (UNCHANGED item \/ Requeued(c))
    BY CommandStep
  <1>10. y.paths = paths
    <2>1. begun.paths = paths /\ \A pc \in {"wave", "waves"} : [begun EXCEPT !.pc = pc].paths = begun.paths
      BY <1>2 DEF CommandRows, begun
    <2> QED BY <1>5, <2>1
  <1>11. Settled(y, WavesBy(y.paths, deps))
    <2> HIDE DEF y
    <2> QED BY <1>6, <1>8, <1>10 DEF Settled
  <1>12. ASSUME NEW p \in Plans PROVE IsImplemented(item'[c][p].was) => Built(p, built)
    <2>1. CASE UNCHANGED item
      BY <2>1 DEF SettledAndBacked, Backed
    <2>2. CASE Requeued(c)
      <3>1. item'[c][p].was = None
        BY <2>2, RequeuedLedgers
      <3> QED BY <3>1 DEF IsImplemented
    <2> QED BY <1>9, <2>1, <2>2
  <1>13. \A p \in Plans : p \in y.fresh => Built(p, built)
    BY <1>6 DEF RunsAreBacked, IsFresh, Built
  <1>14. Backed(y, item'[c], built)
    <2> HIDE DEF y
    <2> QED BY <1>8, <1>12, <1>13, NoResult DEF Backed
  <1> QED BY <1>9, <1>11, <1>14 DEF SettledAndBacked

\* A wave's Plan is not called implemented, unless its ledger was when the command started.
LEMMA ClassIsRead ==
  ASSUME NEW x, NEW p
  PROVE  /\ Classify(x, p) # "implemented"
         /\ Classify(x, p) = "already_implemented" => p \in x.fresh
  <1>1. \/ Classify(x, p) \in {None, "failed", "blocked"}
        \/ Classify(x, p) = "already_implemented" /\ p \in x.fresh
    BY DEF Classify
  <1> QED BY <1>1, NoResult

\* A command that returns says no more than it has found, and decides what it leaves.
LEMMA ReturnSettles ==
  ASSUME RowsOK, RowsOK', WalkInv, NEW c \in Commands, NEW x, Return(c, x),
         UNCHANGED <<deps, built>>, SettledAndBacked(c), cmd[c].pc \in {"waves", "wave"},
         x.paths = cmd[c].paths /\ x.dry = cmd[c].dry,
         \/ /\ Many(cmd[c]) => WavesBy(cmd[c].paths, deps)[cmd[c].wave] = {}
            /\ x.result = cmd[c].result
         \/ x.result = Flush(cmd[c]),
         \A p \in Plans : item'[c][p].was = item[c][p].was \/ item'[c][p].was = None
  PROVE  SettledAndBacked(c)'
  <1> DEFINE z == cmd[c]
             y == cmd'[c]
             W == WavesBy(z.paths, deps)
  <1>1. /\ y.paths = z.paths /\ y.dry = z.dry /\ y.fresh = {} /\ y.result = x.result
    BY ReturnKeeps
  <1>2. z \in CommandRows
    BY DEF RowsOK
  <1>3. z.paths \in SUBSET Plans
    BY <1>2 DEF CommandRows
  <1>4. Waves(z.paths) = W /\ Layered(W, z.paths, deps) /\ Cardinality(z.paths) \in Nat
    BY <1>3, CommandWaves
  <1>5. \A m, n \in DOMAIN W : m <= n /\ W[m] = {} => W[n] = {}
    BY <1>3, <1>4, WavesLeaveCircles
  <1>6. Walk(z, item[c], W, deps) /\ Settled(z, W) /\ Backed(z, item[c], built)
    BY DEF WalkInv, SettledAndBacked
  <1>7. \A p \in Plans :
          Flush(z)[p] = IF (\E n \in DOMAIN W : p \in W[n]) /\ z.result[p] = None
                        THEN "skipped" ELSE z.result[p]
    <2> HIDE DEF W, z
    <2> QED BY <1>4 DEF Flush
  <1>8. \/ /\ Many(z) => W[z.wave] = {}
           /\ y.result = z.result
        \/ \A p \in Plans :
             y.result[p] = IF (\E n \in DOMAIN W : p \in W[n]) /\ z.result[p] = None
                           THEN "skipped" ELSE z.result[p]
    BY <1>1, <1>7
  <1>9. Settled(y, W)
    <2>1. z.pc \in {"waves", "wave"} /\ y.paths = z.paths
      BY <1>1
    <2> HIDE DEF y, z, W
    <2> QED BY <1>2, <1>4, <1>5, <1>6, <1>8, <2>1, SettledReturns
  <1>10. \A p \in Plans :
           \/ y.result[p] = z.result[p]
           \/ y.result[p] \notin {"implemented", "already_implemented"}
           \/ y.result[p] = "already_implemented" /\ p \in z.fresh
    BY <1>8
  <1>11. Backed(y, item'[c], built)
    <2>1. \A p \in Plans : item'[c][p].was = item[c][p].was \/ item'[c][p].was = None
      OBVIOUS
    <2> HIDE DEF y, z, W
    <2> QED BY <1>1, <1>6, <1>10, <2>1, BackedGoesOn
  <1> QED BY <1>1, <1>9, <1>11 DEF SettledAndBacked

\* A batch goes on to its next wave.
LEMMA OpenWaveSettles ==
  ASSUME RowsOK, RowsOK', Resting, WalkInv, NEW c \in Commands, OpenWave(c), SettledAndBacked(c)
  PROVE  SettledAndBacked(c)'
  <1> DEFINE x == cmd[c]
             y == cmd'[c]
             W == WavesBy(x.paths, deps)
             wave == W[x.wave]
             class == [p \in Plans |-> IF p \in wave THEN Classify(x, p) ELSE x.result[p]]
             ready == {p \in wave : class[p] = None}
             left == [p \in Plans |-> IF p \in ready THEN "skipped" ELSE class[p]]
             flushed == [x EXCEPT !.failed = TRUE, !.result = Flush(x)]
  <1>1. x \in CommandRows /\ y \in CommandRows
    BY DEF RowsOK
  <1>2. x.pc = "waves" /\ UNCHANGED <<deps, built>>
    BY DEF OpenWave, KeepRest
  <1>3. Walk(x, item[c], W, deps) /\ Settled(x, W) /\ Backed(x, item[c], built)
    BY DEF WalkInv, SettledAndBacked
  <1>4. Waves(x.paths) = W /\ Layered(W, x.paths, deps) /\ Cardinality(x.paths) \in Nat
    <2>1. x.paths \in SUBSET Plans
      BY <1>1 DEF CommandRows
    <2> QED BY <2>1, CommandWaves
  <1>5. \/ wave = {} /\ Return(c, x)
        \/ Return(c, flushed)
        \/ SetCmd(c, [x EXCEPT !.wave = x.wave + 1, !.result = left])
        \/ SetCmd(c, [x EXCEPT !.pc = "wave", !.result = class])
    BY <1>4 DEF OpenWave
  <1>6. ASSUME NEW p \in Plans PROVE item'[c][p].was = item[c][p].was \/ item'[c][p].was = None
    <2>1. UNCHANGED item \/ Requeued(c)
      BY CommandStep
    <2> QED BY <2>1, RequeuedLedgers
  <1>7. x.wave \in DOMAIN W
    BY <1>2, <1>3, <1>4 DEF Walk, Layered
  <1>8. CASE wave = {} /\ Return(c, x)
    BY <1>2, <1>6, <1>8, ReturnSettles
  <1>9. CASE Return(c, flushed)
    <2>1. flushed.paths = x.paths /\ flushed.dry = x.dry /\ flushed.result = Flush(x)
      BY <1>1 DEF CommandRows
    <2>2. Return(c, flushed)
      BY <1>9
    <2> HIDE DEF flushed
    <2> QED BY <1>2, <1>6, <2>1, <2>2, ReturnSettles
  <1>10. ASSUME y.pc # "returned", y.paths = x.paths, y.dry = x.dry, y.fresh = x.fresh,
                \A p \in Plans : y.result[p] = x.result[p]
                                 \/ (p \in wave /\ y.result[p] \in {Classify(x, p), "skipped"})
         PROVE  SettledAndBacked(c)'
    <2>1. \A p \in x.paths : y.result[p] = x.result[p] \/ (Many(x) => \E n \in DOMAIN W : p \in W[n])
      <3>1. x.paths \subseteq Plans
        BY <1>1 DEF CommandRows
      <3> QED BY <1>7, <1>10, <3>1
    <2>2. Settled(y, W)
      <3> HIDE DEF x, y, W
      <3> QED BY <1>3, <1>10, <2>1, SettledGoesOn
    <2>3. \A p \in Plans :
           \/ y.result[p] = x.result[p]
           \/ y.result[p] \notin {"implemented", "already_implemented"}
           \/ y.result[p] = "already_implemented" /\ p \in x.fresh
      BY <1>10, ClassIsRead
    <2>4. \A p \in Plans : item'[c][p].was = item[c][p].was \/ item'[c][p].was = None
      BY <1>6
    <2>5. Backed(y, item'[c], built)
      <3> HIDE DEF x, y, W
      <3> QED BY <1>3, <1>10, <2>3, <2>4, BackedGoesOn
    <2> QED BY <1>2, <1>10, <2>2, <2>5 DEF SettledAndBacked
  <1>11. CASE SetCmd(c, [x EXCEPT !.wave = x.wave + 1, !.result = left])
    <2>1. y = [x EXCEPT !.wave = x.wave + 1, !.result = left]
      <3> HIDE DEF left
      <3> QED BY <1>11, CommandIsSet
    <2>2. /\ y.pc # "returned" /\ y.paths = x.paths /\ y.dry = x.dry /\ y.fresh = x.fresh
          /\ y.result = left
      <3> HIDE DEF left
      <3> QED BY <1>1, <1>2, <2>1 DEF CommandRows
    <2>3. \A p \in Plans : left[p] = x.result[p]
                           \/ (p \in wave /\ left[p] \in {Classify(x, p), "skipped"})
      OBVIOUS
    <2> HIDE DEF left, wave, x, y
    <2> QED BY <1>10, <2>2, <2>3
  <1>12. CASE SetCmd(c, [x EXCEPT !.pc = "wave", !.result = class])
    <2>1. y = [x EXCEPT !.pc = "wave", !.result = class]
      <3> HIDE DEF class
      <3> QED BY <1>12, CommandIsSet
    <2>2. /\ y.pc # "returned" /\ y.paths = x.paths /\ y.dry = x.dry /\ y.fresh = x.fresh
          /\ y.result = class
      <3> HIDE DEF class
      <3> QED BY <1>1, <1>2, <2>1 DEF CommandRows
    <2>3. \A p \in Plans : class[p] = x.result[p]
                           \/ (p \in wave /\ class[p] \in {Classify(x, p), "skipped"})
      OBVIOUS
    <2> HIDE DEF class, wave, x, y
    <2> QED BY <1>10, <2>2, <2>3
  <1> QED BY <1>5, <1>8, <1>9, <1>11, <1>12

\* A batch closes a wave, or gives the rest of it up.
LEMMA CloseWaveSettles ==
  ASSUME RowsOK, RowsOK', Resting, WalkInv, NEW c \in Commands, CloseWave(c), SettledAndBacked(c)
  PROVE  SettledAndBacked(c)'
  <1> DEFINE x == cmd[c]
             y == cmd'[c]
             W == WavesBy(x.paths, deps)
             later == [x EXCEPT !.pc = "waves", !.wave = x.wave + 1,
                         !.stopped = x.stopped \/ (x.stop /\ WaveHadFailure(x))]
             flushed == [x EXCEPT !.failed = TRUE, !.result = Flush(x)]
  <1>1. x \in CommandRows /\ y \in CommandRows
    BY DEF RowsOK
  <1>2. x.pc = "wave" /\ UNCHANGED <<deps, built>>
    BY DEF CloseWave, KeepRest
  <1>3. Settled(x, W) /\ Backed(x, item[c], built)
    BY DEF SettledAndBacked
  <1>4. (~Batch(c) /\ Return(c, x)) \/ SetCmd(c, later) \/ Return(c, flushed)
    BY DEF CloseWave
  <1>5. ASSUME NEW p \in Plans PROVE item'[c][p].was = item[c][p].was \/ item'[c][p].was = None
    <2>1. UNCHANGED item \/ Requeued(c)
      BY CommandStep
    <2> QED BY <2>1, RequeuedLedgers
  <1>6. CASE ~Batch(c) /\ Return(c, x)
    <2>1. ~Many(x)
      BY <1>6 DEF Batch, Many
    <2> QED BY <1>2, <1>5, <1>6, <2>1, ReturnSettles
  <1>7. CASE Return(c, flushed)
    <2>1. flushed.paths = x.paths /\ flushed.dry = x.dry /\ flushed.result = Flush(x)
      BY <1>1 DEF CommandRows
    <2>2. Return(c, flushed)
      BY <1>7
    <2> HIDE DEF flushed
    <2> QED BY <1>2, <1>5, <2>1, <2>2, ReturnSettles
  <1>8. CASE SetCmd(c, later)
    <2>1. y = later
      <3> HIDE DEF later
      <3> QED BY <1>8, CommandIsSet
    <2>2. /\ y.pc # "returned" /\ y.paths = x.paths /\ y.dry = x.dry /\ y.fresh = x.fresh
          /\ y.result = x.result
      BY <1>1, <2>1 DEF CommandRows
    <2>3. Settled(y, W)
      <3> HIDE DEF x, y, W
      <3> QED BY <1>3, <2>2, SettledGoesOn
    <2>4. \A p \in Plans : item'[c][p].was = item[c][p].was \/ item'[c][p].was = None
      BY <1>5
    <2>5. Backed(y, item'[c], built)
      <3> HIDE DEF x, y, W
      <3> QED BY <1>3, <2>2, <2>4, BackedGoesOn
    <2> QED BY <1>2, <2>2, <2>3, <2>5 DEF SettledAndBacked
  <1> QED BY <1>4, <1>6, <1>7, <1>8

\* A command is cancelled, or its process dies.
LEMMA CancelOrCrashSettles ==
  ASSUME RowsOK, NEW c \in Commands, Cancel(c) \/ Crash(c), SettledAndBacked(c)
  PROVE  SettledAndBacked(c)'
  <1> DEFINE x == cmd[c]
             y == cmd'[c]
             W == WavesBy(x.paths, deps)
  <1>1. x \in CommandRows /\ UNCHANGED <<deps, built>>
    BY DEF RowsOK, Cancel, Crash
  <1>2. Settled(x, W) /\ Backed(x, item[c], built)
    BY DEF SettledAndBacked
  <1>3. CASE Cancel(c)
    <2>1. y = [x EXCEPT !.cancelled = TRUE] /\ UNCHANGED item /\ x.pc # "returned"
      BY <1>3, CommandIsSet DEF Cancel
    <2>2. /\ y.pc # "returned" /\ y.paths = x.paths /\ y.dry = x.dry /\ y.fresh = x.fresh
          /\ y.result = x.result
      BY <1>1, <2>1 DEF CommandRows
    <2>3. \A p \in Plans : item'[c][p].was = item[c][p].was \/ item'[c][p].was = None
      BY <2>1
    <2> HIDE DEF x, y, W
    <2>4. Settled(y, W)
      BY <1>2, <2>2, SettledGoesOn
    <2>5. Backed(y, item'[c], built)
      BY <1>2, <2>2, <2>3, BackedGoesOn
    <2> QED BY <1>1, <2>2, <2>4, <2>5 DEF SettledAndBacked, x, y, W
  <1>4. CASE Crash(c)
    <2>1. y = [NewCommand EXCEPT !.pc = "crashed"] /\ item'[c] = [p \in Plans |-> NewItem]
      BY <1>4, CommandIsSet DEF Crash, RowsOK
    <2>2. /\ y.pc # "returned" /\ y.fresh = {} /\ \A p \in Plans : y.result[p] = None
          /\ y.paths = {}
      BY <2>1 DEF NewCommand
    <2>3. \A p \in Plans : item'[c][p].was = None
      BY <2>1 DEF NewItem
    <2> HIDE DEF y
    <2>4. Settled(y, WavesBy(y.paths, deps))
      BY <2>2 DEF Settled
    <2>5. Backed(y, item'[c], built)
      BY <2>2, <2>3, NoResult DEF Backed, IsImplemented
    <2> QED BY <1>1, <2>4, <2>5 DEF SettledAndBacked, y
  <1> QED BY <1>3, <1>4

\* A worker decides about its Plan, and calls it implemented only when its run has succeeded or
\* the ledger it has read said so, or the command only shows what it would do.
LEMMA DecisionSettles ==
  ASSUME RowsOK, Resting, WalkInv, NEW c \in Commands, NEW p \in Plans,
         NEW state \in {"implemented", "already_implemented", "failed"},
         Complete(c, p, state), item[c][p].phase # "none", UNCHANGED deps, built \subseteq built',
         SettledAndBacked(c),
         state = "implemented" => cmd[c].dry \/ Built(p, built),
         state = "already_implemented" => Built(p, built)
  PROVE  SettledAndBacked(c)'
  <1> DEFINE x == cmd[c]
             y == cmd'[c]
             W == WavesBy(x.paths, deps)
  <1>1. x \in CommandRows
    BY DEF RowsOK
  <1>2. Settled(x, W) /\ Backed(x, item[c], built) /\ Walk(x, item[c], W, deps)
    BY DEF SettledAndBacked, WalkInv
  <1>3. x.pc = "wave"
    BY DEF Resting
  <1>4. y = [x EXCEPT !.result[p] = state]
    BY CommandIsSet DEF Complete
  <1>5. /\ y.pc = x.pc /\ y.paths = x.paths /\ y.dry = x.dry /\ y.fresh = x.fresh
        /\ y.result = [x.result EXCEPT ![p] = state]
    BY <1>1, <1>4 DEF CommandRows
  <1>6. y.result[p] = state /\ \A q \in Plans \ {p} : y.result[q] = x.result[q]
    BY <1>1, <1>5 DEF CommandRows
  <1>7. item'[c][p] = NewItem /\ \A q \in Plans \ {p} : item'[c][q] = item[c][q]
    BY DEF Complete, SetItem, RowsOK
  <1>8. item'[c][p].was = None
    BY <1>7 DEF NewItem
  <1>9. x.paths \in SUBSET Plans
    BY <1>1 DEF CommandRows
  <1>10. Layered(W, x.paths, deps)
    BY <1>9, CommandWaves
  <1>11. \A q \in x.paths : y.result[q] = x.result[q] \/ (Many(x) => \E n \in DOMAIN W : q \in W[n])
    <2>1. Many(x) => x.wave \in DOMAIN W /\ p \in W[x.wave]
      BY <1>2, <1>3, <1>10 DEF Walk, AtWork, Layered
    <2> QED BY <1>6, <1>9, <2>1
  <1>12. Settled(y, W)
    <2>1. y.pc # "returned"
      BY <1>3, <1>5
    <2> HIDE DEF x, y, W
    <2> QED BY <1>2, <1>5, <1>11, <2>1, SettledGoesOn
  <1>13. \A q \in Plans : Built(q, built) => Built(q, built')
    BY DEF Built
  <1>14. Backed(y, item'[c], built')
    <2> SUFFICES ASSUME NEW q \in Plans
                 PROVE  /\ y.result[q] = "implemented" /\ ~y.dry => Built(q, built')
                        /\ y.result[q] = "already_implemented" => Built(q, built')
                        /\ q \in y.fresh => Built(q, built')
                        /\ IsImplemented(item'[c][q].was) => Built(q, built')
      BY DEF Backed
    <2>1. /\ x.result[q] = "implemented" /\ ~x.dry => Built(q, built)
          /\ x.result[q] = "already_implemented" => Built(q, built)
          /\ q \in x.fresh => Built(q, built)
          /\ IsImplemented(item[c][q].was) => Built(q, built)
      BY <1>2 DEF Backed
    <2>2. q \in y.fresh => Built(q, built')
      BY <1>5, <1>13, <2>1
    <2>3. CASE q = p
      <3>1. ~IsImplemented(item'[c][q].was)
        BY <1>8, <2>3 DEF IsImplemented
      <3>2. y.result[q] = state /\ y.dry = x.dry
        BY <1>5, <1>6, <2>3
      <3> QED BY <1>13, <2>2, <2>3, <3>1, <3>2
    <2>4. CASE q # p
      <3>1. y.result[q] = x.result[q] /\ y.dry = x.dry /\ item'[c][q] = item[c][q]
        BY <1>5, <1>6, <1>7, <2>4
      <3> QED BY <1>13, <2>1, <2>2, <3>1
    <2> QED BY <2>3, <2>4
  <1> QED BY <1>5, <1>12, <1>14 DEF SettledAndBacked

\* A worker goes on with its Plan, and what it has read of it is true.
LEMMA WorkSettles ==
  ASSUME RowsOK, NEW c \in Commands, NEW p \in Plans, NEW it, SetItem(c, p, it),
         UNCHANGED <<cmd, deps>>, built \subseteq built', SettledAndBacked(c),
         IsImplemented(it.was) => Built(p, built)
  PROVE  SettledAndBacked(c)'
  <1>1. item'[c][p] = it /\ \A q \in Plans \ {p} : item'[c][q] = item[c][q]
    BY DEF SetItem, RowsOK
  <1>2. \A q \in Plans : Built(q, built) => Built(q, built')
    BY DEF Built
  <1>3. Backed(cmd[c], item'[c], built')
    <2> SUFFICES ASSUME NEW q \in Plans
                 PROVE  /\ cmd[c].result[q] = "implemented" /\ ~cmd[c].dry => Built(q, built')
                        /\ cmd[c].result[q] = "already_implemented" => Built(q, built')
                        /\ q \in cmd[c].fresh => Built(q, built')
                        /\ IsImplemented(item'[c][q].was) => Built(q, built')
      BY DEF Backed
    <2>1. /\ cmd[c].result[q] = "implemented" /\ ~cmd[c].dry => Built(q, built)
          /\ cmd[c].result[q] = "already_implemented" => Built(q, built)
          /\ q \in cmd[c].fresh => Built(q, built)
          /\ IsImplemented(item[c][q].was) => Built(q, built)
      BY DEF SettledAndBacked, Backed
    <2>2. IsImplemented(item'[c][q].was) => Built(q, built)
      BY <1>1, <2>1
    <2> QED BY <1>2, <2>1, <2>2
  <1> QED BY <1>3 DEF SettledAndBacked

\* A worker's step.
LEMMA WorkerSettles ==
  ASSUME RowsOK, RowsOK', BatchInv, WalkInv, NEW c \in Commands, NEW p \in Plans,
         ItemSteps(c, p) \/ BackendFails(c, p), SettledAndBacked(c)
  PROVE  SettledAndBacked(c)' /\ built \subseteq built'
  <1>1. item[c][p] \in ItemState /\ ledger[p] \in Ledgers /\ text[p] \in Texts
    BY DEF RowsOK
  <1>2. Resting /\ RunsAreBacked
    BY DEF BatchInv
  <1>3. IsImplemented(item[c][p].was) => Built(p, built)
    BY DEF SettledAndBacked, Backed
  <1>4. item[c][p].phase # "none" /\ UNCHANGED deps
    BY WorkerSteps
  <1>5. ASSUME NEW phase, Goes(c, p, phase), UNCHANGED built
        PROVE  SettledAndBacked(c)' /\ built \subseteq built'
    <2> DEFINE it == [item[c][p] EXCEPT !.phase = phase]
    <2>1. it.was = item[c][p].was
      BY <1>1 DEF ItemState
    <2>2. SetItem(c, p, it) /\ UNCHANGED cmd
      BY <1>5 DEF Goes
    <2> HIDE DEF it
    <2> QED BY <1>3, <1>4, <1>5, <2>1, <2>2, WorkSettles
  <1>6. ASSUME Complete(c, p, "failed"), UNCHANGED built
        PROVE  SettledAndBacked(c)' /\ built \subseteq built'
    BY <1>2, <1>4, <1>6, DecisionSettles
  <1>7. CASE Take(c, p)
    <2> DEFINE it == [NewItem EXCEPT !.phase = "check", !.hash = text[p], !.was = ledger[p]]
    <2>1. it.was = ledger[p]
      BY DEF NewItem
    <2>2. SetItem(c, p, it) /\ UNCHANGED <<cmd, built>>
      BY <1>7 DEF Take, KeepRest
    <2>3. IsImplemented(ledger[p]) => Built(p, built)
      BY <1>2 DEF RunsAreBacked, Built
    <2> HIDE DEF it
    <2> QED BY <1>4, <2>1, <2>2, <2>3, WorkSettles
  <1>8. CASE Check(c, p)
    <2>1. UNCHANGED built
      BY <1>8 DEF Check, KeepRest
    <2>2. \/ Complete(c, p, "failed")
          \/ Complete(c, p, "already_implemented") /\ IsFresh(item[c][p].was, item[c][p].hash)
          \/ cmd[c].dry /\ Complete(c, p, "implemented")
          \/ Goes(c, p, "pending")
      BY <1>8 DEF Check
    <2>3. CASE Complete(c, p, "already_implemented") /\ IsFresh(item[c][p].was, item[c][p].hash)
      <3>1. Built(p, built)
        BY <1>3, <2>3 DEF IsFresh
      <3> QED BY <1>2, <1>4, <2>1, <2>3, <3>1, DecisionSettles
    <2>4. CASE cmd[c].dry /\ Complete(c, p, "implemented")
      BY <1>2, <1>4, <2>1, <2>4, DecisionSettles
    <2> QED BY <1>5, <1>6, <2>1, <2>2, <2>3, <2>4
  <1>9. CASE RecordPending(c, p)
    BY <1>5, <1>9 DEF RecordPending
  <1>10. CASE RecordInProgress(c, p)
    BY <1>5, <1>10 DEF RecordInProgress
  <1>11. CASE RunEnds(c, p)
    <2>1. PICK ok \in BOOLEAN :
            /\ SetItem(c, p, [item[c][p] EXCEPT !.phase = "record", !.ok = ok])
            /\ built' = IF ok THEN built \cup {<<p, item[c][p].hash>>} ELSE built
      BY <1>11 DEF RunEnds
    <2> DEFINE it == [item[c][p] EXCEPT !.phase = "record", !.ok = ok]
    <2>2. it.was = item[c][p].was
      BY <1>1 DEF ItemState
    <2>3. built \subseteq built' /\ UNCHANGED cmd /\ SetItem(c, p, it)
      BY <1>11, <2>1 DEF RunEnds
    <2> HIDE DEF it
    <2> QED BY <1>3, <1>4, <2>2, <2>3, WorkSettles
  <1>12. CASE RecordTerminal(c, p)
    <2>1. Complete(c, p, Terminal(item[c][p])) /\ item[c][p].phase = "record" /\ UNCHANGED built
      BY <1>12 DEF RecordTerminal
    <2>2. CASE item[c][p].ok
      <3>1. Terminal(item[c][p]) = "implemented"
        BY <2>2 DEF Terminal
      <3>2. <<p, item[c][p].hash>> \in built /\ item[c][p].hash \in Texts
        BY <1>1, <1>2, <2>1, <2>2 DEF RunsAreBacked, ItemState
      <3>3. Built(p, built)
        BY <3>2 DEF Built
      <3> QED BY <1>2, <1>4, <2>1, <3>1, <3>3, DecisionSettles
    <2>3. CASE ~item[c][p].ok
      <3>1. Terminal(item[c][p]) = "failed"
        BY <2>3 DEF Terminal
      <3> QED BY <1>6, <2>1, <3>1
    <2> QED BY <2>2, <2>3
  <1>13. CASE BackendFails(c, p)
    BY <1>6, <1>13 DEF BackendFails
  <1> QED BY <1>7, <1>8, <1>9, <1>10, <1>11, <1>12, <1>13 DEF ItemSteps

\* What a command has said stays true.
LEMMA SettledStays ==
  ASSUME NEW d \in Commands, SettledAndBacked(d), UNCHANGED deps, built \subseteq built',
         cmd'[d] = cmd[d], item'[d] = item[d]
  PROVE  SettledAndBacked(d)'
  <1>1. \A p \in Plans : item'[d][p].was = item[d][p].was
    OBVIOUS
  <1>2. Backed(cmd[d], item'[d], built')
    BY <1>1, BackedGoesOn DEF SettledAndBacked
  <1> QED BY <1>2 DEF SettledAndBacked

\* Every command has decided what it should have, and says implemented of nothing that no run
\* has built.
LEMMA SettledHolds == PlanSpec => [](SettledInv /\ BackedInv)
  <1> DEFINE Inv == \A c \in Commands : SettledAndBacked(c)
  <1>1. PlanInit => Inv
    <2> SUFFICES ASSUME PlanInit, NEW c \in Commands PROVE SettledAndBacked(c)
      OBVIOUS
    <2>1. cmd[c] = NewCommand /\ item[c] = [p \in Plans |-> NewItem]
      BY DEF PlanInit
    <2>2. /\ cmd[c].pc # "returned" /\ cmd[c].fresh = {}
          /\ \A p \in Plans : cmd[c].result[p] = None /\ item[c][p].was = None
      BY <2>1 DEF NewCommand, NewItem
    <2>3. cmd[c].paths = {}
      BY <2>1 DEF NewCommand
    <2>4. Settled(cmd[c], WavesBy(cmd[c].paths, deps))
      BY <2>2, <2>3 DEF Settled
    <2>5. Backed(cmd[c], item[c], built)
      BY <2>2, NoResult DEF Backed, IsImplemented
    <2> QED BY <2>4, <2>5 DEF SettledAndBacked
  <1>2. RowsOK /\ RowsOK' /\ BatchInv /\ WalkInv /\ Inv /\ [PlanNext]_planVars => Inv'
    <2> SUFFICES ASSUME RowsOK, RowsOK', BatchInv, WalkInv, Inv, [PlanNext]_planVars PROVE Inv'
      OBVIOUS
    <2>1. ASSUME NEW c \in Commands, UNCHANGED deps, built \subseteq built',
                 \A d \in Commands \ {c} : cmd'[d] = cmd[d] /\ item'[d] = item[d],
                 SettledAndBacked(c)'
          PROVE Inv'
      <3> SUFFICES ASSUME NEW d \in Commands PROVE SettledAndBacked(d)'
        OBVIOUS
      <3>1. CASE d = c
        BY <2>1, <3>1
      <3>2. CASE d # c
        BY <2>1, <3>2, SettledStays
      <3> QED BY <3>1, <3>2
    <2>2. ASSUME UNCHANGED <<deps, cmd, item>>, built \subseteq built' PROVE Inv'
      <3> SUFFICES ASSUME NEW d \in Commands PROVE SettledAndBacked(d)'
        OBVIOUS
      <3> QED BY <2>2, SettledStays
    <2>3. Resting /\ RunsAreBacked
      BY DEF BatchInv
    <2>4. ASSUME NEW c \in Commands, Start(c) \/ OpenWave(c) \/ CloseWave(c) \/ Cancel(c) PROVE Inv'
      <3>1. /\ UNCHANGED <<deps, built>>
            /\ \A d \in Commands \ {c} : cmd'[d] = cmd[d]
            /\ UNCHANGED item \/ Requeued(c)
        BY <2>3, <2>4, CommandStep
      <3>2. \A d \in Commands \ {c} : item'[d] = item[d]
        BY <3>1, RequeuedPhases
      <3>3. SettledAndBacked(c)'
        BY <2>3, <2>4, StartSettles, OpenWaveSettles, CloseWaveSettles, CancelOrCrashSettles
      <3> QED BY <2>1, <3>1, <3>2, <3>3
    <2>5. ASSUME NEW c \in Commands, Crash(c) PROVE Inv'
      <3>1. /\ UNCHANGED <<deps, built>>
            /\ \A d \in Commands \ {c} : cmd'[d] = cmd[d] /\ item'[d] = item[d]
        BY <2>5, CommandIsSet DEF Crash, RowsOK
      <3>2. SettledAndBacked(c)'
        BY <2>5, CancelOrCrashSettles
      <3> QED BY <2>1, <3>1, <3>2
    <2>6. ASSUME NEW c \in Commands, NEW p \in Plans, ItemSteps(c, p) \/ BackendFails(c, p)
          PROVE Inv'
      <3>1. /\ UNCHANGED deps
            /\ \A d \in Commands \ {c} : cmd'[d] = cmd[d] /\ item'[d] = item[d]
        BY <2>6, WorkerSteps
      <3>2. SettledAndBacked(c)' /\ built \subseteq built'
        BY <2>6, WorkerSettles
      <3> QED BY <2>1, <3>1, <3>2
    <2>7. ASSUME (\E p \in Plans : Edit(p) \/ OtherBegins(p)) \/ OtherEnds \/ UNCHANGED planVars
          PROVE Inv'
      <3>1. UNCHANGED <<deps, cmd, item>> /\ built \subseteq built'
        BY <2>7 DEF Edit, OtherBegins, OtherEnds, planVars
      <3> QED BY <2>2, <3>1
    <2> QED BY <2>4, <2>5, <2>6, <2>7 DEF PlanNext
  <1>3. Inv => SettledInv /\ BackedInv
    BY DEF SettledAndBacked, SettledInv, BackedInv
  <1> QED BY <1>1, <1>2, <1>3, RowsHold, BatchInvHolds, WalkInvHolds, PTL DEF PlanSpec

\* A batch that returns has decided every selected Plan of which no dependency leads round in
\* a circle, and no other, and says implemented only of what a run has built, a dry run aside
\* (sortedResults, complete).
THEOREM EveryPlanDecidedAlways == PlanSpec => []EveryPlanDecided
  <1>1. RowsOK /\ SettledInv /\ BackedInv => EveryPlanDecided
    <2> SUFFICES ASSUME RowsOK, SettledInv, BackedInv, NEW c \in Commands,
                        cmd[c].pc = "returned", NEW p \in cmd[c].paths
                 PROVE  /\ Batch(c) => (cmd[c].result[p] = None <=> Cyclic(cmd[c].paths, p))
                        /\ cmd[c].result[p] \in {"implemented", "already_implemented"}
                             /\ ~cmd[c].dry => \E h \in Texts : <<p, h>> \in built
      BY DEF EveryPlanDecided
    <2> DEFINE x == cmd[c]
               W == WavesBy(x.paths, deps)
    <2>1. x.paths \in SUBSET Plans /\ p \in Plans
      BY DEF RowsOK, CommandRows
    <2>2. Layered(W, x.paths, deps)
      BY <2>1, CommandWaves
    <2>3. CyclicBy(x.paths, deps, p) <=> \A n \in DOMAIN W : p \notin W[n]
      BY <2>1, <2>2, WavesLeaveCircles
    <2>4. Cyclic(x.paths, p) <=> CyclicBy(x.paths, deps, p)
      BY DEF Cyclic, LeadsTo, CyclicBy, LeadsBy
    <2>5. Settled(x, W) /\ Backed(x, item[c], built)
      BY DEF SettledInv, BackedInv
    <2>6. Batch(c) => (x.result[p] = None <=> Cyclic(x.paths, p))
      <3>1. Batch(c) <=> Many(x)
        BY DEF Batch, Many
      <3> HIDE DEF x, W
      <3>2. x.pc = "returned" /\ p \in x.paths
        BY DEF x
      <3> QED BY <2>3, <2>4, <2>5, <3>1, <3>2 DEF Settled
    <2>7. x.result[p] \in {"implemented", "already_implemented"} /\ ~x.dry => Built(p, built)
      BY <2>1, <2>5 DEF Backed
    <2> QED BY <2>6, <2>7 DEF Built
  <1> QED BY <1>1, RowsHold, SettledHolds, PTL
=============================================================================
