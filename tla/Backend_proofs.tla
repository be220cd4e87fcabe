---------------------------- MODULE Backend_proofs ----------------------------
(***************************************************************************)
(* The backend's clients and providers, proved: for any number of callers, *)
(* any scripts and any number of turns of the poller, whatever provider is *)
(* killed and whenever.                                                    *)
(***************************************************************************)
EXTENDS ProviderSession, SequenceTheorems, TLAPS

-----------------------------------------------------------------------------
(* The database *)

Database ==
  [clean : BOOLEAN, tables : BOOLEAN, runs : [Callers -> RunStates],
   whole : SUBSET Callers, item : ItemStates,
   lease : {None} \cup Callers, records : SUBSET Kinds]

\* Finished runs have all their records.
WholeRuns(d) == \A r \in Callers : d.runs[r] = "finished" => r \in d.whole

\* What a method makes of database d.
Grows(new, d) ==
  /\ new \in Database
  /\ new.clean = d.clean /\ new.tables = d.tables
  /\ d.whole \subseteq new.whole
  /\ WholeRuns(d) => WholeRuns(new)

\* Whatever is found or allowed, the database stays or becomes the new one.
LEMMA Outcomes ==
  ASSUME NEW d \in Database, NEW new, Grows(new, d), NEW cond \in BOOLEAN,
         NEW done \in {Did(new), Refused(d), Found(d, cond, new), Allowed(d, cond, new)}
  PROVE  Grows(done.db, d) /\ done.result \in Results
  <1>1. Grows(d, d)
    BY DEF Grows
  <1>2. Grows(Did(new).db, d) /\ Did(new).result \in Results
    BY DEF Did, Results
  <1>3. Grows(Refused(d).db, d) /\ Refused(d).result \in Results
    BY <1>1 DEF Refused, Results
  <1>4. /\ Grows([db |-> d, result |-> "absent"].db, d)
        /\ [db |-> d, result |-> "absent"].result \in Results
    BY <1>1 DEF Results
  <1>5. Found(d, cond, new) \in {Did(new), [db |-> d, result |-> "absent"]}
    BY DEF Found
  <1>6. Allowed(d, cond, new) \in {Did(new), Refused(d)}
    BY DEF Allowed
  <1> HIDE DEF Grows
  <1> QED BY <1>2, <1>3, <1>4, <1>5, <1>6

\* The changes methods make.
LEMMA Changes ==
  ASSUME NEW d \in Database, NEW c \in Callers
  PROVE  /\ Grows(d, d)
         /\ Grows([d EXCEPT !.runs[c] = "running"], d)
         /\ Grows([d EXCEPT !.runs[c] = "finished", !.whole = @ \cup {c}], d)
         /\ \A kind \in Kinds : Grows(Recorded(d, kind), d)
         /\ \A item \in ItemStates : Grows([d EXCEPT !.item = item], d)
         /\ \A lease \in {None, c} : Grows([d EXCEPT !.lease = lease], d)
  <1>1. Grows(d, d)
    BY DEF Grows
  <1>2. Grows([d EXCEPT !.runs[c] = "running"], d)
    BY DEF Grows, Database, WholeRuns, RunStates
  <1>3. Grows([d EXCEPT !.runs[c] = "finished", !.whole = @ \cup {c}], d)
    BY DEF Grows, Database, WholeRuns, RunStates
  <1>4. ASSUME NEW kind \in Kinds PROVE Grows(Recorded(d, kind), d)
    BY DEF Grows, Database, WholeRuns, Recorded
  <1>5. ASSUME NEW item \in ItemStates PROVE Grows([d EXCEPT !.item = item], d)
    BY DEF Grows, Database, WholeRuns
  <1>6. ASSUME NEW lease \in {None, c} PROVE Grows([d EXCEPT !.lease = lease], d)
    BY DEF Grows, Database, WholeRuns
  <1> QED BY <1>1, <1>2, <1>3, <1>4, <1>5, <1>6

\* What a method did: the database grew, and its result is one of three.
Handled(done, d) == Grows(done.db, d) /\ done.result \in Results

\* Every method that is not a reading of the state does so.
LEMMA HandlesWell ==
  ASSUME NEW d \in Database, NEW c \in Callers, NEW request \in Requests, ~Reading(request)
  PROVE  Handled(handle(request, d, c), d)
  <1> DEFINE Ok(done) == Handled(done, d)
  <1>0. /\ \A item \in ItemStates : Grows([d EXCEPT !.item = item], d)
        /\ Grows(d, d)
        /\ "pending" \in ItemStates /\ "cancelled" \in ItemStates /\ "claimed" \in ItemStates
        /\ "waiting_approval" \in ItemStates /\ "finished" \in ItemStates
    BY Changes DEF ItemStates, Open
  <1>k. /\ \A kind \in Kinds : Grows(Recorded(d, kind), d)
        /\ "ref" \in Kinds /\ "report" \in Kinds /\ "finding" \in Kinds /\ "approval" \in Kinds
        /\ "cursor" \in Kinds /\ "ledger" \in Kinds
    BY Changes DEF Kinds
  <1>d. ASSUME NEW new, Grows(new, d) PROVE Ok(Did(new))
    BY <1>d, Outcomes DEF Handled
  <1>f. ASSUME NEW new, Grows(new, d), NEW cond \in BOOLEAN PROVE Ok(Found(d, cond, new))
    BY <1>f, Outcomes DEF Handled
  <1>a. ASSUME NEW new, Grows(new, d), NEW cond \in BOOLEAN PROVE Ok(Allowed(d, cond, new))
    BY <1>a, Outcomes DEF Handled
  <1> HIDE DEF Ok
  <1>1. Ok(createRun(d, c)) /\ Ok(finishRun(d, c))
    BY <1>d, Changes DEF createRun, finishRun
  <1>2. Ok(recordEvidenceRef(d, c)) /\ Ok(recordQualityReports(d, c))
    BY <1>k, <1>a DEF recordEvidenceRef, recordQualityReports
  <1>3. Ok(recordFindingObservation(d, c)) /\ Ok(recordFactoryTriggerCursor(d, c)) /\ Ok(recordPlanLedger(d, c))
    BY <1>k, <1>d DEF recordFindingObservation, recordFactoryTriggerCursor, recordPlanLedger
  <1>4. Ok(recordFactoryApproval(d, c))
    BY <1>k, <1>a DEF recordFactoryApproval
  <1>5. Ok(enqueueFactoryWorkItem(d, c))
    BY <1>0, <1>d DEF enqueueFactoryWorkItem
  <1>6. Ok(updatePendingFactoryWorkItem(d, c)) /\ Ok(getFactoryWorkItem(d, c))
    BY <1>0, <1>f DEF updatePendingFactoryWorkItem, getFactoryWorkItem
  <1>7. /\ Ok(listFactoryWorkItems(d, c)) /\ Ok(getFactoryDaemonStatus(d, c))
        /\ Ok(listFactoryApprovals(d, c)) /\ Ok(getFactoryTriggerCursor(d, c))
    BY <1>0, <1>d
    DEF listFactoryWorkItems, getFactoryDaemonStatus, listFactoryApprovals, getFactoryTriggerCursor
  <1>8. Ok(cancelFactoryWorkItem(d, c))
    <2>1. Ok(Refused(d))
      BY <1>0, Outcomes DEF Ok, Handled
    <2>2. Ok(Found(d, d.item # "absent", [d EXCEPT !.item = "cancelled"]))
      BY <1>0, <1>f
    <2> QED BY <2>1, <2>2 DEF cancelFactoryWorkItem
  <1>9. Ok(acquireFactoryDaemonLease(d, c))
    <2>1. Grows([d EXCEPT !.lease = c], d)
      <3>1. \A lease \in {None, c} : Grows([d EXCEPT !.lease = lease], d)
        BY Changes
      <3> QED BY <3>1
    <2>2. (d.lease \in {None, c}) \in BOOLEAN
      OBVIOUS
    <2>3. Ok(Allowed(d, d.lease \in {None, c}, [d EXCEPT !.lease = c]))
      BY ONLY <1>a, <2>1, <2>2
    <2> QED BY <2>3 DEF acquireFactoryDaemonLease
  <1>10. Ok(renewFactoryDaemonLease(d, c)) /\ Ok(releaseFactoryDaemonLease(d, c))
    BY <1>f, Changes DEF renewFactoryDaemonLease, releaseFactoryDaemonLease
  <1>11. Ok(claimFactoryWorkItem(d, c))
    BY <1>0, <1>f DEF claimFactoryWorkItem
  <1>12. Ok(updateFactoryWorkItemPhase(d, c))
    BY <1>0, <1>a DEF updateFactoryWorkItemPhase
  <1>13. Ok(completeFactoryWorkItem(d, c)) /\ Ok(failFactoryWorkItem(d, c))
    BY <1>0, <1>f DEF completeFactoryWorkItem, failFactoryWorkItem
  <1>14. Ok(getPlanLedger(d, c))
    <2>1. ("ledger" \in d.records) \in BOOLEAN
      OBVIOUS
    <2>2. Ok(Found(d, "ledger" \in d.records, d))
      BY ONLY <1>0, <1>f, <2>1
    <2> QED BY <2>2 DEF getPlanLedger
  <1>15. Ok(handle(request, d, c))
    BY <1>1, <1>2, <1>3, <1>4, <1>5, <1>6, <1>7, <1>8, <1>9, <1>10, <1>11, <1>12, <1>13, <1>14
    DEF handle, Requests, Reading
  <1> QED BY <1>15 DEF Ok

\* A not_found becomes a plain no, or an error.
LEMMA AbsentIsNever == \A request \in Requests : request.absent \in {"no", "error"}
  BY DEF Requests, Ask, AskFor, CreateRun, FinishRun, ListRuns, RecordRef, RecordReports,
         RecordObservation, Enqueue, UpdatePending, GetItem, ListItems, CancelItem, AcquireLease,
         RenewLease, ReleaseLease, ClaimItem, UpdatePhase, CompleteItem, FailItem, DaemonStatus,
         RecordApproval, ListApprovals, GetCursor, RecordCursor, RecordLedger, GetLedger, LoadState
-----------------------------------------------------------------------------
(* The invariant *)

Call == [at : ClientSteps, request : {None} \cup Requests, answer : Answers, waits : BOOLEAN]

Server ==
  [at : ServerSteps, on : {"none", "direct", "initialize", "method", "shutdown"},
   reply : {"none"} \cup Results, runs : [Callers -> RunStates], whole : SUBSET Callers]

BackTypes ==
  /\ db \in Database
  /\ lock \in {None} \cup Callers
  /\ provider \in BOOLEAN
  /\ todo \in [Callers -> Seq(Requests)]
  /\ call \in [Callers -> Call]
  /\ server \in [Callers -> Server]
  /\ over \in [Callers -> BOOLEAN]
  /\ ended \in [Callers -> BOOLEAN]
  /\ effects \in [Callers -> Seq(Results)]
  /\ disturbed \in BOOLEAN

\* A provider has the file open, or a direct client has, and nothing was asked of it yet.
Opening == {"opening", "dirtying", "migrating", "reading runs", "reading rest"}

\* Client and provider are at the same place of their conversation.
Talks(k, s) ==
  /\ k.at = "idle" => s.at = "none" /\ s.reply = "none"
  /\ k.at = "closing" => s.at \in {"listening", "gone"} /\ s.reply = "none"
  /\ k.at \in {"initialize", "method", "shutdown"} => s.at # "none" /\ k.request \in Requests
  /\ s.at \notin {"none", "listening", "gone"} => s.reply = "none"
  /\ s.at = "locking" => k.at = "initialize" /\ s.on = "initialize"
  /\ s.at \in Opening => \/ k.at = "initialize" /\ s.on = "initialize"
                         \/ k.at = "method" /\ s.on \in {"method", "direct"}
  /\ s.at = "acting" => /\ k.at = "method" /\ s.on \in {"method", "direct"}
                        /\ ~Reading(k.request)
  /\ s.at \in {"reading runs", "reading rest"} => s.on = "initialize" \/ Reading(k.request)
  /\ s.at = "stopping" => k.at = "shutdown" /\ s.on = "shutdown"
  /\ s.at = "listening" => s.on # "direct"
  /\ s.reply # "none" => \/ k.at \in {"initialize", "method", "shutdown"} /\ k.at = s.on
                         \/ k.at = "method" /\ s.on = "direct"
  /\ k.at \in {"initialize", "shutdown"} => s.on # "direct"
  /\ s.at \notin {"none", "listening", "gone"} \/ s.reply # "none" => k.waits

\* What the database has done for the call, next to what is said of it.
Tells(k, s, e) ==
  /\ e = <<>> \/ \E result \in Results : e = <<result>>
  /\ k.at = "initialize" => e = <<>>
  /\ k.at = "method" /\ s.reply = "none" => e = <<>>
  /\ k.at = "method" /\ s.reply = "done" => Reading(k.request) \/ e = <<"done">>
  /\ k.at = "method" /\ s.reply = "absent" => e = <<"absent">>
  /\ k.at = "shutdown" => k.answer = "ok"
  /\ k.at \in {"shutdown", "closing", "idle"} /\ k.answer = "ok" => Reading(k.request) \/ e = <<"done">>
  /\ k.at \in {"shutdown", "closing", "idle"} /\ k.answer = "no" => e = <<"absent">>

\* What has been read of database d, and what else is known of its tables.
Reads(k, s, d) ==
  /\ s.at = "reading rest" => \A r \in Callers : s.runs[r] = "finished" => r \in d.whole
  /\ s.reply = "done" /\ s.on # "initialize" /\ Reading(k.request) =>
       \A r \in Callers : s.runs[r] = "finished" => r \in s.whole
  /\ k.at = "shutdown" => \A r \in Callers : s.runs[r] # "finished"
  /\ k.at \in {"method", "shutdown"} /\ s.on # "direct" => d.tables
  /\ s.on = "initialize" /\ (s.at \in {"reading runs", "reading rest"} \/ s.reply = "done") => d.tables
  /\ s.at \in {"dirtying", "migrating"} => s.on \in {"initialize", "direct"}

\* Who holds the lock is who opens the file to initialize.
Holds(c) == lock = c <=> server[c].on = "initialize" /\ server[c].at \in Opening

CallOk(c) == Talks(call[c], server[c]) /\ Tells(call[c], server[c], effects[c])
             /\ Reads(call[c], server[c], db) /\ Holds(c)

\* While no migration was cut short or made without the lock: a file that is not clean is being
\* migrated by who holds the lock, and who is about to migrate finds no tables.
Orderly ==
  ~disturbed =>
    /\ db.clean \/ \E c \in Callers : lock = c /\ server[c].at = "migrating"
    /\ \A c \in Callers :
         /\ server[c].at \in {"dirtying", "migrating"} /\ server[c].on = "initialize" => ~db.tables
         /\ server[c].at = "migrating" => server[c].on = "initialize"

BackInv == WholeRuns(db) /\ Orderly /\ \A c \in Callers : CallOk(c)

\* Every process the poller ever started has had a turn.
Started == forgotten + (IF child = "alive" THEN 1 ELSE 0) + (IF fresh = "alive" THEN 1 ELSE 0)

TurnsCount ==
  /\ forgotten \in Nat /\ turns \in 0 .. MaxTurns
  /\ at = "getting" => Started < turns
  /\ Started <= turns

\* Of function f, which becomes g: caller c has v now, the others what they had.
Puts(g, f, c, v) == g[c] = v /\ \A b \in Callers \ {c} : g[b] = f[b]

\* The others' calls rest on nothing that a step of one caller takes back.
LEMMA ByCall ==
  ASSUME BackInv, NEW c \in Callers, NEW k, NEW s, NEW e,
         Puts(call', call, c, k), Puts(server', server, c, s), Puts(effects', effects, c, e),
         \A b \in Callers \ {c} : lock' = b <=> lock = b,
         db.whole \subseteq db'.whole, db.tables => db'.tables, WholeRuns(db'), Orderly',
         Talks(k, s), Tells(k, s, e), Reads(k, s, db'),
         lock' = c <=> s.on = "initialize" /\ s.at \in Opening
  PROVE  BackInv'
  <1>1. ASSUME NEW b \in Callers \ {c} PROVE CallOk(b)'
    <2>1. call'[b] = call[b] /\ server'[b] = server[b] /\ effects'[b] = effects[b]
      BY DEF Puts
    <2>2. CallOk(b)
      BY DEF BackInv
    <2>3. Reads(call[b], server[b], db')
      BY <2>2 DEF CallOk, Reads
    <2> QED BY <2>1, <2>2, <2>3 DEF CallOk, Holds
  <1>2. CallOk(c)'
    BY DEF CallOk, Holds, Puts
  <1> QED BY <1>1, <1>2 DEF BackInv

\* A step that leaves the migration alone.
LEMMA StaysOrderly ==
  ASSUME BackInv, NEW c \in Callers, NEW s, Puts(server', server, c, s),
         \A b \in Callers \ {c} : lock' = b <=> lock = b,
         db'.clean = db.clean, db'.tables = db.tables, disturbed' = disturbed,
         server[c].at # "migrating", s.at \notin {"dirtying", "migrating"}
  PROVE  Orderly'
  <1> SUFFICES ASSUME ~disturbed
               PROVE  /\ db'.clean \/ \E b \in Callers : lock' = b /\ server'[b].at = "migrating"
                      /\ \A b \in Callers :
                           /\ server'[b].at \in {"dirtying", "migrating"} /\ server'[b].on = "initialize"
                                => ~db'.tables
                           /\ server'[b].at = "migrating" => server'[b].on = "initialize"
    BY DEF Orderly
  <1>1. \A b \in Callers \ {c} : server'[b] = server[b]
    BY DEF Puts
  <1>2. server'[c].at \notin {"dirtying", "migrating"}
    BY DEF Puts
  <1>3. db.clean \/ \E b \in Callers \ {c} : lock = b /\ server[b].at = "migrating"
    BY DEF BackInv, Orderly
  <1>4. \A b \in Callers :
          /\ server[b].at \in {"dirtying", "migrating"} /\ server[b].on = "initialize" => ~db.tables
          /\ server[b].at = "migrating" => server[b].on = "initialize"
    BY DEF BackInv, Orderly
  <1> QED BY <1>1, <1>2, <1>3, <1>4

\* A step of the client alone.
LEMMA ByClient ==
  ASSUME BackTypes, BackInv, NEW c \in Callers, NEW k \in Call, NEW s \in Server, NEW e \in Seq(Results),
         call' = [call EXCEPT ![c] = k], server' = [server EXCEPT ![c] = s],
         effects' = [effects EXCEPT ![c] = e],
         UNCHANGED <<db, lock, provider, disturbed>>,
         todo' \in [Callers -> Seq(Requests)],
         over' \in [Callers -> BOOLEAN], ended' \in [Callers -> BOOLEAN],
         server[c].at # "migrating", s.at \notin {"dirtying", "migrating"},
         Talks(k, s), Tells(k, s, e), Reads(k, s, db),
         lock = c <=> s.on = "initialize" /\ s.at \in Opening
  PROVE  BackTypes' /\ BackInv'
  <1>1. BackTypes'
    BY DEF BackTypes
  <1>2. /\ Puts(call', call, c, k) /\ Puts(server', server, c, s)
        /\ Puts(effects', effects, c, e)
    BY DEF BackTypes, Puts
  <1>3. Orderly'
    BY <1>2, StaysOrderly
  <1>4. WholeRuns(db)
    BY DEF BackInv
  <1> QED BY <1>1, <1>2, <1>3, <1>4, ByCall

\* What is known of a call.
LEMMA OfCall ==
  ASSUME BackTypes, BackInv, NEW c \in Callers
  PROVE  /\ call[c] \in Call /\ server[c] \in Server /\ effects[c] \in Seq(Results)
         /\ Talks(call[c], server[c]) /\ Tells(call[c], server[c], effects[c])
         /\ Reads(call[c], server[c], db)
         /\ lock = c <=> server[c].on = "initialize" /\ server[c].at \in Opening
         /\ call = [call EXCEPT ![c] = call[c]] /\ server = [server EXCEPT ![c] = server[c]]
         /\ effects = [effects EXCEPT ![c] = effects[c]]
  <1>1. CallOk(c)
    BY DEF BackInv
  <1>2. call[c] \in Call /\ server[c] \in Server /\ effects[c] \in Seq(Results)
    BY DEF BackTypes
  <1>3. /\ call = [call EXCEPT ![c] = call[c]] /\ server = [server EXCEPT ![c] = server[c]]
        /\ effects = [effects EXCEPT ![c] = effects[c]]
    BY DEF BackTypes
  <1> QED BY <1>1, <1>2, <1>3 DEF CallOk, Holds

-----------------------------------------------------------------------------
(* The client *)

\* No server has read or said anything.
LEMMA NoServerIs ==
  /\ NoServer \in Server /\ NoServer.at = "none" /\ NoServer.on = "none"
  /\ NoServer.reply = "none" /\ NoServer.runs = [c \in Callers |-> "absent"]
  BY DEF NoServer, Server, ServerSteps, RunStates

\* A call begins.
LEMMA BeginKeeps ==
  ASSUME BackTypes, BackInv, NEW c \in Callers, Begin(c)
  PROVE  BackTypes' /\ BackInv'
  <1> DEFINE k == call[c]
             s == server[c]
             request == Head(todo[c])
             direct == [at |-> "method", request |-> request, answer |-> "none", waits |-> TRUE]
             opening == [NoServer EXCEPT !.at = "opening", !.on = "direct"]
             asking == [at |-> "initialize", request |-> request, answer |-> "none", waits |-> FALSE]
             listening == [NoServer EXCEPT !.at = "listening"]
             refused == [NoCall EXCEPT !.request = request, !.answer = "error"]
  <1>0. /\ k \in Call /\ s \in Server /\ Talks(k, s) /\ Reads(k, s, db) /\ k.at = "idle"
        /\ lock # c /\ server = [server EXCEPT ![c] = s]
    BY OfCall DEF Begin, At, Talks, Opening
  <1>1. request \in Requests /\ todo' \in [Callers -> Seq(Requests)]
    <2>1. todo[c] \in Seq(Requests) /\ todo[c] # <<>>
      BY DEF Begin, BackTypes
    <2>2. Head(todo[c]) \in Requests /\ Tail(todo[c]) \in Seq(Requests)
      BY <2>1
    <2> QED BY <2>2 DEF Begin, BackTypes
  <1>2. /\ effects' = [effects EXCEPT ![c] = <<>>] /\ <<>> \in Seq(Results)
        /\ UNCHANGED <<db, lock, provider, disturbed>>
        /\ over' \in [Callers -> BOOLEAN] /\ ended' \in [Callers -> BOOLEAN]
    BY DEF Begin, BackTypes
  <1>3. /\ direct \in Call /\ asking \in Call /\ refused \in Call
        /\ refused.at = "idle" /\ refused.answer = "error"
    BY <1>1 DEF Call, ClientSteps, Answers, NoCall
  <1>4. /\ opening \in Server /\ opening.at = "opening" /\ opening.on = "direct"
        /\ opening.reply = "none"
        /\ listening \in Server /\ listening.at = "listening" /\ listening.on = "none"
        /\ listening.reply = "none"
    BY NoServerIs DEF Server, ServerSteps
  <1>5. \/ call' = [call EXCEPT ![c] = direct] /\ server' = [server EXCEPT ![c] = opening]
        \/ call' = [call EXCEPT ![c] = asking] /\ server' = [server EXCEPT ![c] = listening]
        \/ call' = [call EXCEPT ![c] = refused] /\ server' = [server EXCEPT ![c] = s]
    BY <1>0 DEF Begin
  <1>6. /\ direct.at = "method" /\ direct.request = request /\ direct.waits = TRUE
        /\ asking.at = "initialize" /\ asking.request = request
    OBVIOUS
  <1>7. s.at = "none" /\ s.reply = "none"
    BY <1>0 DEF Talks
  <1> HIDE DEF k, s, request, direct, opening, asking, listening, refused
  <1>s. s = server[c]
    BY DEF s
  <1>8. CASE call' = [call EXCEPT ![c] = direct] /\ server' = [server EXCEPT ![c] = opening]
    <2>1. Talks(direct, opening) /\ Tells(direct, opening, <<>>) /\ Reads(direct, opening, db)
      BY <1>1, <1>4, <1>6 DEF Talks, Tells, Reads, Opening
    <2> QED BY <1>0, <1>1, <1>2, <1>3, <1>4, <1>7, <1>8, <1>s, <2>1, ByClient
  <1>9. CASE call' = [call EXCEPT ![c] = asking] /\ server' = [server EXCEPT ![c] = listening]
    <2>1. Talks(asking, listening) /\ Tells(asking, listening, <<>>) /\ Reads(asking, listening, db)
      BY <1>1, <1>4, <1>6 DEF Talks, Tells, Reads, Opening
    <2> QED BY <1>0, <1>1, <1>2, <1>3, <1>4, <1>7, <1>9, <1>s, <2>1, ByClient
  <1>10. CASE call' = [call EXCEPT ![c] = refused] /\ server' = [server EXCEPT ![c] = s]
    <2>1. Talks(refused, s) /\ Tells(refused, s, <<>>) /\ Reads(refused, s, db)
      BY <1>3, <1>7 DEF Talks, Tells, Reads, Opening
    <2>2. s.at \notin Opening
      BY <1>7 DEF Opening
    <2> QED BY <1>0, <1>1, <1>2, <1>3, <1>7, <1>10, <1>s, <2>1, <2>2, ByClient
  <1> QED BY <1>5, <1>8, <1>9, <1>10

\* A message is sent.
LEMMA SendKeeps ==
  ASSUME BackTypes, BackInv, NEW c \in Callers, Send(c)
  PROVE  BackTypes' /\ BackInv'
  <1> DEFINE k == call[c]
             s == server[c]
             step == CASE At(c, "initialize") -> "locking"
                       [] At(c, "method") -> "opening"
                       [] OTHER -> "stopping"
             kk == [k EXCEPT !.waits = TRUE]
             ss == [s EXCEPT !.on = k.at, !.at = step]
  <1>0. /\ k \in Call /\ s \in Server /\ effects[c] \in Seq(Results)
        /\ Talks(k, s) /\ Tells(k, s, effects[c]) /\ Reads(k, s, db)
        /\ lock = c <=> s.on = "initialize" /\ s.at \in Opening
        /\ effects = [effects EXCEPT ![c] = effects[c]]
    BY OfCall
  <1>1. /\ k.at \in {"initialize", "method", "shutdown"} /\ s.at = "listening"
        /\ ~k.waits
        /\ todo' = todo /\ UNCHANGED <<db, lock, provider, over, ended, effects, disturbed>>
    BY DEF Send, ClientOnly
  <1>2. /\ step \in ServerSteps
        /\ k.at = "initialize" => step = "locking"
        /\ k.at = "method" => step = "opening"
        /\ k.at = "shutdown" => step = "stopping"
    BY <1>1 DEF At, ServerSteps
  <1>3. call' = [call EXCEPT ![c] = kk] /\ server' = [server EXCEPT ![c] = ss]
    BY DEF Send
  <1>4. /\ kk \in Call /\ kk.at = k.at /\ kk.request = k.request /\ kk.answer = k.answer
        /\ kk.waits = TRUE
    BY <1>0 DEF Call
  <1> HIDE DEF step, kk
  <1>5. /\ ss \in Server /\ ss.at = step /\ ss.on = k.at /\ ss.reply = s.reply /\ ss.runs = s.runs
    BY <1>0, <1>1, <1>2 DEF Server
  <1> HIDE DEF k, s, ss
  <1>s. s = server[c]
    BY DEF s
  <1>7. s.reply = "none"
    BY <1>0, <1>1 DEF Talks
  <1>8. Talks(kk, ss) /\ Tells(kk, ss, effects[c]) /\ Reads(kk, ss, db)
    BY <1>0, <1>1, <1>2, <1>4, <1>5, <1>7 DEF Talks, Tells, Reads, Opening
  <1>9. lock = c <=> ss.on = "initialize" /\ ss.at \in Opening
    BY <1>0, <1>1, <1>2, <1>5 DEF Opening
  <1>10. ss.at \notin {"dirtying", "migrating"}
    BY <1>1, <1>2, <1>5
  <1>11. todo' \in [Callers -> Seq(Requests)] /\ over' \in [Callers -> BOOLEAN] /\ ended' \in [Callers -> BOOLEAN]
    BY <1>1 DEF BackTypes
  <1> QED BY <1>0, <1>1, <1>3, <1>4, <1>5, <1>s, <1>8, <1>9, <1>10, <1>11, ByClient

\* A reply is heard and the call goes on, or is over; what it says then is so.
LEMMA HeardKeeps ==
  ASSUME BackTypes, BackInv, NEW c \in Callers, NEW step \in ClientSteps, NEW answer \in Answers,
         call' = [call EXCEPT ![c] = [@ EXCEPT !.at = step, !.answer = answer, !.waits = FALSE]],
         ReplyRead(c), UNCHANGED todo, ClientOnly,
         call[c].at \in {"initialize", "method", "shutdown"}, ~Silent(c),
         \/ step = "closing"
         \/ step = "method" /\ At(c, "initialize") /\ server[c].reply = "done"
         \/ step = "shutdown" /\ At(c, "method") /\ server[c].on # "direct" /\ answer = "ok",
         step # "method" /\ answer = "ok" => Reading(call[c].request) \/ effects[c] = <<"done">>,
         step # "method" /\ answer = "no" => effects[c] = <<"absent">>
  PROVE  BackTypes' /\ BackInv'
  <1> DEFINE k == call[c]
             s == server[c]
             e == effects[c]
             kk == [k EXCEPT !.at = step, !.answer = answer, !.waits = FALSE]
             ss == [NoServer EXCEPT !.at = s.at, !.on = s.on]
  <1>0. /\ k \in Call /\ s \in Server /\ e \in Seq(Results)
        /\ Talks(k, s) /\ Tells(k, s, e) /\ Reads(k, s, db)
        /\ lock = c <=> s.on = "initialize" /\ s.at \in Opening
        /\ effects = [effects EXCEPT ![c] = e]
    BY OfCall
  <1>1. /\ k.at \in {"initialize", "method", "shutdown"} /\ s.reply # "none"
        /\ todo' = todo /\ UNCHANGED <<db, lock, provider, over, ended, effects, disturbed>>
    BY DEF Silent, ClientOnly
  <1>2. /\ \/ step = "closing"
           \/ step = "method" /\ k.at = "initialize" /\ s.reply = "done"
           \/ step = "shutdown" /\ k.at = "method" /\ s.on # "direct" /\ answer = "ok"
        /\ step # "method" /\ answer = "ok" => Reading(k.request) \/ e = <<"done">>
        /\ step # "method" /\ answer = "no" => e = <<"absent">>
    BY DEF At
  <1>3. call' = [call EXCEPT ![c] = kk] /\ server' = [server EXCEPT ![c] = ss]
    BY DEF ReplyRead
  <1>4. /\ kk \in Call /\ kk.at = step /\ kk.request = k.request /\ kk.answer = answer
        /\ kk.waits = FALSE
    BY <1>0 DEF Call
  <1>5. /\ ss \in Server /\ ss.at = s.at /\ ss.on = s.on /\ ss.reply = "none"
        /\ \A r \in Callers : ss.runs[r] = "absent"
    BY <1>0, NoServerIs DEF Server
  <1> HIDE DEF k, s, e, kk, ss
  <1>s. s = server[c] /\ e = effects[c]
    BY DEF s, e
  <1>6. s.at \in {"listening", "gone"}
    BY <1>0, <1>1 DEF Talks, Server, ServerSteps
  <1>7. Talks(kk, ss)
    BY <1>0, <1>1, <1>2, <1>4, <1>5, <1>6 DEF Talks, Opening
  <1>8. Tells(kk, ss, e)
    BY <1>0, <1>1, <1>2, <1>4, <1>5, <1>6 DEF Tells
  <1>9. Reads(kk, ss, db)
    BY <1>0, <1>1, <1>2, <1>4, <1>5, <1>6 DEF Reads, Talks
  <1>10. /\ lock = c <=> ss.on = "initialize" /\ ss.at \in Opening
         /\ ss.at \notin {"dirtying", "migrating"} /\ s.at # "migrating"
    BY <1>0, <1>5, <1>6
  <1>11. todo' \in [Callers -> Seq(Requests)] /\ over' \in [Callers -> BOOLEAN] /\ ended' \in [Callers -> BOOLEAN]
    BY <1>1 DEF BackTypes
  <1>12. effects' = [effects EXCEPT ![c] = e] /\ UNCHANGED <<db, lock, provider, disturbed>>
    BY <1>0, <1>1
  <1> QED BY <1>0, <1>3, <1>4, <1>5, <1>s, <1>7, <1>8, <1>9, <1>10, <1>11, <1>12, ByClient

\* The provider answered backend.initialize, or lacks the capability.
LEMMA HearInitializeKeeps ==
  ASSUME BackTypes, BackInv, NEW c \in Callers, HearInitialize(c)
  PROVE  BackTypes' /\ BackInv'
  <1>1. /\ At(c, "initialize") /\ call[c].at \in {"initialize", "method", "shutdown"}
        /\ ~Silent(c) /\ ReplyRead(c) /\ UNCHANGED todo /\ ClientOnly
    BY DEF HearInitialize, At
  <1>2. /\ "none" \in Answers /\ "error" \in Answers /\ "method" \in ClientSteps /\ "closing" \in ClientSteps
    BY DEF Answers, ClientSteps
  <1>3. CASE Closing(c, "error")
    BY <1>1, <1>2, <1>3, HeardKeeps DEF Closing
  <1>4. CASE server[c].reply = "done" /\ Proceeding(c, "method", "none")
    BY <1>1, <1>2, <1>4, HeardKeeps DEF Proceeding
  <1> QED BY <1>3, <1>4 DEF HearInitialize

\* The method was answered: what the client makes of it is what was done.
LEMMA HearMethodKeeps ==
  ASSUME BackTypes, BackInv, NEW c \in Callers, HearMethod(c)
  PROVE  BackTypes' /\ BackInv'
  <1> DEFINE answer == Outcome(call[c].request, server[c].reply)
  <1>1. /\ At(c, "method") /\ call[c].at \in {"initialize", "method", "shutdown"}
        /\ ~Silent(c) /\ ReplyRead(c) /\ UNCHANGED todo /\ ClientOnly
    BY DEF HearMethod, At
  <1>2. /\ "shutdown" \in ClientSteps /\ "closing" \in ClientSteps
    BY DEF ClientSteps
  <1>3. /\ call[c] \in Call /\ server[c] \in Server /\ call[c].request \in Requests
        /\ Tells(call[c], server[c], effects[c])
    BY <1>1, OfCall DEF Talks
  <1>4. /\ answer \in Answers
        /\ answer = "ok" <=> server[c].reply = "done"
        /\ answer = "no" => server[c].reply = "absent"
    BY <1>3, AbsentIsNever DEF Outcome, Answers
  <1>5. /\ answer = "ok" => Reading(call[c].request) \/ effects[c] = <<"done">>
        /\ answer = "no" => effects[c] = <<"absent">>
    BY <1>1, <1>3, <1>4 DEF Tells, At
  <1>6. IF server[c].on # "direct" /\ server[c].reply = "done"
        THEN Proceeding(c, "shutdown", answer) ELSE Closing(c, answer)
    BY DEF HearMethod
  <1> HIDE DEF answer
  <1>7. CASE server[c].on # "direct" /\ server[c].reply = "done"
    BY <1>1, <1>2, <1>4, <1>5, <1>6, <1>7, HeardKeeps DEF Proceeding
  <1>8. CASE ~(server[c].on # "direct" /\ server[c].reply = "done")
    BY <1>1, <1>2, <1>4, <1>5, <1>6, <1>8, HeardKeeps DEF Closing
  <1> QED BY <1>7, <1>8

\* The provider answered the shutdown.
LEMMA HearShutdownKeeps ==
  ASSUME BackTypes, BackInv, NEW c \in Callers, HearShutdown(c)
  PROVE  BackTypes' /\ BackInv'
  <1> DEFINE answer == IF server[c].reply = "done" THEN call[c].answer ELSE "error"
  <1>1. /\ At(c, "shutdown") /\ call[c].at \in {"initialize", "method", "shutdown"}
        /\ ~Silent(c) /\ ReplyRead(c) /\ UNCHANGED todo /\ ClientOnly
        /\ Closing(c, answer)
    BY DEF HearShutdown, At
  <1>2. "closing" \in ClientSteps /\ "error" \in Answers
    BY DEF ClientSteps, Answers
  <1>3. call[c] \in Call /\ Tells(call[c], server[c], effects[c])
    BY OfCall
  <1>4. /\ answer \in Answers
        /\ answer = "ok" => Reading(call[c].request) \/ effects[c] = <<"done">>
        /\ answer = "no" => effects[c] = <<"absent">>
    BY <1>1, <1>2, <1>3 DEF Tells, At, Call
  <1> HIDE DEF answer
  <1> QED BY <1>1, <1>2, <1>4, HeardKeeps DEF Closing

\* The pipe broke: the call is over with an error.
LEMMA BrokenKeeps ==
  ASSUME BackTypes, BackInv, NEW c \in Callers, Broken(c)
  PROVE  BackTypes' /\ BackInv'
  <1> DEFINE k == call[c]
             s == server[c]
             e == effects[c]
             kk == [k EXCEPT !.at = "closing", !.answer = "error", !.waits = FALSE]
  <1>0. /\ k \in Call /\ s \in Server /\ e \in Seq(Results)
        /\ Talks(k, s) /\ Tells(k, s, e) /\ Reads(k, s, db)
        /\ lock = c <=> s.on = "initialize" /\ s.at \in Opening
        /\ effects = [effects EXCEPT ![c] = e] /\ server = [server EXCEPT ![c] = s]
    BY OfCall
  <1>1. /\ s.at = "gone" /\ s.reply = "none"
        /\ todo' = todo /\ UNCHANGED <<db, lock, provider, over, ended, effects, disturbed, server>>
    BY DEF Broken, Silent, ClientOnly
  <1>2. call' = [call EXCEPT ![c] = kk]
    BY DEF Broken, Closing
  <1>3. /\ kk \in Call /\ kk.at = "closing" /\ kk.answer = "error" /\ kk.request = k.request
    BY <1>0 DEF Call, ClientSteps, Answers
  <1>4. server' = [server EXCEPT ![c] = s] /\ effects' = [effects EXCEPT ![c] = e]
    BY <1>0, <1>1
  <1> HIDE DEF k, s, e, kk
  <1>s. s = server[c] /\ e = effects[c]
    BY DEF s, e
  <1>5. Talks(kk, s) /\ Tells(kk, s, e) /\ Reads(kk, s, db)
    BY <1>0, <1>1, <1>3 DEF Talks, Tells, Reads, Opening
  <1>6. todo' \in [Callers -> Seq(Requests)] /\ over' \in [Callers -> BOOLEAN] /\ ended' \in [Callers -> BOOLEAN]
    BY <1>1 DEF BackTypes
  <1> QED BY <1>0, <1>1, <1>2, <1>3, <1>4, <1>s, <1>5, <1>6, ByClient

\* The provider is gone and the call has returned.
LEMMA ReturnKeeps ==
  ASSUME BackTypes, BackInv, NEW c \in Callers, Return(c)
  PROVE  BackTypes' /\ BackInv'
  <1> DEFINE k == call[c]
             s == server[c]
             e == effects[c]
             kk == [k EXCEPT !.at = "idle"]
  <1>0. /\ k \in Call /\ s \in Server /\ e \in Seq(Results)
        /\ Talks(k, s) /\ Tells(k, s, e)
        /\ lock = c <=> s.on = "initialize" /\ s.at \in Opening
        /\ effects = [effects EXCEPT ![c] = e]
    BY OfCall
  <1>1. /\ k.at = "closing" /\ s.at \in {"none", "gone"}
        /\ UNCHANGED <<db, lock, provider, todo, ended, effects, disturbed>>
        /\ server' = [server EXCEPT ![c] = NoServer] /\ over' = [over EXCEPT ![c] = FALSE]
    BY DEF Return, At, Alive
  <1>2. call' = [call EXCEPT ![c] = kk]
    BY DEF Return
  <1>3. /\ kk \in Call /\ kk.at = "idle" /\ kk.answer = k.answer /\ kk.request = k.request
    BY <1>0 DEF Call, ClientSteps
  <1>4. effects' = [effects EXCEPT ![c] = e]
    BY <1>0, <1>1
  <1> HIDE DEF k, s, e, kk
  <1>s. s = server[c] /\ e = effects[c]
    BY DEF s, e
  <1>5. Talks(kk, NoServer)
    BY <1>3, NoServerIs DEF Talks, Opening
  <1>6. Tells(kk, NoServer, e)
    BY <1>0, <1>1, <1>3 DEF Tells
  <1>7. Reads(kk, NoServer, db)
    BY <1>3, NoServerIs DEF Reads
  <1>8. todo' \in [Callers -> Seq(Requests)] /\ over' \in [Callers -> BOOLEAN] /\ ended' \in [Callers -> BOOLEAN]
    BY <1>1 DEF BackTypes
  <1>9. /\ lock = c <=> NoServer.on = "initialize" /\ NoServer.at \in Opening
        /\ s.at # "migrating" /\ NoServer.at \notin {"dirtying", "migrating"}
    BY <1>0, <1>1, NoServerIs DEF Opening
  <1> QED BY <1>0, <1>1, <1>2, <1>3, <1>4, <1>s, <1>5, <1>6, <1>7, <1>8, <1>9, NoServerIs, ByClient

-----------------------------------------------------------------------------
(* The server *)

\* A step of the server: the call stays as it was.
LEMMA ByServer ==
  ASSUME BackTypes, BackInv, NEW c \in Callers, NEW s \in Server, NEW e \in Seq(Results),
         ServerOnly, server' = [server EXCEPT ![c] = s], effects' = [effects EXCEPT ![c] = e],
         db' \in Database, WholeRuns(db'), db.whole \subseteq db'.whole, db.tables => db'.tables,
         lock' \in {None} \cup Callers, \A b \in Callers \ {c} : lock' = b <=> lock = b,
         disturbed' \in BOOLEAN, Orderly',
         Talks(call[c], s), Tells(call[c], s, e), Reads(call[c], s, db'),
         lock' = c <=> s.on = "initialize" /\ s.at \in Opening
  PROVE  BackTypes' /\ BackInv'
  <1>1. BackTypes'
    BY DEF BackTypes, ServerOnly
  <1>2. /\ Puts(call', call, c, call[c]) /\ Puts(server', server, c, s)
        /\ Puts(effects', effects, c, e)
    BY DEF BackTypes, Puts, ServerOnly
  <1> QED BY <1>1, <1>2, ByCall

\* A server that goes on to another step with the database and the lock as they were.
LEMMA ByStep ==
  ASSUME BackTypes, BackInv, NEW c \in Callers, NEW s \in Server,
         ServerOnly, server' = [server EXCEPT ![c] = s],
         UNCHANGED <<db, lock, effects, disturbed>>,
         server[c].at # "migrating", s.at \notin {"dirtying", "migrating"},
         Talks(call[c], s), Tells(call[c], s, effects[c]), Reads(call[c], s, db),
         lock = c <=> s.on = "initialize" /\ s.at \in Opening
  PROVE  BackTypes' /\ BackInv'
  <1>1. /\ db \in Database /\ WholeRuns(db) /\ lock \in {None} \cup Callers /\ disturbed \in BOOLEAN
        /\ effects[c] \in Seq(Results) /\ effects' = [effects EXCEPT ![c] = effects[c]]
    BY DEF BackTypes, BackInv
  <1>2. Puts(server', server, c, s)
    BY DEF BackTypes, Puts
  <1>3. Orderly'
    BY <1>2, StaysOrderly
  <1> QED BY <1>1, <1>3, ByServer

\* The server at its next step.
LEMMA BecomesIs ==
  ASSUME BackTypes, NEW c \in Callers, NEW step \in ServerSteps, Becomes(c, step)
  PROVE  \E ss \in Server :
           /\ server' = [server EXCEPT ![c] = ss] /\ ss.at = step /\ ss.on = server[c].on
           /\ ss.reply = server[c].reply /\ ss.runs = server[c].runs /\ ss.whole = server[c].whole
  <1> DEFINE s == server[c]
             ss == [s EXCEPT !.at = step]
  <1>1. s \in Server
    BY DEF BackTypes
  <1>2. server' = [server EXCEPT ![c] = ss]
    BY DEF Becomes
  <1> HIDE DEF s
  <1>3. /\ ss \in Server /\ ss.at = step /\ ss.on = s.on /\ ss.reply = s.reply
        /\ ss.runs = s.runs /\ ss.whole = s.whole
    BY <1>1 DEF Server
  <1> QED BY <1>2, <1>3 DEF s

\* The server has replied, and holds no lock.
LEMMA AnsweredIs ==
  ASSUME BackTypes, NEW c \in Callers, NEW reply \in Results, Answered(c, reply)
  PROVE  /\ \E ss \in Server :
              /\ server' = [server EXCEPT ![c] = ss] /\ ss.on = server[c].on
              /\ ss.at = IF server[c].on = "direct" THEN "gone" ELSE "listening"
              /\ ss.reply = reply /\ ss.runs = server[c].runs
         /\ lock' \in {None} \cup Callers /\ lock' # c
         /\ \A b \in Callers \ {c} : lock' = b <=> lock = b
  <1> DEFINE s == server[c]
             step == IF server[c].on = "direct" THEN "gone" ELSE "listening"
             ss == [s EXCEPT !.reply = reply, !.at = step]
  <1>1. s \in Server /\ step \in ServerSteps
    BY DEF BackTypes, ServerSteps
  <1>2. server' = [server EXCEPT ![c] = ss]
    BY DEF Answered
  <1>4. /\ lock' \in {None} \cup Callers /\ lock' # c
        /\ \A b \in Callers \ {c} : lock' = b <=> lock = b
    BY BackendAssumption DEF Answered, BackTypes
  <1> HIDE DEF s, step
  <1>3. ss \in Server /\ ss.at = step /\ ss.on = s.on /\ ss.reply = reply /\ ss.runs = s.runs
    BY <1>1 DEF Server
  <1> QED BY <1>2, <1>3, <1>4 DEF s, step

\* A server that refuses: whatever step it was at, a migration too.
LEMMA RefusedKeeps ==
  ASSUME BackTypes, BackInv, NEW c \in Callers, Answered(c, "refused"), ServerOnly,
         UNCHANGED <<db, effects, disturbed>>,
         server[c].at \in Opening \cup {"acting"},
         server[c].at = "migrating" => db.tables
  PROVE  BackTypes' /\ BackInv'
  <1> DEFINE k == call[c]
             s == server[c]
             e == effects[c]
  <1>0. /\ k \in Call /\ s \in Server /\ e \in Seq(Results)
        /\ Talks(k, s) /\ Tells(k, s, e) /\ Reads(k, s, db)
        /\ effects = [effects EXCEPT ![c] = e]
    BY OfCall
  <1>1. "refused" \in Results
    BY DEF Results
  <1>2. /\ lock' \in {None} \cup Callers /\ lock' # c
        /\ \A b \in Callers \ {c} : lock' = b <=> lock = b
    BY <1>1, AnsweredIs
  <1>3. PICK ss \in Server :
          /\ server' = [server EXCEPT ![c] = ss] /\ ss.on = server[c].on
          /\ ss.at = IF server[c].on = "direct" THEN "gone" ELSE "listening"
          /\ ss.reply = "refused" /\ ss.runs = server[c].runs
    BY <1>1, AnsweredIs
  <1>4. Orderly'
    <2>1. CASE s.at = "migrating"
      <3>1. disturbed
        BY <2>1, <1>0 DEF BackInv, Orderly, Reads
      <3> QED BY <3>1 DEF Orderly
    <2>2. CASE s.at # "migrating"
      <3>1. Puts(server', server, c, ss)
        BY <1>3 DEF BackTypes, Puts
      <3>2. /\ db'.clean = db.clean /\ db'.tables = db.tables /\ disturbed' = disturbed
            /\ ss.at \notin {"dirtying", "migrating"}
        BY <1>3
      <3> QED BY <1>2, <2>2, <3>1, <3>2, StaysOrderly
    <2> QED BY <2>1, <2>2
  <1>5. s.at \in Opening \cup {"acting"} /\ ss.on = s.on /\ ss.runs = s.runs
        /\ ss.at = IF s.on = "direct" THEN "gone" ELSE "listening"
    BY <1>3
  <1>6. /\ effects' = [effects EXCEPT ![c] = e] /\ db' = db /\ disturbed' \in BOOLEAN
        /\ db \in Database /\ WholeRuns(db)
    BY <1>0 DEF BackTypes, BackInv
  <1> HIDE DEF k, s, e
  <1>7. Talks(k, ss)
    BY <1>0, <1>3, <1>5 DEF Talks, Opening
  <1>8. Tells(k, ss, e)
    BY <1>0, <1>3, <1>5 DEF Tells
  <1>9. Reads(k, ss, db)
    BY <1>0, <1>3, <1>5 DEF Reads, Talks, Opening
  <1>10. ss.at \notin Opening
    BY <1>3 DEF Opening
  <1> QED BY <1>0, <1>2, <1>3, <1>4, <1>6, <1>7, <1>8, <1>9, <1>10, ByServer DEF k, e

\* The provider has the migration lock.
LEMMA LockKeeps ==
  ASSUME BackTypes, BackInv, NEW c \in Callers, Lock(c)
  PROVE  BackTypes' /\ BackInv'
  <1> DEFINE k == call[c]
             s == server[c]
             e == effects[c]
  <1>0. /\ k \in Call /\ s \in Server /\ e \in Seq(Results)
        /\ Talks(k, s) /\ Tells(k, s, e) /\ Reads(k, s, db)
        /\ effects = [effects EXCEPT ![c] = e]
    BY OfCall
  <1>1. /\ s.at = "locking" /\ lock = None /\ lock' = c /\ Becomes(c, "opening")
        /\ UNCHANGED <<db, effects, disturbed>> /\ ServerOnly
    BY DEF Lock
  <1>2. "opening" \in ServerSteps
    BY DEF ServerSteps
  <1>3. PICK ss \in Server :
          /\ server' = [server EXCEPT ![c] = ss] /\ ss.at = "opening" /\ ss.on = s.on
          /\ ss.reply = s.reply /\ ss.runs = s.runs
    BY <1>1, <1>2, BecomesIs
  <1>4. \A b \in Callers \ {c} : lock' = b <=> lock = b
    BY <1>1, BackendAssumption
  <1>5. Orderly'
    <2>1. /\ server'[c] = ss /\ \A b \in Callers \ {c} : server'[b] = server[b]
      BY <1>3 DEF BackTypes
    <2>2. ~disturbed => db.clean
      BY <1>1, BackendAssumption DEF BackInv, Orderly
    <2>3. ~disturbed => \A b \in Callers :
            /\ server[b].at \in {"dirtying", "migrating"} /\ server[b].on = "initialize" => ~db.tables
            /\ server[b].at = "migrating" => server[b].on = "initialize"
      BY DEF BackInv, Orderly
    <2>4. db' = db /\ disturbed' = disturbed
      BY <1>1
    <2>5. ~disturbed => \A b \in Callers :
            /\ server'[b].at \in {"dirtying", "migrating"} /\ server'[b].on = "initialize" => ~db.tables
            /\ server'[b].at = "migrating" => server'[b].on = "initialize"
      BY <2>1, <2>3, <1>3
    <2> QED BY <2>2, <2>4, <2>5 DEF Orderly
  <1>6. /\ effects' = [effects EXCEPT ![c] = e] /\ db' = db /\ disturbed' \in BOOLEAN
        /\ db \in Database /\ WholeRuns(db)
    BY <1>0, <1>1 DEF BackTypes, BackInv
  <1> HIDE DEF k, s, e
  <1>7. Talks(k, ss) /\ Tells(k, ss, e) /\ Reads(k, ss, db)
    BY <1>0, <1>1, <1>3 DEF Talks, Tells, Reads, Opening
  <1>8. ss.on = "initialize" /\ ss.at \in Opening
    BY <1>0, <1>1, <1>3 DEF Talks, Opening
  <1> QED BY <1>0, <1>1, <1>3, <1>4, <1>5, <1>6, <1>7, <1>8, ByServer DEF k, e

\* Where a server goes from a file with its tables: it reads them, or acts on them.
LEMMA OpenedKeeps ==
  ASSUME NEW k \in Call, NEW s \in Server, NEW ss \in Server, NEW e, NEW d, NEW loads \in BOOLEAN,
         Talks(k, s), Tells(k, s, e), Reads(k, s, db), s.at \in Opening,
         ss.at = IF loads THEN "reading runs" ELSE "acting",
         loads <=> s.on = "initialize" \/ Reading(k.request),
         ss.on = s.on, ss.reply = s.reply, d.tables
  PROVE  /\ Talks(k, ss) /\ Tells(k, ss, e) /\ Reads(k, ss, d)
         /\ ss.on = "initialize" /\ ss.at \in Opening <=> s.on = "initialize" /\ s.at \in Opening
         /\ ss.at \notin {"dirtying", "migrating"}
  <1>1. Talks(k, ss)
    BY DEF Talks, Opening
  <1>2. Tells(k, ss, e)
    BY DEF Tells
  <1>3. Reads(k, ss, d)
    BY DEF Reads, Talks, Opening
  <1>4. ss.on = "initialize" /\ ss.at \in Opening <=> s.on = "initialize" /\ s.at \in Opening
    BY DEF Opening
  <1> QED BY <1>1, <1>2, <1>3, <1>4

\* The file's version is read.
LEMMA NewStoreKeeps ==
  ASSUME BackTypes, BackInv, NEW c \in Callers, NewStore(c)
  PROVE  BackTypes' /\ BackInv'
  <1> DEFINE k == call[c]
             s == server[c]
             e == effects[c]
             loads == Loads(c)
  <1>0. /\ k \in Call /\ s \in Server /\ e \in Seq(Results)
        /\ Talks(k, s) /\ Tells(k, s, e) /\ Reads(k, s, db)
        /\ lock = c <=> s.on = "initialize" /\ s.at \in Opening
        /\ effects = [effects EXCEPT ![c] = e]
    BY OfCall
  <1>1. /\ s.at = "opening" /\ "opening" \in Opening /\ UNCHANGED <<db, effects, disturbed>> /\ ServerOnly
    BY DEF NewStore, Opening
  <1>2. ASSUME Answered(c, "refused") PROVE BackTypes' /\ BackInv'
    BY <1>1, <1>2, RefusedKeeps
  <1>3. ASSUME db.tables, UNCHANGED lock,
               Becomes(c, IF Loads(c) THEN "reading runs" ELSE "acting")
        PROVE  BackTypes' /\ BackInv'
    <2> DEFINE step == IF Loads(c) THEN "reading runs" ELSE "acting"
    <2>1. step \in ServerSteps /\ Becomes(c, step)
      BY <1>3 DEF ServerSteps
    <2>2. PICK ss \in Server :
            /\ server' = [server EXCEPT ![c] = ss] /\ ss.at = step /\ ss.on = s.on
            /\ ss.reply = s.reply /\ ss.runs = s.runs
      <3> HIDE DEF step
      <3> QED BY <2>1, BecomesIs
    <2>3. /\ Loads(c) \in BOOLEAN
          /\ Loads(c) <=> s.on = "initialize" \/ Reading(k.request)
      BY DEF Loads, Reading
    <2>4. /\ Talks(k, ss) /\ Tells(k, ss, e) /\ Reads(k, ss, db)
          /\ ss.on = "initialize" /\ ss.at \in Opening <=> s.on = "initialize" /\ s.at \in Opening
          /\ ss.at \notin {"dirtying", "migrating"}
      <3> HIDE DEF k, s, e
      <3> QED BY <1>0, <1>1, <1>3, <2>2, <2>3, OpenedKeeps
    <2> QED BY <1>0, <1>1, <1>3, <2>2, <2>4, ByStep
  <1>4. ASSUME db.clean, ~db.tables, UNCHANGED lock, Becomes(c, "dirtying")
        PROVE  BackTypes' /\ BackInv'
    <2>1. "dirtying" \in ServerSteps
      BY DEF ServerSteps
    <2>2. PICK ss \in Server :
            /\ server' = [server EXCEPT ![c] = ss] /\ ss.at = "dirtying" /\ ss.on = s.on
            /\ ss.reply = s.reply /\ ss.runs = s.runs
      BY <1>4, <2>1, BecomesIs
    <2>3. Orderly'
      <3>1. /\ server'[c] = ss /\ \A b \in Callers \ {c} : server'[b] = server[b]
        BY <2>2 DEF BackTypes
      <3>2. ~disturbed => \A b \in Callers :
              /\ server'[b].at \in {"dirtying", "migrating"} /\ server'[b].on = "initialize" => ~db.tables
              /\ server'[b].at = "migrating" => server'[b].on = "initialize"
        BY <1>4, <2>2, <3>1 DEF BackInv, Orderly
      <3>3. db' = db /\ disturbed' = disturbed
        BY <1>1
      <3> QED BY <1>4, <3>2, <3>3 DEF Orderly
    <2>4. s.on \in {"initialize", "direct"}
      BY <1>0, <1>1, <1>4 DEF Talks, Reads, Opening
    <2>5. /\ effects' = [effects EXCEPT ![c] = e] /\ db' = db /\ disturbed' \in BOOLEAN
          /\ db \in Database /\ WholeRuns(db) /\ lock' = lock /\ lock \in {None} \cup Callers
      BY <1>0, <1>1, <1>4 DEF BackTypes, BackInv
    <2> HIDE DEF k, s, e
    <2>6. Talks(k, ss) /\ Tells(k, ss, e) /\ Reads(k, ss, db)
      BY <1>0, <1>1, <2>2, <2>4 DEF Talks, Tells, Reads, Opening
    <2>7. ss.on = "initialize" /\ ss.at \in Opening <=> s.on = "initialize" /\ s.at \in Opening
      BY <1>1, <2>2 DEF Opening
    <2> QED BY <1>0, <1>1, <2>2, <2>3, <2>5, <2>6, <2>7, ByServer DEF k, e
  <1> QED BY <1>2, <1>3, <1>4 DEF NewStore

\* The others that are about to migrate would hold the lock.
LEMMA OneMigrates ==
  ASSUME BackTypes, BackInv, ~disturbed, NEW c \in Callers, server[c].at \in {"dirtying", "migrating"},
         server[c].on = "initialize"
  PROVE  /\ lock = c
         /\ \A b \in Callers \ {c} : ~(server[b].on = "initialize" /\ server[b].at \in Opening)
  <1>1. lock = c
    BY OfCall DEF Opening
  <1>2. \A b \in Callers : lock = b <=> server[b].on = "initialize" /\ server[b].at \in Opening
    BY OfCall
  <1> QED BY <1>1, <1>2

\* The file is marked.
LEMMA MarkDirtyKeeps ==
  ASSUME BackTypes, BackInv, NEW c \in Callers, MarkDirty(c)
  PROVE  BackTypes' /\ BackInv'
  <1> DEFINE k == call[c]
             s == server[c]
             e == effects[c]
             d == [db EXCEPT !.clean = FALSE]
  <1>0. /\ k \in Call /\ s \in Server /\ e \in Seq(Results)
        /\ Talks(k, s) /\ Tells(k, s, e) /\ Reads(k, s, db)
        /\ lock = c <=> s.on = "initialize" /\ s.at \in Opening
        /\ effects = [effects EXCEPT ![c] = e]
    BY OfCall
  <1>1. /\ s.at = "dirtying" /\ db' = d /\ Becomes(c, "migrating") /\ UNCHANGED <<lock, effects>>
        /\ disturbed' = (disturbed \/ s.on = "direct") /\ ServerOnly
    BY DEF MarkDirty
  <1>2. "migrating" \in ServerSteps
    BY DEF ServerSteps
  <1>3. PICK ss \in Server :
          /\ server' = [server EXCEPT ![c] = ss] /\ ss.at = "migrating" /\ ss.on = s.on
          /\ ss.reply = s.reply /\ ss.runs = s.runs
    BY <1>1, <1>2, BecomesIs
  <1>4. /\ d \in Database /\ d.whole = db.whole /\ d.tables = db.tables
        /\ WholeRuns(d) /\ lock \in {None} \cup Callers
    BY DEF BackTypes, Database, BackInv, WholeRuns
  <1>5. disturbed' \in BOOLEAN
    <2>1. disturbed \in BOOLEAN
      BY DEF BackTypes
    <2>2. (disturbed \/ s.on = "direct") \in BOOLEAN
      OBVIOUS
    <2> QED BY <1>1, <2>2
  <1>6. Orderly'
    <2> SUFFICES ASSUME ~disturbed, s.on # "direct"
                 PROVE  /\ \E b \in Callers : lock' = b /\ server'[b].at = "migrating"
                        /\ ~db'.tables
                        /\ \A b \in Callers : server'[b].at = "migrating" => server'[b].on = "initialize"
      BY <1>1 DEF Orderly
    <2>1. s.on = "initialize"
      BY <1>0, <1>1 DEF Reads
    <2>2. lock' = c
      BY <1>1, <2>1, OneMigrates
    <2>3. /\ server'[c] = ss /\ \A b \in Callers \ {c} : server'[b] = server[b]
      BY <1>3 DEF BackTypes
    <2>4. \A b \in Callers :
            /\ server[b].at \in {"dirtying", "migrating"} /\ server[b].on = "initialize" => ~db.tables
            /\ server[b].at = "migrating" => server[b].on = "initialize"
      BY DEF BackInv, Orderly
    <2>5. ~db.tables
      BY <1>1, <2>1, <2>4
    <2>6. ~db'.tables
      BY <1>1, <1>4, <2>5
    <2>7. \A b \in Callers : server'[b].at = "migrating" => server'[b].on = "initialize"
      BY <1>3, <2>1, <2>3, <2>4
    <2>8. server'[c].at = "migrating"
      BY <1>3, <2>3
    <2>9. \E b \in Callers : lock' = b /\ server'[b].at = "migrating"
      BY <2>2, <2>8
    <2> QED BY ONLY <2>6, <2>7, <2>9
  <1>7. effects' = [effects EXCEPT ![c] = e]
    BY <1>0, <1>1
  <1> HIDE DEF k, s, e, d
  <1>8. Talks(k, ss)
    BY <1>0, <1>1, <1>3 DEF Talks, Opening
  <1>n. s.reply = "none"
    BY <1>0, <1>1 DEF Talks
  <1>9. Tells(k, ss, e) /\ Reads(k, ss, d)
    BY <1>0, <1>1, <1>3, <1>4, <1>n DEF Tells, Reads
  <1>10. ss.on = "initialize" /\ ss.at \in Opening <=> s.on = "initialize" /\ s.at \in Opening
    BY <1>1, <1>3 DEF Opening
  <1> QED BY <1>0, <1>1, <1>3, <1>4, <1>5, <1>6, <1>7, <1>8, <1>9, <1>10, ByServer DEF k, e

\* The tables are made, unless they are there.
LEMMA MigrateKeeps ==
  ASSUME BackTypes, BackInv, NEW c \in Callers, Migrate(c)
  PROVE  BackTypes' /\ BackInv'
  <1> DEFINE k == call[c]
             s == server[c]
             e == effects[c]
             d == [db EXCEPT !.clean = TRUE, !.tables = TRUE]
             step == IF Loads(c) THEN "reading runs" ELSE "acting"
  <1>0. /\ k \in Call /\ s \in Server /\ e \in Seq(Results)
        /\ Talks(k, s) /\ Tells(k, s, e) /\ Reads(k, s, db)
        /\ lock = c <=> s.on = "initialize" /\ s.at \in Opening
        /\ effects = [effects EXCEPT ![c] = e]
    BY OfCall
  <1>1. s.at = "migrating" /\ s.at \in Opening /\ UNCHANGED <<effects, disturbed>> /\ ServerOnly
    BY DEF Migrate, Opening
  <1>2. ASSUME db.tables PROVE BackTypes' /\ BackInv'
    <2>1. Answered(c, "refused") /\ UNCHANGED db
      BY <1>2 DEF Migrate
    <2> QED BY <1>1, <1>2, <2>1, RefusedKeeps
  <1>3. ASSUME ~db.tables PROVE BackTypes' /\ BackInv'
    <2>1. step \in ServerSteps
      BY DEF ServerSteps
    <2>2. db' = d /\ Becomes(c, step) /\ lock' = lock
      BY <1>3 DEF Migrate
    <2>3. PICK ss \in Server :
            /\ server' = [server EXCEPT ![c] = ss] /\ ss.at = step /\ ss.on = s.on
            /\ ss.reply = s.reply /\ ss.runs = s.runs
      <3> HIDE DEF step
      <3> QED BY <2>1, <2>2, BecomesIs
    <2>4. /\ d \in Database /\ d.whole = db.whole /\ d.tables /\ d.clean
          /\ WholeRuns(d) /\ lock \in {None} \cup Callers /\ disturbed \in BOOLEAN
      BY DEF BackTypes, Database, BackInv, WholeRuns
    <2>5. /\ Loads(c) \in BOOLEAN
          /\ Loads(c) <=> s.on = "initialize" \/ Reading(k.request)
      BY DEF Loads, Reading
    <2>6. /\ Talks(k, ss) /\ Tells(k, ss, e) /\ Reads(k, ss, d)
          /\ ss.on = "initialize" /\ ss.at \in Opening <=> s.on = "initialize" /\ s.at \in Opening
          /\ ss.at \notin {"dirtying", "migrating"}
      <3> HIDE DEF k, s, e, d
      <3> QED BY <1>0, <1>1, <2>3, <2>4, <2>5, OpenedKeeps
    <2>7. Orderly'
      <3> SUFFICES ASSUME ~disturbed
                   PROVE  /\ db'.clean
                          /\ \A b \in Callers :
                               /\ server'[b].at \in {"dirtying", "migrating"} => server'[b].on # "initialize"
                               /\ server'[b].at = "migrating" => server'[b].on = "initialize"
        BY <1>1 DEF Orderly
      <3>1. \A b \in Callers : server[b].at = "migrating" => server[b].on = "initialize"
        BY DEF BackInv, Orderly
      <3>2. \A b \in Callers \ {c} : ~(server[b].on = "initialize" /\ server[b].at \in Opening)
        BY <1>1, <3>1, OneMigrates
      <3>3. /\ server'[c] = ss /\ \A b \in Callers \ {c} : server'[b] = server[b]
        BY <2>3 DEF BackTypes
      <3>4. db'.clean
        BY <2>2, <2>4
      <3>5. \A b \in Callers : server'[b].at \in {"dirtying", "migrating"} => server'[b].on # "initialize"
        BY <2>6, <3>2, <3>3 DEF Opening
      <3>6. \A b \in Callers : server'[b].at = "migrating" => server'[b].on = "initialize"
        BY <2>6, <3>1, <3>3
      <3> QED BY <3>4, <3>5, <3>6
    <2>8. effects' = [effects EXCEPT ![c] = e]
      BY <1>0, <1>1
    <2> HIDE DEF d, step
    <2> QED BY <1>0, <1>1, <2>2, <2>3, <2>4, <2>6, <2>7, <2>8, ByServer
  <1> QED BY <1>2, <1>3

\* The runs are read.
LEMMA ReadRunsKeeps ==
  ASSUME BackTypes, BackInv, NEW c \in Callers, ReadRuns(c)
  PROVE  BackTypes' /\ BackInv'
  <1> DEFINE k == call[c]
             s == server[c]
             ss == [s EXCEPT !.runs = db.runs, !.at = "reading rest"]
  <1>0. /\ k \in Call /\ s \in Server
        /\ Talks(k, s) /\ Tells(k, s, effects[c]) /\ Reads(k, s, db)
        /\ lock = c <=> s.on = "initialize" /\ s.at \in Opening
    BY OfCall
  <1>1. /\ s.at = "reading runs" /\ UNCHANGED <<db, lock, effects, disturbed>> /\ ServerOnly
        /\ server' = [server EXCEPT ![c] = ss]
    BY DEF ReadRuns
  <1>2. db.runs \in [Callers -> RunStates] /\ WholeRuns(db)
    BY DEF BackTypes, Database, BackInv
  <1> HIDE DEF s
  <1>3. /\ ss \in Server /\ ss.at = "reading rest" /\ ss.on = s.on /\ ss.reply = s.reply
        /\ ss.runs = db.runs
    BY <1>0, <1>2 DEF Server, ServerSteps
  <1> HIDE DEF k, ss
  <1>4. Talks(k, ss)
    BY <1>0, <1>1, <1>3 DEF Talks, Opening
  <1>5. Tells(k, ss, effects[c])
    BY <1>0, <1>1, <1>3 DEF Tells
  <1>6. Reads(k, ss, db)
    BY <1>0, <1>1, <1>2, <1>3 DEF Reads, Talks, WholeRuns, Opening
  <1>7. ss.on = "initialize" /\ ss.at \in Opening <=> s.on = "initialize" /\ s.at \in Opening
    BY <1>1, <1>3 DEF Opening
  <1>8. s.at # "migrating" /\ ss.at \notin {"dirtying", "migrating"}
    BY <1>1, <1>3
  <1> QED BY <1>0, <1>1, <1>3, <1>4, <1>5, <1>6, <1>7, <1>8, ByStep DEF k, s

\* A server that replied with the migration left alone.
LEMMA RepliedKeeps ==
  ASSUME BackTypes, BackInv, NEW c \in Callers, NEW ss \in Server, NEW e \in Seq(Results),
         ServerOnly, server' = [server EXCEPT ![c] = ss], effects' = [effects EXCEPT ![c] = e],
         disturbed' = disturbed, server[c].at # "migrating", ss.at \in {"listening", "gone"},
         lock' \in {None} \cup Callers, lock' # c,
         \A b \in Callers \ {c} : lock' = b <=> lock = b,
         Grows(db', db),
         Talks(call[c], ss), Tells(call[c], ss, e), Reads(call[c], ss, db')
  PROVE  BackTypes' /\ BackInv'
  <1>1. /\ db' \in Database /\ WholeRuns(db') /\ db.whole \subseteq db'.whole
        /\ db'.tables = db.tables /\ db'.clean = db.clean
    BY DEF Grows, BackInv
  <1>2. disturbed' \in BOOLEAN
    BY DEF BackTypes
  <1>3. Puts(server', server, c, ss)
    BY DEF BackTypes, Puts
  <1>4. Orderly'
    BY <1>1, <1>3, StaysOrderly
  <1>5. ss.at \notin Opening
    BY DEF Opening
  <1> QED BY <1>1, <1>2, <1>4, <1>5, ByServer

\* The rest is read, and the reading answered.
LEMMA ReadRestKeeps ==
  ASSUME BackTypes, BackInv, NEW c \in Callers, ReadRest(c)
  PROVE  BackTypes' /\ BackInv'
  <1> DEFINE k == call[c]
             s == server[c]
             e == effects[c]
             step == IF server[c].on = "direct" THEN "gone" ELSE "listening"
             ss == [s EXCEPT !.whole = db.whole, !.reply = "done", !.at = step]
  <1>0. /\ k \in Call /\ s \in Server /\ e \in Seq(Results)
        /\ Talks(k, s) /\ Tells(k, s, e) /\ Reads(k, s, db)
        /\ effects = [effects EXCEPT ![c] = e]
    BY OfCall
  <1>1. s.at = "reading rest" /\ UNCHANGED <<db, effects, disturbed>> /\ ServerOnly
    BY DEF ReadRest
  <1>2. ASSUME Answered(c, "refused") PROVE BackTypes' /\ BackInv'
    BY <1>1, <1>2, RefusedKeeps DEF Opening
  <1>3. ASSUME lock' = IF lock = c THEN None ELSE lock, server' = [server EXCEPT ![c] = ss]
        PROVE  BackTypes' /\ BackInv'
    <2>1. /\ lock' \in {None} \cup Callers /\ lock' # c
          /\ \A b \in Callers \ {c} : lock' = b <=> lock = b
      BY <1>3, BackendAssumption DEF BackTypes
    <2>2. /\ db \in Database /\ db.whole \in SUBSET Callers /\ Grows(db, db)
          /\ effects' = [effects EXCEPT ![c] = e] /\ db' = db
          /\ step \in ServerSteps /\ "done" \in Results
      BY <1>0, <1>1 DEF BackTypes, Database, Grows, ServerSteps, Results
    <2>3. step = IF s.on = "direct" THEN "gone" ELSE "listening"
      OBVIOUS
    <2> HIDE DEF s, step
    <2>4. /\ ss \in Server /\ ss.at = step /\ ss.on = s.on /\ ss.reply = "done"
          /\ ss.runs = s.runs /\ ss.whole = db.whole
      BY <1>0, <2>2 DEF Server
    <2> HIDE DEF k, e, ss
    <2>5. Talks(k, ss)
      BY <1>0, <1>1, <2>3, <2>4 DEF Talks, Opening
    <2>6. Tells(k, ss, e)
      BY <1>0, <1>1, <2>3, <2>4 DEF Tells, Talks, Opening
    <2>7. Reads(k, ss, db)
      BY <1>0, <1>1, <2>3, <2>4 DEF Reads, Talks, Opening
    <2>8. s.at # "migrating" /\ ss.at \in {"listening", "gone"}
      BY <1>1, <2>3, <2>4
    <2> QED BY <1>0, <1>1, <1>3, <2>1, <2>2, <2>4, <2>5, <2>6, <2>7, <2>8, RepliedKeeps DEF k, s, e
  <1> QED BY <1>2, <1>3 DEF ReadRest

\* The method is carried out, once for the call.
LEMMA ActKeeps ==
  ASSUME BackTypes, BackInv, NEW c \in Callers, Act(c)
  PROVE  BackTypes' /\ BackInv'
  <1> DEFINE k == call[c]
             s == server[c]
             done == handle(k.request, db, c)
             r == done.result
             e == Append(effects[c], r)
  <1>0. /\ k \in Call /\ s \in Server /\ Talks(k, s) /\ Tells(k, s, effects[c]) /\ Reads(k, s, db)
    BY OfCall
  <1>1. /\ s.at = "acting" /\ disturbed' = disturbed /\ ServerOnly
        /\ db' = done.db /\ effects' = [effects EXCEPT ![c] = e] /\ Answered(c, r)
    BY DEF Act
  <1> HIDE DEF k, s
  <1>2. k.at = "method" /\ k.request \in Requests /\ ~Reading(k.request) /\ s.reply = "none"
    BY <1>0, <1>1 DEF Talks
  <1>3. db \in Database
    BY DEF BackTypes
  <1>4. Grows(done.db, db) /\ r \in Results
    BY <1>2, <1>3, HandlesWell DEF Handled
  <1>5. effects[c] = <<>>
    BY <1>0, <1>2 DEF Tells
  <1> HIDE DEF done, r
  <1>6. e = <<r>> /\ e \in Seq(Results)
    BY <1>4, <1>5
  <1> HIDE DEF e
  <1>7. /\ lock' \in {None} \cup Callers /\ lock' # c
        /\ \A b \in Callers \ {c} : lock' = b <=> lock = b
    BY <1>1, <1>4, AnsweredIs
  <1>8. PICK ss \in Server :
          /\ server' = [server EXCEPT ![c] = ss] /\ ss.on = server[c].on
          /\ ss.at = IF server[c].on = "direct" THEN "gone" ELSE "listening"
          /\ ss.reply = r /\ ss.runs = server[c].runs
    BY <1>1, <1>4, AnsweredIs
  <1>9. /\ ss.on = s.on /\ ss.runs = s.runs
        /\ ss.at = IF s.on = "direct" THEN "gone" ELSE "listening"
    BY <1>8 DEF s
  <1>10. db'.tables = db.tables /\ Grows(db', db)
    BY <1>1, <1>4 DEF Grows
  <1>11. Talks(k, ss)
    BY <1>0, <1>1, <1>2, <1>4, <1>8, <1>9 DEF Talks, Opening
  <1>12. Tells(k, ss, e)
    <2>1. \E result \in Results : e = <<result>>
      BY <1>4, <1>6
    <2>2. k.at = "method" /\ ss.reply = r /\ r # "none"
      BY <1>2, <1>4, <1>8 DEF Results
    <2>3. /\ r = "done" => e = <<"done">>
          /\ r = "absent" => e = <<"absent">>
      BY <1>6
    <2> QED BY ONLY <2>1, <2>2, <2>3 DEF Tells
  <1>13. Reads(k, ss, db')
    BY <1>0, <1>1, <1>2, <1>9, <1>10 DEF Reads, Talks
  <1>14. server[c].at # "migrating" /\ ss.at \in {"listening", "gone"}
    BY <1>1, <1>8 DEF s
  <1> QED BY <1>1, <1>6, <1>7, <1>8, <1>10, <1>11, <1>12, <1>13, <1>14, RepliedKeeps DEF k

\* The method is refused.
LEMMA ActFailsKeeps ==
  ASSUME BackTypes, BackInv, NEW c \in Callers, ActFails(c)
  PROVE  BackTypes' /\ BackInv'
  BY RefusedKeeps DEF ActFails

\* The provider has done what the shutdown asked of it.
LEMMA ShutdownKeeps ==
  ASSUME BackTypes, BackInv, NEW c \in Callers, Shutdown(c)
  PROVE  BackTypes' /\ BackInv'
  <1> DEFINE k == call[c]
             s == server[c]
             e == effects[c]
  <1>0. /\ k \in Call /\ s \in Server /\ e \in Seq(Results)
        /\ Talks(k, s) /\ Tells(k, s, e) /\ Reads(k, s, db)
        /\ effects = [effects EXCEPT ![c] = e]
    BY OfCall
  <1>1. /\ s.at = "stopping" /\ UNCHANGED <<db, effects, disturbed>> /\ ServerOnly /\ Answered(c, "done")
    BY DEF Shutdown
  <1>2. "done" \in Results
    BY DEF Results
  <1>3. /\ lock' \in {None} \cup Callers /\ lock' # c
        /\ \A b \in Callers \ {c} : lock' = b <=> lock = b
    BY <1>1, <1>2, AnsweredIs
  <1>4. PICK ss \in Server :
          /\ server' = [server EXCEPT ![c] = ss] /\ ss.on = server[c].on
          /\ ss.at = IF server[c].on = "direct" THEN "gone" ELSE "listening"
          /\ ss.reply = "done" /\ ss.runs = server[c].runs
    BY <1>1, <1>2, AnsweredIs
  <1>5. Grows(db', db) /\ effects' = [effects EXCEPT ![c] = e] /\ db' = db
    BY <1>0, <1>1 DEF BackTypes, Grows
  <1>6. /\ ss.on = s.on /\ ss.runs = s.runs /\ k.at = "shutdown" /\ s.on = "shutdown"
        /\ ss.at = "listening"
    BY <1>0, <1>1, <1>4 DEF Talks
  <1> HIDE DEF k, s, e
  <1>7. Talks(k, ss)
    BY <1>0, <1>1, <1>4, <1>6 DEF Talks, Opening
  <1>8. Tells(k, ss, e)
    BY <1>0, <1>6 DEF Tells
  <1>9. Reads(k, ss, db)
    BY <1>0, <1>6 DEF Reads
  <1>10. server[c].at # "migrating" /\ ss.at \in {"listening", "gone"}
    BY <1>1, <1>6 DEF s
  <1> QED BY <1>0, <1>1, <1>3, <1>4, <1>5, <1>7, <1>8, <1>9, <1>10, RepliedKeeps DEF k, e

\* The provider's input was closed.
LEMMA ExitKeeps ==
  ASSUME BackTypes, BackInv, NEW c \in Callers, Exit(c)
  PROVE  BackTypes' /\ BackInv'
  <1> DEFINE k == call[c]
             s == server[c]
             e == effects[c]
  <1>0. /\ k \in Call /\ s \in Server /\ Talks(k, s) /\ Tells(k, s, e) /\ Reads(k, s, db)
        /\ lock = c <=> s.on = "initialize" /\ s.at \in Opening
    BY OfCall
  <1>1. /\ s.at = "listening" /\ k.at = "closing" /\ Becomes(c, "gone")
        /\ UNCHANGED <<db, lock, effects, disturbed>> /\ ServerOnly
    BY DEF Exit, At
  <1>2. "gone" \in ServerSteps
    BY DEF ServerSteps
  <1>3. PICK ss \in Server :
          /\ server' = [server EXCEPT ![c] = ss] /\ ss.at = "gone" /\ ss.on = s.on
          /\ ss.reply = s.reply /\ ss.runs = s.runs
    BY <1>1, <1>2, BecomesIs
  <1> HIDE DEF k, s, e
  <1>4. s.reply = "none"
    BY <1>0, <1>1 DEF Talks
  <1>5. Talks(k, ss) /\ Tells(k, ss, e) /\ Reads(k, ss, db)
    BY <1>0, <1>1, <1>3, <1>4 DEF Talks, Tells, Reads, Opening
  <1>6. ss.on = "initialize" /\ ss.at \in Opening <=> s.on = "initialize" /\ s.at \in Opening
    BY <1>1, <1>3 DEF Opening
  <1>7. s.at # "migrating" /\ ss.at \notin {"dirtying", "migrating"}
    BY <1>1, <1>3
  <1> QED BY <1>0, <1>1, <1>3, <1>5, <1>6, <1>7, ByStep DEF k, s, e

\* The provider is killed, in a migration perhaps.
LEMMA KillKeeps ==
  ASSUME BackTypes, BackInv, NEW c \in Callers, Kill(c)
  PROVE  BackTypes' /\ BackInv'
  <1> DEFINE k == call[c]
             s == server[c]
             e == effects[c]
  <1>0. /\ k \in Call /\ s \in Server /\ e \in Seq(Results)
        /\ Talks(k, s) /\ Tells(k, s, e) /\ Reads(k, s, db)
        /\ effects = [effects EXCEPT ![c] = e]
    BY OfCall
  <1>1. /\ s.at \notin {"none", "gone"} /\ Becomes(c, "gone") /\ s.on # "direct"
        /\ lock' = (IF lock = c THEN None ELSE lock)
        /\ disturbed' = (disturbed \/ s.at = "migrating")
        /\ UNCHANGED <<db, effects>> /\ ServerOnly
    BY DEF Kill, Alive
  <1>2. "gone" \in ServerSteps
    BY DEF ServerSteps
  <1>3. PICK ss \in Server :
          /\ server' = [server EXCEPT ![c] = ss] /\ ss.at = "gone" /\ ss.on = s.on
          /\ ss.reply = s.reply /\ ss.runs = s.runs /\ ss.whole = s.whole
    BY <1>1, <1>2, BecomesIs
  <1>4. /\ lock' \in {None} \cup Callers /\ lock' # c
        /\ \A b \in Callers \ {c} : lock' = b <=> lock = b
    BY <1>1, BackendAssumption DEF BackTypes
  <1>5. disturbed' \in BOOLEAN
    <2>1. (disturbed \/ s.at = "migrating") \in BOOLEAN
      OBVIOUS
    <2> QED BY <1>1, <2>1
  <1>6. Orderly'
    <2>1. CASE disturbed'
      BY <2>1 DEF Orderly
    <2>2. CASE ~disturbed'
      <3>1. s.at # "migrating" /\ disturbed' = disturbed
        BY <1>1, <2>2 DEF BackTypes
      <3>2. Puts(server', server, c, ss)
        BY <1>3 DEF BackTypes, Puts
      <3> QED BY <1>1, <1>3, <1>4, <3>1, <3>2, StaysOrderly
    <2> QED BY <2>1, <2>2
  <1>7. /\ effects' = [effects EXCEPT ![c] = e] /\ db' = db
        /\ db \in Database /\ WholeRuns(db)
    BY <1>0, <1>1 DEF BackTypes, BackInv
  <1> HIDE DEF k, s, e
  <1>8. Talks(k, ss)
    BY <1>0, <1>1, <1>3 DEF Talks, Opening
  <1>9. Tells(k, ss, e)
    BY <1>0, <1>3 DEF Tells
  <1>10. Reads(k, ss, db)
    BY <1>0, <1>3 DEF Reads
  <1>11. ss.at \notin Opening
    BY <1>3 DEF Opening
  <1> QED BY <1>0, <1>1, <1>3, <1>4, <1>5, <1>6, <1>7, <1>8, <1>9, <1>10, <1>11, ByServer DEF k, e

-----------------------------------------------------------------------------
(* Every step *)

\* The invariants are about the calls, their servers and the database.
LEMMA OnlyOthers ==
  ASSUME BackTypes, BackInv, UNCHANGED <<db, lock, provider, call, server, effects, disturbed>>,
         todo' \in [Callers -> Seq(Requests)],
         over' \in [Callers -> BOOLEAN], ended' \in [Callers -> BOOLEAN]
  PROVE  BackTypes' /\ BackInv'
  <1>1. BackTypes'
    BY DEF BackTypes
  <1>2. Orderly'
    BY DEF BackInv, Orderly
  <1>3. \A c \in Callers : CallOk(c)'
    BY DEF BackInv, CallOk, Holds
  <1>4. WholeRuns(db')
    BY DEF BackInv
  <1> QED BY <1>1, <1>2, <1>3, <1>4 DEF BackInv

\* What a caller, its provider, the clock or a signal does.
LEMMA CallersKeep ==
  ASSUME BackTypes, BackInv, NEW c \in Callers,
         ClientNext(c) \/ ServerNext(c) \/ Expire(c) \/ Kill(c) \/ Interrupt(c)
  PROVE  BackTypes' /\ BackInv'
  <1>1. ASSUME ClientNext(c) PROVE BackTypes' /\ BackInv'
    BY <1>1, BeginKeeps, SendKeeps, HearInitializeKeeps, HearMethodKeeps, HearShutdownKeeps,
       BrokenKeeps, ReturnKeeps
    DEF ClientNext
  <1>2. ASSUME ServerNext(c) PROVE BackTypes' /\ BackInv'
    BY <1>2, LockKeeps, NewStoreKeeps, MarkDirtyKeeps, MigrateKeeps, ReadRunsKeeps, ReadRestKeeps,
       ActKeeps, ActFailsKeeps, ShutdownKeeps, ExitKeeps
    DEF ServerNext
  <1>3. ASSUME Expire(c) PROVE BackTypes' /\ BackInv'
    BY <1>3, OnlyOthers DEF Expire, BackTypes
  <1>4. ASSUME Interrupt(c) PROVE BackTypes' /\ BackInv'
    BY <1>4, OnlyOthers DEF Interrupt, BackTypes
  <1> QED BY <1>1, <1>2, <1>3, <1>4, KillKeeps

\* The poller only says what is to be asked next.
LEMMA PollerKeeps ==
  ASSUME BackTypes, BackInv, PollerNext \/ ProcessEnds \/ UNCHANGED vars
  PROVE  BackTypes' /\ BackInv'
  <1>1. UNCHANGED <<db, lock, provider, call, server, over, ended, effects, disturbed>>
    BY DEF PollerNext, ProcessEnds, vars, backendVars, Tick, Close, Get, Dialed, DialFails, Reap,
           PollsNothing, PollsNews, Listed, ApprovalSent, PollFails, SessionCloses, ChildEnds,
           FreshEnds, ForgottenEnds
  <1>2. \/ todo' = todo
        \/ todo' = [todo EXCEPT ![Poller] = <<ListItems>>]
        \/ todo' = [todo EXCEPT ![Poller] = <<RecordApproval>>]
    BY DEF PollerNext, ProcessEnds, vars, backendVars, Tick, Close, Get, Dialed, DialFails, Reap,
           PollsNothing, PollsNews, Listed, ApprovalSent, PollFails, SessionCloses, ChildEnds,
           FreshEnds, ForgottenEnds
  <1>3. <<ListItems>> \in Seq(Requests) /\ <<RecordApproval>> \in Seq(Requests)
    <2>1. ListItems \in Requests /\ RecordApproval \in Requests
      BY DEF Requests
    <2> QED BY <2>1
  <1>4. todo' \in [Callers -> Seq(Requests)]
    BY <1>2, <1>3 DEF BackTypes
  <1>5. over' \in [Callers -> BOOLEAN] /\ ended' \in [Callers -> BOOLEAN]
    BY <1>1 DEF BackTypes
  <1> QED BY <1>1, <1>4, <1>5, OnlyOthers

\* At first nobody asks for anything, and the file is new or has its tables.
LEMMA BackendStarts ==
  ASSUME BackendInit
  PROVE  BackTypes /\ BackInv
  <1>1. /\ NewDatabase \in Database /\ NewDatabase.clean /\ WholeRuns(NewDatabase)
        /\ NewDatabase.runs = [c \in Callers |-> "absent"]
    BY DEF NewDatabase, Database, WholeRuns, RunStates, ItemStates
  <1>2. ASSUME NEW i \in {"absent", "waiting_approval"}
        PROVE  LET d == [NewDatabase EXCEPT !.tables = TRUE, !.item = i]
               IN d \in Database /\ d.clean /\ WholeRuns(d)
    BY <1>1 DEF Database, WholeRuns, ItemStates, Open
  <1>3. db \in Database /\ db.clean /\ WholeRuns(db)
    BY <1>1, <1>2 DEF BackendInit
  <1>4. NoCall \in Call /\ NoCall.at = "idle" /\ NoCall.answer = "none"
    BY DEF NoCall, Call, ClientSteps, Answers
  <1>5. /\ lock = None /\ provider \in BOOLEAN /\ todo \in Scripts
        /\ call = [c \in Callers |-> NoCall] /\ server = [c \in Callers |-> NoServer]
        /\ over = [c \in Callers |-> FALSE] /\ ended = [c \in Callers |-> FALSE]
        /\ effects = [c \in Callers |-> <<>>] /\ disturbed = FALSE
    BY DEF BackendInit
  <1>6. BackTypes
    <2>1. todo \in [Callers -> Seq(Requests)]
      BY <1>5, BackendAssumption
    <2>2. <<>> \in Seq(Results)
      OBVIOUS
    <2> QED BY <1>3, <1>4, <1>5, <2>1, <2>2, NoServerIs DEF BackTypes
  <1>7. Orderly
    BY <1>3, <1>5, NoServerIs DEF Orderly
  <1>8. ASSUME NEW c \in Callers PROVE CallOk(c)
    <2>1. call[c] = NoCall /\ server[c] = NoServer /\ effects[c] = <<>> /\ lock # c
      BY <1>5, BackendAssumption
    <2>2. Talks(NoCall, NoServer) /\ Tells(NoCall, NoServer, <<>>) /\ Reads(NoCall, NoServer, db)
      BY <1>4, NoServerIs DEF Talks, Tells, Reads, Opening
    <2> QED BY <2>1, <2>2, NoServerIs DEF CallOk, Holds
  <1> QED BY <1>3, <1>6, <1>7, <1>8 DEF BackInv

-----------------------------------------------------------------------------
(* The poller *)

SessionInv ==
  /\ at \in PollerSteps /\ connected \in BOOLEAN
  /\ child \in Process /\ fresh \in Process
  /\ TurnsCount

\* The poller starts a process in a turn, and one only.
LEMMA PollerCounts ==
  ASSUME SessionInv, PollerNext \/ ProcessEnds
  PROVE  SessionInv'
  <1> USE SessionAssumption DEF SessionInv, PollerSteps, Process, TurnsCount, Started
  <1>1. ASSUME Tick PROVE SessionInv'
    BY <1>1 DEF Tick
  <1>2. ASSUME Close PROVE SessionInv'
    BY <1>2 DEF Close
  <1>3. ASSUME Get PROVE SessionInv'
    BY <1>3 DEF Get
  <1>4. ASSUME Dialed PROVE SessionInv'
    BY <1>4 DEF Dialed
  <1>5. ASSUME DialFails \/ PollFails PROVE SessionInv'
    BY <1>5 DEF DialFails, PollFails
  <1>6. ASSUME Reap PROVE SessionInv'
    BY <1>6 DEF Reap
  <1>7. ASSUME PollsNothing \/ PollsNews PROVE SessionInv'
    BY <1>7 DEF PollsNothing, PollsNews
  <1>8. ASSUME Listed \/ ApprovalSent PROVE SessionInv'
    BY <1>8 DEF Listed, ApprovalSent
  <1>9. ASSUME SessionCloses PROVE SessionInv'
    BY <1>9 DEF SessionCloses
  <1>10. ASSUME ChildEnds \/ FreshEnds PROVE SessionInv'
    BY <1>10 DEF ChildEnds, FreshEnds
  <1>11. ASSUME ForgottenEnds PROVE SessionInv'
    BY <1>11 DEF ForgottenEnds
  <1> QED BY <1>1, <1>2, <1>3, <1>4, <1>5, <1>6, <1>7, <1>8, <1>9, <1>10, <1>11
      DEF PollerNext, ProcessEnds

\* All of it, kept by every step.
Inv == BackTypes /\ BackInv /\ SessionInv

\* The inductive invariant of the session and the backend beneath it.
THEOREM BackendInvariant == Spec => []Inv
  <1>1. Init => Inv
    <2> SUFFICES ASSUME Init PROVE SessionInv
      BY BackendStarts DEF Init, Inv
    <2>1. /\ at \in {"waiting", "ended"} /\ connected = FALSE
          /\ child = "none" /\ fresh = "none" /\ forgotten = 0 /\ turns = 0
      BY DEF Init, SessionInit
    <2>2. Started = 0
      BY <2>1 DEF Started
    <2>3. TurnsCount
      BY <2>1, <2>2, SessionAssumption DEF TurnsCount
    <2> QED BY <2>1, <2>3 DEF SessionInv, PollerSteps, Process
  <1>2. Inv /\ [Next]_vars => Inv'
    <2> SUFFICES ASSUME Inv, [Next]_vars PROVE Inv'
      OBVIOUS
    <2>1. ASSUME NEW c \in Callers,
                 ClientNext(c) \/ ServerNext(c) \/ Expire(c) \/ Kill(c) \/ Interrupt(c),
                 UNCHANGED sessionVars
          PROVE  Inv'
      <3>1. BackTypes' /\ BackInv'
        BY <2>1, CallersKeep DEF Inv
      <3>2. SessionInv'
        BY <2>1 DEF Inv, SessionInv, sessionVars, TurnsCount, Started
      <3> QED BY <3>1, <3>2 DEF Inv
    <2>2. ASSUME PollerNext \/ ProcessEnds PROVE Inv'
      BY <2>2, PollerKeeps, PollerCounts DEF Inv
    <2>3. ASSUME UNCHANGED vars PROVE Inv'
      <3>1. BackTypes' /\ BackInv'
        BY <2>3, PollerKeeps DEF Inv
      <3>2. SessionInv'
        BY <2>3 DEF Inv, SessionInv, vars, sessionVars, TurnsCount, Started
      <3> QED BY <3>1, <3>2 DEF Inv
    <2> QED BY <2>1, <2>2, <2>3 DEF Next, Rest
  <1> QED BY <1>1, <1>2, PTL DEF Spec

\* A call that returned left nothing behind: no provider that may still write, nobody holding
\* the migration lock (cleanup, client.go:352-356).
THEOREM NothingOutlivesCallAlways == Spec => []NothingOutlivesCall
  <1>1. Inv => NothingOutlivesCall
    <2> SUFFICES ASSUME Inv, NEW c \in Callers, call[c].at = "idle"
                 PROVE  server[c].at = "none" /\ lock # c
      BY DEF NothingOutlivesCall, At
    <2>1. Talks(call[c], server[c]) /\ (lock = c => server[c].at \in Opening)
      BY OfCall DEF Inv
    <2>2. server[c].at = "none"
      BY <2>1 DEF Talks
    <2> QED BY <2>1, <2>2 DEF Opening
  <1> QED BY <1>1, BackendInvariant, PTL

\* What a call says is what was done: ok only of a method that was carried out, no only of one
\* that found nothing, and never is a method carried out twice (client.go:166-202).
THEOREM AnswersAreEffectsAlways == Spec => []AnswersAreEffects
  <1>1. Inv => AnswersAreEffects
    <2> SUFFICES ASSUME Inv, NEW c \in Callers
                 PROVE  /\ Len(effects[c]) <= 1
                        /\ At(c, "idle") =>
                             CASE call[c].answer = "ok" ->
                                      Reading(call[c].request) \/ effects[c] = <<"done">>
                               [] call[c].answer = "no" -> effects[c] = <<"absent">>
                               [] OTHER -> TRUE
      BY DEF AnswersAreEffects
    <2>1. Tells(call[c], server[c], effects[c])
      BY OfCall DEF Inv
    <2>2. effects[c] = <<>> \/ \E result \in Results : effects[c] = <<result>>
      BY <2>1 DEF Tells
    <2>3. Len(effects[c]) <= 1
      <3>1. ASSUME effects[c] = <<>> PROVE Len(effects[c]) <= 1
        BY <3>1
      <3>2. ASSUME NEW result \in Results, effects[c] = <<result>> PROVE Len(effects[c]) <= 1
        <4>1. Len(<<result>>) = 1
          OBVIOUS
        <4> QED BY ONLY <3>2, <4>1
      <3> QED BY <2>2, <3>1, <3>2
    <2>4. At(c, "idle") => /\ call[c].answer = "ok" => Reading(call[c].request) \/ effects[c] = <<"done">>
                           /\ call[c].answer = "no" => effects[c] = <<"absent">>
      BY <2>1 DEF Tells, At
    <2>5. At(c, "idle") =>
            CASE call[c].answer = "ok" -> Reading(call[c].request) \/ effects[c] = <<"done">>
              [] call[c].answer = "no" -> effects[c] = <<"absent">>
              [] OTHER -> TRUE
      BY <2>4
    <2> QED BY ONLY <2>3, <2>5
  <1> QED BY <1>1, BackendInvariant, PTL

\* A run that is listed as finished is listed with its targets and its evidence, though the
\* tables are read one after the other; and no provider meets a half-migrated file unless a
\* migration was cut short or made without the lock (load.go:9-93, save.go, provider.go:146-159,
\* migrate_lock.go).
THEOREM RecordsAreWholeAlways == Spec => []RecordsAreWhole
  <1>1. Inv => SessionTypeOK
    <2> SUFFICES ASSUME Inv PROVE SessionTypeOK
      OBVIOUS
    <2>1. \A c \in Callers : \A i \in DOMAIN todo[c] : todo[c][i] \in Requests
      <3> SUFFICES ASSUME NEW c \in Callers, NEW i \in DOMAIN todo[c] PROVE todo[c][i] \in Requests
        OBVIOUS
      <3>1. todo[c] \in Seq(Requests)
        BY DEF Inv, BackTypes
      <3> QED BY <3>1, ElementOfSeq, LenProperties
    <2>2. BackendTypeOK
      BY <2>1 DEF Inv, BackTypes, BackendTypeOK, Database, Call, Server
    <2>3. forgotten \in 0 .. MaxTurns
      BY SessionAssumption DEF Inv, SessionInv, TurnsCount, Started
    <2> QED BY <2>2, <2>3 DEF Inv, SessionInv, TurnsCount, SessionTypeOK
  <1>2. Inv => ListedRunsAreWhole
    <2> SUFFICES ASSUME Inv, NEW c \in Callers, server[c].reply = "done",
                        server[c].on # "initialize", Reading(call[c].request)
                 PROVE  \A r \in Callers : server[c].runs[r] = "finished" => r \in server[c].whole
      BY DEF ListedRunsAreWhole
    <2>1. Reads(call[c], server[c], db)
      BY OfCall DEF Inv
    <2> QED BY <2>1 DEF Reads
  <1>3. Inv => MigratedOnce
    <2> SUFFICES ASSUME Inv, ~disturbed, NEW c \in Callers, server[c].at = "opening",
                        server[c].on # "direct"
                 PROVE  db.clean
      BY DEF MigratedOnce
    <2>1. Talks(call[c], server[c]) /\ Reads(call[c], server[c], db)
      BY OfCall DEF Inv
    <2>2. \A b \in Callers : lock = b <=> server[b].on = "initialize" /\ server[b].at \in Opening
      BY OfCall DEF Inv
    <2> SUFFICES ASSUME NEW b \in Callers, lock = b, server[b].at = "migrating" PROVE FALSE
      BY DEF Inv, BackInv, Orderly
    <2>3. server[b].on = "initialize" /\ ~db.tables
      BY <2>2 DEF Inv, BackInv, Orderly
    <2>4. CASE server[c].on = "initialize"
      <3>1. lock = c
        BY <2>2, <2>4 DEF Opening
      <3> QED BY <3>1
    <2>5. CASE server[c].on # "initialize"
      <3>1. call[c].at = "method" /\ server[c].on # "direct"
        BY <2>1, <2>5 DEF Talks, Opening
      <3> QED BY <2>1, <2>3, <3>1 DEF Reads
    <2> QED BY <2>4, <2>5
  <1> QED BY <1>1, <1>2, <1>3, BackendInvariant, PTL DEF RecordsAreWhole
=============================================================================
