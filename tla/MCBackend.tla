----------------------------- MODULE MCBackend -----------------------------
EXTENDS ProviderSession, TLC

CONSTANTS a, b, p

\* What a and b ask, one after the other; the poller asks what its turns ask.
Pairs ==
    { <<<<CreateRun, FinishRun>>, <<ListRuns>>>>,
      <<<<CreateRun, RecordRef>>, <<LoadState>>>>,
      <<<<RecordReports>>, <<RecordObservation>>>>,
      <<<<RecordCursor>>, <<GetCursor>>>>,
      <<<<RecordLedger>>, <<GetLedger>>>>,
      <<<<CompleteItem>>, <<>>>>,
      <<<<Enqueue>>, <<UpdatePhase>>>>,
      <<<<Enqueue>>, <<FailItem>>>>,
      <<<<UpdatePending>>, <<CancelItem>>>>,
      <<<<AcquireLease, ReleaseLease>>, <<AcquireLease>>>>,
      <<<<RenewLease>>, <<DaemonStatus>>>>,
      <<<<AcquireLease, ClaimItem>>, <<Enqueue>>>>,
      <<<<GetItem>>, <<ListApprovals>>>> }

MCScripts ==
    { (a :> pair[1]) @@ (b :> pair[2]) @@ (p :> <<>>) : pair \in Pairs }

\* The daemon runs beside one other caller at most, and an item waits for it;
\* the file is new where two callers want to read it.
MCInit ==
    /\ Init
    /\ todo[b] = <<>> <=> at = "waiting"
    /\ at = "waiting" <=> db.item = "waiting_approval"
    /\ todo[b] \notin {<<ListRuns>>, <<LoadState>>} => db.tables
MCSpec == MCInit /\ [][Next]_vars /\ Fairness
=============================================================================
