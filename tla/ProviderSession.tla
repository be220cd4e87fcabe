--------------------------- MODULE ProviderSession ---------------------------
(***************************************************************************)
(* A poller of the Factory daemon (internal/factorydaemon/approvals.go,    *)
(* triggers.go) and the provider it keeps a session with                   *)
(* (provider_session.go), next to the backend it reports to.               *)
(*                                                                         *)
(* Unlike the backend's, this provider is started once and spoken to for   *)
(* as long as it answers.  An error makes the poller forget the client,    *)
(* not the process; the next turn starts another one.  The daemon's stop   *)
(* ends the context all these processes, and the poller's own calls of the *)
(* backend, live under: ended[Poller].                                     *)
(***************************************************************************)
EXTENDS Backend

CONSTANTS
    Poller,     \* the caller whose requests come from the turns
    MaxTurns    \* bound: turns of the poller

ASSUME SessionAssumption == Poller \in Callers /\ MaxTurns \in Nat

VARIABLES
    at,         \* where the poller is
    connected,  \* the session has a client to speak to
    child,      \* the process behind that client, kept when the client is forgotten
    fresh,      \* the process being shaken hands with
    forgotten,  \* processes no field of the session names any more
    turns

sessionVars == <<at, connected, child, fresh, forgotten, turns>>
vars == <<backendVars, sessionVars>>

Process == {"none", "alive", "gone"}
PollerSteps ==
    {"waiting", "getting", "dialing", "reaping", "polling", "listing",
     "recording", "closing", "ended"}

\* A daemon is running, or none is.
SessionInit ==
    /\ at \in {"waiting", "ended"} /\ connected = FALSE
    /\ child = "none" /\ fresh = "none" /\ forgotten = 0
    /\ turns = 0

Init == BackendInit /\ todo[Poller] = <<>> /\ SessionInit

Stopped == ended[Poller]

\* run: the ticker ticks ...
Tick ==
    /\ at = "waiting" /\ turns < MaxTurns
    /\ at' = "getting" /\ turns' = turns + 1
    /\ UNCHANGED <<connected, child, fresh, forgotten, backendVars>>

\* ... or the daemon has stopped: the deferred close cancels the context first.
Close ==
    /\ at = "waiting" /\ Stopped
    /\ at' = "closing" /\ connected' = FALSE
    /\ UNCHANGED <<child, fresh, forgotten, turns, backendVars>>

\* get: a client there is is used again, whatever became of its process.
Get ==
    /\ at = "getting"
    /\ \/ connected /\ at' = "polling" /\ UNCHANGED fresh
       \/ ~connected /\ ~Stopped /\ at' = "dialing" /\ fresh' = "alive"
       \/ ~connected /\ Stopped /\ at' = "waiting" /\ UNCHANGED fresh
    /\ UNCHANGED <<connected, child, forgotten, turns, backendVars>>

\* The process the session named is named by nothing now.
Dialed ==
    /\ at = "dialing" /\ fresh = "alive"
    /\ connected' = TRUE /\ child' = fresh /\ fresh' = "none"
    /\ forgotten' = forgotten + (IF child = "alive" THEN 1 ELSE 0)
    /\ at' = "polling"
    /\ UNCHANGED <<turns, backendVars>>

\* An error, another protocol, no capability, or the process is gone.
DialFails ==
    /\ at = "dialing"
    /\ at' = "reaping"
    /\ UNCHANGED <<connected, child, fresh, forgotten, turns, backendVars>>

\* Its input is closed and it is waited for; only then is its context cancelled.
Reap ==
    /\ at = "reaping" /\ fresh = "gone"
    /\ fresh' = "none" /\ at' = "waiting"
    /\ UNCHANGED <<connected, child, forgotten, turns, backendVars>>

\* Nothing to approve, or nothing new.
PollsNothing ==
    /\ at = "polling" /\ child = "alive"
    /\ at' = "waiting"
    /\ UNCHANGED <<connected, child, fresh, forgotten, turns, backendVars>>

\* Approvals came: the waiting items are listed ...
PollsNews ==
    /\ at = "polling" /\ child = "alive"
    /\ at' = "listing"
    /\ todo' = [todo EXCEPT ![Poller] = <<ListItems>>]
    /\ UNCHANGED <<connected, child, fresh, forgotten, turns>>
    /\ UNCHANGED <<db, lock, provider, call, server, over, ended, effects, disturbed>>

Called == At(Poller, "idle") /\ todo[Poller] = <<>>

\* ... and each that matches is approved.  A turn ends without its list.
Listed ==
    /\ at = "listing" /\ Called
    /\ IF call[Poller].answer = "ok"
       THEN at' = "recording" /\ todo' = [todo EXCEPT ![Poller] = <<RecordApproval>>]
       ELSE at' = "waiting" /\ UNCHANGED todo
    /\ UNCHANGED <<connected, child, fresh, forgotten, turns>>
    /\ UNCHANGED <<db, lock, provider, call, server, over, ended, effects, disturbed>>

\* An approval that was refused is logged and offered again by the provider.
ApprovalSent ==
    /\ at = "recording" /\ Called
    /\ at' = "waiting"
    /\ UNCHANGED <<connected, child, fresh, forgotten, turns, backendVars>>

\* The error reply, or the end of its output: the client is forgotten.
PollFails ==
    /\ at = "polling"
    /\ connected' = FALSE /\ at' = "waiting"
    /\ UNCHANGED <<child, fresh, forgotten, turns, backendVars>>

\* close waits for the process the session still names.
SessionCloses ==
    /\ at = "closing" /\ child # "alive"
    /\ at' = "ended" /\ child' = "none"
    /\ UNCHANGED <<connected, fresh, forgotten, turns, backendVars>>

\* A provider may end at any time, and it is killed with the daemon's context.
ChildEnds ==
    /\ child = "alive" /\ child' = "gone"
    /\ UNCHANGED <<at, connected, fresh, forgotten, turns, backendVars>>
FreshEnds ==
    /\ fresh = "alive" /\ fresh' = "gone"
    /\ UNCHANGED <<at, connected, child, forgotten, turns, backendVars>>
ForgottenEnds ==
    /\ forgotten > 0 /\ forgotten' = forgotten - 1
    /\ UNCHANGED <<at, connected, child, fresh, turns, backendVars>>
ProcessEnds == ChildEnds \/ FreshEnds \/ ForgottenEnds

\* Slip: the session's processes live under a context of their own.
OnlyNamedAreKilled == Stopped /\ (ChildEnds \/ FreshEnds)

\* cmdCtx is made from the daemon's context.
KilledWithDaemon == Stopped /\ ProcessEnds

PollerNext ==
    \/ Tick \/ Close \/ Get \/ Dialed \/ DialFails \/ Reap \/ PollsNothing
    \/ PollsNews \/ Listed \/ ApprovalSent \/ PollFails \/ SessionCloses

\* A caller that has nothing more to ask has ended, and gets no signals.
Running(c) ==
    IF c = Poller THEN at # "ended" ELSE ~At(c, "idle") \/ todo[c] # <<>>

\* Everybody is done.
Rest ==
    /\ \A c \in Callers : At(c, "idle") /\ todo[c] = <<>>
    /\ at = "ended"
    /\ UNCHANGED vars

Next ==
    \/ /\ \E c \in Callers :
            \/ ClientNext(c) \/ ServerNext(c)
            \/ Expire(c) \/ Kill(c) \/ (Running(c) /\ Interrupt(c))
       /\ UNCHANGED sessionVars
    \/ PollerNext
    \/ ProcessEnds
    \/ Rest

\* Clients and the poller are goroutines that go on when they can; timers fire;
\* the runtime kills what its context has ended.  Providers owe nothing: of the
\* server's steps only those a direct client takes itself are sure to be taken.
GoesOn(c) ==
    /\ \/ ClientNext(c) \/ Expire(c) \/ Kill(c)
       \/ (server[c].on = "direct" /\ ServerNext(c))
    /\ UNCHANGED sessionVars

Fairness ==
    /\ \A c \in Callers : WF_vars(GoesOn(c))
    /\ WF_vars(PollerNext \/ KilledWithDaemon)

Spec == Init /\ [][Next]_vars /\ Fairness

-----------------------------------------------------------------------------
(* Properties *)

SessionTypeOK ==
    /\ BackendTypeOK
    /\ at \in PollerSteps /\ connected \in BOOLEAN
    /\ child \in Process /\ fresh \in Process
    /\ forgotten \in 0 .. MaxTurns /\ turns \in 0 .. MaxTurns

\* What is read is whole: no provider meets a file whose tables are half there, and no
\* finished run is listed without its records, in states that stay well-formed
\* (initialize, LoadRuns, FinishRun).
RecordsAreWhole == SessionTypeOK /\ ListedRunsAreWhole /\ MigratedOnce

\* Every call of the backend comes back, whatever its provider does: there are
\* 30 seconds, and then the kill ends every wait.  A script is finite, so that
\* is to say that at last no call is under way.  (client.go:166-180, 308-356)
CallsReturn == <>[](\A c \in Callers : At(c, "idle"))

\* Once the daemon stops, its poller ends and none of the providers it ever
\* started stays, those it has forgotten included.  (provider_session.go:47-127)
StopEndsProviders ==
    Stopped ~> /\ at = "ended" /\ child = "none" /\ fresh # "alive" /\ forgotten = 0

\* A poller has one provider at a time: refuted by the next get after an error.
OneProvider == forgotten = 0 /\ (child = "alive" => fresh # "alive")

\* A poller's turn comes to an end: refuted by a provider that does not answer,
\* since the context of 30 seconds is looked at by nobody.
TurnsEnd == (at # "waiting") ~> (at \in {"waiting", "ended"})
=============================================================================
