-------------------------- MODULE WorkItemLifecycle --------------------------
(***************************************************************************)
(* What the Factory queue promises of a Work Item, whatever is beneath it: *)
(* the lifecycle an item goes through, and that whoever works on it is     *)
(* alone with it from taking it to letting it go.  FactoryDaemon           *)
(* implements this as long as nobody rejects.                              *)
(***************************************************************************)
CONSTANTS
  Items,     \* work items
  Workers,   \* whoever may work on them
  Nobody     \* not a worker

VARIABLES
  state,     \* by item: its lifecycle
  worker     \* by item: who works on it

lifecycleVars == <<state, worker>>

Init ==
  /\ state = [i \in Items |-> "none"]
  /\ worker = [i \in Items |-> Nobody]

Submit(i) ==
  /\ state[i] = "none"
  /\ state' = [state EXCEPT ![i] = "pending"]
  /\ UNCHANGED worker

Cancel(i) ==
  /\ state[i] = "pending"
  /\ state' = [state EXCEPT ![i] = "cancelled"]
  /\ UNCHANGED worker

\* From the queue or from behind a gate; a worker has one item at a time.
Take(i, w) ==
  /\ state[i] \in {"pending", "waiting_approval"}
  /\ worker[i] = Nobody
  /\ \A j \in Items : worker[j] # w
  /\ state' = [state EXCEPT ![i] = "claimed"]
  /\ worker' = [worker EXCEPT ![i] = w]

Run(i) ==
  /\ worker[i] # Nobody
  /\ state[i] \in {"claimed", "running"}
  /\ state' = [state EXCEPT ![i] = "running"]
  /\ UNCHANGED worker

Pause(i) ==
  /\ worker[i] # Nobody
  /\ state[i] \in {"claimed", "running"}
  /\ state' = [state EXCEPT ![i] = "waiting_approval"]
  /\ worker' = [worker EXCEPT ![i] = Nobody]

\* The outcome is final; the worker may need a while to leave.
Finish(i) ==
  /\ worker[i] # Nobody
  /\ state[i] \in {"claimed", "running"}
  /\ \E outcome \in {"completed", "failed"} : state' = [state EXCEPT ![i] = outcome]
  /\ \/ UNCHANGED worker
     \/ worker' = [worker EXCEPT ![i] = Nobody]

\* A worker that is done, or that dies, leaves the item as it is.
Leave(i) ==
  /\ worker[i] # Nobody
  /\ worker' = [worker EXCEPT ![i] = Nobody]
  /\ UNCHANGED state

Next ==
  \E i \in Items :
    \/ Submit(i) \/ Cancel(i) \/ Run(i) \/ Pause(i) \/ Finish(i) \/ Leave(i)
    \/ \E w \in Workers : Take(i, w)

Spec == Init /\ [][Next]_lifecycleVars
=============================================================================
