-------------------------- MODULE ServiceLifecycle --------------------------
(***************************************************************************)
(* What a service actor promises about one service: the states it reports *)
(* (crates/vigild/src/state.rs) and the single process behind them.        *)
(* ServiceActor implements this as long as nobody starts or restarts a     *)
(* service that is waiting in "Backoff".                                   *)
(***************************************************************************)
CONSTANT Services

VARIABLES
  st,      \* the ServiceState of each service
  alive    \* whether the service has a live process

lifecycleVars == <<st, alive>>

Init ==
  /\ st = [s \in Services |-> "Inactive"]
  /\ alive = [s \in Services |-> FALSE]

\* A service leaves a resting state only to be started, and has no process then.
Launch(s) ==
  /\ st[s] \in {"Inactive", "Backoff", "Error"}
  /\ ~alive[s]
  /\ st' = [st EXCEPT ![s] = "Starting"]
  /\ UNCHANGED alive

Up(s) ==
  /\ st[s] = "Starting"
  /\ ~alive[s]
  /\ st' = [st EXCEPT ![s] = "Active"]
  /\ alive' = [alive EXCEPT ![s] = TRUE]

LaunchFails(s) ==
  /\ st[s] = "Starting"
  /\ st' = [st EXCEPT ![s] = "Error"]
  /\ UNCHANGED alive

AskToStop(s) ==
  /\ st[s] = "Active"
  /\ st' = [st EXCEPT ![s] = "Stopping"]
  /\ UNCHANGED alive

Exit(s) ==
  /\ alive[s]
  /\ alive' = [alive EXCEPT ![s] = FALSE]
  /\ UNCHANGED st

\* The end of the process is noticed.
Stopped(s) ==
  /\ st[s] = "Stopping"
  /\ ~alive[s]
  /\ st' = [st EXCEPT ![s] = "Inactive"]
  /\ UNCHANGED alive

Ended(s) ==
  /\ st[s] = "Active"
  /\ ~alive[s]
  /\ \E next \in {"Inactive", "Backoff", "Error"} : st' = [st EXCEPT ![s] = next]
  /\ UNCHANGED alive

CancelRetry(s) ==
  /\ st[s] = "Backoff"
  /\ st' = [st EXCEPT ![s] = "Inactive"]
  /\ UNCHANGED alive

Next ==
  \E s \in Services :
    \/ Launch(s) \/ Up(s) \/ LaunchFails(s)
    \/ AskToStop(s) \/ Exit(s) \/ Stopped(s)
    \/ Ended(s) \/ CancelRetry(s)

Spec == Init /\ [][Next]_lifecycleVars
=============================================================================
