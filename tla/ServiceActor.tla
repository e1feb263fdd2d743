---------------------------- MODULE ServiceActor ----------------------------
(***************************************************************************)
(* The service actor of vigild (crates/vigild/src/service): one task per   *)
(* supervised service, which owns the service's child process and reacts,  *)
(* one input at a time, to commands, to the child's exit, to the kill      *)
(* deadline and to the backoff timer.                                      *)
(*                                                                         *)
(* A handler of the actor awaits whenever it emits an event, because the   *)
(* event channel to the overlord is bounded.  The outputs a handler still  *)
(* has to deliver are in `outbox', what it does after them is in `todo',   *)
(* and the actor looks at its next input only when both are empty.         *)
(*                                                                         *)
(* The module is checked on its own here, with an environment that sends   *)
(* any command at any time; Supervisor composes it with the overlord.      *)
(* Operators named X_<mistake> are mutated forms of X, used to show that   *)
(* the properties notice the mistake; nothing else refers to them.         *)
(***************************************************************************)
EXTENDS Naturals, Sequences

CONSTANTS
  Services,      \* the services of the plan
  Pids,          \* process identifiers of one service: bounds its live processes
  NoPid,         \* "child: None"
  Configs,       \* the service configurations considered
  DefaultDelay   \* DEFAULT_BACKOFF_DELAY

ASSUME NoPidAssumption == NoPid \notin Pids

States == {"Inactive", "Starting", "Active", "Stopping", "Backoff", "Error"}

OnExit == {"restart", "ignore", "shutdown", "failure-shutdown", "success-shutdown"}

\* What an actor needs of a ServiceConfig.  backoff-factor is the fraction
\* num/den; durations are numbers of an arbitrary unit.
ServiceConfig == [onSuccess : OnExit, onFailure : OnExit,
                  delay : Nat, num : Nat, den : Nat \ {0}, limit : Nat]

ASSUME ConfigsAssumption == Configs \subseteq ServiceConfig
ASSUME DefaultDelayAssumption == DefaultDelay \in Nat

VARIABLES
  actor,   \* the actor task of each service
  proc,    \* the processes spawned for each service, as the kernel sees them
  config   \* the ServiceConfig the actor was spawned with

vars == <<actor, proc, config>>

-----------------------------------------------------------------------------
(* State.                                                                  *)

\* Outputs of a handler, in the order it sends them.
StateChanged(st) == [kind |-> "state", value |-> st]
ProcessExited == [kind |-> "exited", value |-> "any"]
DaemonShutdown(code) == [kind |-> "shutdown", value |-> code]
Reply(r) == [kind |-> "reply", value |-> r]

Outputs ==
  [kind : {"state"}, value : States] \cup {ProcessExited}
    \cup [kind : {"shutdown"}, value : {"0", "10"}]
    \cup [kind : {"reply"}, value : {"ok", "err"}]

\* What is left of the running handler.  do_start has three callers, each of
\* which has already moved the service to "Starting".
SpawnTodos == {"spawn_start", "spawn_relaunch", "spawn_backoff"}

Actor == [state : States,
          child : Pids \cup {NoPid},
          phase : {"run", "cleanup", "reaping", "gone"},
          stopDeadline : {"off", "armed", "elapsed"},
          backoffSleep : BOOLEAN,
          pendingRestart : BOOLEAN,
          backedOff : BOOLEAN,          \* backoff_count > 0
          currentBackoff : Nat,
          todo : {"none", "relaunch"} \cup SpawnTodos,
          outbox : Seq(Outputs)]

NewActor == [state |-> "Inactive", child |-> NoPid, phase |-> "run",
             stopDeadline |-> "off", backoffSleep |-> FALSE,
             pendingRestart |-> FALSE, backedOff |-> FALSE,
             currentBackoff |-> DefaultDelay, todo |-> "none", outbox |-> <<>>]

\* A process is absent (never spawned, or exited), running, asked to stop by
\* the stop signal, or sent SIGKILL.
ProcStatus == {"absent", "running", "asked", "killed"}

Live(s) == {p \in Pids : proc[s][p] # "absent"}

Init ==
  /\ config \in [Services -> Configs]
  /\ actor = [s \in Services |-> NewActor]
  /\ proc = [s \in Services |-> [p \in Pids |-> "absent"]]

-----------------------------------------------------------------------------
(* Helpers of the handlers.                                                *)

is_running(st) == st \in {"Starting", "Active"}

\* The actor is at its select!: no handler is in progress.
AtSelect(s) ==
  /\ actor[s].phase = "run"
  /\ actor[s].todo = "none"
  /\ actor[s].outbox = <<>>

Become(s, a) == actor' = [actor EXCEPT ![s] = a]

reset_backoff_keeps_delay(a, c) == [a EXCEPT !.backedOff = FALSE]

reset_backoff(a, c) == [a EXCEPT !.backedOff = FALSE, !.currentBackoff = c.delay]

Scaled(n, c) == (n * c.num) \div c.den

Smaller(m, n) == IF m <= n THEN m ELSE n

next_backoff(a, c) ==
  [a EXCEPT !.backedOff = TRUE,
            !.currentBackoff = Smaller(Scaled(a.currentBackoff, c), c.limit)]

backoff_limit_exceeded_off_by_one(a, c) == a.backedOff /\ a.currentBackoff > c.limit

backoff_limit_exceeded(a, c) == a.backedOff /\ a.currentBackoff >= c.limit

\* send_stop_signal and send_sigkill reach the child the actor holds, if it
\* still exists; a process already killed stays killed.
send_stop_signal(s) ==
  [p \in Pids |-> IF p = actor[s].child /\ proc[s][p] = "running"
                    THEN "asked" ELSE proc[s][p]]

send_sigkill_to_nobody(s) == proc[s]

send_sigkill(s) ==
  [p \in Pids |-> IF p = actor[s].child /\ proc[s][p] # "absent"
                    THEN "killed" ELSE proc[s][p]]

-----------------------------------------------------------------------------
(* Command handlers.                                                       *)

handle_start_while_stopping(s) ==
  LET a == actor[s] IN
  /\ UNCHANGED <<proc, config>>
  /\ \/ /\ is_running(a.state)
        /\ Become(s, [a EXCEPT !.outbox = <<Reply("ok")>>])
     \/ /\ ~is_running(a.state)
        /\ Become(s, [a EXCEPT !.state = "Starting", !.todo = "spawn_start",
                               !.outbox = <<StateChanged("Starting")>>])

\* Entered by Start, and by Restart when there is nothing to stop.  It leaves
\* backoffSleep as it is.
handle_start(s) ==
  LET a == actor[s] IN
  /\ UNCHANGED <<proc, config>>
  /\ \/ /\ is_running(a.state)
        /\ Become(s, [a EXCEPT !.outbox = <<Reply("ok")>>])
     \/ /\ a.state = "Stopping"
        /\ Become(s, [a EXCEPT !.outbox = <<Reply("err")>>])
     \/ /\ ~is_running(a.state) /\ a.state # "Stopping"
        /\ Become(s, [a EXCEPT !.state = "Starting", !.todo = "spawn_start",
                               !.outbox = <<StateChanged("Starting")>>])

Start(s) == AtSelect(s) /\ handle_start(s)

begin_stop_without_deadline(s, restart) ==
  /\ Become(s, [actor[s] EXCEPT !.state = "Stopping", !.pendingRestart = restart \/ @,
                                !.outbox = <<StateChanged("Stopping"), Reply("ok")>>])
  /\ proc' = [proc EXCEPT ![s] = send_stop_signal(s)]

\* The part Stop and Restart share, on a service that has a process: only
\* Restart drops the backoff timer and asks for a new start.
begin_stop(s, restart) ==
  /\ Become(s, [actor[s] EXCEPT !.state = "Stopping", !.stopDeadline = "armed",
                                !.backoffSleep = @ /\ ~restart,
                                !.pendingRestart = restart \/ @,
                                !.outbox = <<StateChanged("Stopping"), Reply("ok")>>])
  /\ proc' = [proc EXCEPT ![s] = send_stop_signal(s)]

Stop_leaves_backoff_timer(s) ==
  LET a == actor[s] IN
  /\ AtSelect(s)
  /\ UNCHANGED <<proc, config>>
  /\ a.state = "Backoff"
  /\ Become(s, [a EXCEPT !.state = "Inactive",
                         !.outbox = <<StateChanged("Inactive"), Reply("ok")>>])

Stop_unanswered_while_stopping(s) ==
  LET a == actor[s] IN
  /\ AtSelect(s)
  /\ UNCHANGED config
  /\ \/ /\ a.state = "Stopping"
        /\ UNCHANGED <<actor, proc>>
     \/ /\ a.state \in {"Inactive", "Error"}
        /\ Become(s, [a EXCEPT !.outbox = <<Reply("ok")>>])
        /\ UNCHANGED proc
     \/ /\ is_running(a.state)
        /\ begin_stop(s, FALSE)

Stop(s) ==
  LET a == actor[s] IN
  /\ AtSelect(s)
  /\ UNCHANGED config
  /\ \/ /\ a.state \in {"Inactive", "Error", "Stopping"}
        /\ Become(s, [a EXCEPT !.outbox = <<Reply("ok")>>])
        /\ UNCHANGED proc
     \/ /\ a.state = "Backoff"
        /\ Become(s, [a EXCEPT !.state = "Inactive", !.backoffSleep = FALSE,
                               !.outbox = <<StateChanged("Inactive"), Reply("ok")>>])
        /\ UNCHANGED proc
     \/ /\ is_running(a.state)
        /\ begin_stop(s, FALSE)

Restart(s) ==
  /\ AtSelect(s)
  /\ \/ /\ is_running(actor[s].state) \/ actor[s].state = "Stopping"
        /\ begin_stop(s, TRUE)
        /\ UNCHANGED config
     \/ /\ actor[s].state \in {"Inactive", "Backoff", "Error"}
        /\ handle_start(s)

\* Shutdown, or the mailbox closed: the loop breaks and cleanup signals the
\* child.  Its later steps are CleanupKill and CleanupReaped.
Shutdown(s) ==
  LET a == actor[s] IN
  /\ AtSelect(s)
  /\ UNCHANGED config
  /\ \/ /\ a.child = NoPid
        /\ Become(s, [a EXCEPT !.phase = "gone"])
        /\ UNCHANGED proc
     \/ /\ a.child # NoPid
        /\ Become(s, [a EXCEPT !.phase = "cleanup"])
        /\ proc' = [proc EXCEPT ![s] = send_stop_signal(s)]

Command(s) == Start(s) \/ Stop(s) \/ Restart(s) \/ Shutdown(s)

-----------------------------------------------------------------------------
(* Child exit and timers.                                                  *)

ExitCode(policy, success) ==
  CASE policy = "shutdown" -> IF success THEN "0" ELSE "10"
    [] policy = "failure-shutdown" -> "10"
    [] policy = "success-shutdown" -> "0"

exit_while_stopping_keeps_pending(s) ==
  LET a == actor[s] IN
  /\ a.state = "Stopping"
  /\ Become(s, [a EXCEPT !.child = NoPid, !.stopDeadline = "off", !.state = "Inactive",
                         !.todo = IF a.pendingRestart THEN "relaunch" ELSE "none",
                         !.outbox = <<ProcessExited, StateChanged("Inactive")>>])

\* The end of a process the actor was stopping.  A pending restart relaunches
\* it once the "Inactive" event has been delivered.
exit_while_stopping(s) ==
  LET a == actor[s] IN
  /\ a.state = "Stopping"
  /\ Become(s, [a EXCEPT !.child = NoPid, !.stopDeadline = "off",
                         !.state = "Inactive", !.pendingRestart = FALSE,
                         !.todo = IF a.pendingRestart THEN "relaunch" ELSE "none",
                         !.outbox = <<ProcessExited, StateChanged("Inactive")>>])

\* The end of a process by itself: the exit policy decides.
exit_by_itself(s, policy, success) ==
  LET a == [actor[s] EXCEPT !.child = NoPid, !.stopDeadline = "off"]
      Settle(b, st, more) ==
        Become(s, [b EXCEPT !.state = st,
                            !.outbox = <<ProcessExited, StateChanged(st)>> \o more])
  IN
  /\ a.state # "Stopping"
  /\ \/ /\ policy = "ignore"
        /\ Settle(a, "Inactive", <<>>)
     \/ /\ policy \in {"shutdown", "failure-shutdown", "success-shutdown"}
        /\ Settle(a, "Inactive", <<DaemonShutdown(ExitCode(policy, success))>>)
     \/ /\ policy = "restart"
        /\ backoff_limit_exceeded(a, config[s])
        /\ Settle(a, "Error", <<>>)
     \/ /\ policy = "restart"
        /\ ~backoff_limit_exceeded(a, config[s])
        /\ Settle([next_backoff(a, config[s]) EXCEPT !.backoffSleep = TRUE],
                  "Backoff", <<>>)

\* wait_child returns once the process is gone, and with an error counts as a
\* failure: nothing ties `success' to the process.
ChildExit(s) ==
  /\ AtSelect(s)
  /\ actor[s].child # NoPid
  /\ actor[s].child \notin Live(s)
  /\ \/ exit_while_stopping(s)
     \/ \E success \in BOOLEAN :
          exit_by_itself(s, IF success THEN config[s].onSuccess ELSE config[s].onFailure,
                         success)
  /\ UNCHANGED <<proc, config>>

\* kill-delay passes.
KillDelayPasses(s) ==
  /\ actor[s].phase = "run"
  /\ actor[s].stopDeadline = "armed"
  /\ Become(s, [actor[s] EXCEPT !.stopDeadline = "elapsed"])
  /\ UNCHANGED <<proc, config>>

KillDeadline(s) ==
  /\ AtSelect(s)
  /\ actor[s].stopDeadline = "elapsed"
  /\ Become(s, [actor[s] EXCEPT !.stopDeadline = "off"])
  /\ proc' = [proc EXCEPT ![s] = send_sigkill(s)]
  /\ UNCHANGED config

\* The backoff timer fires, whatever the state of the service has become.
BackoffExpired(s) ==
  /\ AtSelect(s)
  /\ actor[s].backoffSleep
  /\ Become(s, [actor[s] EXCEPT !.state = "Starting", !.todo = "spawn_backoff",
                                !.outbox = <<StateChanged("Starting")>>])
  /\ UNCHANGED <<proc, config>>

-----------------------------------------------------------------------------
(* The continuations of the handlers.                                      *)

\* One output is delivered: an event accepted by the event channel, or a reply.
Deliver(s) ==
  /\ actor[s].outbox # <<>>
  /\ Become(s, [actor[s] EXCEPT !.outbox = Tail(@)])
  /\ UNCHANGED <<proc, config>>

\* The second half of a Restart, after the old process's "Inactive" event.
Relaunch(s) ==
  /\ actor[s].outbox = <<>>
  /\ actor[s].todo = "relaunch"
  /\ Become(s, [actor[s] EXCEPT !.state = "Starting", !.todo = "spawn_relaunch",
                                !.outbox = <<StateChanged("Starting")>>])
  /\ UNCHANGED <<proc, config>>

after_start_keeps_deadline(a, c, ok) == IF ok THEN reset_backoff(a, c) ELSE a

after_start_keeps_backoff_timer(a, c, ok) ==
  CASE a.todo = "spawn_start" ->
         IF ok THEN [reset_backoff(a, c) EXCEPT !.stopDeadline = "off"] ELSE a
    [] a.todo = "spawn_relaunch" ->
         IF ok THEN reset_backoff(a, c) ELSE a
    [] a.todo = "spawn_backoff" ->
         [a EXCEPT !.stopDeadline = "off"]

\* What each caller of do_start does with its result.
after_start(a, c, ok) ==
  CASE a.todo = "spawn_start" ->
         IF ok THEN [reset_backoff(a, c) EXCEPT !.stopDeadline = "off"] ELSE a
    [] a.todo = "spawn_relaunch" ->
         IF ok THEN reset_backoff(a, c) ELSE a
    [] a.todo = "spawn_backoff" ->
         [a EXCEPT !.stopDeadline = "off", !.backoffSleep = FALSE]

answer(a, r) == IF a.todo = "spawn_start" THEN <<Reply(r)>> ELSE <<>>

\* do_start returns Ok: the new child replaces the one the actor held.
spawned(s, p) ==
  LET a == actor[s] IN
  /\ p # a.child
  /\ proc[s][p] = "absent"
  /\ proc' = [proc EXCEPT ![s][p] = "running"]
  /\ Become(s, [after_start(a, config[s], TRUE) EXCEPT
                  !.child = p, !.state = "Active", !.todo = "none",
                  !.outbox = <<StateChanged("Active")>> \o answer(a, "ok")])

\* do_start returns Err: no command, credentials, a spawn error.  The child
\* the actor held stays.
spawn_failed(s) ==
  LET a == actor[s] IN
  /\ UNCHANGED proc
  /\ Become(s, [after_start(a, config[s], FALSE) EXCEPT
                  !.state = "Error", !.todo = "none",
                  !.outbox = <<StateChanged("Error")>> \o answer(a, "err")])

DoStart(s) ==
  /\ actor[s].outbox = <<>>
  /\ actor[s].todo \in SpawnTodos
  /\ UNCHANGED config
  /\ \/ \E p \in Pids : spawned(s, p)
     \/ spawn_failed(s)

-----------------------------------------------------------------------------
(* cleanup, after the loop.                                                *)

\* The 500 ms are over.
CleanupKill(s) ==
  /\ actor[s].phase = "cleanup"
  /\ Become(s, [actor[s] EXCEPT !.phase = "reaping"])
  /\ proc' = [proc EXCEPT ![s] = send_sigkill(s)]
  /\ UNCHANGED config

CleanupReaped(s) ==
  /\ actor[s].phase = "reaping"
  /\ actor[s].child \notin Live(s)
  /\ Become(s, [actor[s] EXCEPT !.phase = "gone", !.child = NoPid])
  /\ UNCHANGED <<proc, config>>

-----------------------------------------------------------------------------
(* The environment: processes exit, by themselves or because of a signal.  *)

ProcessExit(s, p) ==
  /\ proc[s][p] # "absent"
  /\ proc' = [proc EXCEPT ![s][p] = "absent"]
  /\ UNCHANGED <<actor, config>>

-----------------------------------------------------------------------------
(* Specifications.                                                         *)

ActorStep(s) ==
  \/ ChildExit(s) \/ KillDelayPasses(s) \/ KillDeadline(s) \/ BackoffExpired(s)
  \/ Relaunch(s) \/ DoStart(s)
  \/ CleanupKill(s) \/ CleanupReaped(s)

ProcessStep(s) == \E p \in Pids : ProcessExit(s, p)

Next == \E s \in Services : Command(s) \/ ActorStep(s) \/ Deliver(s) \/ ProcessStep(s)

\* A client that leaves a service in "Backoff" alone, except for Stop.
PatientCommand(s) ==
  \/ actor[s].state # "Backoff" /\ (Start(s) \/ Restart(s))
  \/ Stop(s)
  \/ Shutdown(s)

PatientNext ==
  \E s \in Services : PatientCommand(s) \/ ActorStep(s) \/ Deliver(s) \/ ProcessStep(s)

\* The tokio runtime polls every task that can proceed.  A command that comes
\* first in the biased select! delays the child's exit and the timers, but the
\* overlord waits for the reply to each command, so the mailbox is found empty
\* again and again: strong fairness for those inputs.  Only a process that was
\* sent SIGKILL must exit.
Fairness ==
  \A s \in Services :
    /\ WF_vars(Deliver(s))
    /\ WF_vars(Relaunch(s))
    /\ WF_vars(DoStart(s))
    /\ WF_vars(KillDelayPasses(s))
    /\ WF_vars(CleanupKill(s))
    /\ WF_vars(CleanupReaped(s))
    /\ SF_vars(ChildExit(s))
    /\ SF_vars(KillDeadline(s))
    /\ SF_vars(BackoffExpired(s))
    /\ \A p \in Pids : WF_vars(proc[s][p] = "killed" /\ ProcessExit(s, p))

Spec == Init /\ [][Next]_vars
FairSpec == Spec /\ Fairness

PatientSpec == Init /\ [][PatientNext]_vars
FairPatientSpec == PatientSpec /\ Fairness

-----------------------------------------------------------------------------
(* Properties.                                                             *)

\* Every variable holds a value of its type.
TypeOK ==
  /\ config \in [Services -> Configs]
  /\ actor \in [Services -> Actor]
  /\ proc \in [Services -> [Pids -> ProcStatus]]

\* A service in "Stopping" holds a child whose end will be noticed, and either
\* the kill deadline is still to come or the child needs it no more (handle_stop
\* and handle_restart arm it, handle_kill_deadline and handle_child_exit clear
\* it): otherwise a process that ignores its stop signal is never killed.
StoppingEscalates ==
  \A s \in Services :
    actor[s].state = "Stopping" /\ actor[s].phase = "run" =>
      /\ actor[s].child # NoPid
      /\ actor[s].stopDeadline = "off" => proc[s][actor[s].child] \in {"absent", "killed"}

\* A pending restart never outlives the stop it belongs to, where it would
\* resurrect the service at some later Stop (pending_restart is a local of the
\* loop in actor/mod.rs, set by handle_restart, cleared by handle_child_exit).
PendingRestartOnlyWhileStopping ==
  \A s \in Services : actor[s].pendingRestart => actor[s].state = "Stopping"

\* The first delay of a crash loop is the configured backoff-delay: whatever
\* earlier crash loops left behind was reset by the start (reset_backoff).
FirstDelayConfigured ==
  \A s \in Services :
    actor[s].child # NoPid /\ ~actor[s].backedOff => actor[s].currentBackoff = config[s].delay

\* A process is sent SIGKILL only after it was sent the stop signal: no
\* deadline, left over from an earlier stop, kills a service that was started
\* since, and cleanup signals before it kills.
KillOnlyAfterAsk ==
  [][\A s \in Services, p \in Pids :
       proc[s][p] = "running" => proc'[s][p] # "killed"]_vars

\* Nothing of an earlier life of the service is left over in a later one.
NoLeftovers == PendingRestartOnlyWhileStopping /\ FirstDelayConfigured

\* A stop is carried out: whatever the process does with the stop signal, the
\* service leaves "Stopping".  Restarts re-arm the kill deadline, so this needs
\* them to cease.
StopCompletes ==
  (<>[][~\E s \in Services : Restart(s)]_vars) =>
    \A s \in Services :
      (actor[s].state = "Stopping" /\ actor[s].phase = "run") ~>
        (actor[s].state # "Stopping" \/ actor[s].phase # "run")

\* "ServiceActors manage a single child process each" (README.md): the child
\* the actor holds is the only live process of its service.
SingleProcess ==
  \A s \in Services : Live(s) \subseteq {actor[s].child}

\* The backoff timer runs exactly while the service waits in "Backoff", so that
\* a retry never fires on a service that was started or stopped meanwhile.
BackoffTimerMatchesState ==
  \A s \in Services : AtSelect(s) => (actor[s].backoffSleep <=> actor[s].state = "Backoff")

\* When the actor task is over, its cleanup has left no process behind.
GoneLeavesNothing ==
  \A s \in Services : actor[s].phase = "gone" => Live(s) = {}

\* Nothing is at work behind the state that the actor reports: no timer but in
\* "Backoff", and no process once the actor is gone.
NothingBehindState == BackoffTimerMatchesState /\ GoneLeavesNothing

\* A crash loop ends: with a growing delay the backoff limit is reached and the
\* actor gives up, unless somebody starts the service again.
RetriesEnd ==
  (<>[][~\E s \in Services : Start(s) \/ Restart(s)]_vars) =>
    <>[][~\E s \in Services : BackoffExpired(s)]_vars

\* The lifecycle of ServiceLifecycle, state by state and process by process.
Lifecycle == INSTANCE ServiceLifecycle
               WITH st <- [s \in Services |-> actor[s].state],
                    alive <- [s \in Services |-> Live(s) # {}]

\* Every step of the actor is a step of the lifecycle or leaves it unchanged:
\* one process, launched from a resting state only, and reported as it is.
LifecycleSpec == Lifecycle!Spec

=============================================================================
