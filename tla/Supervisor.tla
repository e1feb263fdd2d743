----------------------------- MODULE Supervisor -----------------------------
(***************************************************************************)
(* The overlord of vigild (crates/vigild/src/overlord) with its service    *)
(* actors.  The overlord is one task: it handles one command, service      *)
(* event or check event at a time, sends commands to the actors' mailboxes *)
(* and waits for the reply to each of them before it goes on.  The actors  *)
(* report their state on one bounded event channel, which the overlord     *)
(* reads only between two handlers.  The actors are those of ServiceActor, *)
(* with the environment replaced by the mailbox and the event channel.     *)
(*                                                                         *)
(* The plan is fixed here, except for the startup mode that Autostart      *)
(* changes; checks are an environment that may report a check Down.        *)
(***************************************************************************)
EXTENDS ServiceActor, SequencesExt

CONSTANTS
  Order,           \* the services in the order of the plan
  Plans,           \* the plans considered
  EventCap,        \* capacity of the service event channel (256)
  MailboxCap,      \* capacity of an actor's mailbox (32)
  Inputs,          \* the inputs from outside that are considered
  MaxRequests,     \* bound on their number, except for DaemonStop
  NoService        \* "the overlord waits for no reply"

ASSUME OrderAssumption ==
  /\ Order \in Seq(Services)
  /\ \A s \in Services : \E i \in DOMAIN Order : Order[i] = s
ASSUME CapAssumption == EventCap \in Nat \ {0} /\ MailboxCap \in Nat \ {0}
ASSUME NoServiceAssumption == NoService \notin Services

\* Actions of the API on services, signals to vigild, and failed checks.
ServiceActions == {"Start", "Stop", "Restart", "Autostart"}
ASSUME InputsAssumption ==
  Inputs \subseteq ServiceActions \cup {"ForwardSignal", "DaemonStop", "CheckDown"}

\* What the overlord needs of a ServiceConfig.  `after' may name services the
\* plan does not have.
PlanEntry == [startup : {"enabled", "disabled"},
              after : SUBSET (Services \cup {NoService}),
              requires : SUBSET Services,
              before : SUBSET Services,
              onCheckFailure : OnExit]

ASSUME PlansAssumption == Plans \subseteq [Services -> PlanEntry]

VARIABLES
  plan,       \* Overlord.plan
  snap,       \* the state in each ServiceEntry's snapshot
  pending,    \* pending_autostart
  mailbox,    \* the command channel of each actor
  events,     \* the service event channel
  script,     \* what the running handler still has to do, one svc_cmd at a time
  waiting,    \* the service whose reply the overlord awaits
  stopTask,   \* the task of stop_all for each service
  daemon,     \* where the overlord is in its run
  exitCode,   \* the code the daemon exits with
  requests,   \* requests made so far
  born,       \* history: the services that were ever started
  ran         \* history: those that were ever Active

overlordVars == <<plan, snap, pending, script, waiting, stopTask, daemon, exitCode, requests>>
supVars == <<vars, overlordVars, mailbox, events, born, ran>>

-----------------------------------------------------------------------------
(* State.                                                                  *)

MailCommands == {"Start", "Stop", "Restart", "ForwardSignal", "Shutdown"}

\* Entries of the script: a command to a service, or the end of the daemon.
Send(cmd, s) == [do |-> cmd, to |-> s]
ExitWith(code) == [do |-> code, to |-> NoService]

SupInit ==
  /\ Init
  /\ plan \in Plans
  /\ snap = [s \in Services |-> "Inactive"]
  /\ pending = {}
  /\ mailbox = [s \in Services |-> <<>>]
  /\ events = <<>>
  /\ script = <<>>
  /\ waiting = NoService
  /\ stopTask = [s \in Services |-> "idle"]
  /\ daemon = "boot"
  /\ exitCode = "none"
  /\ requests = 0
  /\ born = {} /\ ran = {}

\* The place of s in the plan, and the services of S in the order of the plan:
\* there is one such sequence.
Place(s) == CHOOSE i \in DOMAIN Order : Order[i] = s

InPlanOrder(S) ==
  {q \in BoundedSeq(S, Len(Order)) :
     /\ \A s \in S : \E i \in DOMAIN q : q[i] = s
     /\ \A i, j \in DOMAIN q : i < j => Place(q[i]) < Place(q[j])}

\* The commands `cmd' to the services listed, and to those of S.
SendEach(cmd, names) == [i \in DOMAIN names |-> Send(cmd, names[i])]
SendAll(cmd, S) == {SendEach(cmd, q) : q \in InPlanOrder(S)}

\* The overlord is at its select!: no handler is in progress.
OverlordAtSelect ==
  /\ daemon = "run"
  /\ script = <<>>
  /\ waiting = NoService

HasRoom(s) == Len(mailbox[s]) < MailboxCap

Put(s, cmd) == mailbox' = [mailbox EXCEPT ![s] = Append(@, cmd)]

-----------------------------------------------------------------------------
(* The actors, behind their mailboxes.                                     *)

Take(s) == mailbox' = [mailbox EXCEPT ![s] = Tail(@)]

\* The first branch of the biased select!.
ReceiveCommand(s) ==
  /\ mailbox[s] # <<>>
  /\ Take(s)
  /\ \/ Head(mailbox[s]) = "Start" /\ Start(s)
     \/ Head(mailbox[s]) = "Stop" /\ Stop(s)
     \/ Head(mailbox[s]) = "Restart" /\ Restart(s)
     \/ Head(mailbox[s]) = "Shutdown" /\ Shutdown(s)
     \/ Head(mailbox[s]) = "ForwardSignal" /\ AtSelect(s) /\ UNCHANGED vars
  /\ UNCHANGED <<overlordVars, events>>

\* The other branches, when the mailbox is found empty.
ReactUnprompted(s) ==
  /\ mailbox[s] = <<>>
  /\ ChildExit(s) \/ KillDeadline(s) \/ BackoffExpired(s)
  /\ UNCHANGED <<overlordVars, mailbox, events>>

Continue(s) ==
  /\ KillDelayPasses(s) \/ Relaunch(s) \/ DoStart(s) \/ CleanupKill(s) \/ CleanupReaped(s)
  /\ UNCHANGED <<overlordVars, mailbox, events>>

Emit_dropping(s) ==
  /\ Deliver(s)
  /\ Head(actor[s].outbox).kind # "reply"
  /\ events' = IF Len(events) < EventCap
                 THEN Append(events, [from |-> s, what |-> Head(actor[s].outbox)])
                 ELSE events
  /\ UNCHANGED <<overlordVars, mailbox>>

Emit_one_slot(s) ==
  /\ Deliver(s)
  /\ Head(actor[s].outbox).kind # "reply"
  /\ events = <<>>
  /\ events' = <<[from |-> s, what |-> Head(actor[s].outbox)]>>
  /\ UNCHANGED <<overlordVars, mailbox>>

\* event_tx.send(..).await: waits for room.
Emit(s) ==
  /\ Deliver(s)
  /\ Head(actor[s].outbox).kind # "reply"
  /\ Len(events) < EventCap
  /\ events' = Append(events, [from |-> s, what |-> Head(actor[s].outbox)])
  /\ UNCHANGED <<overlordVars, mailbox>>

\* reply.send(..): to the overlord, or to the service's task of stop_all.
Answer(s) ==
  /\ Deliver(s)
  /\ Head(actor[s].outbox).kind = "reply"
  /\ waiting' = IF waiting = s THEN NoService ELSE waiting
  /\ stopTask' = IF stopTask[s] = "await" THEN [stopTask EXCEPT ![s] = "reply"] ELSE stopTask
  /\ UNCHANGED <<plan, snap, pending, script, daemon, exitCode, requests, mailbox, events>>

ActorsStep(s) ==
  ReceiveCommand(s) \/ ReactUnprompted(s) \/ Continue(s) \/ Emit(s) \/ Answer(s)

ProcessesStep(s) == ProcessStep(s) /\ UNCHANGED <<overlordVars, mailbox, events>>

-----------------------------------------------------------------------------
(* svc_cmd and the other sends of a handler in progress.                   *)

\* forward_signal does not wait for anything but room in the mailbox.
SendNext ==
  /\ daemon = "run"
  /\ script # <<>>
  /\ Head(script).to \in Services
  /\ waiting = NoService
  /\ HasRoom(Head(script).to)
  /\ Put(Head(script).to, Head(script).do)
  /\ waiting' = IF Head(script).do = "ForwardSignal" THEN NoService ELSE Head(script).to
  /\ script' = Tail(script)
  /\ UNCHANGED <<vars, plan, snap, pending, stopTask, daemon, exitCode, requests, events>>

-----------------------------------------------------------------------------
(* Autostart.                                                              *)

after_deps_without_before(sn, s) ==
  \A d \in plan[s].after \cup plan[s].requires : d \in Services /\ is_running(sn[d])

Dependencies(s) ==
  plan[s].after \cup plan[s].requires \cup {d \in Services \ {s} : s \in plan[d].before}

after_deps_running(sn, s) ==
  \A d \in Dependencies(s) : d \in Services /\ is_running(sn[d])

\* Every actor exists by now (sync_actors); no snapshot changes while the
\* handler waits for replies, so its decisions are made at once.
Autostart ==
  LET enabled == {s \in Services : plan[s].startup = "enabled"}
      ready == {s \in enabled : after_deps_running(snap, s)}
  IN
  /\ daemon = "boot"
  /\ daemon' = "run"
  /\ script' \in SendAll("Start", ready)
  /\ pending' = pending \cup (enabled \ ready)
  /\ UNCHANGED <<vars, plan, snap, waiting, stopTask, exitCode, requests, mailbox, events>>

-----------------------------------------------------------------------------
(* Service events.                                                         *)

\* The common part of the event handlers.
NextEvent(kind) ==
  /\ OverlordAtSelect
  /\ events # <<>>
  /\ Head(events).what.kind = kind
  /\ events' = Tail(events)

OnStateChanged_forgets_pending ==
  /\ NextEvent("state")
  /\ snap' = [snap EXCEPT ![Head(events).from] = Head(events).what.value]
  /\ UNCHANGED <<vars, plan, pending, script, waiting, stopTask, daemon, exitCode, requests,
                 mailbox>>

OnStateChanged_no_cascade ==
  LET s == Head(events).from
      st == Head(events).what.value
      sn == [snap EXCEPT ![s] = st]
      ready == {x \in pending : is_running(st) /\ after_deps_running(sn, x)}
  IN
  /\ NextEvent("state")
  /\ snap' = sn
  /\ pending' = pending \ ready
  /\ script' \in SendAll("Start", ready)
  /\ UNCHANGED <<vars, plan, waiting, stopTask, daemon, exitCode, requests, mailbox>>

\* The snapshot follows; a service that runs unblocks those that wait for it,
\* and one that came to rest stops those that require it.
OnStateChanged ==
  LET s == Head(events).from
      st == Head(events).what.value
      sn == [snap EXCEPT ![s] = st]
      ready == {x \in pending : is_running(st) /\ after_deps_running(sn, x)}
      dependents == {x \in Services : /\ st \in {"Inactive", "Error"}
                                      /\ s \in plan[x].requires
                                      /\ is_running(sn[x])}
  IN
  /\ NextEvent("state")
  /\ snap' = sn
  /\ pending' = pending \ ready
  /\ \E starts \in SendAll("Start", ready), stops \in SendAll("Stop", dependents) :
       script' = starts \o stops
  /\ UNCHANGED <<vars, plan, waiting, stopTask, daemon, exitCode, requests, mailbox>>

OnProcessExited ==
  /\ NextEvent("exited")
  /\ UNCHANGED <<vars, overlordVars, mailbox>>

\* The overlord enters stop_all, which runs one task per service.
StopAll(code) ==
  /\ daemon' = "stop_all"
  /\ exitCode' = code
  /\ stopTask' = [s \in Services |-> "start"]

OnDaemonShutdown ==
  /\ NextEvent("shutdown")
  /\ StopAll(Head(events).what.value)
  /\ UNCHANGED <<vars, plan, snap, pending, script, waiting, requests, mailbox>>

-----------------------------------------------------------------------------
(* Commands from the API and from main, and failed checks.                 *)

\* The overlord takes an input from outside.
Request(input) ==
  /\ OverlordAtSelect
  /\ input \in Inputs
  /\ requests < MaxRequests
  /\ requests' = requests + 1

\* handle_services_action: the services in the order in which the client names
\* them, one named twice twice; all of the plan when it names none.
ServicesAction(action, names) ==
  /\ Request(action)
  /\ script' = SendEach(IF action = "Autostart" THEN "Start" ELSE action, names)
  /\ plan' = IF action = "Autostart"
               THEN [s \in Services |->
                       IF \E i \in DOMAIN names : names[i] = s
                         THEN [plan[s] EXCEPT !.startup = "enabled"] ELSE plan[s]]
               ELSE plan
  /\ UNCHANGED <<vars, snap, pending, waiting, stopTask, exitCode, daemon, mailbox, events>>

ForwardSignal ==
  /\ Request("ForwardSignal")
  /\ script' \in SendAll("ForwardSignal", Services)
  /\ UNCHANGED <<vars, plan, snap, pending, waiting, stopTask, daemon, exitCode, mailbox, events>>

\* SIGTERM, SIGINT, SIGQUIT, or the daemon action of the API.
DaemonStop ==
  /\ OverlordAtSelect
  /\ "DaemonStop" \in Inputs
  /\ StopAll("0")
  /\ UNCHANGED <<vars, plan, snap, pending, script, waiting, requests, mailbox, events>>

\* A check went Down: on-check-failure of every service, in the order of the
\* plan.  The first service that wants a shutdown ends the loop.  Service events
\* come first in the biased select!.
OnCheckDown ==
  LET policy(s) == plan[s].onCheckFailure
      ends == {s \in Services : policy(s) \notin {"restart", "ignore"}}
      first == CHOOSE s \in ends : \A x \in ends : Place(s) <= Place(x)
      restarts == {s \in Services : /\ policy(s) = "restart"
                                    /\ \A x \in ends : Place(s) < Place(x)}
      exit == IF ends = {} THEN <<>>
              ELSE <<ExitWith(IF policy(first) = "success-shutdown" THEN "0" ELSE "10")>>
  IN
  /\ Request("CheckDown")
  /\ events = <<>>
  /\ \E sends \in SendAll("Restart", restarts) : script' = sends \o exit
  /\ UNCHANGED <<vars, plan, snap, pending, waiting, stopTask, daemon, exitCode, mailbox, events>>

ExitNext ==
  /\ daemon = "run"
  /\ script # <<>>
  /\ Head(script).to = NoService
  /\ waiting = NoService
  /\ StopAll(Head(script).do)
  /\ script' = <<>>
  /\ UNCHANGED <<vars, plan, snap, pending, waiting, requests, mailbox, events>>

-----------------------------------------------------------------------------
(* stop_all and the end of the daemon.                                     *)

\* One step of a service's task: Stop, its reply (Answer), Shutdown.
StopTaskSends(s) ==
  /\ daemon = "stop_all"
  /\ HasRoom(s)
  /\ \/ /\ stopTask[s] = "start"
        /\ Put(s, "Stop")
        /\ stopTask' = [stopTask EXCEPT ![s] = "await"]
     \/ /\ stopTask[s] = "reply"
        /\ Put(s, "Shutdown")
        /\ stopTask' = [stopTask EXCEPT ![s] = "done"]
  /\ UNCHANGED <<vars, plan, snap, pending, script, waiting, daemon, exitCode, requests, events>>

Exit_without_waiting ==
  /\ daemon = "stop_all"
  /\ daemon' = "exited"
  /\ UNCHANGED <<vars, plan, snap, pending, script, waiting, stopTask, exitCode, requests,
                 mailbox, events>>

\* process::exit, or the end of main: the actors are dropped where they are.
Exit ==
  /\ daemon = "stop_all"
  /\ \A s \in Services : stopTask[s] = "done"
  /\ daemon' = "exited"
  /\ UNCHANGED <<vars, plan, snap, pending, script, waiting, stopTask, exitCode, requests,
                 mailbox, events>>

-----------------------------------------------------------------------------
(* The specification.                                                      *)

OverlordStep ==
  \/ Autostart \/ SendNext \/ ExitNext
  \/ OnStateChanged \/ OnProcessExited \/ OnDaemonShutdown
  \/ Exit
  \/ \E s \in Services : StopTaskSends(s)

\* A client names as many services as there are, at most.
Requestable == BoundedSeq(Services, Len(Order)) \ {<<>>}

EnvironmentStep ==
  \/ \E action \in ServiceActions, names \in Requestable : ServicesAction(action, names)
  \/ ForwardSignal \/ DaemonStop \/ OnCheckDown

\* History.
RecordsStarts ==
  /\ born' = born \cup {s \in Services : actor'[s].state = "Starting"}
  /\ ran' = ran \cup {s \in Services : actor'[s].state = "Active"}

SupNext ==
  /\ \/ OverlordStep
     \/ EnvironmentStep
     \/ daemon # "exited" /\ \E s \in Services : ActorsStep(s)
     \/ \E s \in Services : ProcessesStep(s)
  /\ RecordsStarts

\* As in ServiceActor, with the mailbox and the channel as they are.
SupFairness ==
  /\ WF_supVars(OverlordStep /\ RecordsStarts)
  /\ \A s \in Services :
       /\ WF_supVars(StopTaskSends(s) /\ RecordsStarts)
       /\ WF_supVars(ReceiveCommand(s) /\ daemon # "exited" /\ RecordsStarts)
       /\ WF_supVars(Continue(s) /\ daemon # "exited" /\ RecordsStarts)
       /\ WF_supVars((Emit(s) \/ Answer(s)) /\ daemon # "exited" /\ RecordsStarts)
       /\ SF_supVars(ReactUnprompted(s) /\ daemon # "exited" /\ RecordsStarts)
       /\ \A p \in Pids :
            WF_supVars(proc[s][p] = "killed" /\ ProcessExit(s, p)
                         /\ UNCHANGED <<overlordVars, mailbox, events, born, ran>>)

SupSpec == SupInit /\ [][SupNext]_supVars
SupFairSpec == SupSpec /\ SupFairness

-----------------------------------------------------------------------------
(* Properties.                                                             *)

\* Where the state changes of s wait: the places of its outbox, and of the
\* channel.
Held(s) == {i \in DOMAIN actor[s].outbox : actor[s].outbox[i].kind = "state"}
Sent(s) == {i \in DOMAIN events : events[i].from = s /\ events[i].what.kind = "state"}

Latest(i, S) == i \in S /\ \A j \in S : j <= i

\* What the overlord decides on and the API reports is never lastingly wrong:
\* the snapshot of a service is its actor's state, or the latest of the events on
\* their way makes it so (transition awaits room in the channel and
\* handle_svc_event applies the events in order).
SnapshotFollows ==
  \A s \in Services :
    /\ \A i \in Held(s) :
         Latest(i, Held(s)) => actor[s].outbox[i].value = actor[s].state
    /\ Held(s) = {} =>
         \A i \in Sent(s) : Latest(i, Sent(s)) => events[i].what.value = actor[s].state
    /\ Held(s) = {} /\ Sent(s) = {} => snap[s] = actor[s].state

\* A service autostarts only after everything it declares after:, requires: or is
\* named in the before: of has been Active, however late the events arrive
\* (after_deps_running, through the snapshots).  The manual promises no less: a start
\* after the others "reach `Active`" (docs/user-guide/configuration.md:145, also :69
\* and logging.md:569).  But is_running counts Starting, whose event is handled
\* although the launch has failed since, so that a failed launch will do as well.
AutostartOrder ==
  [][\A x \in born' \ born : \A d \in Dependencies(x) :
       d \in ran \/ (d \in born /\ actor[d].state = "Error")]_supVars

\* A deferred service is not forgotten: once all it waits for runs for good, it
\* is started (try_start_pending, called with every event of a running service).
AutostartProgress ==
  \A x \in Services :
    (<>[](/\ daemon = "run"
          /\ plan[x].startup = "enabled"
          /\ Dependencies(x) \subseteq {d \in Services : is_running(actor[d].state)}))
      => <>(x \in born)

\* Nobody waits for ever on the overlord: each command it sends to an actor is
\* answered (svc_cmd awaits the reply with no timeout).
CommandsAnswered == waiting # NoService ~> waiting = NoService

\* A shutdown, whoever asked for it, ends with the daemon's exit (stop_all joins
\* the tasks of all services, each of which awaits the reply to its Stop).
ShutdownEnds == daemon = "stop_all" ~> daemon = "exited"

\* The daemon does not exit over the head of a process it never asked to stop:
\* each one still alive was sent its stop signal (stop_all awaits every reply).
\* A restart that is pending at that moment is another matter: its new process
\* is spawned behind the back of stop_all.
ExitAsksEveryProcess ==
  (daemon = "exited" /\ "Restart" \notin Inputs
     /\ \A s \in Services : plan[s].onCheckFailure # "restart")
  => \A s \in Services : \A p \in Live(s) : proc[s][p] # "running"

\* "If a leaves the running state (Inactive, Backoff, Error), this service is
\* stopped automatically" (docs/user-guide/configuration.md on requires:).  So it
\* is when the overlord has seen both of them run: a dependent whose own start it
\* has not seen when the dependency fails is passed over and runs on.
RequiresCascade ==
  \A x \in Services, d \in Services :
    d \in plan[x].requires =>
      ((/\ <>(is_running(snap[x]) /\ is_running(snap[d]))
        /\ <>[](daemon = "run" /\ actor[d].state \in {"Inactive", "Error"}))
         => []<>(~is_running(actor[x].state) \/ daemon # "run"))
=============================================================================
