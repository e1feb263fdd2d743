------------------------- MODULE ServiceActorProofs -------------------------
(***************************************************************************)
(* Proofs about ServiceActor, for every set of services, of process        *)
(* identifiers and of configurations: type correctness, the inductive      *)
(* invariant `Inv' behind the safety properties that hold against any      *)
(* client, and the invariant `PatientInv' that holds against a client that *)
(* leaves services in "Backoff" alone, with the refinement of              *)
(* ServiceLifecycle that follows from it.                                  *)
(***************************************************************************)
EXTENDS ServiceActor, TLAPS

-----------------------------------------------------------------------------
(* Type correctness.                                                       *)

\* Every output a handler builds is one of Outputs.
LEMMA OutputTypes ==
  /\ \A st \in States : StateChanged(st) \in Outputs
  /\ ProcessExited \in Outputs
  /\ \A code \in {"0", "10"} : DaemonShutdown(code) \in Outputs
  /\ \A r \in {"ok", "err"} : Reply(r) \in Outputs
BY DEF StateChanged, ProcessExited, DaemonShutdown, Reply, Outputs

\* The sequences of outputs the handlers build are sequences of outputs.
LEMMA ShortSeqs ==
  ASSUME NEW S, NEW x \in S, NEW y \in S, NEW z \in S
  PROVE  /\ <<>> \in Seq(S)
         /\ <<x>> \in Seq(S)
         /\ <<x, y>> \in Seq(S)
         /\ <<x, y>> \o <<z>> \in Seq(S)
         /\ <<x, y>> \o <<>> \in Seq(S)
         /\ <<x>> \o <<y>> \in Seq(S)
         /\ <<x>> \o <<>> \in Seq(S)
OBVIOUS

\* So is what is left of one.
LEMMA TailType ==
  ASSUME NEW S, NEW q \in Seq(S), q # <<>>
  PROVE  Tail(q) \in Seq(S)
OBVIOUS

\* An actor replaced by an actor.
LEMMA BecomeType ==
  ASSUME NEW s \in Services, NEW a \in Actor,
         actor \in [Services -> Actor], Become(s, a)
  PROVE  actor' \in [Services -> Actor]
BY DEF Become

\* Signals change the status of processes only.
LEMMA SignalType ==
  ASSUME TypeOK, NEW s \in Services
  PROVE  /\ send_stop_signal(s) \in [Pids -> ProcStatus]
         /\ send_sigkill(s) \in [Pids -> ProcStatus]
BY DEF TypeOK, send_stop_signal, send_sigkill, ProcStatus

\* backoff.rs keeps the delay a duration.
LEMMA BackoffType ==
  ASSUME NEW a \in Actor, NEW c \in Configs
  PROVE  /\ reset_backoff(a, c) \in Actor
         /\ next_backoff(a, c) \in Actor
<1>1. c \in ServiceConfig
  BY ConfigsAssumption
<1>2. c.delay \in Nat /\ c.num \in Nat /\ c.den \in Nat \ {0} /\ c.limit \in Nat
  BY <1>1 DEF ServiceConfig
<1>3. a.currentBackoff \in Nat
  BY DEF Actor
<1>4. a.currentBackoff * c.num \in Nat
  BY <1>2, <1>3
<1>5. Scaled(a.currentBackoff, c) \in Nat
  BY <1>2, <1>4 DEF Scaled
<1> QED
  BY <1>2, <1>5 DEF reset_backoff, next_backoff, Smaller, Actor

\* The handler shared by Start and Restart.
LEMMA StartType ==
  ASSUME TypeOK, NEW s \in Services, handle_start(s)
  PROVE  TypeOK'
<1> DEFINE a == actor[s]
<1>1. a \in Actor
  BY DEF TypeOK
<1>2. /\ [a EXCEPT !.outbox = <<Reply("ok")>>] \in Actor
      /\ [a EXCEPT !.outbox = <<Reply("err")>>] \in Actor
      /\ [a EXCEPT !.state = "Starting", !.todo = "spawn_start",
                   !.outbox = <<StateChanged("Starting")>>] \in Actor
  BY <1>1, OutputTypes, ShortSeqs DEF Actor, States, SpawnTodos
<1> QED
  BY <1>2, BecomeType DEF handle_start, TypeOK

\* The part shared by Stop and Restart.
LEMMA BeginStopType ==
  ASSUME TypeOK, NEW s \in Services, NEW restart \in BOOLEAN,
         begin_stop(s, restart), UNCHANGED config
  PROVE  TypeOK'
<1> DEFINE a == actor[s]
<1>1. a \in Actor
  BY DEF TypeOK
<1>2. [a EXCEPT !.state = "Stopping", !.stopDeadline = "armed",
                !.backoffSleep = @ /\ ~restart, !.pendingRestart = restart \/ @,
                !.outbox = <<StateChanged("Stopping"), Reply("ok")>>] \in Actor
  BY <1>1, OutputTypes, ShortSeqs DEF Actor, States
<1> QED
  BY <1>2, BecomeType, SignalType DEF begin_stop, TypeOK

\* What DoStart makes of the actor before it sets the outcome.
LEMMA AfterStartType ==
  ASSUME NEW a \in Actor, NEW c \in Configs, NEW ok \in BOOLEAN, a.todo \in SpawnTodos
  PROVE  after_start(a, c, ok) \in Actor
<1>1. reset_backoff(a, c) \in Actor
  BY BackoffType
<1>2. [reset_backoff(a, c) EXCEPT !.stopDeadline = "off"] \in Actor
  BY <1>1 DEF Actor
<1>3. [a EXCEPT !.stopDeadline = "off", !.backoffSleep = FALSE] \in Actor
  BY DEF Actor
<1> QED
  BY <1>1, <1>2, <1>3 DEF after_start, SpawnTodos

\* An actor in which do_start has set the outcome.
LEMMA SettledType ==
  ASSUME NEW b \in Actor, NEW st \in States, NEW q \in Seq(Outputs)
  PROVE  /\ [b EXCEPT !.state = st, !.todo = "none", !.outbox = q] \in Actor
         /\ \A p \in Pids :
              [b EXCEPT !.child = p, !.state = st, !.todo = "none", !.outbox = q] \in Actor
BY DEF Actor

\* Every step of the actor, its processes and its clients keeps the types.
LEMMA StepType ==
  ASSUME TypeOK, NEW s \in Services,
         Command(s) \/ ActorStep(s) \/ Deliver(s) \/ ProcessStep(s)
  PROVE  TypeOK'
<1> DEFINE a == actor[s]
           c == config[s]
<1> USE ShortSeqs, OutputTypes, BecomeType
<1>1. a \in Actor /\ c \in Configs
  BY DEF TypeOK
<1>2. CASE Start(s)
  BY <1>2, StartType DEF Start
<1>3. CASE Stop(s)
  <2>1. /\ [a EXCEPT !.outbox = <<Reply("ok")>>] \in Actor
        /\ [a EXCEPT !.state = "Inactive", !.backoffSleep = FALSE,
                     !.outbox = <<StateChanged("Inactive"), Reply("ok")>>] \in Actor
    BY <1>1 DEF Actor, States
  <2>2. CASE begin_stop(s, FALSE)
    BY <1>3, <2>2, BeginStopType DEF Stop
  <2> QED
    BY <1>3, <2>1, <2>2 DEF Stop, TypeOK
<1>4. CASE Restart(s)
  BY <1>4, StartType, BeginStopType DEF Restart
<1>5. CASE Shutdown(s)
  <2>1. [a EXCEPT !.phase = "gone"] \in Actor /\ [a EXCEPT !.phase = "cleanup"] \in Actor
    BY <1>1 DEF Actor
  <2> QED
    BY <1>5, <2>1, SignalType DEF Shutdown, TypeOK
<1>6. CASE ChildExit(s)
  <2>1. CASE exit_while_stopping(s)
    <3>1. [a EXCEPT !.child = NoPid, !.stopDeadline = "off",
                    !.state = "Inactive", !.pendingRestart = FALSE,
                    !.todo = IF a.pendingRestart THEN "relaunch" ELSE "none",
                    !.outbox = <<ProcessExited, StateChanged("Inactive")>>] \in Actor
      BY <1>1 DEF Actor, States
    <3> QED
      BY <1>6, <2>1, <3>1 DEF ChildExit, exit_while_stopping, TypeOK
  <2>2. ASSUME NEW policy, NEW success \in BOOLEAN, exit_by_itself(s, policy, success)
        PROVE  TypeOK'
    <3> DEFINE b == [a EXCEPT !.child = NoPid, !.stopDeadline = "off"]
               settled(d, st, more) ==
                 [d EXCEPT !.state = st,
                           !.outbox = <<ProcessExited, StateChanged(st)>> \o more]
    <3>1. b \in Actor
      BY <1>1 DEF Actor
    <3>2. [next_backoff(b, c) EXCEPT !.backoffSleep = TRUE] \in Actor
      BY ZenonT(40), <1>1, <3>1, BackoffType DEF Actor
    <3>3. /\ settled(b, "Inactive", <<>>) \in Actor
          /\ settled(b, "Error", <<>>) \in Actor
          /\ \A code \in {"0", "10"} :
               settled(b, "Inactive", <<DaemonShutdown(code)>>) \in Actor
      BY <3>1 DEF Actor, States
    <3>4. settled([next_backoff(b, c) EXCEPT !.backoffSleep = TRUE], "Backoff", <<>>) \in Actor
      BY <3>2 DEF Actor, States
    <3>5. policy \in {"shutdown", "failure-shutdown", "success-shutdown"}
            => ExitCode(policy, success) \in {"0", "10"}
      BY DEF ExitCode
    <3> QED
      BY <1>6, <2>2, <3>3, <3>4, <3>5 DEF ChildExit, exit_by_itself, TypeOK
  <2> QED
    BY <1>6, <2>1, <2>2 DEF ChildExit
<1>7. CASE KillDelayPasses(s)
  <2>1. [a EXCEPT !.stopDeadline = "elapsed"] \in Actor
    BY <1>1 DEF Actor
  <2> QED
    BY <1>7, <2>1 DEF KillDelayPasses, TypeOK
<1>8. CASE KillDeadline(s)
  <2>1. [a EXCEPT !.stopDeadline = "off"] \in Actor
    BY <1>1 DEF Actor
  <2> QED
    BY <1>8, <2>1, SignalType DEF KillDeadline, TypeOK
<1>9. CASE BackoffExpired(s)
  <2>1. [a EXCEPT !.state = "Starting", !.todo = "spawn_backoff",
                  !.outbox = <<StateChanged("Starting")>>] \in Actor
    BY <1>1 DEF Actor, States, SpawnTodos
  <2> QED
    BY <1>9, <2>1 DEF BackoffExpired, TypeOK
<1>10. CASE Deliver(s)
  <2>1. Tail(a.outbox) \in Seq(Outputs)
    BY <1>1, <1>10, TailType DEF Deliver, Actor
  <2>2. [a EXCEPT !.outbox = Tail(@)] \in Actor
    BY <1>1, <2>1 DEF Actor
  <2> QED
    BY <1>10, <2>2 DEF Deliver, TypeOK
<1>11. CASE Relaunch(s)
  <2>1. [a EXCEPT !.state = "Starting", !.todo = "spawn_relaunch",
                  !.outbox = <<StateChanged("Starting")>>] \in Actor
    BY <1>1 DEF Actor, States, SpawnTodos
  <2> QED
    BY <1>11, <2>1 DEF Relaunch, TypeOK
<1>12. CASE DoStart(s)
  <2>1. /\ <<StateChanged("Active")>> \o answer(a, "ok") \in Seq(Outputs)
        /\ <<StateChanged("Error")>> \o answer(a, "err") \in Seq(Outputs)
    BY DEF answer, States
  <2>4. after_start(a, c, TRUE) \in Actor /\ after_start(a, c, FALSE) \in Actor
    BY <1>1, <1>12, AfterStartType DEF DoStart
  <2>2. CASE spawn_failed(s)
    <3>1. [after_start(a, c, FALSE) EXCEPT
             !.state = "Error", !.todo = "none",
             !.outbox = <<StateChanged("Error")>> \o answer(a, "err")] \in Actor
      BY <2>1, <2>4, SettledType DEF States
    <3> QED
      BY <1>12, <2>2, <3>1 DEF DoStart, spawn_failed, TypeOK
  <2>3. ASSUME NEW p \in Pids, spawned(s, p)
        PROVE  TypeOK'
    <3>1. [after_start(a, c, TRUE) EXCEPT
             !.child = p, !.state = "Active", !.todo = "none",
             !.outbox = <<StateChanged("Active")>> \o answer(a, "ok")] \in Actor
      BY <2>1, <2>4, SettledType DEF States
    <3> QED
      BY ZenonT(40), <1>12, <2>3, <3>1 DEF DoStart, spawned, TypeOK, ProcStatus
  <2> QED
    BY <1>12, <2>2, <2>3 DEF DoStart
<1>13. CASE CleanupKill(s)
  <2>1. [a EXCEPT !.phase = "reaping"] \in Actor
    BY <1>1 DEF Actor
  <2> QED
    BY <1>13, <2>1, SignalType DEF CleanupKill, TypeOK
<1>14. CASE CleanupReaped(s)
  <2>1. [a EXCEPT !.phase = "gone", !.child = NoPid] \in Actor
    BY <1>1 DEF Actor
  <2> QED
    BY <1>14, <2>1 DEF CleanupReaped, TypeOK
<1>15. CASE ProcessStep(s)
  BY <1>15 DEF ProcessStep, ProcessExit, TypeOK, ProcStatus
<1> QED
  BY <1>2, <1>3, <1>4, <1>5, <1>6, <1>7, <1>8, <1>9, <1>10, <1>11, <1>12, <1>13, <1>14,
     <1>15 DEF Command, ActorStep

\* The actors start with values of their types.
LEMMA InitType ==
  ASSUME Init PROVE TypeOK
<1>1. NewActor \in Actor
  BY ShortSeqs, DefaultDelayAssumption DEF NewActor, Actor, States
<1> QED
  BY <1>1 DEF Init, TypeOK, ProcStatus

\* Type correctness, against any client.
THEOREM TypeCorrect == Spec => []TypeOK
<1>1. TypeOK /\ [Next]_vars => TypeOK'
  <2> SUFFICES ASSUME TypeOK, [Next]_vars PROVE TypeOK'
    OBVIOUS
  <2>1. CASE Next
    BY <2>1, StepType DEF Next
  <2>2. CASE UNCHANGED vars
    BY <2>2 DEF vars, TypeOK
  <2> QED
    BY <2>1, <2>2
<1> QED
  BY InitType, <1>1, PTL DEF Spec

-----------------------------------------------------------------------------
(* The invariant against any client.                                       *)

\* Where in its handlers the actor can be in each state.
ControlInv(s) ==
  LET a == actor[s] IN
  /\ a.phase # "run" => a.todo = "none" /\ a.outbox = <<>>
  /\ a.todo \in SpawnTodos => a.state = "Starting"
  /\ a.todo = "relaunch" => a.state = "Inactive"
  /\ a.todo = "none" => a.state # "Starting"
  /\ a.state = "Starting" => a.todo \in SpawnTodos
  /\ a.todo = "spawn_backoff" => a.backoffSleep

\* A stopping service holds a child that was asked to stop, and its deadline.
StopInv(s) ==
  LET a == actor[s] IN
  /\ a.stopDeadline # "off" => a.state = "Stopping" \/ a.todo = "spawn_backoff"
  /\ a.state = "Active" /\ a.phase = "run" => a.child # NoPid
  /\ a.state = "Stopping" /\ a.phase = "run" =>
       /\ a.child # NoPid
       /\ proc[s][a.child] # "running"
       /\ a.stopDeadline = "off" => proc[s][a.child] \in {"absent", "killed"}
  /\ a.phase = "cleanup" => a.child # NoPid /\ proc[s][a.child] # "running"

\* A Restart drops the backoff timer with which it would race.
RestartInv(s) ==
  LET a == actor[s] IN
  a.pendingRestart => a.state = "Stopping" /\ ~a.backoffSleep

\* Whatever runs, or will be run by the backoff timer, has had its backoff reset.
BackoffInv(s) ==
  LET a == actor[s] IN
  (a.child # NoPid \/ a.backoffSleep) /\ ~a.backedOff => a.currentBackoff = config[s].delay

ServiceInv(s) == ControlInv(s) /\ StopInv(s) /\ RestartInv(s) /\ BackoffInv(s)

Inv == TypeOK /\ \A s \in Services : ServiceInv(s)

-----------------------------------------------------------------------------
(* The invariant against a patient client.                                 *)

PatientServiceInv(s) ==
  LET a == actor[s] IN
  /\ Live(s) \subseteq {a.child}
  /\ a.child # NoPid => a.state \in {"Active", "Stopping"}
  /\ a.backoffSleep <=> (a.state = "Backoff" \/ a.todo = "spawn_backoff")
  /\ a.phase = "gone" => a.child = NoPid

PatientInv == Inv /\ \A s \in Services : PatientServiceInv(s)

-----------------------------------------------------------------------------
(* Preservation, service by service.                                       *)

\* The actor of one service is replaced, the others stay.
LEMMA BecomeFrame ==
  ASSUME TypeOK, NEW s \in Services, NEW a, Become(s, a)
  PROVE  /\ actor'[s] = a
         /\ \A t \in Services \ {s} : actor'[t] = actor[t]
BY DEF Become, TypeOK

\* A step of one service leaves the other services as they are.
LEMMA StepFrame ==
  ASSUME TypeOK, NEW s \in Services, NEW t \in Services \ {s},
         Command(s) \/ ActorStep(s) \/ Deliver(s) \/ ProcessStep(s)
  PROVE  actor'[t] = actor[t] /\ proc'[t] = proc[t] /\ config'[t] = config[t]
<1> USE BecomeFrame DEF TypeOK
<1>1. ASSUME handle_start(s)
      PROVE  actor'[t] = actor[t] /\ proc'[t] = proc[t] /\ config'[t] = config[t]
  BY <1>1 DEF handle_start
<1>2. ASSUME NEW restart, begin_stop(s, restart)
      PROVE  actor'[t] = actor[t] /\ proc'[t] = proc[t]
  BY <1>2 DEF begin_stop
<1>3. CASE Command(s)
  BY <1>1, <1>2, <1>3 DEF Command, Start, Stop, Restart, Shutdown
<1>4. CASE ChildExit(s)
  BY <1>4 DEF ChildExit, exit_while_stopping, exit_by_itself
<1>5. CASE KillDelayPasses(s) \/ KillDeadline(s) \/ BackoffExpired(s) \/ Relaunch(s)
  BY <1>5 DEF KillDelayPasses, KillDeadline, BackoffExpired, Relaunch
<1>6. CASE DoStart(s)
  BY <1>6 DEF DoStart, spawned, spawn_failed
<1>7. CASE CleanupKill(s) \/ CleanupReaped(s) \/ Deliver(s) \/ ProcessStep(s)
  BY <1>7 DEF CleanupKill, CleanupReaped, Deliver, ProcessStep, ProcessExit
<1> QED
  BY <1>3, <1>4, <1>5, <1>6, <1>7 DEF ActorStep

\* The stop signal, and SIGKILL, reach the child.
LEMMA Signalled ==
  ASSUME TypeOK, NEW s \in Services, actor[s].child \in Pids
  PROVE  /\ send_stop_signal(s)[actor[s].child] # "running"
         /\ send_sigkill(s)[actor[s].child] \in {"absent", "killed"}
BY DEF send_stop_signal, send_sigkill, TypeOK, ProcStatus

\* begin_stop establishes what a stopping service needs.
LEMMA BeginStopInv ==
  ASSUME Inv, NEW s \in Services, NEW restart \in BOOLEAN,
         AtSelect(s), actor[s].state \in {"Starting", "Active", "Stopping"},
         begin_stop(s, restart), UNCHANGED config,
         restart \/ actor[s].state # "Stopping"
  PROVE  ServiceInv(s)'
<1> DEFINE a == actor[s]
<1>1. a \in Actor /\ ServiceInv(s) /\ TypeOK
  BY DEF Inv, TypeOK
<1>2. actor'[s] = [a EXCEPT !.state = "Stopping", !.stopDeadline = "armed",
                     !.backoffSleep = @ /\ ~restart, !.pendingRestart = restart \/ @,
                     !.outbox = <<StateChanged("Stopping"), Reply("ok")>>]
  BY <1>1, BecomeFrame DEF begin_stop
<1>3. a.child \in Pids /\ a.phase = "run" /\ a.todo = "none"
  BY <1>1 DEF AtSelect, ServiceInv, ControlInv, StopInv, Actor
<1>4. proc'[s] = send_stop_signal(s)
  BY <1>1 DEF begin_stop, TypeOK
<1>5. proc'[s][a.child] # "running"
  BY <1>1, <1>3, <1>4, Signalled
<1>6. ControlInv(s)'
  BY <1>1, <1>2, <1>3 DEF ControlInv, Actor, SpawnTodos
<1>7. StopInv(s)'
  BY <1>1, <1>2, <1>3, <1>5, NoPidAssumption DEF StopInv, Actor
<1>8. RestartInv(s)'
  BY <1>1, <1>2 DEF RestartInv, ServiceInv, Actor
<1>9. BackoffInv(s)'
  BY <1>1, <1>2 DEF BackoffInv, ServiceInv, Actor
<1> QED
  BY <1>6, <1>7, <1>8, <1>9 DEF ServiceInv

\* handle_start keeps the invariant of its service.
LEMMA StartInv ==
  ASSUME Inv, NEW s \in Services, AtSelect(s), handle_start(s)
  PROVE  ServiceInv(s)'
<1> DEFINE a == actor[s]
<1>1. a \in Actor /\ ServiceInv(s) /\ TypeOK
  BY DEF Inv, TypeOK
<1>2. \/ actor'[s] = [a EXCEPT !.outbox = <<Reply("ok")>>]
      \/ actor'[s] = [a EXCEPT !.outbox = <<Reply("err")>>]
      \/ /\ a.state \in {"Inactive", "Backoff", "Error"}
         /\ actor'[s] = [a EXCEPT !.state = "Starting", !.todo = "spawn_start",
                                  !.outbox = <<StateChanged("Starting")>>]
  <2>1. CASE Become(s, [a EXCEPT !.outbox = <<Reply("ok")>>])
    BY <1>1, <2>1, BecomeFrame
  <2>2. CASE Become(s, [a EXCEPT !.outbox = <<Reply("err")>>])
    BY <1>1, <2>2, BecomeFrame
  <2>3. CASE /\ ~is_running(a.state) /\ a.state # "Stopping"
             /\ Become(s, [a EXCEPT !.state = "Starting", !.todo = "spawn_start",
                                    !.outbox = <<StateChanged("Starting")>>])
    <3>1. a.state \in {"Inactive", "Backoff", "Error"}
      BY <1>1, <2>3 DEF is_running, Actor, States
    <3>2. actor'[s] = [a EXCEPT !.state = "Starting", !.todo = "spawn_start",
                                !.outbox = <<StateChanged("Starting")>>]
      BY <1>1, <2>3, BecomeFrame
    <3> QED
      BY <3>1, <3>2
  <2> QED
    BY <2>1, <2>2, <2>3 DEF handle_start
<1>3. a.phase = "run" /\ a.todo = "none" /\ proc' = proc /\ config' = config
  BY DEF AtSelect, handle_start
<1>4. ControlInv(s)'
  BY <1>1, <1>2, <1>3 DEF ServiceInv, ControlInv, Actor, SpawnTodos
<1>5. StopInv(s)'
  BY <1>1, <1>2, <1>3 DEF ServiceInv, StopInv, Actor
<1>6. RestartInv(s)'
  BY <1>1, <1>2, <1>3 DEF ServiceInv, RestartInv, Actor
<1>7. BackoffInv(s)'
  BY <1>1, <1>2, <1>3 DEF ServiceInv, BackoffInv, Actor
<1> QED
  BY <1>4, <1>5, <1>6, <1>7 DEF ServiceInv

\* The end of the child keeps the invariant of its service.
LEMMA ChildExitInv ==
  ASSUME Inv, NEW s \in Services, ChildExit(s)
  PROVE  ServiceInv(s)'
<1> DEFINE a == actor[s]
           c == config[s]
           b == [a EXCEPT !.child = NoPid, !.stopDeadline = "off"]
<1>1. a \in Actor /\ c \in Configs /\ ServiceInv(s) /\ TypeOK
  BY DEF Inv, TypeOK
<1>2. /\ a.phase = "run" /\ a.todo = "none" /\ a.child # NoPid
      /\ proc' = proc /\ config' = config
  BY DEF ChildExit, AtSelect
<1>3. CASE exit_while_stopping(s)
  <2>1. actor'[s] = [a EXCEPT !.child = NoPid, !.stopDeadline = "off",
                       !.state = "Inactive", !.pendingRestart = FALSE,
                       !.todo = IF a.pendingRestart THEN "relaunch" ELSE "none",
                       !.outbox = <<ProcessExited, StateChanged("Inactive")>>]
    BY <1>1, <1>3, BecomeFrame DEF exit_while_stopping
  <2>2. ControlInv(s)' /\ StopInv(s)' /\ RestartInv(s)'
    BY <1>1, <1>2, <2>1 DEF ServiceInv, ControlInv, StopInv, RestartInv, Actor, SpawnTodos
  <2>3. BackoffInv(s)'
    BY <1>1, <1>2, <2>1 DEF ServiceInv, BackoffInv, Actor
  <2> QED
    BY <2>2, <2>3 DEF ServiceInv
<1>4. ASSUME NEW policy, NEW success \in BOOLEAN, exit_by_itself(s, policy, success)
      PROVE  ServiceInv(s)'
  <2>1. b \in Actor
    BY <1>1 DEF Actor
  <2>2. a.state # "Stopping" /\ a.state # "Starting"
    BY <1>1, <1>2, <1>4 DEF exit_by_itself, ServiceInv, ControlInv
  <2>3. ASSUME NEW st \in {"Inactive", "Error"}, NEW more,
               Become(s, [b EXCEPT !.state = st,
                                   !.outbox = <<ProcessExited, StateChanged(st)>> \o more])
        PROVE  ServiceInv(s)'
    <3>1. actor'[s] = [b EXCEPT !.state = st,
                                !.outbox = <<ProcessExited, StateChanged(st)>> \o more]
      BY <1>1, <2>3, BecomeFrame
    <3>2. ControlInv(s)' /\ StopInv(s)'
      BY <1>1, <1>2, <2>1, <3>1 DEF ControlInv, StopInv, Actor, SpawnTodos
    <3>3. RestartInv(s)' /\ BackoffInv(s)'
      BY <1>1, <1>2, <2>1, <2>2, <3>1 DEF ServiceInv, RestartInv, BackoffInv, Actor
    <3> QED
      BY <3>2, <3>3 DEF ServiceInv
  <2>4. ASSUME NEW d, d = [next_backoff(b, c) EXCEPT !.backoffSleep = TRUE],
               Become(s, [d EXCEPT !.state = "Backoff",
                                   !.outbox = <<ProcessExited, StateChanged("Backoff")>> \o <<>>])
        PROVE  ServiceInv(s)'
    <3>0. next_backoff(b, c) \in Actor
      BY <1>1, <2>1, BackoffType
    <3>1. d \in Actor
      BY <2>4, <3>0 DEF Actor
    <3>2. /\ d.phase = "run" /\ d.todo = "none" /\ d.stopDeadline = "off"
          /\ d.pendingRestart = a.pendingRestart /\ d.backedOff
      BY <1>1, <1>2, <2>1, <2>4 DEF next_backoff, Actor
    <3>3. actor'[s] = [d EXCEPT !.state = "Backoff",
                                !.outbox = <<ProcessExited, StateChanged("Backoff")>> \o <<>>]
      BY <1>1, <2>4, BecomeFrame
    <3>4. ControlInv(s)' /\ StopInv(s)'
      BY <1>2, <3>1, <3>2, <3>3 DEF ControlInv, StopInv, Actor, SpawnTodos
    <3>5. RestartInv(s)' /\ BackoffInv(s)'
      BY <1>1, <1>2, <2>2, <3>1, <3>2, <3>3 DEF ServiceInv, RestartInv, BackoffInv, Actor
    <3> QED
      BY <3>4, <3>5 DEF ServiceInv
  <2> QED
    BY <1>4, <2>3, <2>4 DEF exit_by_itself
<1> QED
  BY <1>3, <1>4 DEF ChildExit

\* So does the result of do_start.
LEMMA DoStartInv ==
  ASSUME Inv, NEW s \in Services, DoStart(s)
  PROVE  ServiceInv(s)'
<1> DEFINE a == actor[s]
           c == config[s]
<1>1. a \in Actor /\ c \in Configs /\ ServiceInv(s) /\ TypeOK
  BY DEF Inv, TypeOK
<1>2. /\ a.phase = "run" /\ a.todo \in SpawnTodos /\ a.state = "Starting"
      /\ config' = config
  BY <1>1 DEF DoStart, ServiceInv, ControlInv, Actor, SpawnTodos
<1>3. ~a.pendingRestart
  BY <1>1, <1>2 DEF ServiceInv, RestartInv
<1>4. ASSUME NEW ok \in BOOLEAN, NEW b, b = after_start(a, c, ok)
      PROVE  /\ b \in Actor
             /\ b.phase = "run" /\ b.stopDeadline = "off" /\ ~b.pendingRestart
             /\ b.child = a.child
             /\ ok \/ a.child # NoPid \/ b.backoffSleep =>
                  b.backedOff \/ b.currentBackoff = c.delay
  <2>1. a.stopDeadline # "off" => a.todo = "spawn_backoff"
    BY <1>1, <1>2 DEF ServiceInv, StopInv
  <2>2. a.todo = "spawn_backoff" => a.backoffSleep
    BY <1>1 DEF ServiceInv, ControlInv
  <2>3. a.child # NoPid \/ a.backoffSleep => a.backedOff \/ a.currentBackoff = c.delay
    BY <1>1 DEF ServiceInv, BackoffInv
  <2>4. b \in Actor
    BY <1>1, <1>2, <1>4, AfterStartType
  <2>5. CASE a.todo = "spawn_backoff"
    BY <1>1, <1>2, <1>3, <1>4, <2>2, <2>3, <2>4, <2>5 DEF after_start, Actor
  <2>6. CASE a.todo # "spawn_backoff" /\ ok
    <3>1. c.delay \in Nat
      BY <1>1, ConfigsAssumption DEF ServiceConfig
    <3> QED
      BY <1>1, <1>2, <1>3, <1>4, <2>1, <2>4, <2>6, <3>1
         DEF after_start, reset_backoff, Actor, SpawnTodos
  <2>7. CASE a.todo # "spawn_backoff" /\ ~ok
    BY <1>1, <1>2, <1>3, <1>4, <2>1, <2>3, <2>4, <2>7 DEF after_start, SpawnTodos
  <2> QED
    BY <2>5, <2>6, <2>7
<1>5. CASE spawn_failed(s)
  <2> DEFINE b == after_start(a, c, FALSE)
  <2>1. actor'[s] = [b EXCEPT !.state = "Error", !.todo = "none",
                              !.outbox = <<StateChanged("Error")>> \o answer(a, "err")]
    BY <1>1, <1>5, BecomeFrame DEF spawn_failed
  <2> HIDE DEF b
  <2>2. /\ b \in Actor
        /\ b.phase = "run" /\ b.stopDeadline = "off" /\ ~b.pendingRestart
        /\ b.child # NoPid \/ b.backoffSleep => b.backedOff \/ b.currentBackoff = c.delay
    BY <1>4 DEF b
  <2> QED
    BY <1>2, <2>1, <2>2
       DEF ServiceInv, ControlInv, StopInv, RestartInv, BackoffInv, Actor, SpawnTodos
<1>6. ASSUME NEW p \in Pids, spawned(s, p)
      PROVE  ServiceInv(s)'
  <2> DEFINE b == after_start(a, c, TRUE)
  <2>1. actor'[s] = [b EXCEPT !.child = p, !.state = "Active", !.todo = "none",
                              !.outbox = <<StateChanged("Active")>> \o answer(a, "ok")]
    BY <1>1, <1>6, BecomeFrame DEF spawned
  <2> HIDE DEF b
  <2>2. /\ b \in Actor
        /\ b.phase = "run" /\ b.stopDeadline = "off" /\ ~b.pendingRestart
        /\ b.backedOff \/ b.currentBackoff = c.delay
    BY <1>4 DEF b
  <2> QED
    BY <1>2, <2>1, <2>2, NoPidAssumption
       DEF ServiceInv, ControlInv, StopInv, RestartInv, BackoffInv, Actor, SpawnTodos
<1> QED
  BY <1>5, <1>6 DEF DoStart

\* The timers and the remaining continuations keep the invariant of their service.
LEMMA QuietInv ==
  ASSUME Inv, NEW s \in Services,
         \/ KillDelayPasses(s) \/ BackoffExpired(s) \/ Relaunch(s)
         \/ Deliver(s) \/ CleanupReaped(s)
  PROVE  ServiceInv(s)'
<1> DEFINE a == actor[s]
<1>1. a \in Actor /\ ServiceInv(s) /\ TypeOK
  BY DEF Inv, TypeOK
<1> USE <1>1, BecomeFrame DEF ServiceInv, ControlInv, StopInv, RestartInv, BackoffInv
<1>2. CASE KillDelayPasses(s)
  <2>1. actor'[s] = [a EXCEPT !.stopDeadline = "elapsed"]
    BY <1>2 DEF KillDelayPasses
  <2> QED
    BY <1>2, <2>1 DEF KillDelayPasses, Actor
<1>3. CASE BackoffExpired(s)
  <2>1. actor'[s] = [a EXCEPT !.state = "Starting", !.todo = "spawn_backoff",
                              !.outbox = <<StateChanged("Starting")>>]
    BY <1>3 DEF BackoffExpired
  <2> QED
    BY <1>3, <2>1 DEF BackoffExpired, AtSelect, Actor, SpawnTodos
<1>4. CASE Relaunch(s)
  <2>1. actor'[s] = [a EXCEPT !.state = "Starting", !.todo = "spawn_relaunch",
                              !.outbox = <<StateChanged("Starting")>>]
    BY <1>4 DEF Relaunch
  <2> QED
    BY <1>4, <2>1 DEF Relaunch, Actor, SpawnTodos
<1>5. CASE Deliver(s)
  <2>1. actor'[s] = [a EXCEPT !.outbox = Tail(@)]
    BY <1>5 DEF Deliver
  <2> QED
    BY <1>5, <2>1 DEF Deliver, Actor
<1>6. CASE CleanupReaped(s)
  <2>1. actor'[s] = [a EXCEPT !.phase = "gone", !.child = NoPid]
    BY <1>6 DEF CleanupReaped
  <2> QED
    BY <1>6, <2>1 DEF CleanupReaped, Actor
<1> QED
  BY <1>2, <1>3, <1>4, <1>5, <1>6

\* So do the steps that signal the child, and the end of processes.
LEMMA SignalInv ==
  ASSUME Inv, NEW s \in Services,
         Shutdown(s) \/ KillDeadline(s) \/ CleanupKill(s) \/ ProcessStep(s)
  PROVE  ServiceInv(s)'
<1> DEFINE a == actor[s]
<1>1. a \in Actor /\ ServiceInv(s) /\ TypeOK
  BY DEF Inv, TypeOK
<1>2. proc[s] \in [Pids -> ProcStatus]
  BY <1>1 DEF TypeOK
<1> USE <1>1, BecomeFrame DEF ServiceInv, ControlInv, StopInv, RestartInv, BackoffInv
<1>3. CASE Shutdown(s)
  <2>1. CASE a.child = NoPid
    <3>1. actor'[s] = [a EXCEPT !.phase = "gone"] /\ UNCHANGED <<proc, config>>
      BY <1>3, <2>1 DEF Shutdown
    <3> QED
      BY <1>3, <2>1, <3>1 DEF Shutdown, AtSelect, Actor
  <2>2. CASE a.child # NoPid
    <3>1. /\ actor'[s] = [a EXCEPT !.phase = "cleanup"]
          /\ proc'[s] = send_stop_signal(s) /\ UNCHANGED config
      BY <1>3, <2>2 DEF Shutdown, TypeOK
    <3>2. proc'[s][a.child] # "running"
      BY <2>2, <3>1, Signalled DEF Actor
    <3> QED
      BY <1>3, <2>2, <3>1, <3>2 DEF Shutdown, AtSelect, Actor
  <2> QED
    BY <2>1, <2>2
<1>4. CASE KillDeadline(s)
  <2>1. a.state = "Stopping" /\ a.phase = "run" /\ a.child \in Pids /\ a.todo = "none"
    BY <1>4 DEF KillDeadline, AtSelect, Actor
  <2>2. /\ actor'[s] = [a EXCEPT !.stopDeadline = "off"]
        /\ proc'[s] = send_sigkill(s) /\ UNCHANGED config
    BY <1>4 DEF KillDeadline, TypeOK
  <2>3. proc'[s][a.child] \in {"absent", "killed"}
    BY <2>1, <2>2, Signalled
  <2> QED
    BY <1>4, <2>1, <2>2, <2>3 DEF Actor
<1>5. CASE CleanupKill(s)
  <2>1. /\ actor'[s] = [a EXCEPT !.phase = "reaping"] /\ UNCHANGED config
        /\ a.phase = "cleanup"
    BY <1>5 DEF CleanupKill
  <2> QED
    BY <2>1 DEF Actor
<1>6. CASE ProcessStep(s)
  <2>1. PICK p \in Pids : ProcessExit(s, p)
    BY <1>6 DEF ProcessStep
  <2>2. \A q \in Pids : proc'[s][q] \in {proc[s][q], "absent"}
    BY <1>2, <2>1 DEF ProcessExit, TypeOK
  <2>3. a.child # NoPid => proc'[s][a.child] \in {proc[s][a.child], "absent"}
    BY <2>2 DEF Actor
  <2>4. actor' = actor /\ config' = config
    BY <2>1 DEF ProcessExit
  <2> QED
    BY <2>3, <2>4
<1> QED
  BY <1>3, <1>4, <1>5, <1>6

\* Stop and Restart.
LEMMA CommandInv ==
  ASSUME Inv, NEW s \in Services, Stop(s) \/ Restart(s)
  PROVE  ServiceInv(s)'
<1> DEFINE a == actor[s]
<1>1. a \in Actor /\ ServiceInv(s) /\ TypeOK /\ AtSelect(s)
  BY DEF Inv, TypeOK, Stop, Restart
<1>2. CASE Restart(s)
  BY <1>1, <1>2, BeginStopInv, StartInv DEF Restart, is_running
<1>3. CASE Stop(s)
  <2>1. CASE is_running(a.state) /\ begin_stop(s, FALSE)
    BY <1>1, <1>3, <2>1, BeginStopInv DEF Stop, is_running
  <2>2. CASE Become(s, [a EXCEPT !.outbox = <<Reply("ok")>>]) /\ UNCHANGED proc
    <3>1. actor'[s] = [a EXCEPT !.outbox = <<Reply("ok")>>] /\ UNCHANGED <<proc, config>>
      BY <1>1, <1>3, <2>2, BecomeFrame DEF Stop
    <3> QED
      BY <1>1, <3>1 DEF AtSelect, Actor, ServiceInv, ControlInv, StopInv, RestartInv, BackoffInv
  <2>3. CASE /\ a.state = "Backoff" /\ UNCHANGED proc
             /\ Become(s, [a EXCEPT !.state = "Inactive", !.backoffSleep = FALSE,
                             !.outbox = <<StateChanged("Inactive"), Reply("ok")>>])
    <3>1. /\ actor'[s] = [a EXCEPT !.state = "Inactive", !.backoffSleep = FALSE,
                            !.outbox = <<StateChanged("Inactive"), Reply("ok")>>]
          /\ UNCHANGED <<proc, config>>
      BY <1>1, <1>3, <2>3, BecomeFrame DEF Stop
    <3> QED
      BY <1>1, <2>3, <3>1
         DEF AtSelect, Actor, SpawnTodos, ServiceInv, ControlInv, StopInv, RestartInv, BackoffInv
  <2> QED
    BY <1>3, <2>1, <2>2, <2>3 DEF Stop
<1> QED
  BY <1>2, <1>3

\* The invariant is inductive.
LEMMA StepInv ==
  ASSUME Inv, NEW s \in Services,
         Command(s) \/ ActorStep(s) \/ Deliver(s) \/ ProcessStep(s)
  PROVE  Inv'
<1>1. TypeOK /\ TypeOK'
  BY StepType DEF Inv
<1>2. ServiceInv(s)'
  BY StartInv, CommandInv, ChildExitInv, DoStartInv, QuietInv, SignalInv
     DEF Command, ActorStep, Start
<1>3. ASSUME NEW t \in Services \ {s} PROVE ServiceInv(t)'
  BY <1>1, <1>3, StepFrame
     DEF Inv, ServiceInv, ControlInv, StopInv, RestartInv, BackoffInv
<1> QED
  BY <1>1, <1>2, <1>3 DEF Inv

LEMMA InitInv ==
  ASSUME Init PROVE Inv
<1>1. \A s \in Services : actor[s] = NewActor
  BY DEF Init
<1> QED
  BY <1>1, InitType
     DEF Inv, ServiceInv, ControlInv, StopInv, RestartInv, BackoffInv, NewActor, SpawnTodos

LEMMA Inductive == Spec => []Inv
<1>1. Inv /\ [Next]_vars => Inv'
  <2> SUFFICES ASSUME Inv, [Next]_vars PROVE Inv'
    OBVIOUS
  <2>1. CASE Next
    BY <2>1, StepInv DEF Next
  <2>2. CASE UNCHANGED vars
    BY <2>2 DEF vars, Inv, TypeOK, ServiceInv, ControlInv, StopInv, RestartInv, BackoffInv
  <2> QED
    BY <2>1, <2>2
<1> QED
  BY InitInv, <1>1, PTL DEF Spec

-----------------------------------------------------------------------------
(* What holds against any client.                                          *)

\* A stopping service holds a child and either its kill deadline is to come or
\* the child was killed or is gone.
THEOREM StopsEscalate == Spec => []StoppingEscalates
<1>1. Inv => StoppingEscalates
  BY DEF Inv, ServiceInv, StopInv, StoppingEscalates
<1> QED
  BY <1>1, Inductive, PTL

\* Nothing is left over from the earlier lives of a service: no pending restart
\* outlives its stop, and every crash loop begins with the configured delay.
THEOREM Leftovers == Spec => []NoLeftovers
<1>1. Inv => NoLeftovers
  BY DEF Inv, ServiceInv, RestartInv, BackoffInv, NoLeftovers, PendingRestartOnlyWhileStopping,
         FirstDelayConfigured
<1> QED
  BY <1>1, Inductive, PTL

\* No step kills a process that was not asked to stop first.
LEMMA StepKills ==
  ASSUME Inv, NEW s \in Services,
         Command(s) \/ ActorStep(s) \/ Deliver(s) \/ ProcessStep(s),
         NEW t \in Services, NEW p \in Pids, proc[t][p] = "running"
  PROVE  proc'[t][p] # "killed"
<1>1. TypeOK /\ ServiceInv(s) /\ actor[s] \in Actor
  BY DEF Inv, TypeOK
<1>2. CASE t # s
  BY <1>1, <1>2, StepFrame
<1>3. CASE t = s
  <2> DEFINE asked == proc'[s] = send_stop_signal(s)
             sigkill == /\ proc'[s] = send_sigkill(s)
                        /\ actor[s].child # NoPid => proc[s][actor[s].child] # "running"
  <2>1. asked => proc'[s][p] # "killed"
    BY <1>3 DEF send_stop_signal
  <2>2. sigkill => proc'[s][p] # "killed"
    BY <1>1, <1>3, NoPidAssumption DEF send_sigkill
  <2>3. CASE KillDeadline(s)
    BY <1>1, <1>3, <2>2, <2>3
       DEF KillDeadline, AtSelect, ServiceInv, StopInv, TypeOK
  <2>4. CASE CleanupKill(s)
    BY <1>1, <1>3, <2>2, <2>4 DEF CleanupKill, ServiceInv, StopInv, TypeOK
  <2>5. CASE Command(s)
    <3>1. \A restart : begin_stop(s, restart) => asked
      BY <1>1 DEF begin_stop, TypeOK
    <3>2. CASE asked
      BY <1>3, <2>1, <3>2
    <3>3. CASE UNCHANGED proc
      BY <1>3, <3>3
    <3> QED
      BY <1>1, <2>5, <3>1, <3>2, <3>3
         DEF Command, Start, Stop, Restart, Shutdown, handle_start, TypeOK
  <2>6. CASE DoStart(s)
    BY <1>1, <1>3, <2>6 DEF DoStart, spawned, spawn_failed, TypeOK
  <2>7. CASE ProcessStep(s)
    BY <1>1, <1>3, <2>7 DEF ProcessStep, ProcessExit, TypeOK
  <2>8. CASE \/ ChildExit(s) \/ KillDelayPasses(s) \/ BackoffExpired(s) \/ Relaunch(s)
             \/ Deliver(s) \/ CleanupReaped(s)
    BY <1>3, <2>8
       DEF ChildExit, KillDelayPasses, BackoffExpired, Relaunch, Deliver, CleanupReaped
  <2> QED
    BY <2>3, <2>4, <2>5, <2>6, <2>7, <2>8 DEF ActorStep
<1> QED
  BY <1>2, <1>3

\* SIGKILL reaches only processes that were sent the stop signal before.
THEOREM KillsAreAsked == Spec => KillOnlyAfterAsk
<1> DEFINE Asked == \A s \in Services, p \in Pids :
                      proc[s][p] = "running" => proc'[s][p] # "killed"
<1>1. Inv /\ [Next]_vars => [Asked]_vars
  BY StepKills DEF Next
<1>2. Spec => [][Asked]_vars
  BY <1>1, Inductive, PTL DEF Spec
<1> QED
  BY <1>2 DEF KillOnlyAfterAsk

-----------------------------------------------------------------------------
(* What holds against a client that leaves services in "Backoff" alone.    *)

\* Signals leave processes as live as they were.
LEMMA LiveStays ==
  ASSUME TypeOK, NEW s \in Services,
         proc'[s] = send_stop_signal(s) \/ proc'[s] = send_sigkill(s)
  PROVE  Live(s)' = Live(s)
BY DEF send_stop_signal, send_sigkill, Live

\* What the end of the child makes of its service, in the cases of a patient client.
LEMMA ChildExitOutcome ==
  ASSUME Inv, NEW s \in Services, ChildExit(s), PatientServiceInv(s)
  PROVE  /\ \/ actor'[s].state \in {"Inactive", "Error"} /\ ~actor'[s].backoffSleep
            \/ actor'[s].state = "Backoff" /\ actor'[s].backoffSleep
         /\ actor'[s].child = NoPid
         /\ actor'[s].phase = "run"
         /\ actor'[s].todo \in {"none", "relaunch"}
<1> DEFINE a == actor[s]
           b == [a EXCEPT !.child = NoPid, !.stopDeadline = "off"]
<1>1. a \in Actor /\ config[s] \in Configs /\ TypeOK
  BY DEF Inv, TypeOK
<1>2. a.phase = "run" /\ a.todo = "none" /\ ~a.backoffSleep
  BY DEF ChildExit, AtSelect, PatientServiceInv
<1>3. CASE exit_while_stopping(s)
  <2>1. actor'[s] = [a EXCEPT !.child = NoPid, !.stopDeadline = "off",
                       !.state = "Inactive", !.pendingRestart = FALSE,
                       !.todo = IF a.pendingRestart THEN "relaunch" ELSE "none",
                       !.outbox = <<ProcessExited, StateChanged("Inactive")>>]
    BY <1>1, <1>3, BecomeFrame DEF exit_while_stopping
  <2> QED
    BY <1>1, <1>2, <2>1 DEF Actor
<1>4. ASSUME NEW policy, NEW success \in BOOLEAN, exit_by_itself(s, policy, success)
      PROVE  /\ \/ actor'[s].state \in {"Inactive", "Error"} /\ ~actor'[s].backoffSleep
                \/ actor'[s].state = "Backoff" /\ actor'[s].backoffSleep
             /\ actor'[s].child = NoPid
             /\ actor'[s].phase = "run"
             /\ actor'[s].todo \in {"none", "relaunch"}
  <2>1. b \in Actor /\ b.phase = "run" /\ b.todo = "none" /\ ~b.backoffSleep /\ b.child = NoPid
    BY <1>1, <1>2 DEF Actor
  <2>2. ASSUME NEW st \in {"Inactive", "Error"}, NEW more,
               Become(s, [b EXCEPT !.state = st,
                                   !.outbox = <<ProcessExited, StateChanged(st)>> \o more])
        PROVE  /\ actor'[s].state = st /\ ~actor'[s].backoffSleep
               /\ actor'[s].child = NoPid /\ actor'[s].phase = "run"
               /\ actor'[s].todo = "none"
    <3>1. actor'[s] = [b EXCEPT !.state = st,
                                !.outbox = <<ProcessExited, StateChanged(st)>> \o more]
      BY <1>1, <2>2, BecomeFrame
    <3> QED
      BY <2>1, <3>1 DEF Actor
  <2>3. ASSUME NEW d, d = [next_backoff(b, config[s]) EXCEPT !.backoffSleep = TRUE],
               Become(s, [d EXCEPT !.state = "Backoff",
                                   !.outbox = <<ProcessExited, StateChanged("Backoff")>> \o <<>>])
        PROVE  /\ actor'[s].state = "Backoff" /\ actor'[s].backoffSleep
               /\ actor'[s].child = NoPid /\ actor'[s].phase = "run"
               /\ actor'[s].todo = "none"
    <3>0. next_backoff(b, config[s]) \in Actor
      BY <1>1, <2>1, BackoffType
    <3>1. d \in Actor
      BY <2>3, <3>0 DEF Actor
    <3>2. d.phase = "run" /\ d.todo = "none" /\ d.child = NoPid /\ d.backoffSleep
      BY <2>1, <2>3, <3>1 DEF next_backoff, Actor
    <3>3. actor'[s] = [d EXCEPT !.state = "Backoff",
                                !.outbox = <<ProcessExited, StateChanged("Backoff")>> \o <<>>]
      BY <1>1, <2>3, BecomeFrame
    <3> QED
      BY <3>1, <3>2, <3>3 DEF Actor
  <2> QED
    BY <1>4, <2>2, <2>3 DEF exit_by_itself
<1> QED
  BY <1>3, <1>4 DEF ChildExit

\* do_start leaves one process: it is called when the service has none.
LEMMA PatientDoStartInv ==
  ASSUME Inv, NEW s \in Services, DoStart(s), PatientServiceInv(s)
  PROVE  PatientServiceInv(s)'
<1> DEFINE a == actor[s]
           c == config[s]
<1>1. a \in Actor /\ c \in Configs /\ ServiceInv(s) /\ TypeOK
  BY DEF Inv, TypeOK
<1>2. a.state = "Starting" /\ a.todo \in SpawnTodos /\ a.child = NoPid /\ a.phase = "run"
  BY <1>1 DEF DoStart, ServiceInv, ControlInv, PatientServiceInv, Actor, SpawnTodos
<1>3. Live(s) = {}
  BY <1>2, NoPidAssumption DEF PatientServiceInv, Live
<1>4. ASSUME NEW ok \in BOOLEAN, NEW b, b = after_start(a, c, ok)
      PROVE  b \in Actor /\ ~b.backoffSleep /\ b.child = NoPid /\ b.phase = "run"
  <2>1. b \in Actor
    BY <1>1, <1>2, <1>4, AfterStartType
  <2>2. CASE a.todo = "spawn_backoff"
    BY <1>1, <1>2, <1>4, <2>1, <2>2 DEF after_start, Actor
  <2>3. CASE a.todo # "spawn_backoff"
    <3>1. ~a.backoffSleep
      BY <1>2, <2>3 DEF PatientServiceInv
    <3> QED
      BY <1>1, <1>2, <1>4, <2>1, <2>3, <3>1 DEF after_start, reset_backoff, Actor, SpawnTodos
  <2> QED
    BY <2>2, <2>3
<1>5. CASE spawn_failed(s)
  <2> DEFINE b == after_start(a, c, FALSE)
  <2>1. /\ actor'[s] = [b EXCEPT !.state = "Error", !.todo = "none",
                                 !.outbox = <<StateChanged("Error")>> \o answer(a, "err")]
        /\ proc' = proc
    BY <1>1, <1>5, BecomeFrame DEF spawn_failed
  <2> HIDE DEF b
  <2>2. b \in Actor /\ ~b.backoffSleep /\ b.child = NoPid /\ b.phase = "run"
    BY <1>4 DEF b
  <2> QED
    BY <1>3, <2>1, <2>2 DEF PatientServiceInv, Live, Actor
<1>6. ASSUME NEW p \in Pids, spawned(s, p)
      PROVE  PatientServiceInv(s)'
  <2> DEFINE b == after_start(a, c, TRUE)
  <2>1. actor'[s] = [b EXCEPT !.child = p, !.state = "Active", !.todo = "none",
                              !.outbox = <<StateChanged("Active")>> \o answer(a, "ok")]
    BY <1>1, <1>6, BecomeFrame DEF spawned
  <2>2. Live(s)' = {p}
    BY <1>1, <1>3, <1>6 DEF spawned, Live, TypeOK
  <2> HIDE DEF b
  <2>3. b \in Actor /\ ~b.backoffSleep /\ b.child = NoPid /\ b.phase = "run"
    BY <1>4 DEF b
  <2> QED
    BY <2>1, <2>2, <2>3 DEF PatientServiceInv, Actor
<1> QED
  BY <1>5, <1>6 DEF DoStart

\* The commands of a patient client leave one process.
LEMMA PatientCommandInv ==
  ASSUME Inv, NEW s \in Services, PatientCommand(s), PatientServiceInv(s)
  PROVE  PatientServiceInv(s)'
<1> DEFINE a == actor[s]
<1>1. a \in Actor /\ ServiceInv(s) /\ TypeOK
  BY DEF Inv, TypeOK
<1>2. AtSelect(s)
  BY DEF PatientCommand, Start, Stop, Restart, Shutdown
<1> USE <1>1, <1>2, BecomeFrame, LiveStays
    DEF PatientServiceInv, AtSelect, Actor, ServiceInv, ControlInv, StopInv, SpawnTodos
<1>3. ASSUME a.state # "Backoff", handle_start(s)
      PROVE  PatientServiceInv(s)'
  <2>1. proc' = proc
    BY <1>3 DEF handle_start
  <2>2. \/ actor'[s] = [a EXCEPT !.outbox = <<Reply("ok")>>]
        \/ actor'[s] = [a EXCEPT !.outbox = <<Reply("err")>>]
        \/ /\ a.state \notin {"Starting", "Active", "Stopping"}
           /\ actor'[s] = [a EXCEPT !.state = "Starting", !.todo = "spawn_start",
                                    !.outbox = <<StateChanged("Starting")>>]
    BY <1>3 DEF handle_start, is_running
  <2> QED
    BY <1>3, <2>1, <2>2 DEF Live
<1>4. ASSUME NEW restart \in BOOLEAN, begin_stop(s, restart),
             a.state \in {"Starting", "Active", "Stopping"}
      PROVE  PatientServiceInv(s)'
  <2>1. /\ actor'[s] = [a EXCEPT !.state = "Stopping", !.stopDeadline = "armed",
                          !.backoffSleep = @ /\ ~restart, !.pendingRestart = restart \/ @,
                          !.outbox = <<StateChanged("Stopping"), Reply("ok")>>]
        /\ proc'[s] = send_stop_signal(s)
    BY <1>4 DEF begin_stop, TypeOK
  <2> QED
    BY <1>4, <2>1
<1>5. CASE Start(s) /\ a.state # "Backoff"
  BY <1>3, <1>5 DEF Start
<1>6. CASE Restart(s) /\ a.state # "Backoff"
  BY <1>3, <1>4, <1>6 DEF Restart, is_running
<1>7. CASE Stop(s)
  <2>1. CASE is_running(a.state) /\ begin_stop(s, FALSE)
    BY <1>4, <2>1 DEF is_running
  <2>2. CASE Become(s, [a EXCEPT !.outbox = <<Reply("ok")>>]) /\ UNCHANGED proc
    <3>1. actor'[s] = [a EXCEPT !.outbox = <<Reply("ok")>>] /\ UNCHANGED proc
      BY <2>2
    <3> QED
      BY <3>1 DEF Live
  <2>3. CASE /\ a.state = "Backoff" /\ UNCHANGED proc
             /\ Become(s, [a EXCEPT !.state = "Inactive", !.backoffSleep = FALSE,
                             !.outbox = <<StateChanged("Inactive"), Reply("ok")>>])
    <3>1. actor'[s] = [a EXCEPT !.state = "Inactive", !.backoffSleep = FALSE,
                         !.outbox = <<StateChanged("Inactive"), Reply("ok")>>]
      BY <2>3
    <3> QED
      BY <2>3, <3>1 DEF Live
  <2> QED
    BY <1>7, <2>1, <2>2, <2>3 DEF Stop
<1>8. CASE Shutdown(s)
  <2>1. CASE a.child = NoPid
    <3>1. actor'[s] = [a EXCEPT !.phase = "gone"] /\ UNCHANGED proc
      BY <1>8, <2>1 DEF Shutdown
    <3> QED
      BY <2>1, <3>1 DEF Live
  <2>2. CASE a.child # NoPid
    <3>1. actor'[s] = [a EXCEPT !.phase = "cleanup"] /\ proc'[s] = send_stop_signal(s)
      BY <1>8, <2>2 DEF Shutdown, TypeOK
    <3> QED
      BY <2>2, <3>1
  <2> QED
    BY <2>1, <2>2
<1> QED
  BY <1>5, <1>6, <1>7, <1>8 DEF PatientCommand

\* In the states a patient client meets, only the child is alive.
LEMMA PatientStep ==
  ASSUME PatientInv, NEW s \in Services,
         PatientCommand(s) \/ ActorStep(s) \/ Deliver(s) \/ ProcessStep(s)
  PROVE  PatientInv'
<1> DEFINE a == actor[s]
<1>1. Inv /\ TypeOK /\ a \in Actor /\ ServiceInv(s) /\ PatientServiceInv(s)
  BY DEF PatientInv, Inv, TypeOK
<1>2. Inv'
  BY <1>1, StepInv DEF PatientCommand, Command
<1>3. TypeOK'
  BY <1>2 DEF Inv
<1>4. ASSUME NEW t \in Services \ {s} PROVE PatientServiceInv(t)'
  BY <1>1, <1>4, StepFrame
     DEF PatientInv, PatientServiceInv, Live, PatientCommand, Command
<1>5. PatientServiceInv(s)'
  <2> USE <1>1, BecomeFrame, LiveStays
      DEF PatientServiceInv, AtSelect, Actor, ServiceInv, ControlInv, StopInv, SpawnTodos
  <2>1. CASE PatientCommand(s)
    BY <2>1, PatientCommandInv, <1>1
  <2>2. CASE ChildExit(s)
    <3>1. actor[s].child \notin Live(s) /\ Live(s) = {} /\ Live(s)' = {}
      BY <2>2 DEF ChildExit, Live
    <3>2. \/ /\ actor'[s].state \in {"Inactive", "Error"} /\ ~actor'[s].backoffSleep
          \/ /\ actor'[s].state = "Backoff" /\ actor'[s].backoffSleep
      BY <1>1, <2>2, ChildExitOutcome
    <3>3. /\ actor'[s].child = NoPid /\ actor'[s].phase = "run"
          /\ actor'[s].todo \in {"none", "relaunch"}
      BY <1>1, <2>2, ChildExitOutcome
    <3> QED
      BY <3>1, <3>2, <3>3
  <2>3. CASE KillDelayPasses(s)
    <3>1. actor'[s] = [a EXCEPT !.stopDeadline = "elapsed"] /\ proc' = proc
      BY <2>3 DEF KillDelayPasses
    <3> QED
      BY <3>1 DEF Live
  <2>4. CASE KillDeadline(s)
    <3>1. /\ actor'[s] = [a EXCEPT !.stopDeadline = "off"]
          /\ proc'[s] = send_sigkill(s)
      BY <2>4 DEF KillDeadline, TypeOK
    <3> QED
      BY <3>1
  <2>5. CASE BackoffExpired(s)
    <3>1. /\ actor'[s] = [a EXCEPT !.state = "Starting", !.todo = "spawn_backoff",
                                   !.outbox = <<StateChanged("Starting")>>]
          /\ proc' = proc /\ a.backoffSleep /\ a.todo = "none"
      BY <2>5 DEF BackoffExpired
    <3> QED
      BY <3>1 DEF Live
  <2>6. CASE Relaunch(s)
    <3>1. /\ actor'[s] = [a EXCEPT !.state = "Starting", !.todo = "spawn_relaunch",
                                   !.outbox = <<StateChanged("Starting")>>]
          /\ proc' = proc /\ a.todo = "relaunch"
      BY <2>6 DEF Relaunch
    <3> QED
      BY <3>1 DEF Live
  <2>7. CASE DoStart(s)
    BY <1>1, <2>7, PatientDoStartInv
  <2>8. CASE CleanupKill(s)
    <3>1. actor'[s] = [a EXCEPT !.phase = "reaping"] /\ proc'[s] = send_sigkill(s)
      BY <2>8 DEF CleanupKill, TypeOK
    <3> QED
      BY <3>1
  <2>9. CASE CleanupReaped(s)
    <3>1. /\ actor'[s] = [a EXCEPT !.phase = "gone", !.child = NoPid] /\ proc' = proc
          /\ a.child \notin Live(s)
      BY <2>9 DEF CleanupReaped
    <3>2. Live(s)' = {}
      BY <3>1 DEF Live
    <3> QED
      BY <3>1, <3>2
  <2>10. CASE Deliver(s)
    <3>1. actor'[s] = [a EXCEPT !.outbox = Tail(@)] /\ proc' = proc
      BY <2>10 DEF Deliver
    <3> QED
      BY <3>1 DEF Live
  <2>11. CASE ProcessStep(s)
    <3>1. actor' = actor /\ Live(s)' \subseteq Live(s)
      BY <2>11 DEF ProcessStep, ProcessExit, Live, TypeOK
    <3> QED
      BY <3>1
  <2> QED
    BY <2>1, <2>2, <2>3, <2>4, <2>5, <2>6, <2>7, <2>8, <2>9, <2>10, <2>11 DEF ActorStep
<1> QED
  BY <1>2, <1>4, <1>5 DEF PatientInv

LEMMA PatientInitInv ==
  ASSUME Init PROVE PatientInv
<1>1. \A s \in Services : actor[s] = NewActor /\ Live(s) = {}
  BY DEF Init, Live
<1> QED
  BY <1>1, InitInv DEF PatientInv, PatientServiceInv, NewActor

LEMMA PatientInductive == PatientSpec => []PatientInv
<1>1. PatientInv /\ [PatientNext]_vars => PatientInv'
  <2> SUFFICES ASSUME PatientInv, [PatientNext]_vars PROVE PatientInv'
    OBVIOUS
  <2>1. CASE PatientNext
    BY <2>1, PatientStep DEF PatientNext
  <2>2. CASE UNCHANGED vars
    BY <2>2 DEF vars, PatientInv, Inv, TypeOK, ServiceInv, ControlInv, StopInv, RestartInv,
                BackoffInv, PatientServiceInv, Live
  <2> QED
    BY <2>1, <2>2
<1> QED
  BY PatientInitInv, <1>1, PTL DEF PatientSpec

\* A service has one process, the child its actor holds, as long as nobody
\* starts or restarts it in "Backoff".
THEOREM OneProcess == PatientSpec => []SingleProcess
<1>1. PatientInv => SingleProcess
  BY DEF PatientInv, PatientServiceInv, SingleProcess
<1> QED
  BY <1>1, PatientInductive, PTL

\* Under the same clients, the backoff timer runs exactly in "Backoff", and an
\* actor that is over has left no process behind.
THEOREM NothingBehind == PatientSpec => []NothingBehindState
<1>1. PatientInv => BackoffTimerMatchesState
  BY DEF PatientInv, PatientServiceInv, BackoffTimerMatchesState, AtSelect
<1>2. PatientInv => GoneLeavesNothing
  BY NoPidAssumption DEF PatientInv, PatientServiceInv, GoneLeavesNothing, Live
<1> QED
  BY <1>1, <1>2, PatientInductive, PTL DEF NothingBehindState

-----------------------------------------------------------------------------
(* The refinement of ServiceLifecycle.                                     *)

\* How the reported state and the liveness of one service may change together.
Move(s) ==
  LET from == actor[s].state
      to == actor'[s].state
      alive == Live(s) # {}
  IN
  \/ to = from /\ (Live(s)' # {} => alive)
  \/ /\ from \in {"Inactive", "Backoff", "Error"} /\ ~alive
     /\ to = "Starting" /\ Live(s)' = {}
  \/ /\ from = "Starting" /\ ~alive
     /\ to = "Active" /\ Live(s)' # {}
  \/ from = "Starting" /\ to = "Error" /\ Live(s)' = Live(s)
  \/ from = "Active" /\ to = "Stopping" /\ Live(s)' = Live(s)
  \/ from = "Stopping" /\ ~alive /\ to = "Inactive" /\ Live(s)' = {}
  \/ /\ from = "Active" /\ ~alive
     /\ to \in {"Inactive", "Backoff", "Error"} /\ Live(s)' = {}
  \/ from = "Backoff" /\ to = "Inactive" /\ Live(s)' = Live(s)

\* Commands move their service.
LEMMA CommandMoves ==
  ASSUME PatientInv, NEW s \in Services, PatientCommand(s)
  PROVE  Move(s)
<1> DEFINE a == actor[s]
<1>1. a \in Actor /\ ServiceInv(s) /\ PatientServiceInv(s) /\ TypeOK
  BY DEF PatientInv, Inv, TypeOK
<1>2. AtSelect(s)
  BY DEF PatientCommand, Start, Stop, Restart, Shutdown
<1>3. a.state # "Starting" /\ (a.state \in {"Inactive", "Backoff", "Error"} => Live(s) = {})
  BY <1>1, <1>2, NoPidAssumption
     DEF AtSelect, ServiceInv, ControlInv, PatientServiceInv, Live, Actor
<1> USE <1>1, BecomeFrame, LiveStays DEF Actor, Move
<1>4. ASSUME handle_start(s) PROVE Move(s)
  <2>1. proc' = proc
    BY <1>4 DEF handle_start
  <2>2. \/ actor'[s] = [a EXCEPT !.outbox = <<Reply("ok")>>]
        \/ actor'[s] = [a EXCEPT !.outbox = <<Reply("err")>>]
        \/ /\ a.state \notin {"Starting", "Active", "Stopping"}
           /\ actor'[s] = [a EXCEPT !.state = "Starting", !.todo = "spawn_start",
                                    !.outbox = <<StateChanged("Starting")>>]
    BY <1>4 DEF handle_start, is_running
  <2> QED
    BY <1>3, <2>1, <2>2 DEF Live, States
<1>5. ASSUME NEW restart \in BOOLEAN, begin_stop(s, restart),
             a.state \in {"Starting", "Active", "Stopping"}
      PROVE  Move(s)
  <2>1. /\ actor'[s] = [a EXCEPT !.state = "Stopping", !.stopDeadline = "armed",
                          !.backoffSleep = @ /\ ~restart, !.pendingRestart = restart \/ @,
                          !.outbox = <<StateChanged("Stopping"), Reply("ok")>>]
        /\ proc'[s] = send_stop_signal(s)
    BY <1>5 DEF begin_stop, TypeOK
  <2> QED
    BY <1>3, <1>5, <2>1
<1>6. CASE Start(s)
  BY <1>4, <1>6 DEF Start
<1>7. CASE Restart(s)
  BY <1>4, <1>5, <1>7 DEF Restart, is_running
<1>8. CASE Stop(s)
  <2>1. CASE is_running(a.state) /\ begin_stop(s, FALSE)
    BY <1>5, <2>1 DEF is_running
  <2>2. CASE Become(s, [a EXCEPT !.outbox = <<Reply("ok")>>]) /\ UNCHANGED proc
    <3>1. actor'[s] = [a EXCEPT !.outbox = <<Reply("ok")>>] /\ UNCHANGED proc
      BY <2>2
    <3> QED
      BY <3>1 DEF Live
  <2>3. CASE /\ a.state = "Backoff" /\ UNCHANGED proc
             /\ Become(s, [a EXCEPT !.state = "Inactive", !.backoffSleep = FALSE,
                             !.outbox = <<StateChanged("Inactive"), Reply("ok")>>])
    <3>1. actor'[s] = [a EXCEPT !.state = "Inactive", !.backoffSleep = FALSE,
                         !.outbox = <<StateChanged("Inactive"), Reply("ok")>>]
      BY <2>3
    <3> QED
      BY <2>3, <3>1 DEF Live
  <2> QED
    BY <1>8, <2>1, <2>2, <2>3 DEF Stop
<1>9. CASE Shutdown(s)
  <2>1. \E ph : actor'[s] = [a EXCEPT !.phase = ph]
    BY <1>9 DEF Shutdown
  <2>2. Live(s)' = Live(s)
    BY <1>9 DEF Shutdown, TypeOK, Live
  <2> QED
    BY <2>1, <2>2
<1> QED
  BY <1>6, <1>7, <1>8, <1>9 DEF PatientCommand

\* The end of the child moves its service out of "Active" or "Stopping".
LEMMA ChildExitMoves ==
  ASSUME PatientInv, NEW s \in Services, ChildExit(s)
  PROVE  Move(s)
<1>1. Inv /\ TypeOK /\ PatientServiceInv(s) /\ actor[s] \in Actor
  BY DEF PatientInv, Inv, TypeOK
<1>2. Live(s) = {} /\ Live(s)' = {}
  BY <1>1 DEF ChildExit, PatientServiceInv, Live
<1>3. actor[s].state \in {"Active", "Stopping"}
  BY <1>1 DEF ChildExit, PatientServiceInv
<1>4. actor'[s].state \in {"Inactive", "Error", "Backoff"}
  BY <1>1, ChildExitOutcome
<1>5. ASSUME actor[s].state = "Stopping" PROVE actor'[s].state = "Inactive"
  <2>1. exit_while_stopping(s)
    <3>1. ASSUME NEW policy, NEW success, exit_by_itself(s, policy, success) PROVE FALSE
      BY <1>1, <1>5, <3>1 DEF exit_by_itself, Actor
    <3> QED
      BY <3>1 DEF ChildExit
  <2>2. actor'[s] = [actor[s] EXCEPT !.child = NoPid, !.stopDeadline = "off",
                       !.state = "Inactive", !.pendingRestart = FALSE,
                       !.todo = IF actor[s].pendingRestart THEN "relaunch" ELSE "none",
                       !.outbox = <<ProcessExited, StateChanged("Inactive")>>]
    BY <1>1, <2>1, BecomeFrame DEF exit_while_stopping
  <2> QED
    BY <1>1, <2>2 DEF Actor
<1> QED
  BY <1>2, <1>3, <1>4, <1>5 DEF Move

\* do_start moves it out of "Starting".
LEMMA DoStartMoves ==
  ASSUME PatientInv, NEW s \in Services, DoStart(s)
  PROVE  Move(s)
<1> DEFINE a == actor[s]
           c == config[s]
<1>1. a \in Actor /\ c \in Configs /\ ServiceInv(s) /\ PatientServiceInv(s) /\ TypeOK
  BY DEF PatientInv, Inv, TypeOK
<1>2. a.state = "Starting" /\ a.todo \in SpawnTodos /\ Live(s) = {}
  BY <1>1, NoPidAssumption
     DEF DoStart, ServiceInv, ControlInv, PatientServiceInv, Actor, SpawnTodos, Live
<1>3. CASE spawn_failed(s)
  <2> DEFINE b == after_start(a, c, FALSE)
  <2>1. /\ actor'[s] = [b EXCEPT !.state = "Error", !.todo = "none",
                                 !.outbox = <<StateChanged("Error")>> \o answer(a, "err")]
        /\ proc' = proc
    BY <1>1, <1>3, BecomeFrame DEF spawn_failed
  <2>2. b \in Actor
    BY <1>1, <1>2, AfterStartType
  <2> HIDE DEF b
  <2>3. actor'[s].state = "Error"
    BY <2>1, <2>2 DEF Actor
  <2> QED
    BY <1>2, <2>1, <2>3 DEF Move, Live
<1>4. ASSUME NEW p \in Pids, spawned(s, p) PROVE Move(s)
  <2> DEFINE b == after_start(a, c, TRUE)
  <2>1. actor'[s] = [b EXCEPT !.child = p, !.state = "Active", !.todo = "none",
                              !.outbox = <<StateChanged("Active")>> \o answer(a, "ok")]
    BY <1>1, <1>4, BecomeFrame DEF spawned
  <2>2. p \in Live(s)'
    BY <1>1, <1>4 DEF spawned, Live, TypeOK
  <2>3. b \in Actor
    BY <1>1, <1>2, AfterStartType
  <2> HIDE DEF b
  <2>4. actor'[s].state = "Active"
    BY <2>1, <2>3 DEF Actor
  <2> QED
    BY <1>2, <2>2, <2>4 DEF Move
<1> QED
  BY <1>3, <1>4 DEF DoStart

\* Every step of a service is one of these moves.
LEMMA StepMoves ==
  ASSUME PatientInv, NEW s \in Services,
         PatientCommand(s) \/ ActorStep(s) \/ Deliver(s) \/ ProcessStep(s)
  PROVE  Move(s)
<1> DEFINE a == actor[s]
<1>1. a \in Actor /\ ServiceInv(s) /\ PatientServiceInv(s) /\ TypeOK
  BY DEF PatientInv, Inv, TypeOK
<1> USE <1>1, BecomeFrame DEF Actor, Move
<1>2. CASE KillDelayPasses(s) \/ Deliver(s) \/ CleanupReaped(s)
  <2>1. /\ \/ actor'[s] = [a EXCEPT !.stopDeadline = "elapsed"]
           \/ actor'[s] = [a EXCEPT !.outbox = Tail(@)]
           \/ actor'[s] = [a EXCEPT !.phase = "gone", !.child = NoPid]
        /\ proc' = proc
    <3>1. CASE KillDelayPasses(s)
      BY <3>1 DEF KillDelayPasses
    <3>2. CASE Deliver(s)
      BY <3>2 DEF Deliver
    <3>3. CASE CleanupReaped(s)
      BY <3>3 DEF CleanupReaped
    <3> QED
      BY <1>2, <3>1, <3>2, <3>3
  <2> QED
    BY <2>1 DEF Live
<1>3. CASE KillDeadline(s) \/ CleanupKill(s)
  <2>1. /\ \/ actor'[s] = [a EXCEPT !.stopDeadline = "off"]
           \/ actor'[s] = [a EXCEPT !.phase = "reaping"]
        /\ proc'[s] = send_sigkill(s)
    <3>1. CASE KillDeadline(s)
      BY <3>1 DEF KillDeadline, TypeOK
    <3>2. CASE CleanupKill(s)
      BY <3>2 DEF CleanupKill, TypeOK
    <3> QED
      BY <1>3, <3>1, <3>2
  <2> QED
    BY <2>1, LiveStays
<1>4. CASE BackoffExpired(s) \/ Relaunch(s)
  <2>1. /\ \/ actor'[s] = [a EXCEPT !.state = "Starting", !.todo = "spawn_backoff",
                                    !.outbox = <<StateChanged("Starting")>>]
           \/ actor'[s] = [a EXCEPT !.state = "Starting", !.todo = "spawn_relaunch",
                                    !.outbox = <<StateChanged("Starting")>>]
        /\ proc' = proc
    <3>1. CASE BackoffExpired(s)
      BY <3>1 DEF BackoffExpired
    <3>2. CASE Relaunch(s)
      BY <3>2 DEF Relaunch
    <3> QED
      BY <1>4, <3>1, <3>2
  <2>2. a.state \in {"Inactive", "Backoff", "Error"}
    BY <1>4 DEF BackoffExpired, Relaunch, AtSelect, PatientServiceInv, ServiceInv, ControlInv
  <2>3. Live(s) = {}
    BY <2>2, NoPidAssumption DEF PatientServiceInv, Live
  <2> QED
    BY <2>1, <2>2, <2>3 DEF Live
<1>5. CASE ProcessStep(s)
  <2>1. actor' = actor /\ Live(s)' \subseteq Live(s)
    BY <1>5 DEF ProcessStep, ProcessExit, Live, TypeOK
  <2> QED
    BY <2>1
<1> QED
  BY <1>2, <1>3, <1>4, <1>5, CommandMoves, ChildExitMoves, DoStartMoves DEF ActorStep

\* A move of one service, the others unchanged, is a step of the lifecycle.
LEMMA MoveIsStep ==
  ASSUME NEW s \in Services, Move(s),
         \A t \in Services \ {s} : actor'[t].state = actor[t].state /\ Live(t)' = Live(t)
  PROVE  [Lifecycle!Next]_(Lifecycle!lifecycleVars)
<1> DEFINE st == [t \in Services |-> actor[t].state]
           alive == [t \in Services |-> Live(t) # {}]
           from == actor[s].state
           to == actor'[s].state
           up == Live(s)' # {}
<1>1. st' = [st EXCEPT ![s] = to]
  OBVIOUS
<1>2. alive' = [alive EXCEPT ![s] = up]
  OBVIOUS
<1>3. st[s] = from /\ alive[s] = (Live(s) # {})
  OBVIOUS
<1>4. up = alive[s] => alive' = alive
  BY <1>2
<1>5. to = from => st' = st
  BY <1>1, <1>3
<1>6. CASE to = from /\ (up => alive[s])
  <2>1. CASE up = alive[s]
    BY <1>4, <1>5, <1>6, <2>1 DEF Lifecycle!lifecycleVars
  <2>2. CASE alive[s] /\ ~up
    <3>1. Lifecycle!Exit(s)
      BY <1>2, <1>5, <1>6, <2>2 DEF Lifecycle!Exit
    <3> QED
      BY <3>1 DEF Lifecycle!Next
  <2> QED
    BY <1>6, <2>1, <2>2
<1>7. CASE from \in {"Inactive", "Backoff", "Error"} /\ ~alive[s] /\ to = "Starting" /\ ~up
  <2>1. Lifecycle!Launch(s)
    BY <1>1, <1>3, <1>4, <1>7 DEF Lifecycle!Launch
  <2> QED
    BY <2>1 DEF Lifecycle!Next
<1>8. CASE from = "Starting" /\ ~alive[s] /\ to = "Active" /\ up
  <2>1. Lifecycle!Up(s)
    BY <1>1, <1>2, <1>3, <1>8 DEF Lifecycle!Up
  <2> QED
    BY <2>1 DEF Lifecycle!Next
<1>9. CASE from = "Starting" /\ to = "Error" /\ up = alive[s]
  <2>1. Lifecycle!LaunchFails(s)
    BY <1>1, <1>3, <1>4, <1>9 DEF Lifecycle!LaunchFails
  <2> QED
    BY <2>1 DEF Lifecycle!Next
<1>10. CASE from = "Active" /\ to = "Stopping" /\ up = alive[s]
  <2>1. Lifecycle!AskToStop(s)
    BY <1>1, <1>3, <1>4, <1>10 DEF Lifecycle!AskToStop
  <2> QED
    BY <2>1 DEF Lifecycle!Next
<1>11. CASE from = "Stopping" /\ ~alive[s] /\ to = "Inactive" /\ ~up
  <2>1. Lifecycle!Stopped(s)
    BY <1>1, <1>3, <1>4, <1>11 DEF Lifecycle!Stopped
  <2> QED
    BY <2>1 DEF Lifecycle!Next
<1>12. CASE from = "Active" /\ ~alive[s] /\ to \in {"Inactive", "Backoff", "Error"} /\ ~up
  <2>1. Lifecycle!Ended(s)
    BY <1>1, <1>3, <1>4, <1>12 DEF Lifecycle!Ended
  <2> QED
    BY <2>1 DEF Lifecycle!Next
<1>13. CASE from = "Backoff" /\ to = "Inactive" /\ up = alive[s]
  <2>1. Lifecycle!CancelRetry(s)
    BY <1>1, <1>3, <1>4, <1>13 DEF Lifecycle!CancelRetry
  <2> QED
    BY <2>1 DEF Lifecycle!Next
<1> QED
  BY <1>3, <1>6, <1>7, <1>8, <1>9, <1>10, <1>11, <1>12, <1>13 DEF Move

LEMMA InitRefines ==
  ASSUME Init PROVE Lifecycle!Init
BY DEF Init, Lifecycle!Init, NewActor, Live

\* The actor implements the lifecycle for patient clients: a service is launched
\* from a resting state without a process only, and every state it reports is
\* one the lifecycle allows next.
THEOREM Refinement == PatientSpec => LifecycleSpec
<1>1. PatientInv /\ [PatientNext]_vars => [Lifecycle!Next]_(Lifecycle!lifecycleVars)
  <2> SUFFICES ASSUME PatientInv, [PatientNext]_vars
               PROVE  [Lifecycle!Next]_(Lifecycle!lifecycleVars)
    OBVIOUS
  <2>1. CASE PatientNext
    <3>1. PICK s \in Services :
            PatientCommand(s) \/ ActorStep(s) \/ Deliver(s) \/ ProcessStep(s)
      BY <2>1 DEF PatientNext
    <3>2. \A t \in Services \ {s} : actor'[t].state = actor[t].state /\ Live(t)' = Live(t)
      BY <3>1, StepFrame DEF PatientInv, Inv, PatientCommand, Command, Live
    <3> QED
      BY <3>1, <3>2, StepMoves, MoveIsStep
  <2>2. CASE UNCHANGED vars
    BY <2>2 DEF vars, Lifecycle!lifecycleVars, Live
  <2> QED
    BY <2>1, <2>2
<1> QED
  BY InitRefines, PatientInductive, <1>1, PTL DEF PatientSpec, LifecycleSpec, Lifecycle!Spec
=============================================================================
