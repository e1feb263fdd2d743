-------------------------- MODULE SupervisorProofs --------------------------
(***************************************************************************)
(* Proofs about Supervisor, for every set of services, plan, capacity and  *)
(* set of inputs.  The actors under the overlord are actors of             *)
(* ServiceActor, so what ServiceActorProofs says of them against any       *)
(* client holds of them here.  From their types follows what the overlord  *)
(* may believe: `FollowInv' makes SnapshotFollows inductive.  `OrderInv'   *)
(* adds what was started before what, for the order of the autostart, and  *)
(* `Once' where the Start of a service is, so that none meets a service    *)
(* in backoff.  `ReplyInv' says where the answer to each command is that   *)
(* somebody awaits, `WakeInv' what a deferred start waits for, and         *)
(* `AskInv' what has been asked of the processes when stop_all has its     *)
(* replies, for the end of the daemon.                                     *)
(***************************************************************************)
EXTENDS Supervisor, ServiceActorProofs, SequenceTheorems

-----------------------------------------------------------------------------
(* The actors under the overlord.                                          *)

\* What the actors do behind their mailboxes is what they do for any client.
LEMMA ActorsStepConforms ==
  ASSUME NEW s \in Services, ActorsStep(s)
  PROVE  Command(s) \/ ActorStep(s) \/ Deliver(s) \/ UNCHANGED vars
BY SMTT(30) DEF ActorsStep, ReceiveCommand, ReactUnprompted, Continue, Emit, Answer, Command,
   ActorStep

\* The overlord and its environment touch the actors through channels only.
LEMMA OverlordConforms ==
  ASSUME OverlordStep \/ EnvironmentStep
  PROVE  UNCHANGED vars
BY DEF OverlordStep, EnvironmentStep, Autostart, SendNext, ExitNext, OnStateChanged,
       OnProcessExited, OnDaemonShutdown, Exit, StopTaskSends, ServicesAction, ForwardSignal,
       DaemonStop, OnCheckDown

LEMMA StepConforms ==
  ASSUME [SupNext]_supVars
  PROVE  [Next]_vars
<1>1. CASE UNCHANGED supVars
  BY <1>1 DEF supVars
<1>2. CASE SupNext
  BY <1>2, ActorsStepConforms, OverlordConforms DEF SupNext, Next, ProcessesStep
<1> QED
  BY <1>1, <1>2

\* Composed with the overlord, its mailboxes and its event channel, the actors
\* still behave as ServiceActor has them behave against any client: every
\* theorem about Spec holds of the supervisor.
THEOREM ActorsConform == SupSpec => Spec
<1>1. SupInit => Init
  BY DEF SupInit
<1>2. [SupNext]_supVars => [Next]_vars
  BY StepConforms
<1> QED
  BY <1>1, <1>2, PTL DEF SupSpec, Spec

\* No actor is left stopping without a kill deadline, none keeps a pending
\* restart or a delay of an earlier life, whatever the overlord commands.
THEOREM SupervisedActors == SupSpec => [](TypeOK /\ StoppingEscalates /\ NoLeftovers)
BY ActorsConform, TypeCorrect, StopsEscalate, Leftovers, PTL

-----------------------------------------------------------------------------
(* What the overlord believes.                                             *)

\* The outbox of a handler announces the state that the handler left.
Announces(s) ==
  \A i \in DOMAIN actor[s].outbox :
    actor[s].outbox[i].kind = "state" => actor[s].outbox[i].value = actor[s].state

FollowInv ==
  /\ snap \in [Services -> States]
  /\ events \in Seq([from : Services, what : Outputs])
  /\ \A s \in Services : Announces(s)
  /\ SnapshotFollows

\* A step of an actor that delivers nothing: it goes on within its handler, or
\* begins or continues one with nothing left to say, and announces the new state
\* if there is one.
Speaks(s) ==
  \/ /\ actor'[s].state = actor[s].state
     /\ actor'[s].outbox = actor[s].outbox
  \/ /\ actor[s].outbox = <<>>
     /\ Announces(s)'
     /\ Held(s)' = {} => actor'[s].state = actor[s].state

\* The outboxes that are put together from two.
LEMMA Concatenated ==
  ASSUME NEW x, NEW y, NEW z
  PROVE  /\ <<x, y>> \o <<z>> = <<x, y, z>>
         /\ <<x, y>> \o <<>> = <<x, y>>
         /\ <<x>> \o <<y>> = <<x, y>>
         /\ <<x>> \o <<>> = <<x>>
<1> DEFINE S == {x, y, z}
<1>1. <<x, y>> \in Seq(S) /\ <<x>> \in Seq(S) /\ <<y>> \in Seq(S) /\ <<z>> \in Seq(S)
  OBVIOUS
<1>2. <<>> \in Seq(S)
  OBVIOUS
<1>3. <<x, y>> \o <<z>> = <<x, y, z>>
  <2> DEFINE s == <<x, y>> \o <<z>>
             t == <<x, y, z>>
  <2>1. s \in Seq(S) /\ Len(s) = 3 /\ s[1] = x /\ s[2] = y /\ s[3] = z
    BY <1>1, ConcatProperties
  <2>2. t \in Seq(S) /\ Len(t) = 3 /\ t[1] = x /\ t[2] = y /\ t[3] = z
    OBVIOUS
  <2>3. \A i \in 1 .. 3 : s[i] = t[i]
    BY <2>1, <2>2
  <2> HIDE DEF s, t
  <2>4. s = t
    BY <2>1, <2>2, <2>3, SeqEqual
  <2> QED
    BY <2>4 DEF s, t
<1>4. <<x, y>> \o <<>> = <<x, y>>
  BY <1>1, <1>2
<1>5. <<x>> \o <<y>> = <<x, y>>
  <2> DEFINE s == <<x>> \o <<y>>
             t == <<x, y>>
  <2>1. s \in Seq(S) /\ Len(s) = 2 /\ s[1] = x /\ s[2] = y
    BY <1>1, ConcatProperties
  <2>2. t \in Seq(S) /\ Len(t) = 2 /\ t[1] = x /\ t[2] = y
    OBVIOUS
  <2>3. \A i \in 1 .. 2 : s[i] = t[i]
    BY <2>1, <2>2
  <2> HIDE DEF s, t
  <2>4. s = t
    BY <2>1, <2>2, <2>3, SeqEqual
  <2> QED
    BY <2>4 DEF s, t
<1>6. <<x>> \o <<>> = <<x>>
  BY <1>1, <1>2
<1> QED
  BY <1>3, <1>4, <1>5, <1>6

LEMMA StartSpeaks ==
  ASSUME TypeOK, NEW s \in Services, AtSelect(s), handle_start(s)
  PROVE  Speaks(s)
<1> DEFINE a == actor[s]
<1>1. a \in Actor
  BY DEF TypeOK
<1>2. PICK b : /\ actor'[s] = b
               /\ \/ b = [a EXCEPT !.outbox = <<Reply("ok")>>]
                  \/ b = [a EXCEPT !.outbox = <<Reply("err")>>]
                  \/ b = [a EXCEPT !.state = "Starting", !.todo = "spawn_start",
                                   !.outbox = <<StateChanged("Starting")>>]
  BY DEF Become, TypeOK, handle_start
<1>3. CASE b.outbox = <<StateChanged("Starting")>> /\ b.state = "Starting"
  <2>1. 1 \in DOMAIN actor'[s].outbox /\ actor'[s].outbox[1].kind = "state"
    BY <1>2, <1>3 DEF StateChanged
  <2> QED
    BY <1>2, <1>3, <2>1 DEF Speaks, Announces, Held, AtSelect, StateChanged
<1>4. ASSUME NEW r, b = [a EXCEPT !.outbox = <<Reply(r)>>]
      PROVE  Speaks(s)
  <2>1. actor'[s].state = a.state /\ actor'[s].outbox = <<Reply(r)>>
    BY <1>1, <1>2, <1>4 DEF Actor
  <2> QED
    BY <2>1 DEF Speaks, Announces, AtSelect, Reply
<1> QED
  BY <1>1, <1>2, <1>3, <1>4 DEF Actor

LEMMA BeginStopSpeaks ==
  ASSUME TypeOK, NEW s \in Services, NEW restart \in BOOLEAN, AtSelect(s),
         begin_stop(s, restart)
  PROVE  Speaks(s)
<1>1. actor[s] \in Actor
  BY DEF TypeOK
<1>2. /\ actor'[s].state = "Stopping"
      /\ actor'[s].outbox = <<StateChanged("Stopping"), Reply("ok")>>
  BY <1>1 DEF Become, TypeOK, begin_stop, Actor
<1>3. 1 \in DOMAIN actor'[s].outbox /\ actor'[s].outbox[1].kind = "state"
  BY <1>2 DEF StateChanged
<1> QED
  BY <1>2, <1>3 DEF Speaks, Announces, Held, AtSelect, Reply, StateChanged

LEMMA CommandSpeaks ==
  ASSUME TypeOK, NEW s \in Services, Command(s)
  PROVE  Speaks(s)
<1> DEFINE a == actor[s]
<1>1. a \in Actor
  BY DEF TypeOK
<1>2. CASE Start(s)
  BY <1>2, StartSpeaks DEF Start
<1>3. CASE Restart(s)
  BY <1>3, StartSpeaks, BeginStopSpeaks DEF Restart
<1>4. CASE Shutdown(s)
  <2>1. actor'[s] = [a EXCEPT !.phase = "gone"] \/ actor'[s] = [a EXCEPT !.phase = "cleanup"]
    BY <1>4 DEF Become, TypeOK, Shutdown
  <2> QED
    BY <1>1, <2>1 DEF Speaks, Actor
<1>5. CASE Stop(s)
  <2>1. CASE begin_stop(s, FALSE)
    BY <1>5, <2>1, BeginStopSpeaks DEF Stop
  <2>2. CASE actor'[s] = [a EXCEPT !.outbox = <<Reply("ok")>>]
    BY <1>1, <1>5, <2>2 DEF Speaks, Announces, Held, AtSelect, Actor, Reply, Stop
  <2>3. CASE actor'[s] = [a EXCEPT !.state = "Inactive", !.backoffSleep = FALSE,
                                   !.outbox = <<StateChanged("Inactive"), Reply("ok")>>]
    <3>1. /\ actor'[s].state = "Inactive"
          /\ actor'[s].outbox = <<StateChanged("Inactive"), Reply("ok")>>
      BY <1>1, <2>3 DEF Actor
    <3>2. 1 \in DOMAIN actor'[s].outbox /\ actor'[s].outbox[1].kind = "state"
      BY <3>1 DEF StateChanged
    <3> QED
      BY <1>5, <3>1, <3>2 DEF Speaks, Announces, Held, AtSelect, Reply, StateChanged, Stop
  <2> QED
    BY <1>5, <2>1, <2>2, <2>3 DEF Become, TypeOK, Stop
<1> QED
  BY <1>2, <1>3, <1>4, <1>5 DEF Command

\* The end of a process is reported with the state it leads to.
LEMMA ChildExitSpeaks ==
  ASSUME TypeOK, NEW s \in Services, ChildExit(s)
  PROVE  Speaks(s)
<1> DEFINE a == actor[s]
<1>1. a \in Actor /\ config[s] \in Configs
  BY DEF TypeOK
<1>2. ASSUME NEW st, NEW code,
             /\ actor'[s].state = st
             /\ \/ actor'[s].outbox = <<ProcessExited, StateChanged(st)>>
                \/ actor'[s].outbox = <<ProcessExited, StateChanged(st), DaemonShutdown(code)>>
      PROVE  Speaks(s)
  <2>1. 2 \in DOMAIN actor'[s].outbox /\ actor'[s].outbox[2].kind = "state"
    BY <1>2 DEF StateChanged
  <2>2. actor[s].outbox = <<>>
    BY DEF ChildExit, AtSelect
  <2>3. Announces(s)'
    BY <1>2 DEF Announces, StateChanged, ProcessExited, DaemonShutdown
  <2>4. Held(s)' # {}
    BY <2>1 DEF Held
  <2> QED
    BY <2>2, <2>3, <2>4 DEF Speaks
<1>3. CASE exit_while_stopping(s)
  <2>1. /\ actor'[s].state = "Inactive"
        /\ actor'[s].outbox = <<ProcessExited, StateChanged("Inactive")>>
    BY <1>1, <1>3 DEF Become, TypeOK, exit_while_stopping, Actor
  <2> QED
    BY <1>2, <2>1
<1>4. ASSUME NEW policy, NEW success \in BOOLEAN, exit_by_itself(s, policy, success)
      PROVE  Speaks(s)
  <2> DEFINE b == [a EXCEPT !.child = NoPid, !.stopDeadline = "off"]
  <2>1. b \in Actor
    BY <1>1 DEF Actor
  <2>2. next_backoff(b, config[s]) \in Actor
    BY <1>1, <2>1, BackoffType
  <2>3. [next_backoff(b, config[s]) EXCEPT !.backoffSleep = TRUE] \in Actor
    BY <2>2 DEF Actor
  <2>4. ASSUME NEW d \in Actor, NEW st, NEW code, NEW more \in {<<>>, <<DaemonShutdown(code)>>},
               Become(s, [d EXCEPT !.state = st,
                                   !.outbox = <<ProcessExited, StateChanged(st)>> \o more])
        PROVE  Speaks(s)
    <3>1. actor'[s].state = st
      BY <2>4 DEF Become, TypeOK, Actor
    <3>2. actor'[s].outbox = <<ProcessExited, StateChanged(st)>> \o more
      BY <2>4 DEF Become, TypeOK, Actor
    <3>3. \/ actor'[s].outbox = <<ProcessExited, StateChanged(st)>>
          \/ actor'[s].outbox = <<ProcessExited, StateChanged(st), DaemonShutdown(code)>>
      BY <3>2, Concatenated
    <3> QED
      BY <1>2, <3>1, <3>3
  <2> QED
    BY <1>4, <2>1, <2>3, <2>4 DEF exit_by_itself
<1> QED
  BY <1>3, <1>4 DEF ChildExit

LEMMA DoStartSpeaks ==
  ASSUME TypeOK, NEW s \in Services, DoStart(s)
  PROVE  Speaks(s)
<1> DEFINE a == actor[s]
           c == config[s]
<1>1. a \in Actor /\ c \in Configs /\ a.todo \in SpawnTodos /\ a.outbox = <<>>
  BY DEF TypeOK, DoStart
<1>2. after_start(a, c, TRUE) \in Actor /\ after_start(a, c, FALSE) \in Actor
  BY <1>1, AfterStartType
<1>3. ASSUME NEW st, NEW r,
             /\ actor'[s].state = st
             /\ actor'[s].outbox = <<StateChanged(st)>> \o answer(a, r)
      PROVE  Speaks(s)
  <2>1. \/ actor'[s].outbox = <<StateChanged(st)>>
        \/ actor'[s].outbox = <<StateChanged(st), Reply(r)>>
    BY <1>3, Concatenated DEF answer
  <2>2. 1 \in DOMAIN actor'[s].outbox /\ actor'[s].outbox[1].kind = "state"
    BY <2>1 DEF StateChanged
  <2>3. Announces(s)'
    <3>1. CASE actor'[s].outbox = <<StateChanged(st)>>
      BY <1>3, <3>1 DEF Announces, StateChanged
    <3>2. CASE actor'[s].outbox = <<StateChanged(st), Reply(r)>>
      <4>1. /\ DOMAIN actor'[s].outbox = {1, 2}
            /\ actor'[s].outbox[1] = StateChanged(st)
            /\ actor'[s].outbox[2] = Reply(r)
        BY <3>2
      <4> QED
        BY <1>3, <4>1 DEF Announces, StateChanged, Reply
    <3> QED
      BY <2>1, <3>1, <3>2
  <2>4. Held(s)' # {}
    BY <2>2 DEF Held
  <2> QED
    BY <1>1, <2>3, <2>4 DEF Speaks
<1>4. CASE spawn_failed(s)
  <2>1. /\ actor'[s].state = "Error"
        /\ actor'[s].outbox = <<StateChanged("Error")>> \o answer(a, "err")
    BY <1>2, <1>4 DEF Become, TypeOK, spawn_failed, Actor
  <2> QED
    BY <1>3, <2>1
<1>5. ASSUME NEW p \in Pids, spawned(s, p)
      PROVE  Speaks(s)
  <2>1. /\ actor'[s].state = "Active"
        /\ actor'[s].outbox = <<StateChanged("Active")>> \o answer(a, "ok")
    BY <1>2, <1>5 DEF Become, TypeOK, spawned, Actor
  <2> QED
    BY <1>3, <2>1
<1> QED
  BY <1>4, <1>5 DEF DoStart

LEMMA ActorSpeaks ==
  ASSUME TypeOK, NEW s \in Services, Command(s) \/ ActorStep(s)
  PROVE  Speaks(s)
<1> DEFINE a == actor[s]
<1>1. a \in Actor
  BY DEF TypeOK
<1>2. CASE KillDelayPasses(s) \/ KillDeadline(s) \/ CleanupKill(s) \/ CleanupReaped(s)
  <2>1. \/ actor'[s] = [a EXCEPT !.stopDeadline = "elapsed"]
        \/ actor'[s] = [a EXCEPT !.stopDeadline = "off"]
        \/ actor'[s] = [a EXCEPT !.phase = "reaping"]
        \/ actor'[s] = [a EXCEPT !.phase = "gone", !.child = NoPid]
    BY <1>2 DEF Become, TypeOK, KillDelayPasses, KillDeadline, CleanupKill, CleanupReaped
  <2> QED
    BY <1>1, <2>1 DEF Speaks, Actor
<1>3. CASE BackoffExpired(s) \/ Relaunch(s)
  <2>1. /\ actor'[s].state = "Starting"
        /\ actor'[s].outbox = <<StateChanged("Starting")>>
        /\ actor[s].outbox = <<>>
    <3>1. CASE BackoffExpired(s)
      BY <1>1, <3>1 DEF Become, TypeOK, BackoffExpired, Actor, AtSelect
    <3>2. CASE Relaunch(s)
      BY <1>1, <3>2 DEF Become, TypeOK, Relaunch, Actor
    <3> QED
      BY <1>3, <3>1, <3>2
  <2>2. 1 \in DOMAIN actor'[s].outbox /\ actor'[s].outbox[1].kind = "state"
    BY <2>1 DEF StateChanged
  <2> QED
    BY <2>1, <2>2 DEF Speaks, Announces, Held, StateChanged
<1> QED
  BY <1>2, <1>3, CommandSpeaks, ChildExitSpeaks, DoStartSpeaks DEF ActorStep

-----------------------------------------------------------------------------
(* Preservation.                                                           *)

\* Nothing of what FollowInv is about changes.
LEMMA FollowFrame ==
  ASSUME FollowInv, UNCHANGED <<actor, events, snap>>
  PROVE  FollowInv'
BY DEF FollowInv, Announces, SnapshotFollows, Held, Sent, Latest

\* A step of an actor between two deliveries.
LEMMA FollowSpeaks ==
  ASSUME TypeOK, FollowInv, NEW s \in Services, Speaks(s), UNCHANGED <<events, snap>>,
         \A t \in Services \ {s} : actor'[t] = actor[t]
  PROVE  FollowInv'
<1>1. ASSUME NEW t \in Services \ {s}
      PROVE  /\ Announces(t)'
             /\ Held(t)' = Held(t)
      BY <1>1 DEF FollowInv, Announces, Held
<1>2. Announces(s)'
  BY DEF Speaks, FollowInv, Announces
<1>3. \A t \in Services : Sent(t)' = Sent(t)
  BY DEF Sent
<1>4. actor[s].outbox = <<>> => Held(s) = {}
  BY DEF Held
<1>5. Held(s)' = {} => Held(s) = {} /\ actor'[s].state = actor[s].state
  <2>1. CASE actor'[s].outbox = actor[s].outbox /\ actor'[s].state = actor[s].state
    BY <2>1 DEF Held
  <2> QED
    BY <1>4, <2>1 DEF Speaks
<1>6. SnapshotFollows'
  <2> SUFFICES ASSUME NEW t \in Services
               PROVE  /\ \A i \in Held(t)' :
                           Latest(i, Held(t)') => actor'[t].outbox[i].value = actor'[t].state
                      /\ Held(t)' = {} =>
                           \A i \in Sent(t) :
                             Latest(i, Sent(t)) => events[i].what.value = actor'[t].state
                      /\ Held(t)' = {} /\ Sent(t) = {} => snap[t] = actor'[t].state
    BY <1>3 DEF SnapshotFollows, Latest
  <2>1. CASE t = s
    <3>1. \A i \in Held(s)' : actor'[s].outbox[i].value = actor'[s].state
      BY <1>2 DEF Announces, Held
    <3> QED
      BY <1>5, <2>1, <3>1 DEF FollowInv, SnapshotFollows
  <2>2. CASE t # s
    BY <1>1, <2>2 DEF FollowInv, SnapshotFollows
  <2> QED
    BY <2>1, <2>2
<1> QED
  BY <1>1, <1>2, <1>6 DEF FollowInv

\* An actor delivers an output: an event joins the end of the channel, a reply
\* does not.
LEMMA FollowDelivers ==
  ASSUME TypeOK, FollowInv, NEW s \in Services, Deliver(s), snap' = snap,
         \/ /\ Head(actor[s].outbox).kind # "reply"
            /\ events' = Append(events, [from |-> s, what |-> Head(actor[s].outbox)])
         \/ /\ Head(actor[s].outbox).kind = "reply"
            /\ events' = events
  PROVE  FollowInv'
<1> DEFINE q == actor[s].outbox
           n == Len(events)
<1>1. /\ q \in Seq(Outputs) /\ q # <<>>
      /\ actor'[s].outbox = Tail(q) /\ actor'[s].state = actor[s].state
      /\ \A t \in Services \ {s} : actor'[t] = actor[t]
  <2>1. actor[s] \in Actor
    BY DEF TypeOK
  <2> QED
    BY <2>1 DEF Deliver, Become, TypeOK, Actor
<1>2. /\ Head(q) = q[1] /\ Head(q) \in Outputs /\ 1 \in DOMAIN q
      /\ \A i \in DOMAIN Tail(q) : i + 1 \in DOMAIN q /\ Tail(q)[i] = q[i + 1]
      /\ \A i \in DOMAIN q : i # 1 => i - 1 \in DOMAIN Tail(q)
  BY <1>1
<1>3. \A t \in Services \ {s} : Announces(t)' /\ Held(t)' = Held(t)
  BY <1>1 DEF FollowInv, Announces, Held
<1>4. Announces(s)'
  BY <1>1, <1>2 DEF FollowInv, Announces
<1>5. Held(s)' = {} /\ q[1].kind # "state" => Held(s) = {}
  <2>1. ASSUME NEW i \in DOMAIN q, i # 1, q[i].kind = "state" PROVE i - 1 \in Held(s)'
    <3>1. i - 1 \in DOMAIN Tail(q) /\ Tail(q)[i - 1] = q[i]
      <4>1. i \in Nat
        BY <1>1
      <4> HIDE DEF q
      <4> QED
        BY <1>2, <2>1, <4>1
    <3> HIDE DEF q
    <3> QED
      BY <1>1, <2>1, <3>1 DEF Held
  <2> QED
    BY <2>1 DEF Held
<1>6. \A i \in Held(s)' : actor'[s].outbox[i].value = actor'[s].state
  BY <1>4 DEF Announces, Held
<1>7. CASE q[1].kind = "reply" /\ events' = events
  <2>1. \A t \in Services : Sent(t)' = Sent(t)
    BY <1>7 DEF Sent
  <2>2. SnapshotFollows'
    <3> SUFFICES ASSUME NEW t \in Services
                 PROVE  /\ \A i \in Held(t)' :
                             Latest(i, Held(t)') => actor'[t].outbox[i].value = actor'[t].state
                        /\ Held(t)' = {} =>
                             \A i \in Sent(t) :
                               Latest(i, Sent(t)) => events[i].what.value = actor'[t].state
                        /\ Held(t)' = {} /\ Sent(t) = {} => snap[t] = actor'[t].state
      BY <1>7, <2>1 DEF SnapshotFollows, Latest
    <3>1. CASE t = s
      BY <1>1, <1>5, <1>6, <1>7, <3>1 DEF FollowInv, SnapshotFollows
    <3>2. CASE t # s
      BY <1>1, <1>3, <3>2 DEF FollowInv, SnapshotFollows
    <3> QED
      BY <3>1, <3>2
  <2> QED
    BY <1>3, <1>4, <1>7, <2>2 DEF FollowInv
<1>8. CASE q[1].kind # "reply" /\ events' = Append(events, [from |-> s, what |-> q[1]])
  <2>1. /\ events' \in Seq([from : Services, what : Outputs])
        /\ DOMAIN events = 1 .. n /\ DOMAIN events' = 1 .. n + 1 /\ n \in Nat
        /\ \A i \in 1 .. n : events'[i] = events[i]
        /\ events'[n + 1] = [from |-> s, what |-> q[1]]
    BY <1>2, <1>8 DEF FollowInv
  <2>2. \A t \in Services \ {s} : Sent(t)' = Sent(t)
    BY <2>1 DEF Sent
  <2>3. q[1].kind # "state" => Sent(s)' = Sent(s)
    BY <2>1 DEF Sent
  <2>4. q[1].kind = "state" => /\ n + 1 \in Sent(s)'
                               /\ \A i \in Sent(s)' : Latest(i, Sent(s)') => i = n + 1
    BY <2>1 DEF Sent, Latest
  <2>5. q[1].kind = "state" => q[1].value = actor[s].state
    BY <1>2 DEF FollowInv, Announces
  <2>6. SnapshotFollows'
    <3> SUFFICES ASSUME NEW t \in Services
                 PROVE  /\ \A i \in Held(t)' :
                             Latest(i, Held(t)') => actor'[t].outbox[i].value = actor'[t].state
                        /\ Held(t)' = {} =>
                             \A i \in Sent(t)' :
                               Latest(i, Sent(t)') => events'[i].what.value = actor'[t].state
                        /\ Held(t)' = {} /\ Sent(t)' = {} => snap[t] = actor'[t].state
      BY DEF SnapshotFollows, Latest
    <3>1. CASE t = s /\ q[1].kind = "state"
      <4>1. \A i \in Sent(s)' :
              Latest(i, Sent(s)') => events'[i].what.value = actor'[s].state
        BY <1>1, <2>1, <2>4, <2>5, <3>1
      <4> QED
        BY <1>6, <2>4, <3>1, <4>1
    <3>2. CASE t = s /\ q[1].kind # "state"
      <4>1. Held(s)' = {} =>
              /\ \A i \in Sent(s) : Latest(i, Sent(s)) => events[i].what.value = actor[s].state
              /\ Sent(s) = {} => snap[s] = actor[s].state
        BY <1>5, <3>2 DEF FollowInv, SnapshotFollows
      <4>2. \A i \in Sent(s) : events'[i] = events[i]
        BY <2>1 DEF Sent
      <4> QED
        BY <1>1, <1>6, <2>3, <3>2, <4>1, <4>2
    <3>3. CASE t # s
      <4>1. \A i \in Sent(t) : events'[i] = events[i]
        BY <2>1 DEF Sent
      <4> QED
        BY <1>1, <1>3, <2>2, <3>3, <4>1 DEF FollowInv, SnapshotFollows
    <3> QED
      BY <3>1, <3>2, <3>3
  <2> QED
    BY <1>3, <1>4, <2>1, <2>6 DEF FollowInv
<1> QED
  BY <1>2, <1>7, <1>8

\* The overlord takes an event from the channel, and its snapshot follows if it
\* is a change of state.
LEMMA FollowHandles ==
  ASSUME FollowInv, UNCHANGED actor, events # <<>>, events' = Tail(events),
         snap' = IF Head(events).what.kind = "state"
                   THEN [snap EXCEPT ![Head(events).from] = Head(events).what.value]
                   ELSE snap
  PROVE  FollowInv'
<1> DEFINE e == events[1]
<1>1. /\ events \in Seq([from : Services, what : Outputs])
      /\ Head(events) = e /\ e \in [from : Services, what : Outputs]
      /\ 1 \in DOMAIN events /\ \A i \in DOMAIN events : i \in Nat /\ i >= 1
      /\ events' \in Seq([from : Services, what : Outputs])
      /\ \A i \in DOMAIN events' : i \in Nat /\ i + 1 \in DOMAIN events
                                     /\ events'[i] = events[i + 1]
      /\ \A i \in DOMAIN events : i # 1 => i - 1 \in DOMAIN events'
  <2> DEFINE E == [from : Services, what : Outputs]
  <2>1. events \in Seq(E)
    BY DEF FollowInv
  <2>2. /\ events' \in Seq(E) /\ Len(events) \in Nat \ {0}
        /\ DOMAIN events = 1 .. Len(events) /\ DOMAIN events' = 1 .. Len(events) - 1
    BY <2>1
  <2>3. \A i \in DOMAIN events' : events'[i] = events[i + 1]
    BY <2>1, <2>2
  <2>4. Head(events) = e /\ e \in E
    <3>1. ASSUME NEW S, events \in Seq(S) PROVE Head(events) = e /\ e \in S
      BY <3>1
    <3> QED
      BY <2>1, <3>1
  <2> QED
    BY <2>1, <2>2, <2>3, <2>4
<1>2. e.what.kind = "state" => e.what.value \in States
  <2>1. e.what \in Outputs
    BY <1>1
  <2> QED
    BY <2>1 DEF Outputs, ProcessExited
<1>3. snap' \in [Services -> States]
  BY <1>1, <1>2 DEF FollowInv
<1>4. \A s \in Services : Announces(s)' /\ Held(s)' = Held(s)
  BY DEF FollowInv, Announces, Held
<1>5. SnapshotFollows'
  <2> SUFFICES ASSUME NEW s \in Services
               PROVE  /\ \A i \in Held(s)' :
                           Latest(i, Held(s)') => actor'[s].outbox[i].value = actor'[s].state
                      /\ Held(s)' = {} =>
                           \A i \in Sent(s)' :
                             Latest(i, Sent(s)') => events'[i].what.value = actor'[s].state
                      /\ Held(s)' = {} /\ Sent(s)' = {} => snap'[s] = actor'[s].state
    BY DEF SnapshotFollows, Latest
  <2>1. \A i \in Sent(s)' : /\ i \in Nat /\ i + 1 \in Sent(s)
                            /\ events'[i] = events[i + 1]
    BY <1>1 DEF Sent
  <2>2. \A i \in Sent(s) : i \in Nat /\ i >= 1 /\ (i # 1 => i - 1 \in Sent(s)')
    <3>1. ASSUME NEW i \in Sent(s), i # 1 PROVE i - 1 \in Sent(s)'
      <4>1. i \in DOMAIN events /\ i - 1 \in DOMAIN events' /\ i \in Nat
        BY <1>1, <3>1 DEF Sent
      <4>2. events'[i - 1] = events[i]
        BY <1>1, <4>1
      <4> QED
        BY <3>1, <4>1, <4>2 DEF Sent
    <3> QED
      BY <1>1, <3>1 DEF Sent
  <2>3. \A i \in Sent(s)' : Latest(i, Sent(s)') => Latest(i + 1, Sent(s))
    <3> SUFFICES ASSUME NEW i \in Sent(s)', Latest(i, Sent(s)'), NEW j \in Sent(s)
                 PROVE  j <= i + 1
      BY <2>1 DEF Latest
    <3>1. CASE j = 1
      BY <2>1, <3>1
    <3>2. CASE j # 1
      BY <2>1, <2>2, <3>2 DEF Latest
    <3> QED
      BY <3>1, <3>2
  <2>4. ASSUME Held(s) = {}, NEW i \in Sent(s)', Latest(i, Sent(s)')
        PROVE  events'[i].what.value = actor[s].state
    BY <2>1, <2>3, <2>4 DEF FollowInv, SnapshotFollows
  <2>5. ASSUME Held(s) = {}, Sent(s)' = {}
        PROVE  snap'[s] = actor[s].state
    <3>1. CASE Sent(s) = {}
      <4>1. ~ (e.from = s /\ e.what.kind = "state")
        BY <1>1, <3>1 DEF Sent
      <4>2. snap'[s] = snap[s]
        BY <1>1, <4>1 DEF FollowInv
      <4> QED
        BY <2>5, <3>1, <4>2 DEF FollowInv, SnapshotFollows
    <3>2. CASE Sent(s) # {}
      <4>1. \A i \in Sent(s) : i = 1
        BY <2>2, <2>5
      <4>2. 1 \in Sent(s) /\ Latest(1, Sent(s))
        BY <3>2, <4>1 DEF Latest
      <4>3. e.from = s /\ e.what.kind = "state" /\ e.what.value = actor[s].state
        BY <2>5, <4>2 DEF Sent, FollowInv, SnapshotFollows
      <4> QED
        BY <1>1, <4>3 DEF FollowInv
    <3> QED
      BY <3>1, <3>2
  <2> QED
    BY <1>4, <2>4, <2>5 DEF FollowInv, SnapshotFollows
<1> QED
  BY <1>1, <1>3, <1>4, <1>5 DEF FollowInv

LEMMA FollowInit ==
  ASSUME SupInit PROVE FollowInv
<1>1. \A s \in Services : actor[s].outbox = <<>> /\ actor[s].state = "Inactive"
  BY DEF SupInit, Init, NewActor
<1> QED
  BY <1>1 DEF SupInit, FollowInv, Announces, SnapshotFollows, Held, Sent, States

LEMMA FollowStep ==
  ASSUME TypeOK, FollowInv, [SupNext]_supVars
  PROVE  FollowInv'
<1>1. CASE UNCHANGED supVars
  BY <1>1, FollowFrame DEF supVars, vars, overlordVars
<1>2. CASE OverlordStep
  <2>1. CASE OnStateChanged
    BY <2>1, FollowHandles DEF OnStateChanged, NextEvent, vars
  <2>2. CASE OnProcessExited \/ OnDaemonShutdown
    BY <2>2, FollowHandles
       DEF OnProcessExited, OnDaemonShutdown, NextEvent, vars, overlordVars
  <2>3. CASE \/ Autostart \/ SendNext \/ ExitNext \/ Exit
             \/ \E s \in Services : StopTaskSends(s)
    BY <2>3, FollowFrame DEF Autostart, SendNext, ExitNext, Exit, StopTaskSends, vars
  <2> QED
    BY <1>2, <2>1, <2>2, <2>3 DEF OverlordStep
<1>3. CASE EnvironmentStep
  BY <1>3, FollowFrame
     DEF EnvironmentStep, ServicesAction, ForwardSignal, DaemonStop, OnCheckDown, vars
<1>4. ASSUME NEW s \in Services, ActorsStep(s)
      PROVE  FollowInv'
  <2>1. CASE Emit(s)
    BY <2>1, FollowDelivers DEF Emit, overlordVars
  <2>2. CASE Answer(s)
    BY <2>2, FollowDelivers DEF Answer
  <2>3. CASE ReceiveCommand(s) \/ ReactUnprompted(s) \/ Continue(s)
    <3>1. Command(s) \/ ActorStep(s) \/ UNCHANGED vars
      BY <2>3 DEF ReceiveCommand, ReactUnprompted, Continue, Command, ActorStep
    <3>2. UNCHANGED <<events, snap>>
      BY <2>3 DEF ReceiveCommand, ReactUnprompted, Continue, overlordVars
    <3>3. CASE UNCHANGED vars
      BY <3>2, <3>3, FollowFrame DEF vars
    <3>4. CASE Command(s) \/ ActorStep(s)
      <4>1. \A t \in Services \ {s} : actor'[t] = actor[t]
        BY <3>4, StepFrame
      <4> QED
        BY <3>2, <3>4, <4>1, ActorSpeaks, FollowSpeaks
    <3> QED
      BY <3>1, <3>3, <3>4
  <2> QED
    BY <1>4, <2>1, <2>2, <2>3 DEF ActorsStep
<1>5. ASSUME NEW s \in Services, ProcessesStep(s)
      PROVE  FollowInv'
  BY <1>5, FollowFrame DEF ProcessesStep, ProcessStep, ProcessExit, overlordVars
<1> QED
  BY <1>1, <1>2, <1>3, <1>4, <1>5 DEF SupNext

LEMMA Followed == SupSpec => []FollowInv
<1>1. SupInit => FollowInv
  BY FollowInit
<1>2. TypeOK /\ FollowInv /\ [SupNext]_supVars => FollowInv'
  BY FollowStep
<1> QED
  BY <1>1, <1>2, SupervisedActors, PTL DEF SupSpec

\* The overlord is never lastingly wrong about a service: its snapshot agrees
\* with the actor, or the latest of the state changes still on their way does.
THEOREM SnapshotsFollow == SupSpec => []SnapshotFollows
BY Followed, PTL DEF FollowInv

-----------------------------------------------------------------------------
(* The scripts of the overlord.                                            *)

\* The entries that a script has as long as nobody asks for a restart.
ScriptEntry == [do : {"Start", "Stop", "ForwardSignal"}, to : Services]
                 \cup [do : {"0", "10"}, to : {NoService}]

One(S) == \A x, y \in S : x = y

\* Where a script starts s.
StartsIn(q, s) == {i \in DOMAIN q : q[i] = Send("Start", s)}

\* What SendEach makes is a script, in the order of its names.
LEMMA EachIsSent ==
  ASSUME NEW S, NEW names \in BoundedSeq(S, Len(Order)), NEW cmd
  PROVE  \E m \in Nat :
           /\ DOMAIN names = 1 .. m /\ DOMAIN SendEach(cmd, names) = 1 .. m
           /\ \A i \in 1 .. m : names[i] \in S /\ SendEach(cmd, names)[i] = Send(cmd, names[i])
<1>1. PICK m \in 0 .. Len(Order) : names \in [1 .. m -> S]
  BY DEF BoundedSeq, SeqOf
<1> QED
  BY <1>1, OrderAssumption, SMTT(30) DEF SendEach

LEMMA EachIsEntry ==
  ASSUME NEW cmd \in {"Start", "Stop", "ForwardSignal"}, NEW S, S \subseteq Services,
         NEW names \in BoundedSeq(S, Len(Order))
  PROVE  /\ SendEach(cmd, names) \in Seq(ScriptEntry)
         /\ \A i \in DOMAIN SendEach(cmd, names) :
              SendEach(cmd, names)[i].do = cmd /\ SendEach(cmd, names)[i].to \in S
<1>1. PICK m \in Nat :
        /\ DOMAIN SendEach(cmd, names) = 1 .. m
        /\ \A i \in 1 .. m : names[i] \in S /\ SendEach(cmd, names)[i] = Send(cmd, names[i])
  BY EachIsSent
<1>2. SendEach(cmd, names) \in [1 .. m -> ScriptEntry]
  BY <1>1 DEF SendEach, Send, ScriptEntry
<1> QED
  BY <1>1, <1>2 DEF Send

\* So is what SendAll makes.
LEMMA SendsAreEntries ==
  ASSUME NEW cmd \in {"Start", "Stop", "ForwardSignal"}, NEW S, S \subseteq Services,
         NEW q \in SendAll(cmd, S)
  PROVE  q \in Seq(ScriptEntry)
BY EachIsEntry DEF SendAll, InPlanOrder

\* It has one command to each service, in the order of the plan.
LEMMA SendsOnce ==
  ASSUME NEW cmd \in {"Start", "Stop", "ForwardSignal"}, NEW S, S \subseteq Services,
         NEW q \in SendAll(cmd, S), NEW s \in Services
  PROVE  /\ One(StartsIn(q, s))
         /\ StartsIn(q, s) # {} => cmd = "Start" /\ s \in S
<1>1. PICK o \in InPlanOrder(S) : q = [i \in DOMAIN o |-> Send(cmd, o[i])]
  BY DEF SendAll, SendEach
<1>2. PICK m \in 0 .. Len(Order) : o \in [1 .. m -> S]
  BY <1>1 DEF InPlanOrder, BoundedSeq, SeqOf
<1>3. /\ DOMAIN q = 1 .. m /\ DOMAIN o = 1 .. m /\ m \in Nat
      /\ \A i \in 1 .. m : q[i] = Send(cmd, o[i]) /\ o[i] \in S
  BY <1>1, <1>2, OrderAssumption
<1>4. ASSUME NEW i \in 1 .. m, NEW j \in 1 .. m, i < j PROVE o[i] # o[j]
  <2>1. Place(o[i]) < Place(o[j])
    BY <1>1, <1>3, <1>4 DEF InPlanOrder
  <2>2. Place(o[i]) \in Nat
    <3>1. \E k \in DOMAIN Order : Order[k] = o[i]
      BY <1>3, OrderAssumption
    <3>2. Place(o[i]) \in DOMAIN Order
      BY <3>1 DEF Place
    <3> QED
      BY <3>2, OrderAssumption
  <2> QED
    BY <2>1, <2>2
<1>5. \A i \in StartsIn(q, s) : i \in 1 .. m /\ cmd = "Start" /\ o[i] = s
  BY <1>3 DEF StartsIn, Send
<1>6. One(StartsIn(q, s))
  <2> SUFFICES ASSUME NEW i \in StartsIn(q, s), NEW j \in StartsIn(q, s), i < j PROVE FALSE
    BY <1>3, <1>5 DEF One
  <2> QED
    BY <1>4, <1>5
<1> QED
  BY <1>3, <1>5, <1>6

\* What a failed check makes the overlord do, when no service restarts on one.
LEMMA CheckEntries ==
  ASSUME OnCheckDown, \A s \in Services : plan[s].onCheckFailure # "restart"
  PROVE  /\ script' \in Seq(ScriptEntry)
         /\ \A i \in DOMAIN script' : script'[i].do # "Start"
<1>1. PICK sends \in SendAll("Restart", {}),
           exit \in {<<>>, <<ExitWith("0")>>, <<ExitWith("10")>>} :
        script' = sends \o exit
  <2>1. {s \in Services : plan[s].onCheckFailure = "restart"} = {}
    OBVIOUS
  <2> QED
    BY <2>1 DEF OnCheckDown
<1>2. sends = <<>>
  <2>1. PICK o \in InPlanOrder({}) : sends = [i \in DOMAIN o |-> Send("Restart", o[i])]
    BY DEF SendAll, SendEach
  <2>2. PICK m \in 0 .. Len(Order) : o \in [1 .. m -> {}]
    BY <2>1 DEF InPlanOrder, BoundedSeq, SeqOf
  <2>3. m \in Nat /\ Len(Order) \in Nat
    BY OrderAssumption
  <2>4. DOMAIN sends = 1 .. m /\ 1 .. m = {}
    BY <2>1, <2>2
  <2>5. sends \in [1 .. m -> ScriptEntry]
    BY <2>1, <2>4
  <2> QED
    BY <2>3, <2>4, <2>5
<1>3. exit \in Seq(ScriptEntry) /\ \A i \in DOMAIN exit : exit[i].do # "Start"
  <2>1. ExitWith("0") \in ScriptEntry /\ ExitWith("10") \in ScriptEntry
    BY DEF ExitWith, ScriptEntry
  <2>2. ExitWith("0").do # "Start" /\ ExitWith("10").do # "Start"
    BY DEF ExitWith
  <2>3. \A e \in ScriptEntry : <<e>> \in Seq(ScriptEntry) /\ DOMAIN <<e>> = {1} /\ <<e>>[1] = e
    OBVIOUS
  <2>4. <<>> \in Seq(ScriptEntry) /\ DOMAIN <<>> = {}
    OBVIOUS
  <2> QED
    BY <1>1, <2>1, <2>2, <2>3, <2>4
<1>4. script' = exit
  BY <1>1, <1>2, <1>3
<1> QED
  BY SMTT(30), <1>3, <1>4

-----------------------------------------------------------------------------
(* The order of the autostart.                                             *)

\* Nobody asks for a start or a restart, no client and no failed check: what the
\* overlord starts, it autostarts.
OnlyAutostarts ==
  /\ Inputs \subseteq {"Stop", "ForwardSignal", "DaemonStop", "CheckDown"}
  /\ \A f \in Plans : \A s \in Services : f[s].onCheckFailure # "restart"

\* A service that was never started has done nothing but answer.
Untouched(s) ==
  /\ actor[s].state = "Inactive" /\ actor[s].child = NoPid /\ actor[s].todo = "none"
  /\ ~ actor[s].backoffSleep
  /\ \A i \in DOMAIN actor[s].outbox : actor[s].outbox[i].kind = "reply"

\* The starts of a script, or of a mailbox, are of services whose turn has come.
MayStart(s) == Dependencies(s) \subseteq born

ScriptInOrder(q) ==
  /\ q \in Seq(ScriptEntry)
  /\ \A i \in DOMAIN q : q[i].do = "Start" => MayStart(q[i].to)

MailInOrder(s) ==
  /\ mailbox[s] \in Seq(MailCommands)
  /\ \A i \in DOMAIN mailbox[s] :
       /\ mailbox[s][i] # "Restart"
       /\ mailbox[s][i] = "Start" => MayStart(s)

OrderInv ==
  /\ plan \in Plans
  /\ DOMAIN mailbox = Services
  /\ pending \subseteq Services
  /\ \A s \in Services : s \notin born => Untouched(s)
  /\ \A i \in DOMAIN events : events[i].from \in born
  /\ \A s \in Services : is_running(snap[s]) => s \in born
  /\ ScriptInOrder(script)
  /\ \A s \in Services : MailInOrder(s)

\* The commands to the services listed, and to a set of them.
LEMMA EachInOrder ==
  ASSUME NEW cmd \in {"Start", "Stop", "ForwardSignal"}, NEW S, S \subseteq Services,
         cmd = "Start" => \A s \in S : MayStart(s),
         NEW names \in BoundedSeq(S, Len(Order))
  PROVE  ScriptInOrder(SendEach(cmd, names))
BY EachIsEntry DEF ScriptInOrder

LEMMA SendsInOrder ==
  ASSUME NEW cmd \in {"Start", "Stop", "ForwardSignal"}, NEW S, S \subseteq Services,
         cmd = "Start" => \A s \in S : MayStart(s),
         NEW q \in SendAll(cmd, S)
  PROVE  ScriptInOrder(q)
BY EachInOrder DEF SendAll, InPlanOrder

\* The services that wait for nothing that is not seen to run.
LEMMA SeenToRun ==
  ASSUME NEW sn, \A s \in Services : is_running(sn[s]) => s \in born,
         NEW s, after_deps_running(sn, s)
  PROVE  MayStart(s)
BY DEF after_deps_running, MayStart

\* What a step of an actor leaves of a service that was never started.
LEMMA UntouchedActs ==
  ASSUME TypeOK, NEW s \in Services, Untouched(s),
         Stop(s) \/ Shutdown(s) \/ ActorStep(s) \/ Deliver(s)
  PROVE  Untouched(s)'
<1> DEFINE a == actor[s]
<1>1. a \in Actor
  BY DEF TypeOK
<1>2. a.state = "Inactive" /\ a.child = NoPid /\ a.todo = "none" /\ ~ a.backoffSleep
  BY DEF Untouched
<1>3. ASSUME NEW r, actor'[s] = [a EXCEPT !.outbox = <<Reply(r)>>]
      PROVE  Untouched(s)'
  <2>1. /\ actor'[s].state = a.state /\ actor'[s].child = a.child /\ actor'[s].todo = a.todo
        /\ actor'[s].backoffSleep = a.backoffSleep
        /\ actor'[s].outbox = <<Reply(r)>>
    BY <1>1, <1>3 DEF Actor
  <2> QED
    BY <1>2, <2>1 DEF Untouched, Reply
<1>4. CASE Stop(s)
  <2>1. actor'[s] = [a EXCEPT !.outbox = <<Reply("ok")>>]
    BY <1>2, <1>4 DEF Stop, is_running, Become, TypeOK
  <2> QED
    BY <1>3, <2>1
<1>5. CASE Shutdown(s) \/ KillDelayPasses(s) \/ KillDeadline(s) \/ CleanupKill(s)
           \/ CleanupReaped(s)
  <2>1. \/ actor'[s] = [a EXCEPT !.phase = "gone"]
        \/ actor'[s] = [a EXCEPT !.stopDeadline = "elapsed"]
        \/ actor'[s] = [a EXCEPT !.stopDeadline = "off"]
        \/ actor'[s] = [a EXCEPT !.phase = "reaping"]
        \/ actor'[s] = [a EXCEPT !.phase = "gone", !.child = NoPid]
    BY <1>2, <1>5
       DEF Become, TypeOK, Shutdown, KillDelayPasses, KillDeadline, CleanupKill, CleanupReaped
  <2>2. /\ actor'[s].state = a.state /\ actor'[s].child = NoPid /\ actor'[s].todo = a.todo
        /\ actor'[s].backoffSleep = a.backoffSleep
        /\ actor'[s].outbox = a.outbox
    BY <1>1, <1>2, <2>1 DEF Actor
  <2> QED
    BY <1>2, <2>2 DEF Untouched
<1>6. CASE Deliver(s)
  <2>1. actor'[s] = [a EXCEPT !.outbox = Tail(@)] /\ a.outbox # <<>>
    BY <1>6 DEF Deliver, Become, TypeOK
  <2>2. /\ actor'[s].state = a.state /\ actor'[s].child = a.child /\ actor'[s].todo = a.todo
        /\ actor'[s].backoffSleep = a.backoffSleep
        /\ actor'[s].outbox = Tail(a.outbox) /\ a.outbox \in Seq(Outputs)
    BY <1>1, <2>1 DEF Actor
  <2>3. \A i \in DOMAIN Tail(a.outbox) :
          i + 1 \in DOMAIN a.outbox /\ Tail(a.outbox)[i] = a.outbox[i + 1]
    BY <2>1, <2>2
  <2> QED
    BY <1>2, <2>2, <2>3 DEF Untouched
<1>7. ~ ChildExit(s) /\ ~ BackoffExpired(s) /\ ~ Relaunch(s) /\ ~ DoStart(s)
  BY <1>2 DEF ChildExit, BackoffExpired, Relaunch, DoStart, SpawnTodos
<1> QED
  BY <1>4, <1>5, <1>6, <1>7 DEF ActorStep

\* What may start still may when more has been started.
LEMMA OrderKept ==
  ASSUME plan' = plan, born \subseteq born'
  PROVE  /\ \A s \in Services : MayStart(s) => MayStart(s)'
         /\ \A q : ScriptInOrder(q) =>
              /\ q \in Seq(ScriptEntry)
              /\ \A i \in DOMAIN q : q[i].do = "Start" => Dependencies(q[i].to)' \subseteq born'
BY DEF MayStart, Dependencies, ScriptInOrder

\* Steps of the actors: a service is started by a command that may start it, or
\* was started before.
LEMMA OrderActors ==
  ASSUME TypeOK, FollowInv, OrderInv, NEW s \in Services, ActorsStep(s), RecordsStarts
  PROVE  OrderInv' /\ \A x \in born' \ born : x \in Services /\ MayStart(x)
<1>1. \A t \in Services \ {s} : actor'[t] = actor[t]
  <2>1. Command(s) \/ ActorStep(s) \/ Deliver(s) \/ UNCHANGED vars
    BY ActorsStepConforms
  <2> QED
    BY <2>1, StepFrame DEF vars
<1>2. UNCHANGED <<plan, snap, pending, script>>
  BY DEF ActorsStep, ReceiveCommand, ReactUnprompted, Continue, Emit, Answer, overlordVars
<1>3. /\ born \subseteq born' /\ \A t \in Services \ {s} : t \in born' <=> t \in born
      /\ \A x \in born' \ born : x = s
      /\ s \in born' <=> s \in born \/ actor'[s].state = "Starting"
  BY <1>1 DEF RecordsStarts, OrderInv, Untouched
<1>4. /\ \/ mailbox'[s] = mailbox[s]
         \/ mailbox[s] # <<>> /\ mailbox'[s] = Tail(mailbox[s])
      /\ \A t \in Services \ {s} : mailbox'[t] = mailbox[t]
      /\ DOMAIN mailbox' = Services
  <2>1. mailbox' = mailbox \/ (mailbox[s] # <<>> /\ Take(s))
    BY DEF ActorsStep, ReceiveCommand, ReactUnprompted, Continue, Emit, Answer
  <2> QED
    BY <2>1 DEF OrderInv, Take
<1>5. \/ mailbox[s] # <<>> /\ Head(mailbox[s]) = "Start" /\ Start(s)
      \/ Stop(s) \/ Shutdown(s) \/ ActorStep(s) \/ Deliver(s) \/ UNCHANGED vars
  <2>1. CASE ReceiveCommand(s)
    <3>1. mailbox[s] # <<>> => mailbox[s][1] # "Restart" /\ Head(mailbox[s]) = mailbox[s][1]
      BY DEF OrderInv, MailInOrder
    <3> QED
      BY <2>1, <3>1 DEF ReceiveCommand
  <2> QED
    BY <2>1 DEF ActorsStep, ReactUnprompted, Continue, Emit, Answer, ActorStep
<1>6. s \notin born => \/ actor'[s].state = "Starting" /\ MayStart(s)
                       \/ Untouched(s)'
  <2> SUFFICES ASSUME s \notin born
               PROVE  \/ actor'[s].state = "Starting" /\ MayStart(s)
                      \/ Untouched(s)'
    OBVIOUS
  <2>1. Untouched(s)
    BY DEF OrderInv
  <2>2. CASE mailbox[s] # <<>> /\ Head(mailbox[s]) = "Start" /\ Start(s)
    <3>1. MayStart(s)
      BY <2>2 DEF OrderInv, MailInOrder
    <3>2. actor[s] \in Actor
      BY DEF TypeOK
    <3>3. actor'[s] = [actor[s] EXCEPT !.state = "Starting", !.todo = "spawn_start",
                                       !.outbox = <<StateChanged("Starting")>>]
      BY <2>1, <2>2 DEF Start, handle_start, is_running, Become, TypeOK, Untouched
    <3>4. actor'[s].state = "Starting"
      BY <3>2, <3>3 DEF Actor
    <3> QED
      BY <3>1, <3>4
  <2>3. CASE Stop(s) \/ Shutdown(s) \/ ActorStep(s) \/ Deliver(s)
    BY <2>1, <2>3, UntouchedActs
  <2>4. CASE UNCHANGED vars
    BY <2>1, <2>4 DEF vars, Untouched
  <2> QED
    BY <1>5, <2>2, <2>3, <2>4
<1>7. \A t \in Services : t \notin born' => Untouched(t)'
  BY <1>1, <1>3, <1>6 DEF OrderInv, Untouched
<1>8. \A i \in DOMAIN events' : events'[i].from \in born'
  <2>1. CASE Emit(s)
    <3>1. s \in born
      <4>1. actor[s].outbox \in Seq(Outputs)
        BY DEF TypeOK, Actor
      <4>2. actor[s].outbox # <<>> /\ Head(actor[s].outbox).kind # "reply"
        BY <2>1 DEF Emit, Deliver
      <4>3. 1 \in DOMAIN actor[s].outbox /\ actor[s].outbox[1].kind # "reply"
        BY <4>1, <4>2
      <4> QED
        BY <4>3 DEF OrderInv, Untouched
    <3>2. /\ events \in Seq([from : Services, what : Outputs])
          /\ events' = Append(events, [from |-> s, what |-> Head(actor[s].outbox)])
      BY <2>1 DEF FollowInv, Emit
    <3>3. \A i \in DOMAIN events' :
            \/ i \in DOMAIN events /\ events'[i] = events[i]
            \/ events'[i].from = s
      BY <3>2
    <3> QED
      BY <1>3, <3>1, <3>3 DEF OrderInv
  <2>2. CASE events' = events
    BY <1>3, <2>2 DEF OrderInv
  <2> QED
    BY <2>1, <2>2 DEF ActorsStep, ReceiveCommand, ReactUnprompted, Continue, Answer
<1>9. \A t \in Services : is_running(snap'[t]) => t \in born'
  BY <1>2, <1>3 DEF OrderInv
<1>10. ScriptInOrder(script)'
  BY <1>2, <1>3, OrderKept DEF OrderInv, ScriptInOrder, MayStart
<1>11. ASSUME NEW t \in Services PROVE MailInOrder(t)'
  <2>1. MailInOrder(t) /\ (MayStart(t) => MayStart(t)')
    BY <1>2, <1>3, OrderKept DEF OrderInv
  <2>2. CASE mailbox'[t] = mailbox[t]
    BY <2>1, <2>2 DEF MailInOrder
  <2>3. CASE mailbox[t] # <<>> /\ mailbox'[t] = Tail(mailbox[t])
    <3>1. /\ mailbox'[t] \in Seq(MailCommands)
          /\ \A i \in DOMAIN mailbox'[t] : /\ i + 1 \in DOMAIN mailbox[t]
                                           /\ mailbox'[t][i] = mailbox[t][i + 1]
      BY <2>1, <2>3 DEF MailInOrder
    <3> QED
      BY <2>1, <3>1 DEF MailInOrder
  <2> QED
    BY <1>4, <2>2, <2>3
<1>12. \A x \in born' \ born : x \in Services /\ MayStart(x)
  BY <1>1, <1>3, <1>6 DEF Untouched
<1> QED
  BY <1>2, <1>4, <1>7, <1>8, <1>9, <1>10, <1>11, <1>12 DEF OrderInv

\* Steps that leave the actors alone start nothing.
LEMMA NothingStarts ==
  ASSUME OrderInv, actor' = actor, born' = born \/ RecordsStarts
  PROVE  born' = born
BY DEF OrderInv, Untouched, RecordsStarts

\* The overlord's decisions, and the inputs it takes.
LEMMA OrderDecides ==
  ASSUME OrderInv, UNCHANGED <<vars, plan, mailbox, born>>,
         pending' \subseteq Services,
         ScriptInOrder(script'),
         \A i \in DOMAIN events' : events'[i].from \in born,
         \A s \in Services : is_running(snap'[s]) => s \in born
  PROVE  OrderInv'
<1>1. ScriptInOrder(script)'
  BY DEF ScriptInOrder, MayStart, Dependencies
<1>2. \A s \in Services : MailInOrder(s)'
  BY DEF OrderInv, MailInOrder, MayStart, Dependencies
<1> QED
  BY <1>1, <1>2 DEF OrderInv, vars, Untouched

\* A command is put into the mailbox of a service.
LEMMA OrderPuts ==
  ASSUME OrderInv, UNCHANGED <<vars, plan, snap, pending, events, born>>,
         NEW s \in Services, NEW cmd \in MailCommands \ {"Restart"}, Put(s, cmd),
         cmd = "Start" => MayStart(s),
         ScriptInOrder(script')
  PROVE  OrderInv'
<1>1. ScriptInOrder(script)'
  BY DEF ScriptInOrder, MayStart, Dependencies
<1>2. \A t \in Services : MayStart(t)' <=> MayStart(t)
  BY DEF MayStart, Dependencies
<1>3. ASSUME NEW t \in Services \ {s} PROVE MailInOrder(t)'
  <2>1. mailbox'[t] = mailbox[t]
    BY DEF Put, OrderInv
  <2> QED
    BY <1>2, <2>1 DEF OrderInv, MailInOrder
<1>4. MailInOrder(s)'
  <2>1. mailbox'[s] = Append(mailbox[s], cmd) /\ mailbox[s] \in Seq(MailCommands)
    BY DEF Put, OrderInv, MailInOrder
  <2>2. /\ mailbox'[s] \in Seq(MailCommands)
        /\ \A i \in DOMAIN mailbox'[s] : \/ mailbox'[s][i] = cmd
                                        \/ /\ i \in DOMAIN mailbox[s]
                                           /\ mailbox'[s][i] = mailbox[s][i]
    BY <2>1
  <2> QED
    BY <1>2, <2>2 DEF OrderInv, MailInOrder
<1>5. DOMAIN mailbox' = Services
  BY DEF Put, OrderInv
<1> QED
  BY <1>1, <1>3, <1>4, <1>5 DEF OrderInv, vars, Untouched

\* The overlord takes an event from the channel.
LEMMA TakesEvent ==
  ASSUME FollowInv, OrderInv, NEW kind, NextEvent(kind)
  PROVE  /\ Head(events).from \in born /\ Head(events).from \in Services
         /\ \A i \in DOMAIN events' : events'[i].from \in born
<1>1. events \in Seq([from : Services, what : Outputs]) /\ events # <<>> /\ events' = Tail(events)
  BY DEF FollowInv, NextEvent
<1>2. /\ 1 \in DOMAIN events /\ Head(events) = events[1]
      /\ events[1] \in [from : Services, what : Outputs]
      /\ \A i \in DOMAIN events' : i + 1 \in DOMAIN events /\ events'[i] = events[i + 1]
  <2> DEFINE E == [from : Services, what : Outputs]
  <2>1. events \in Seq(E)
    BY <1>1
  <2> HIDE DEF E
  <2>2. /\ 1 \in DOMAIN events /\ Head(events) = events[1] /\ events[1] \in E
        /\ \A i \in DOMAIN events' : i + 1 \in DOMAIN events /\ events'[i] = events[i + 1]
    BY <1>1, <2>1
  <2> QED
    BY <2>2 DEF E
<1> QED
  BY <1>2 DEF OrderInv

LEMMA OrderOverlord ==
  ASSUME FollowInv, OrderInv, born' = born, OverlordStep
  PROVE  OrderInv'
<1>1. UNCHANGED vars
  BY OverlordConforms
<1>2. CASE Autostart
  <2> DEFINE enabled == {s \in Services : plan[s].startup = "enabled"}
             ready == {s \in enabled : after_deps_running(snap, s)}
  <2>1. \A s \in ready : MayStart(s)
    BY SeenToRun DEF OrderInv
  <2>2. ScriptInOrder(script')
    BY <1>2, <2>1, SendsInOrder DEF Autostart
  <2> QED
    BY <1>2, <2>2, OrderDecides DEF Autostart, OrderInv
<1>3. CASE OnStateChanged
  <2> DEFINE s == Head(events).from
             st == Head(events).what.value
             sn == [snap EXCEPT ![s] = st]
             ready == {x \in pending : is_running(st) /\ after_deps_running(sn, x)}
             dependents == {x \in Services : /\ st \in {"Inactive", "Error"}
                                             /\ s \in plan[x].requires
                                             /\ is_running(sn[x])}
  <2>1. s \in born /\ s \in Services /\ \A i \in DOMAIN events' : events'[i].from \in born
    BY <1>3, TakesEvent DEF OnStateChanged
  <2>2. \A x \in Services : is_running(sn[x]) => x \in born
    BY <2>1 DEF OrderInv, FollowInv
  <2>3. \A x \in ready : MayStart(x)
    <3> HIDE DEF sn
    <3> QED
      BY <2>2, SeenToRun
  <2>4. ready \subseteq Services /\ dependents \subseteq Services
    BY DEF OrderInv
  <2>5. PICK starts \in SendAll("Start", ready), stops \in SendAll("Stop", dependents) :
          script' = starts \o stops
    BY <1>3 DEF OnStateChanged
  <2>6. ScriptInOrder(starts) /\ ScriptInOrder(stops)
    BY <2>3, <2>4, <2>5, SendsInOrder
  <2>7. ScriptInOrder(script')
    <3>1. /\ script' \in Seq(ScriptEntry) /\ Len(starts) \in Nat
          /\ \A i \in DOMAIN script' :
               \/ i \in DOMAIN starts /\ script'[i] = starts[i]
               \/ i - Len(starts) \in DOMAIN stops /\ script'[i] = stops[i - Len(starts)]
      BY <2>5, <2>6, ConcatProperties DEF ScriptInOrder
    <3> QED
      BY <2>6, <3>1 DEF ScriptInOrder
  <2>8. snap' = sn /\ pending' \subseteq pending /\ UNCHANGED <<plan, mailbox>>
    BY <1>3 DEF OnStateChanged
  <2> HIDE DEF sn
  <2> QED
    BY <1>1, <2>1, <2>2, <2>7, <2>8, OrderDecides DEF OrderInv
<1>4. CASE OnProcessExited
  <2>1. \A i \in DOMAIN events' : events'[i].from \in born
    BY <1>4, TakesEvent DEF OnProcessExited
  <2> QED
    BY <1>1, <1>4, <2>1, OrderDecides DEF OnProcessExited, overlordVars, OrderInv
<1>5. CASE OnDaemonShutdown
  <2>1. \A i \in DOMAIN events' : events'[i].from \in born
    BY <1>5, TakesEvent DEF OnDaemonShutdown
  <2> QED
    BY <1>1, <1>5, <2>1, OrderDecides DEF OnDaemonShutdown, OrderInv
<1>6. CASE ExitNext \/ Exit
  <2>1. ScriptInOrder(<<>>)
    BY DEF ScriptInOrder
  <2> QED
    BY <1>1, <1>6, <2>1, OrderDecides DEF ExitNext, Exit, OrderInv
<1>7. CASE SendNext
  <2>1. /\ script \in Seq(ScriptEntry) /\ script # <<>> /\ script' = Tail(script)
    BY <1>7 DEF SendNext, OrderInv, ScriptInOrder
  <2>2. /\ script' \in Seq(ScriptEntry)
        /\ \A i \in DOMAIN script' : i + 1 \in DOMAIN script /\ script'[i] = script[i + 1]
        /\ 1 \in DOMAIN script /\ Head(script) = script[1] /\ script[1] \in ScriptEntry
    BY <2>1
  <2>3. ScriptInOrder(script')
    BY <2>2 DEF OrderInv, ScriptInOrder
  <2>4. PICK s \in Services, cmd \in {"Start", "Stop", "ForwardSignal"} :
          /\ Put(s, cmd)
          /\ cmd = "Start" => MayStart(s)
    BY <1>7, <2>2, NoServiceAssumption DEF SendNext, ScriptEntry, OrderInv, ScriptInOrder
  <2>5. UNCHANGED <<plan, snap, pending, events>>
    BY <1>7 DEF SendNext
  <2> QED
    BY <1>1, <2>3, <2>4, <2>5, OrderPuts DEF MailCommands
<1>8. ASSUME NEW s \in Services, StopTaskSends(s)
      PROVE  OrderInv'
  <2>1. PICK cmd \in {"Stop", "Shutdown"} : Put(s, cmd)
    BY <1>8 DEF StopTaskSends
  <2>2. UNCHANGED <<plan, snap, pending, events, script>>
    BY <1>8 DEF StopTaskSends
  <2> QED
    BY <1>1, <2>1, <2>2, OrderPuts DEF MailCommands, OrderInv
<1> QED
  BY <1>2, <1>3, <1>4, <1>5, <1>6, <1>7, <1>8 DEF OverlordStep

LEMMA OrderEnvironment ==
  ASSUME OnlyAutostarts, OrderInv, born' = born, EnvironmentStep
  PROVE  OrderInv'
<1>1. UNCHANGED vars
  BY OverlordConforms
<1>2. ASSUME NEW action \in ServiceActions, NEW names \in Requestable,
             ServicesAction(action, names)
      PROVE  OrderInv'
  <2>1. action = "Stop"
    BY <1>2 DEF ServicesAction, Request, OnlyAutostarts, ServiceActions
  <2>2. ScriptInOrder(script')
    BY <1>2, <2>1, EachInOrder DEF ServicesAction, Requestable
  <2> QED
    BY <1>1, <1>2, <2>1, <2>2, OrderDecides DEF ServicesAction, OrderInv
<1>3. CASE ForwardSignal
  <2>1. ScriptInOrder(script')
    BY <1>3, SendsInOrder DEF ForwardSignal
  <2> QED
    BY <1>1, <1>3, <2>1, OrderDecides DEF ForwardSignal, OrderInv
<1>4. CASE DaemonStop
  BY <1>1, <1>4, OrderDecides DEF DaemonStop, OrderInv
<1>5. CASE OnCheckDown
  <2>1. \A s \in Services : plan[s].onCheckFailure # "restart"
    BY DEF OnlyAutostarts, OrderInv
  <2>2. ScriptInOrder(script')
    BY <1>5, <2>1, CheckEntries DEF ScriptInOrder
  <2> QED
    BY <1>1, <1>5, <2>2, OrderDecides DEF OnCheckDown, OrderInv
<1> QED
  BY <1>2, <1>3, <1>4, <1>5 DEF EnvironmentStep

\* What steps start comes after what it depends on.
LEMMA OrderStep ==
  ASSUME OnlyAutostarts, TypeOK, FollowInv, OrderInv, [SupNext]_supVars
  PROVE  OrderInv' /\ \A x \in born' \ born : Dependencies(x) \subseteq born
<1>1. CASE UNCHANGED supVars
  BY <1>1, OrderDecides DEF supVars, overlordVars, OrderInv
<1>2. CASE RecordsStarts /\ (OverlordStep \/ EnvironmentStep)
  <2>1. born' = born
    BY <1>2, OverlordConforms, NothingStarts DEF vars
  <2> QED
    BY <1>2, <2>1, OrderOverlord, OrderEnvironment
<1>3. ASSUME NEW s \in Services, ActorsStep(s), RecordsStarts
      PROVE  OrderInv' /\ \A x \in born' \ born : Dependencies(x) \subseteq born
  BY <1>3, OrderActors DEF MayStart
<1>4. ASSUME NEW s \in Services, ProcessesStep(s), RecordsStarts
      PROVE  OrderInv' /\ \A x \in born' \ born : Dependencies(x) \subseteq born
  <2>1. UNCHANGED <<actor, overlordVars, mailbox, events>>
    BY <1>4 DEF ProcessesStep, ProcessStep, ProcessExit
  <2>2. born' = born
    BY <1>4, <2>1, NothingStarts
  <2>3. OrderInv'
    BY <2>1, <2>2 DEF overlordVars, OrderInv, Untouched, ScriptInOrder, MailInOrder, MayStart, Dependencies
  <2> QED
    BY <2>2, <2>3
<1> QED
  BY <1>1, <1>2, <1>3, <1>4 DEF SupNext

LEMMA OrderInit ==
  ASSUME SupInit PROVE OrderInv
<1>1. \A s \in Services : actor[s] = NewActor /\ mailbox[s] = <<>> /\ snap[s] = "Inactive"
  BY DEF SupInit, Init
<1>2. /\ NewActor.state = "Inactive" /\ NewActor.child = NoPid /\ NewActor.todo = "none"
      /\ ~ NewActor.backoffSleep /\ NewActor.outbox = <<>>
  BY DEF NewActor
<1>3. ASSUME NEW s \in Services PROVE Untouched(s)
  <2>1. actor[s] = NewActor /\ DOMAIN NewActor.outbox = {}
    BY <1>1, <1>2
  <2> QED
    BY <1>2, <2>1 DEF Untouched
<1>4. ScriptInOrder(script) /\ \A s \in Services : MailInOrder(s)
  BY <1>1 DEF SupInit, ScriptInOrder, MailInOrder
<1> QED
  BY <1>1, <1>3, <1>4 DEF SupInit, OrderInv, is_running

LEMMA InOrder ==
  ASSUME OnlyAutostarts
  PROVE  SupSpec => []OrderInv
<1>1. SupInit => OrderInv
  BY OrderInit
<1>2. TypeOK /\ FollowInv /\ OrderInv /\ [SupNext]_supVars => OrderInv'
  BY OrderStep
<1> QED
  BY <1>1, <1>2, SupervisedActors, Followed, PTL DEF SupSpec

\* A service that has never been Active is at rest, or being launched for the
\* first time, or was launched in vain.
NeverActive(s) ==
  /\ actor[s].child = NoPid /\ ~ actor[s].backoffSleep
  /\ \/ actor[s].state \in {"Inactive", "Error"} /\ actor[s].todo = "none"
     \/ actor[s].state = "Starting" /\ actor[s].todo = "spawn_start"
  /\ s \in born => actor[s].state # "Inactive"

RanInv ==
  /\ born \subseteq Services
  /\ \A s \in Services : s \in ran \/ NeverActive(s)

\* What a step of such a service makes of it.
LEMMA NeverActiveActs ==
  ASSUME TypeOK, NEW s \in Services, NeverActive(s), RecordsStarts,
         Command(s) \/ ActorStep(s) \/ Deliver(s)
  PROVE  actor'[s].state = "Active" \/ NeverActive(s)'
<1> DEFINE a == actor[s]
<1>1. a \in Actor /\ a.child = NoPid /\ ~ a.backoffSleep
  BY DEF TypeOK, NeverActive
<1>2. s \in born' <=> s \in born \/ actor'[s].state = "Starting"
  BY DEF RecordsStarts
<1>3. CASE \/ a.state \in {"Inactive", "Error"} /\ (Start(s) \/ Restart(s))
           \/ Stop(s) \/ Shutdown(s)
  <2>1. a.todo = "none" /\ a.state \in {"Inactive", "Error"}
    BY <1>3 DEF Stop, Shutdown, AtSelect, NeverActive
  <2>2. \/ actor'[s] = [a EXCEPT !.state = "Starting", !.todo = "spawn_start",
                                 !.outbox = <<StateChanged("Starting")>>]
        \/ actor'[s] = [a EXCEPT !.outbox = <<Reply("ok")>>]
        \/ actor'[s] = [a EXCEPT !.phase = "gone"]
    BY <1>1, <1>3, <2>1
    DEF Start, Restart, handle_start, Stop, Shutdown, is_running, Become, TypeOK
  <2>3. /\ actor'[s].child = NoPid /\ ~ actor'[s].backoffSleep
        /\ \/ actor'[s].state = a.state /\ actor'[s].todo = "none"
           \/ actor'[s].state = "Starting" /\ actor'[s].todo = "spawn_start"
    BY <1>1, <2>1, <2>2 DEF Actor
  <2> QED
    BY <1>2, <2>1, <2>3 DEF NeverActive
<1>4. CASE DoStart(s)
  <2>1. a.state = "Starting" /\ a.todo = "spawn_start"
    BY <1>4 DEF DoStart, SpawnTodos, NeverActive
  <2>2. CASE \E p \in Pids : spawned(s, p)
    <3>1. PICK p \in Pids :
            actor'[s] = [[reset_backoff(a, config[s]) EXCEPT !.stopDeadline = "off"] EXCEPT
                           !.child = p, !.state = "Active", !.todo = "none",
                           !.outbox = <<StateChanged("Active")>> \o answer(a, "ok")]
      BY <2>1, <2>2 DEF spawned, after_start, Become, TypeOK
    <3> QED
      BY <1>1, <3>1 DEF Actor, reset_backoff
  <2>3. CASE spawn_failed(s)
    <3>1. actor'[s] = [a EXCEPT !.state = "Error", !.todo = "none",
                                !.outbox = <<StateChanged("Error")>> \o answer(a, "err")]
      BY <2>1, <2>3 DEF spawn_failed, after_start, Become, TypeOK
    <3>2. /\ actor'[s].state = "Error" /\ actor'[s].todo = "none"
          /\ actor'[s].child = NoPid /\ ~ actor'[s].backoffSleep
      BY <1>1, <3>1 DEF Actor
    <3> QED
      BY <3>2 DEF NeverActive
  <2> QED
    BY <1>4, <2>2, <2>3 DEF DoStart
<1>5. CASE KillDelayPasses(s) \/ KillDeadline(s) \/ CleanupKill(s) \/ CleanupReaped(s) \/ Deliver(s)
  <2>1. \/ actor'[s] = [a EXCEPT !.stopDeadline = "elapsed"]
        \/ actor'[s] = [a EXCEPT !.stopDeadline = "off"]
        \/ actor'[s] = [a EXCEPT !.phase = "reaping"]
        \/ actor'[s] = [a EXCEPT !.phase = "gone", !.child = NoPid]
        \/ actor'[s] = [a EXCEPT !.outbox = Tail(@)]
    BY <1>5 DEF Become, TypeOK, KillDelayPasses, KillDeadline, CleanupKill, CleanupReaped, Deliver
  <2>2. /\ actor'[s].state = a.state /\ actor'[s].child = NoPid /\ actor'[s].todo = a.todo
        /\ actor'[s].backoffSleep = a.backoffSleep
    BY <1>1, <2>1 DEF Actor
  <2> QED
    BY <1>1, <1>2, <2>2 DEF NeverActive
<1>6. ~ ChildExit(s) /\ ~ BackoffExpired(s) /\ ~ Relaunch(s)
  BY <1>1 DEF ChildExit, BackoffExpired, Relaunch, NeverActive
<1>7. (Start(s) \/ Restart(s)) => a.state \in {"Inactive", "Error"}
  BY DEF Start, Restart, AtSelect, NeverActive
<1> QED
  BY <1>3, <1>4, <1>5, <1>6, <1>7 DEF Command, ActorStep

\* No step forgets that a service was Active.
LEMMA RanStep ==
  ASSUME TypeOK, RanInv, [SupNext]_supVars
  PROVE  RanInv'
<1>1. CASE UNCHANGED supVars
  BY <1>1 DEF supVars, vars, RanInv, NeverActive
<1>2. ASSUME RecordsStarts, actor' = actor PROVE RanInv'
  <2>1. \A s \in Services : /\ s \in ran => s \in ran'
                           /\ s \in born' => s \in born \/ actor[s].state = "Starting"
    BY <1>2 DEF RecordsStarts
  <2> QED
    BY <1>2, <2>1 DEF RanInv, NeverActive, RecordsStarts
<1>3. ASSUME RecordsStarts, NEW s \in Services, ActorsStep(s) PROVE RanInv'
  <2>1. CASE UNCHANGED vars
    BY <1>2, <1>3, <2>1 DEF vars
  <2>2. CASE Command(s) \/ ActorStep(s) \/ Deliver(s)
    <3>1. /\ \A t \in Services : /\ t \in ran' <=> t \in ran \/ actor'[t].state = "Active"
                                 /\ t \in born' <=> t \in born \/ actor'[t].state = "Starting"
          /\ \A t \in Services \ {s} : actor'[t] = actor[t]
      BY <1>3, <2>2, StepFrame DEF RecordsStarts
    <3>2. s \in ran' \/ NeverActive(s)'
      BY <1>3, <2>2, <3>1, NeverActiveActs DEF RanInv
    <3>3. ASSUME NEW t \in Services \ {s} PROVE t \in ran' \/ NeverActive(t)'
      BY <3>1 DEF RanInv, NeverActive
    <3> QED
      BY <1>3, <3>2, <3>3 DEF RanInv, RecordsStarts
  <2> QED
    BY <1>3, <2>1, <2>2, ActorsStepConforms
<1>4. ASSUME NEW s \in Services, ProcessesStep(s) PROVE actor' = actor
  BY <1>4 DEF ProcessesStep, ProcessStep, ProcessExit
<1> QED
  BY <1>1, <1>2, <1>3, <1>4, OverlordConforms DEF SupNext, vars

-----------------------------------------------------------------------------
(* A service is autostarted once.                                          *)

MailedStarts(s) == {i \in DOMAIN mailbox[s] : mailbox[s][i] = "Start"}

\* The start of a service is still to be decided, is pending, is in the script, is
\* in the mailbox, or has been made: one of these at a time.
Once(s) ==
  /\ One(StartsIn(script, s))
  /\ StartsIn(script, s) # {} => s \notin born \cup pending /\ MailedStarts(s) = {}
  /\ One(MailedStarts(s))
  /\ MailedStarts(s) # {} => s \notin born \cup pending
  /\ s \in pending => s \notin born
  /\ daemon = "boot" => /\ s \notin born \cup pending
                        /\ StartsIn(script, s) = {} /\ MailedStarts(s) = {}

\* The first service to be born takes its start from the mailbox.
LEMMA BornOfStart ==
  ASSUME TypeOK, OrderInv, NEW s \in Services, ActorsStep(s), RecordsStarts
  PROVE  /\ born \subseteq born' /\ born' \subseteq born \cup {s}
         /\ s \in born' /\ s \notin born =>
              /\ mailbox[s] # <<>> /\ Head(mailbox[s]) = "Start"
              /\ mailbox'[s] = Tail(mailbox[s])
<1>1. \A t \in Services \ {s} : actor'[t] = actor[t]
  <2>1. Command(s) \/ ActorStep(s) \/ Deliver(s) \/ UNCHANGED vars
    BY ActorsStepConforms
  <2> QED
    BY <2>1, StepFrame DEF vars
<1>2. /\ born \subseteq born' /\ born' \subseteq born \cup {s}
      /\ s \in born' /\ s \notin born => actor'[s].state = "Starting"
  BY <1>1 DEF RecordsStarts, OrderInv, Untouched
<1>3. ASSUME s \notin born, actor'[s].state = "Starting"
      PROVE  /\ mailbox[s] # <<>> /\ Head(mailbox[s]) = "Start"
             /\ mailbox'[s] = Tail(mailbox[s])
  <2>1. Untouched(s)
    BY <1>3 DEF OrderInv
  <2>2. ~ Untouched(s)'
    BY <1>3 DEF Untouched
  <2>3. ~ (Stop(s) \/ Shutdown(s) \/ ActorStep(s) \/ Deliver(s) \/ UNCHANGED vars)
    BY <2>1, <2>2, UntouchedActs DEF vars, Untouched
  <2>4. ReceiveCommand(s)
    BY <2>3 DEF ActorsStep, ReactUnprompted, Continue, Emit, Answer, ActorStep
  <2>5. mailbox[s] # <<>> => mailbox[s][1] # "Restart" /\ Head(mailbox[s]) = mailbox[s][1]
    BY DEF OrderInv, MailInOrder
  <2> QED
    BY <2>3, <2>4, <2>5 DEF ReceiveCommand, Take, OrderInv
<1> QED
  BY <1>2, <1>3

\* What is left of the starts in a mailbox from which a command is taken.
LEMMA StartsLeft ==
  ASSUME NEW s \in Services, mailbox[s] \in Seq(MailCommands), mailbox[s] # <<>>,
         mailbox'[s] = Tail(mailbox[s]), One(MailedStarts(s))
  PROVE  /\ One(MailedStarts(s)')
         /\ MailedStarts(s) = {} => MailedStarts(s)' = {}
         /\ Head(mailbox[s]) = "Start" => MailedStarts(s) # {} /\ MailedStarts(s)' = {}
<1> DEFINE m == mailbox[s]
<1>1. /\ 1 \in DOMAIN m /\ Head(m) = m[1]
      /\ \A i \in DOMAIN Tail(m) : i \in Nat /\ i >= 1 /\ i + 1 \in DOMAIN m
                                     /\ Tail(m)[i] = m[i + 1]
  OBVIOUS
<1>2. \A i \in MailedStarts(s)' : i \in Nat /\ i >= 1 /\ i + 1 \in MailedStarts(s)
  BY <1>1 DEF MailedStarts
<1>3. One(MailedStarts(s)')
  <2> SUFFICES ASSUME NEW i \in MailedStarts(s)', NEW j \in MailedStarts(s)' PROVE i = j
    BY DEF One
  <2>1. i + 1 = j + 1
    BY <1>2 DEF One
  <2> QED
    BY <1>2, <2>1
<1>4. m[1] = "Start" => 1 \in MailedStarts(s) /\ MailedStarts(s)' = {}
  <2> SUFFICES ASSUME m[1] = "Start", NEW i \in MailedStarts(s)' PROVE FALSE
    BY <1>1 DEF MailedStarts
  <2>1. 1 \in MailedStarts(s)
    BY <1>1 DEF MailedStarts
  <2>2. i + 1 = 1
    BY <1>2, <2>1 DEF One
  <2> QED
    BY <1>2, <2>2
<1> QED
  BY <1>1, <1>2, <1>3, <1>4

\* The actors: a start leaves the mailbox as its service is born.
LEMMA OnceActors ==
  ASSUME TypeOK, OrderInv, \A t \in Services : Once(t),
         NEW s \in Services, ActorsStep(s), RecordsStarts
  PROVE  \A t \in Services : Once(t)'
<1>1. UNCHANGED <<script, pending, daemon>>
  BY DEF ActorsStep, ReceiveCommand, ReactUnprompted, Continue, Emit, Answer, overlordVars
<1>2. /\ \A t \in Services \ {s} : mailbox'[t] = mailbox[t]
      /\ \/ mailbox'[s] = mailbox[s]
         \/ mailbox[s] # <<>> /\ mailbox'[s] = Tail(mailbox[s])
  <2>1. mailbox' = mailbox \/ (mailbox[s] # <<>> /\ Take(s))
    BY DEF ActorsStep, ReceiveCommand, ReactUnprompted, Continue, Emit, Answer
  <2> QED
    BY <2>1 DEF OrderInv, Take
<1>3. /\ born \subseteq born' /\ born' \subseteq born \cup {s}
      /\ s \in born' /\ s \notin born =>
           /\ mailbox[s] # <<>> /\ Head(mailbox[s]) = "Start"
           /\ mailbox'[s] = Tail(mailbox[s])
  BY BornOfStart
<1>4. \A t \in Services : StartsIn(script, t)' = StartsIn(script, t)
  BY <1>1 DEF StartsIn
<1>5. ASSUME NEW t \in Services \ {s} PROVE Once(t)'
  <2>1. MailedStarts(t)' = MailedStarts(t) /\ (t \in born' <=> t \in born)
    BY <1>2, <1>3 DEF MailedStarts
  <2> QED
    BY <1>1, <1>4, <2>1 DEF Once
<1>6. Once(s)'
  <2>1. CASE s \in born' /\ s \notin born
    <3>1. MailedStarts(s) # {} /\ MailedStarts(s)' = {}
      BY <1>3, <2>1, StartsLeft DEF OrderInv, MailInOrder, Once
    <3> QED
      BY <1>1, <1>4, <3>1 DEF Once, One
  <2>2. CASE s \in born' <=> s \in born
    <3>1. One(MailedStarts(s)') /\ (MailedStarts(s) = {} => MailedStarts(s)' = {})
      <4>1. CASE mailbox'[s] = mailbox[s]
        BY <4>1 DEF MailedStarts, Once
      <4>2. CASE mailbox[s] # <<>> /\ mailbox'[s] = Tail(mailbox[s])
        BY <4>2, StartsLeft DEF OrderInv, MailInOrder, Once
      <4> QED
        BY <1>2, <4>1, <4>2
    <3> QED
      BY <1>1, <1>4, <2>2, <3>1 DEF Once
  <2> QED
    BY <1>3, <2>1, <2>2
<1> QED
  BY <1>5, <1>6

\* The overlord gives itself a script.
LEMMA OnceDecides ==
  ASSUME NEW s \in Services, Once(s), UNCHANGED <<mailbox, born>>, daemon' # "boot",
         One(StartsIn(script', s)),
         StartsIn(script', s) # {} => s \notin born \cup pending' /\ MailedStarts(s) = {},
         s \in pending' => s \notin born /\ MailedStarts(s) = {}
  PROVE  Once(s)'
<1>1. MailedStarts(s)' = MailedStarts(s) /\ StartsIn(script, s)' = StartsIn(script', s)
  BY DEF MailedStarts, StartsIn
<1> QED
  BY <1>1 DEF Once

\* A script without starts is of no concern, nor is what goes with it.
LEMMA OnceIdles ==
  ASSUME NEW s \in Services, Once(s), UNCHANGED <<mailbox, born, pending>>, daemon' # "boot",
         script' = script \/ \A i \in DOMAIN script' : script'[i].do # "Start"
  PROVE  Once(s)'
<1>1. One(StartsIn(script', s)) /\ (StartsIn(script', s) # {} => StartsIn(script, s) # {})
  BY DEF StartsIn, Send, One, Once
<1> QED
  BY <1>1, OnceDecides DEF Once

\* What the overlord and the tasks of stop_all put into the mailboxes.
LEMMA OncePuts ==
  ASSUME OrderInv, NEW s \in Services, Once(s), NEW t \in Services,
         NEW cmd \in MailCommands \ {"Restart"}, Put(t, cmd),
         UNCHANGED <<born, pending, daemon>>, daemon # "boot",
         \/ script' = script /\ cmd # "Start"
         \/ /\ script \in Seq(ScriptEntry) /\ script # <<>> /\ script' = Tail(script)
            /\ Head(script) = Send(cmd, t)
  PROVE  Once(s)'
<1>1. /\ One(StartsIn(script', s))
      /\ StartsIn(script', s) # {} => StartsIn(script, s) # {}
      /\ cmd = "Start" /\ t = s => StartsIn(script, s) # {} /\ StartsIn(script', s) = {}
  <2>1. CASE script' = script /\ cmd # "Start"
    BY <2>1 DEF StartsIn, Once
  <2>2. CASE /\ script \in Seq(ScriptEntry) /\ script # <<>> /\ script' = Tail(script)
             /\ Head(script) = Send(cmd, t)
    <3>1. /\ 1 \in DOMAIN script /\ Head(script) = script[1]
          /\ \A i \in DOMAIN script' : i \in Nat /\ i >= 1 /\ i + 1 \in DOMAIN script
                                         /\ script'[i] = script[i + 1]
      BY <2>2
    <3>2. \A i \in StartsIn(script', s) : i \in Nat /\ i >= 1 /\ i + 1 \in StartsIn(script, s)
      BY <3>1 DEF StartsIn
    <3>3. One(StartsIn(script', s))
      <4> SUFFICES ASSUME NEW i \in StartsIn(script', s), NEW j \in StartsIn(script', s)
                   PROVE  i = j
        BY DEF One
      <4>1. i + 1 = j + 1
        BY <3>2 DEF One, Once
      <4> QED
        BY <3>2, <4>1
    <3>4. ASSUME cmd = "Start", t = s
          PROVE  1 \in StartsIn(script, s) /\ StartsIn(script', s) = {}
      <4>1. 1 \in StartsIn(script, s)
        BY <2>2, <3>1, <3>4 DEF StartsIn
      <4>2. ASSUME NEW i \in StartsIn(script', s) PROVE FALSE
        <5>1. i + 1 = 1
          BY <3>2, <4>1 DEF One, Once
        <5> QED
          BY <3>2, <5>1
      <4> QED
        BY <4>1, <4>2
    <3> QED
      BY <3>2, <3>3, <3>4
  <2> QED
    BY <2>1, <2>2
<1>2. StartsIn(script, s)' = StartsIn(script', s)
  BY DEF StartsIn
<1>3. CASE t = s /\ cmd = "Start"
  <2>1. MailedStarts(s) = {} /\ s \notin born \cup pending
    BY <1>1, <1>3 DEF Once
  <2>2. /\ mailbox'[s] = Append(mailbox[s], cmd) /\ mailbox[s] \in Seq(MailCommands)
    BY <1>3 DEF Put, OrderInv, MailInOrder
  <2>3. \A i \in DOMAIN mailbox'[s] :
          \/ i = Len(mailbox[s]) + 1
          \/ i \in DOMAIN mailbox[s] /\ mailbox'[s][i] = mailbox[s][i]
    BY <2>2
  <2>4. \A i \in MailedStarts(s)' : i = Len(mailbox[s]) + 1
    BY <2>1, <2>3 DEF MailedStarts
  <2> QED
    BY <1>1, <1>2, <1>3, <2>1, <2>4 DEF Once, One
<1>4. CASE t # s \/ cmd # "Start"
  <2>1. MailedStarts(s)' = MailedStarts(s)
    <3>1. CASE t # s
      <4>1. mailbox'[s] = mailbox[s]
        BY <3>1 DEF Put, OrderInv
      <4> QED
        BY <4>1 DEF MailedStarts
    <3>2. CASE t = s /\ cmd # "Start"
      <4>1. /\ mailbox'[s] = Append(mailbox[s], cmd) /\ mailbox[s] \in Seq(MailCommands)
        BY <3>2 DEF Put, OrderInv, MailInOrder
      <4>2. /\ \A i \in DOMAIN mailbox[s] : i \in DOMAIN mailbox'[s]
            /\ \A i \in DOMAIN mailbox'[s] :
                 \/ mailbox'[s][i] = cmd /\ i \notin DOMAIN mailbox[s]
                 \/ i \in DOMAIN mailbox[s] /\ mailbox'[s][i] = mailbox[s][i]
        BY <4>1
      <4> QED
        BY <3>2, <4>2 DEF MailedStarts
    <3> QED
      BY <1>4, <3>1, <3>2
  <2> QED
    BY <1>1, <1>2, <2>1 DEF Once
<1> QED
  BY <1>3, <1>4

LEMMA OnceOverlord ==
  ASSUME FollowInv, OrderInv, born' = born, OverlordStep, NEW s \in Services, Once(s)
  PROVE  Once(s)'
<1>1. CASE Autostart
  <2> DEFINE enabled == {x \in Services : plan[x].startup = "enabled"}
             ready == {x \in enabled : after_deps_running(snap, x)}
  <2>1. /\ daemon = "boot" /\ daemon' = "run" /\ script' \in SendAll("Start", ready)
        /\ pending' = pending \cup (enabled \ ready) /\ mailbox' = mailbox
    BY <1>1 DEF Autostart
  <2>2. s \notin born \cup pending /\ MailedStarts(s) = {}
    BY <2>1 DEF Once
  <2>3. One(StartsIn(script', s)) /\ (StartsIn(script', s) # {} => s \in ready)
    <3> HIDE DEF ready
    <3>1. ready \subseteq Services
      BY DEF ready
    <3> QED
      BY <2>1, <3>1, SendsOnce
  <2> HIDE DEF ready, enabled
  <2> QED
    BY <2>1, <2>2, <2>3, OnceDecides
<1>2. CASE OnStateChanged
  <2> DEFINE st == Head(events).what.value
             sn == [snap EXCEPT ![Head(events).from] = st]
             ready == {x \in pending : is_running(st) /\ after_deps_running(sn, x)}
             dependents == {x \in Services : /\ st \in {"Inactive", "Error"}
                                             /\ Head(events).from \in plan[x].requires
                                             /\ is_running(sn[x])}
  <2>1. /\ daemon = "run" /\ daemon' = daemon /\ pending' = pending \ ready
        /\ mailbox' = mailbox
        /\ \E starts \in SendAll("Start", ready), stops \in SendAll("Stop", dependents) :
             script' = starts \o stops
    BY <1>2 DEF OnStateChanged, NextEvent, OverlordAtSelect
  <2>2. ready \subseteq pending /\ ready \subseteq Services /\ dependents \subseteq Services
    BY DEF OrderInv
  <2> HIDE DEF ready, dependents
  <2>3. PICK starts \in SendAll("Start", ready), stops \in SendAll("Stop", dependents) :
          script' = starts \o stops
    BY <2>1
  <2>4. /\ One(StartsIn(starts, s)) /\ (StartsIn(starts, s) # {} => s \in ready)
        /\ StartsIn(stops, s) = {}
    BY <2>2, SendsOnce
  <2>5. starts \in Seq(ScriptEntry) /\ stops \in Seq(ScriptEntry)
    BY <2>2, SendsAreEntries
  <2>6. \A i \in DOMAIN script' :
          \/ i \in DOMAIN starts /\ script'[i] = starts[i]
          \/ i - Len(starts) \in DOMAIN stops /\ script'[i] = stops[i - Len(starts)]
    BY <2>3, <2>5, ConcatProperties
  <2>7. \A i \in StartsIn(script', s) : i \in StartsIn(starts, s)
    BY <2>4, <2>6 DEF StartsIn
  <2>8. One(StartsIn(script', s)) /\ (StartsIn(script', s) # {} => s \in ready)
    BY <2>4, <2>7 DEF One
  <2> QED
    BY <2>1, <2>2, <2>8, OnceDecides DEF Once
<1>3. CASE OnProcessExited \/ OnDaemonShutdown \/ ExitNext \/ Exit
  <2>1. /\ UNCHANGED <<mailbox, born, pending>> /\ daemon' # "boot"
        /\ script' = script \/ script' = <<>>
    BY <1>3 DEF OnProcessExited, OnDaemonShutdown, ExitNext, Exit, NextEvent,
                OverlordAtSelect, StopAll, overlordVars
  <2>2. DOMAIN <<>> = {}
    OBVIOUS
  <2> QED
    BY <2>1, <2>2, OnceIdles
<1>4. CASE SendNext
  <2>1. /\ script \in Seq(ScriptEntry) /\ script # <<>> /\ script' = Tail(script)
        /\ Head(script) = script[1] /\ script[1] \in ScriptEntry
    <3>1. script \in Seq(ScriptEntry) /\ script # <<>> /\ script' = Tail(script)
      BY <1>4 DEF SendNext, OrderInv, ScriptInOrder
    <3> QED
      BY <3>1
  <2>2. PICK t \in Services, cmd \in {"Start", "Stop", "ForwardSignal"} :
          Put(t, cmd) /\ Head(script) = Send(cmd, t)
    BY <1>4, <2>1, NoServiceAssumption DEF SendNext, ScriptEntry, Send
  <2>3. UNCHANGED <<pending, daemon>> /\ daemon # "boot"
    BY <1>4 DEF SendNext
  <2>4. cmd \in MailCommands \ {"Restart"}
    BY DEF MailCommands
  <2> QED
    BY <2>1, <2>2, <2>3, <2>4, OncePuts
<1>5. ASSUME NEW t \in Services, StopTaskSends(t)
      PROVE  Once(s)'
  <2>1. PICK cmd \in {"Stop", "Shutdown"} : Put(t, cmd)
    BY <1>5 DEF StopTaskSends
  <2>2. UNCHANGED <<pending, daemon, script>> /\ daemon # "boot"
    BY <1>5 DEF StopTaskSends
  <2>3. cmd \in MailCommands \ {"Restart"} /\ cmd # "Start"
    BY DEF MailCommands
  <2> QED
    BY <2>1, <2>2, <2>3, OncePuts
<1> QED
  BY <1>1, <1>2, <1>3, <1>4, <1>5 DEF OverlordStep

LEMMA OnceEnvironment ==
  ASSUME OnlyAutostarts, OrderInv, born' = born, EnvironmentStep, NEW s \in Services, Once(s)
  PROVE  Once(s)'
<1>1. UNCHANGED <<mailbox, pending>> /\ daemon' # "boot"
  BY DEF EnvironmentStep, ServicesAction, ForwardSignal, DaemonStop, OnCheckDown, Request,
         OverlordAtSelect, StopAll
<1>2. script' = script \/ \A i \in DOMAIN script' : script'[i].do # "Start"
  <2>1. ASSUME NEW cmd \in {"Stop", "ForwardSignal"}, NEW S, script' \in SendAll(cmd, S)
        PROVE  \A i \in DOMAIN script' : script'[i].do # "Start"
    BY <2>1 DEF SendAll, SendEach, Send
  <2>2. ASSUME NEW action \in ServiceActions, NEW names \in Requestable,
               ServicesAction(action, names)
        PROVE  \A i \in DOMAIN script' : script'[i].do # "Start"
    <3>1. script' = SendEach("Stop", names)
      BY <2>2 DEF ServicesAction, Request, OnlyAutostarts, ServiceActions
    <3> QED
      BY <3>1, EachIsEntry DEF Requestable
  <2>3. CASE OnCheckDown
    <3>1. \A x \in Services : plan[x].onCheckFailure # "restart"
      BY DEF OnlyAutostarts, OrderInv
    <3> QED
      BY <2>3, <3>1, CheckEntries
  <2>4. CASE ForwardSignal \/ DaemonStop
    BY <2>1, <2>4 DEF ForwardSignal, DaemonStop
  <2> QED
    BY <2>1, <2>2, <2>3, <2>4 DEF EnvironmentStep
<1> QED
  BY <1>1, <1>2, OnceIdles

LEMMA OnceStep ==
  ASSUME OnlyAutostarts, TypeOK, FollowInv, OrderInv, \A s \in Services : Once(s),
         [SupNext]_supVars
  PROVE  \A s \in Services : Once(s)'
<1>1. ASSUME UNCHANGED <<script, pending, daemon, mailbox, born>>
      PROVE  \A s \in Services : Once(s)'
  BY <1>1 DEF Once, StartsIn, MailedStarts
<1>2. CASE UNCHANGED supVars
  BY <1>1, <1>2 DEF supVars, overlordVars
<1>3. CASE RecordsStarts /\ (OverlordStep \/ EnvironmentStep)
  <2>1. born' = born
    BY <1>3, OverlordConforms, NothingStarts DEF vars
  <2> QED
    BY <1>3, <2>1, OnceOverlord, OnceEnvironment
<1>4. ASSUME NEW s \in Services, ActorsStep(s), RecordsStarts
      PROVE  \A t \in Services : Once(t)'
  BY <1>4, OnceActors
<1>5. ASSUME NEW s \in Services, ProcessesStep(s), RecordsStarts
      PROVE  \A t \in Services : Once(t)'
  <2>1. UNCHANGED <<actor, overlordVars, mailbox>>
    BY <1>5 DEF ProcessesStep, ProcessStep, ProcessExit
  <2>2. born' = born
    BY <1>5, <2>1, NothingStarts
  <2> QED
    BY <1>1, <2>1, <2>2 DEF overlordVars
<1> QED
  BY <1>2, <1>3, <1>4, <1>5 DEF SupNext

LEMMA OnceInit ==
  ASSUME SupInit
  PROVE  \A s \in Services : Once(s)
<1>1. /\ script = <<>> /\ pending = {} /\ born = {}
      /\ \A s \in Services : mailbox[s] = <<>>
  BY DEF SupInit
<1>2. DOMAIN <<>> = {}
  OBVIOUS
<1> QED
  BY <1>1, <1>2 DEF Once, One, StartsIn, MailedStarts

LEMMA StartedOnce ==
  ASSUME OnlyAutostarts
  PROVE  SupSpec => []\A s \in Services : Once(s)
<1>1. SupInit => \A s \in Services : Once(s)
  BY OnceInit
<1>2. TypeOK /\ FollowInv /\ OrderInv /\ (\A s \in Services : Once(s)) /\ [SupNext]_supVars
        => (\A s \in Services : Once(s))'
  BY OnceStep
<1> QED
  BY <1>1, <1>2, SupervisedActors, Followed, InOrder, PTL DEF SupSpec

-----------------------------------------------------------------------------
(* The overlord is a patient client, when no service is retried or when    *)
(* nobody starts a service that waits for its retry.                       *)

\* No configuration has the policy `restart'.
NoRetries == \A c \in Configs : c.onSuccess # "restart" /\ c.onFailure # "restart"

NoBackoff == \A s \in Services : actor[s].state # "Backoff"

LEMMA NoBackoffStep ==
  ASSUME NoRetries, TypeOK, NoBackoff, [Next]_vars
  PROVE  NoBackoff'
<1>1. CASE UNCHANGED vars
  BY <1>1 DEF vars, NoBackoff
<1>2. ASSUME NEW s \in Services, Command(s) \/ ActorStep(s) \/ Deliver(s) \/ ProcessStep(s)
      PROVE  NoBackoff'
  <2> DEFINE a == actor[s]
  <2>1. a \in Actor /\ config[s] \in Configs /\ a.state # "Backoff"
    BY DEF TypeOK, NoBackoff
  <2>2. \A t \in Services \ {s} : actor'[t] = actor[t]
    BY <1>2, StepFrame
  <2>3. actor'[s].state # "Backoff"
    <3> USE <2>1 DEF Become, TypeOK, Actor
    <3>1. ASSUME handle_start(s) PROVE actor'[s].state # "Backoff"
      BY <3>1, ZenonT(40) DEF handle_start
    <3>2. ASSUME NEW restart, begin_stop(s, restart) PROVE actor'[s].state # "Backoff"
      BY <3>2 DEF begin_stop
    <3>3. CASE Start(s) \/ Restart(s)
      BY <3>1, <3>2, <3>3 DEF Start, Restart
    <3>4. CASE Stop(s)
      BY <3>2, <3>4 DEF Stop
    <3>5. CASE Shutdown(s)
      BY <3>5 DEF Shutdown
    <3>6. CASE ChildExit(s)
      <4>1. CASE exit_while_stopping(s)
        BY <4>1 DEF exit_while_stopping
      <4>2. ASSUME NEW policy, NEW success \in BOOLEAN, policy # "restart",
                   exit_by_itself(s, policy, success)
            PROVE  actor'[s].state # "Backoff"
        BY ZenonT(40), <4>2 DEF exit_by_itself
      <4> QED
        BY <3>6, <4>1, <4>2 DEF ChildExit, NoRetries
    <3>7. CASE KillDelayPasses(s) \/ KillDeadline(s)
      BY <3>7 DEF KillDelayPasses, KillDeadline
    <3>8. CASE BackoffExpired(s)
      BY <3>8 DEF BackoffExpired
    <3>9. CASE Relaunch(s)
      BY <3>9 DEF Relaunch
    <3>10. CASE DoStart(s)
      <4>1. after_start(a, config[s], TRUE) \in Actor /\ after_start(a, config[s], FALSE) \in Actor
        BY <3>10, AfterStartType DEF DoStart
      <4>2. CASE spawn_failed(s)
        BY <4>1, <4>2 DEF spawn_failed
      <4>3. ASSUME NEW p \in Pids, spawned(s, p) PROVE actor'[s].state # "Backoff"
        BY <4>1, <4>3 DEF spawned
      <4> QED
        BY <3>10, <4>2, <4>3 DEF DoStart
    <3>11. CASE CleanupKill(s) \/ CleanupReaped(s)
      <4>1. CASE CleanupKill(s)
        BY <4>1 DEF CleanupKill
      <4>2. CASE CleanupReaped(s)
        BY <4>2 DEF CleanupReaped
      <4> QED
        BY <3>11, <4>1, <4>2
    <3>12. CASE Deliver(s)
      BY <3>12 DEF Deliver
    <3>13. CASE ProcessStep(s)
      BY <3>13 DEF ProcessStep, ProcessExit
    <3> QED
      BY <1>2, <3>3, <3>4, <3>5, <3>6, <3>7, <3>8, <3>9, <3>10, <3>11, <3>12, <3>13
         DEF Command, ActorStep
  <2> QED
    BY <2>2, <2>3 DEF NoBackoff
<1> QED
  BY <1>1, <1>2 DEF Next

LEMMA NeverBackoff ==
  ASSUME NoRetries
  PROVE  SupSpec => []NoBackoff
<1>1. SupInit => NoBackoff
  <2>1. SupInit => \A s \in Services : actor[s] = NewActor
    BY ZenonT(40) DEF SupInit, Init
  <2>2. NewActor.state = "Inactive"
    BY DEF NewActor
  <2> QED
    BY <2>1, <2>2 DEF NoBackoff
<1>2. TypeOK /\ NoBackoff /\ [SupNext]_supVars => NoBackoff'
  BY StepConforms, NoBackoffStep
<1> QED
  BY <1>1, <1>2, SupervisedActors, PTL DEF SupSpec

\* The one start of a service comes when it was never started, so that it has
\* nothing to retry.
LEMMA AutostartsArePatient ==
  ASSUME OnlyAutostarts, TypeOK, OrderInv, \A s \in Services : Once(s), [SupNext]_supVars
  PROVE  [PatientNext]_vars
<1>1. ASSUME NEW s \in Services, ReceiveCommand(s)
      PROVE  PatientCommand(s) \/ UNCHANGED vars
  <2>1. /\ mailbox[s] # <<>> /\ mailbox[s] \in Seq(MailCommands)
        /\ 1 \in DOMAIN mailbox[s] /\ Head(mailbox[s]) = mailbox[s][1]
    <3>1. mailbox[s] # <<>> /\ mailbox[s] \in Seq(MailCommands)
      BY <1>1 DEF ReceiveCommand, OrderInv, MailInOrder
    <3> QED
      BY <3>1
  <2>2. Head(mailbox[s]) # "Restart"
    BY <2>1 DEF OrderInv, MailInOrder
  <2>3. CASE Head(mailbox[s]) = "Start"
    <3>1. s \notin born
      BY <2>1, <2>3 DEF MailedStarts, Once
    <3>2. actor[s].state # "Backoff"
      BY <3>1 DEF OrderInv, Untouched
    <3> QED
      BY <1>1, <2>3, <3>2 DEF ReceiveCommand, PatientCommand
  <2>4. CASE Head(mailbox[s]) # "Start"
    BY <1>1, <2>2, <2>4 DEF ReceiveCommand, PatientCommand
  <2> QED
    BY <2>3, <2>4
<1>2. ASSUME NEW s \in Services, ActorsStep(s)
      PROVE  [PatientNext]_vars
  BY <1>1, <1>2 DEF ActorsStep, ReactUnprompted, Continue, Emit, Answer, ActorStep, PatientNext
<1>3. ASSUME NEW s \in Services, ProcessesStep(s)
      PROVE  [PatientNext]_vars
  BY <1>3 DEF ProcessesStep, PatientNext
<1>4. CASE OverlordStep \/ EnvironmentStep \/ UNCHANGED supVars
  BY <1>4, OverlordConforms DEF supVars
<1> QED
  BY <1>2, <1>3, <1>4 DEF SupNext

\* What the overlord needs for its patience: a plan without retries, whatever it is
\* asked to do, or that it starts nothing but what it autostarts.
Patience == NoRetries \/ OnlyAutostarts

\* Then what ServiceActor promises to patient clients holds under the overlord.
THEOREM OverlordIsPatient ==
  ASSUME Patience
  PROVE  SupSpec => PatientSpec
<1>1. SupInit => Init
  BY DEF SupInit
<1>2. CASE NoRetries
  <2>1. NoBackoff /\ [SupNext]_supVars => [PatientNext]_vars
    <3> SUFFICES ASSUME NoBackoff, [Next]_vars PROVE [PatientNext]_vars
      BY StepConforms
    <3> QED
      BY DEF NoBackoff, Next, PatientNext, PatientCommand, Command
  <2>2. SupSpec => []NoBackoff
    BY <1>2, NeverBackoff
  <2> QED
    BY <1>1, <2>1, <2>2, PTL DEF SupSpec, PatientSpec
<1>3. CASE OnlyAutostarts
  <2>1. TypeOK /\ OrderInv /\ (\A s \in Services : Once(s)) /\ [SupNext]_supVars
          => [PatientNext]_vars
    BY <1>3, AutostartsArePatient
  <2>2. SupSpec => []OrderInv
    BY <1>3, InOrder
  <2>3. SupSpec => []\A s \in Services : Once(s)
    BY <1>3, StartedOnce
  <2> QED
    BY <1>1, <2>1, <2>2, <2>3, SupervisedActors, PTL DEF SupSpec, PatientSpec
<1> QED
  BY <1>2, <1>3 DEF Patience

\* So each service has one process at most, none when its actor is gone, and its
\* actor runs no timer behind its state.
THEOREM SupervisedProcesses ==
  ASSUME Patience
  PROVE  SupSpec => [](SingleProcess /\ NothingBehindState)
BY OverlordIsPatient, OneProcess, NothingBehind, PTL

\* And the composed system, overlord, mailboxes and channel included, implements
\* the lifecycle of ServiceLifecycle for all of its services.
THEOREM SupervisedLifecycle ==
  ASSUME Patience
  PROVE  SupSpec => LifecycleSpec
BY OverlordIsPatient, Refinement, PTL

-----------------------------------------------------------------------------
(* Commands and replies.                                                   *)

\* The commands that an actor answers.
Answered == {"Start", "Stop", "Restart"}

\* The entries of all scripts, restarts included.
AnyEntry == [do : Answered \cup {"ForwardSignal"}, to : Services]
              \cup [do : {"0", "10"}, to : {NoService}]

RepliesIn(q) == {i \in DOMAIN q : q[i].kind = "reply"}

Replies(s) == RepliesIn(actor[s].outbox)

\* The commands in the mailbox that will be answered.
Mail(s) == {i \in DOMAIN mailbox[s] : mailbox[s][i] \in Answered}

\* A command that was taken is answered once, and by handle_start only when
\* do_start is over.
ActorOwes(s) ==
  /\ One(Replies(s))
  /\ actor[s].todo = "spawn_start" => Replies(s) = {}

\* No answer is on its way from the actor.
OwesNothing(s) == actor[s].todo # "spawn_start" /\ Replies(s) = {}

\* The overlord, or the service's task of stop_all, is at reply_rx.await.
Awaited(s) == waiting = s \/ stopTask[s] = "await"

\* The actor has left its loop, or will with a command that is in its mailbox.
Leaving(s) ==
  \/ actor[s].phase # "run"
  \/ \E i \in DOMAIN mailbox[s] : mailbox[s][i] = "Shutdown"

\* While somebody awaits a reply, and only then, one command is under way: in the
\* mailbox, in its handler, or as its reply; and the actor is there to answer it.
Protocol(s) ==
  /\ One(Mail(s))
  /\ ActorOwes(s)
  /\ Mail(s) # {} => OwesNothing(s)
  /\ Awaited(s) <=> (Mail(s) # {} \/ ~ OwesNothing(s))
  /\ Leaving(s) => stopTask[s] = "done"

\* stop_all runs when the overlord has no handler in progress, and the daemon
\* exits when its tasks are over.
DaemonInv ==
  /\ daemon # "run" => waiting = NoService
  /\ \A s \in Services : stopTask[s] # "idle" => daemon \in {"stop_all", "exited"}
  /\ daemon = "exited" => \A s \in Services : stopTask[s] = "done"

OverlordTypes ==
  /\ plan \in [Services -> PlanEntry]
  /\ waiting \in Services \cup {NoService}
  /\ stopTask \in [Services -> {"idle", "start", "await", "reply", "done"}]
  /\ mailbox \in [Services -> Seq(MailCommands)]
  /\ script \in Seq(AnyEntry)
  /\ pending \subseteq Services

ReplyInv ==
  /\ OverlordTypes
  /\ DaemonInv
  /\ \A s \in Services : Protocol(s)

-----------------------------------------------------------------------------
(* How the actors answer.                                                  *)

\* A handler's outbox holds one reply, or none.
LEMMA OneReply ==
  ASSUME NEW q, NEW x, NEW y, NEW r,
         x.kind # "reply", y.kind # "reply",
         \/ q = <<>>
         \/ q = <<x>>
         \/ q = <<x, y>>
         \/ q = <<Reply(r)>>
         \/ q = <<x, Reply(r)>>
  PROVE  /\ One(RepliesIn(q))
         /\ q \in {<<>>, <<x>>, <<x, y>>} => RepliesIn(q) = {}
         /\ q \in {<<Reply(r)>>, <<x, Reply(r)>>} => RepliesIn(q) # {}
<1>1. Reply(r).kind = "reply"
  BY DEF Reply
<1>2. CASE q = <<>> \/ q = <<x>> \/ q = <<x, y>>
  <2>1. \A i \in DOMAIN q : q[i] = x \/ q[i] = y
    <3>1. CASE q = <<>>
      BY <3>1
    <3>2. CASE q = <<x>>
      BY <3>2
    <3>3. CASE q = <<x, y>>
      <4>1. DOMAIN q = {1, 2} /\ q[1] = x /\ q[2] = y
        BY <3>3
      <4> QED
        BY <4>1
    <3> QED
      BY <1>2, <3>1, <3>2, <3>3
  <2>2. RepliesIn(q) = {}
    BY <2>1 DEF RepliesIn
  <2>3. q # <<Reply(r)>> /\ q # <<x, Reply(r)>>
    <3>1. /\ <<Reply(r)>>[1] = Reply(r) /\ 1 \in DOMAIN <<Reply(r)>>
          /\ <<x, Reply(r)>>[2] = Reply(r) /\ 2 \in DOMAIN <<x, Reply(r)>>
      OBVIOUS
    <3> QED
      BY <1>1, <2>1, <3>1
  <2> QED
    BY <2>2, <2>3 DEF One
<1>3. ASSUME NEW n \in {1, 2}, n \in DOMAIN q, q[n] = Reply(r),
             \A i \in DOMAIN q : i # n => q[i] = x
      PROVE  One(RepliesIn(q)) /\ RepliesIn(q) # {} /\ q \notin {<<>>, <<x>>, <<x, y>>}
  <2>1. RepliesIn(q) = {n}
    BY <1>1, <1>3 DEF RepliesIn
  <2>2. q \notin {<<>>, <<x>>, <<x, y>>}
    <3>1. DOMAIN <<>> = {} /\ DOMAIN <<x>> = {1} /\ <<x>>[1] = x
      OBVIOUS
    <3>2. <<x, y>>[1] = x /\ <<x, y>>[2] = y
      OBVIOUS
    <3> QED
      BY <1>1, <1>3, <3>1, <3>2
  <2> QED
    BY <2>1, <2>2 DEF One
<1>4. CASE q = <<Reply(r)>>
  <2>1. DOMAIN q = {1} /\ q[1] = Reply(r)
    BY <1>4
  <2> QED
    BY <1>3, <2>1
<1>5. CASE q = <<x, Reply(r)>>
  <2>1. DOMAIN q = {1, 2} /\ q[1] = x /\ q[2] = Reply(r)
    BY <1>5
  <2> QED
    BY <1>3, <2>1
<1> QED
  BY <1>2, <1>4, <1>5

\* The outbox of a handler that has answered, or goes on to do_start.
LEMMA HandlerOwes ==
  ASSUME NEW q, NEW todo, NEW x, NEW r,
         \/ /\ q = <<Reply(r)>> \/ q = <<StateChanged(x), Reply(r)>>
            /\ todo # "spawn_start"
         \/ q = <<StateChanged(x)>> /\ todo = "spawn_start"
  PROVE  /\ One(RepliesIn(q))
         /\ (todo = "spawn_start") = (RepliesIn(q) = {})
<1>1. StateChanged(x).kind # "reply"
  BY DEF StateChanged
<1>2. CASE q = <<Reply(r)>> \/ q = <<StateChanged(x), Reply(r)>>
  <2>1. One(RepliesIn(q)) /\ RepliesIn(q) # {}
    BY <1>1, <1>2, OneReply
  <2>2. q # <<StateChanged(x)>>
    <3>1. RepliesIn(<<StateChanged(x)>>) = {}
      BY <1>1, OneReply
    <3> QED
      BY <2>1, <3>1
  <2> QED
    BY <2>1, <2>2
<1>3. CASE q = <<StateChanged(x)>> /\ todo = "spawn_start"
  BY <1>1, <1>3, OneReply
<1> QED
  BY <1>2, <1>3

\* A command that will be answered is answered at once, or by do_start.
LEMMA CommandOwes ==
  ASSUME TypeOK, NEW s \in Services, Start(s) \/ Stop(s) \/ Restart(s)
  PROVE  /\ ActorOwes(s)' /\ ~ OwesNothing(s)'
         /\ actor[s].phase = "run" /\ actor'[s].phase = "run"
<1> DEFINE a == actor[s]
<1>1. a \in Actor /\ a.todo = "none" /\ a.phase = "run"
  BY DEF TypeOK, Start, Stop, Restart, AtSelect
<1>2. ASSUME NEW b \in Actor, Become(s, b), b.phase = "run", NEW x, NEW r,
             \/ /\ b.outbox = <<Reply(r)>> \/ b.outbox = <<StateChanged(x), Reply(r)>>
                /\ b.todo = "none"
             \/ b.outbox = <<StateChanged(x)>> /\ b.todo = "spawn_start"
      PROVE  /\ ActorOwes(s)' /\ ~ OwesNothing(s)'
             /\ a.phase = "run" /\ actor'[s].phase = "run"
  <2>1. actor'[s] = b
    BY <1>2 DEF Become, TypeOK
  <2>2. One(RepliesIn(b.outbox)) /\ (b.todo = "spawn_start") = (RepliesIn(b.outbox) = {})
    <3>1. b.todo = "none" => b.todo # "spawn_start"
      OBVIOUS
    <3> QED
      BY <1>2, <3>1, HandlerOwes
  <2> QED
    BY <1>1, <1>2, <2>1, <2>2 DEF ActorOwes, OwesNothing, Replies
<1>3. ASSUME handle_start(s)
      PROVE  /\ ActorOwes(s)' /\ ~ OwesNothing(s)'
             /\ a.phase = "run" /\ actor'[s].phase = "run"
  <2>1. ASSUME NEW r \in {"ok", "err"}, Become(s, [a EXCEPT !.outbox = <<Reply(r)>>])
        PROVE  /\ ActorOwes(s)' /\ ~ OwesNothing(s)'
               /\ a.phase = "run" /\ actor'[s].phase = "run"
    <3>1. <<Reply(r)>> \in Seq(Outputs)
      BY DEF Reply, Outputs
    <3> DEFINE b == [a EXCEPT !.outbox = <<Reply(r)>>]
    <3>2. b \in Actor /\ b.outbox = <<Reply(r)>> /\ b.todo = "none" /\ b.phase = "run"
      BY <1>1, <3>1 DEF Actor
    <3> HIDE DEF b
    <3> QED
      BY <1>2, <2>1, <3>2 DEF b
  <2>2. ASSUME Become(s, [a EXCEPT !.state = "Starting", !.todo = "spawn_start",
                                   !.outbox = <<StateChanged("Starting")>>])
        PROVE  /\ ActorOwes(s)' /\ ~ OwesNothing(s)'
               /\ a.phase = "run" /\ actor'[s].phase = "run"
    <3>1. <<StateChanged("Starting")>> \in Seq(Outputs)
      BY DEF StateChanged, Outputs, States
    <3> DEFINE b == [a EXCEPT !.state = "Starting", !.todo = "spawn_start",
                              !.outbox = <<StateChanged("Starting")>>]
    <3>2. /\ b \in Actor /\ b.outbox = <<StateChanged("Starting")>>
          /\ b.todo = "spawn_start" /\ b.phase = "run"
      BY <1>1, <3>1 DEF Actor, States, SpawnTodos
    <3> HIDE DEF b
    <3> QED
      BY <1>2, <2>2, <3>2 DEF b
  <2> QED
    BY <1>3, <2>1, <2>2 DEF handle_start
<1>4. ASSUME NEW restart \in BOOLEAN, begin_stop(s, restart)
      PROVE  /\ ActorOwes(s)' /\ ~ OwesNothing(s)'
             /\ a.phase = "run" /\ actor'[s].phase = "run"
  <2>1. <<StateChanged("Stopping"), Reply("ok")>> \in Seq(Outputs)
    BY DEF StateChanged, Reply, Outputs, States
  <2> DEFINE b == [a EXCEPT !.state = "Stopping", !.stopDeadline = "armed",
                            !.backoffSleep = @ /\ ~ restart,
                            !.pendingRestart = restart \/ @,
                            !.outbox = <<StateChanged("Stopping"), Reply("ok")>>]
  <2>2. /\ b \in Actor /\ b.outbox = <<StateChanged("Stopping"), Reply("ok")>>
        /\ b.todo = "none" /\ b.phase = "run"
    BY <1>1, <2>1 DEF Actor, States
  <2>3. Become(s, b)
    BY <1>4 DEF begin_stop
  <2> HIDE DEF b
  <2> QED
    BY <1>2, <2>2, <2>3
<1>5. CASE Stop(s)
  <2>1. CASE Become(s, [a EXCEPT !.outbox = <<Reply("ok")>>])
    <3>1. <<Reply("ok")>> \in Seq(Outputs)
      BY DEF Reply, Outputs
    <3> DEFINE b == [a EXCEPT !.outbox = <<Reply("ok")>>]
    <3>2. b \in Actor /\ b.outbox = <<Reply("ok")>> /\ b.todo = "none" /\ b.phase = "run"
      BY <1>1, <3>1 DEF Actor
    <3> HIDE DEF b
    <3> QED
      BY <1>2, <2>1, <3>2 DEF b
  <2>2. CASE Become(s, [a EXCEPT !.state = "Inactive", !.backoffSleep = FALSE,
                                 !.outbox = <<StateChanged("Inactive"), Reply("ok")>>])
    <3>1. <<StateChanged("Inactive"), Reply("ok")>> \in Seq(Outputs)
      BY DEF StateChanged, Reply, Outputs, States
    <3> DEFINE b == [a EXCEPT !.state = "Inactive", !.backoffSleep = FALSE,
                              !.outbox = <<StateChanged("Inactive"), Reply("ok")>>]
    <3>2. /\ b \in Actor /\ b.outbox = <<StateChanged("Inactive"), Reply("ok")>>
          /\ b.todo = "none" /\ b.phase = "run"
      BY <1>1, <3>1 DEF Actor, States
    <3> HIDE DEF b
    <3> QED
      BY <1>2, <2>2, <3>2 DEF b
  <2> QED
    BY <1>4, <1>5, <2>1, <2>2 DEF Stop
<1> QED
  BY <1>3, <1>4, <1>5 DEF Start, Restart

\* The end of a child answers nothing.
LEMMA ExitOwes ==
  ASSUME TypeOK, NEW s \in Services, ChildExit(s)
  PROVE  /\ ActorOwes(s)' /\ OwesNothing(s) /\ OwesNothing(s)'
         /\ actor'[s].todo \in {"none", "relaunch"}
         /\ ~ actor[s].pendingRestart => actor'[s].todo = "none" /\ ~ actor'[s].pendingRestart
         /\ actor'[s].phase = actor[s].phase
<1> DEFINE a == actor[s]
<1>1. a \in Actor /\ config[s] \in Configs /\ a.todo = "none" /\ a.outbox = <<>>
  BY DEF TypeOK, ChildExit, AtSelect
<1>2. OwesNothing(s)
  BY <1>1 DEF OwesNothing, Replies, RepliesIn
<1>3. ASSUME NEW st, NEW code,
             /\ actor'[s].todo \in {"none", "relaunch"}
             /\ \/ actor'[s].outbox = <<ProcessExited, StateChanged(st)>>
                \/ actor'[s].outbox = <<ProcessExited, StateChanged(st), DaemonShutdown(code)>>
      PROVE  ActorOwes(s)' /\ OwesNothing(s)'
  <2>1. RepliesIn(actor'[s].outbox) = {}
    <3>1. CASE actor'[s].outbox = <<ProcessExited, StateChanged(st)>>
      <4>1. /\ DOMAIN actor'[s].outbox = {1, 2} /\ actor'[s].outbox[1] = ProcessExited
            /\ actor'[s].outbox[2] = StateChanged(st)
        BY <3>1
      <4> QED
        BY <4>1 DEF RepliesIn, ProcessExited, StateChanged
    <3>2. CASE actor'[s].outbox = <<ProcessExited, StateChanged(st), DaemonShutdown(code)>>
      <4>1. /\ DOMAIN actor'[s].outbox = {1, 2, 3} /\ actor'[s].outbox[1] = ProcessExited
            /\ actor'[s].outbox[2] = StateChanged(st)
            /\ actor'[s].outbox[3] = DaemonShutdown(code)
        BY <3>2
      <4> QED
        BY <4>1 DEF RepliesIn, ProcessExited, StateChanged, DaemonShutdown
    <3> QED
      BY <1>3, <3>1, <3>2
  <2> QED
    BY <1>3, <2>1 DEF ActorOwes, OwesNothing, Replies, One
<1>4. CASE exit_while_stopping(s)
  <2>1. /\ actor'[s].todo = IF a.pendingRestart THEN "relaunch" ELSE "none"
        /\ ~ actor'[s].pendingRestart /\ actor'[s].phase = a.phase
        /\ actor'[s].outbox = <<ProcessExited, StateChanged("Inactive")>>
    BY SMTT(30), <1>1, <1>4 DEF exit_while_stopping, Become, TypeOK, Actor
  <2> QED
    BY <1>2, <1>3, <2>1
<1>5. ASSUME NEW policy, NEW success \in BOOLEAN, exit_by_itself(s, policy, success)
      PROVE  /\ ActorOwes(s)' /\ OwesNothing(s)' /\ actor'[s].todo = "none"
             /\ actor'[s].pendingRestart = a.pendingRestart
             /\ actor'[s].phase = a.phase
  <2> DEFINE b == [a EXCEPT !.child = NoPid, !.stopDeadline = "off"]
             n == next_backoff(b, config[s])
             Kept(x) == /\ x \in Actor /\ x.todo = "none" /\ x.phase = a.phase
                        /\ x.pendingRestart = a.pendingRestart
  <2>1. Kept(b)
    BY <1>1 DEF Actor
  <2>2. Kept(n)
    <3>1. n \in Actor
      BY <1>1, <2>1, BackoffType
    <3>2. ASSUME NEW x \in Actor
          PROVE  /\ next_backoff(x, config[s]).todo = x.todo
                 /\ next_backoff(x, config[s]).phase = x.phase
                 /\ next_backoff(x, config[s]).pendingRestart = x.pendingRestart
      BY DEF next_backoff, Actor
    <3> QED
      BY <2>1, <3>1, <3>2
  <2>3. Kept([n EXCEPT !.backoffSleep = TRUE])
    BY <2>2 DEF Actor
  <2>4. ASSUME NEW d, Kept(d),
               NEW st, NEW code, NEW more \in {<<>>, <<DaemonShutdown(code)>>},
               Become(s, [d EXCEPT !.state = st,
                                   !.outbox = <<ProcessExited, StateChanged(st)>> \o more])
        PROVE  /\ ActorOwes(s)' /\ OwesNothing(s)' /\ actor'[s].todo = "none"
               /\ actor'[s].pendingRestart = a.pendingRestart
               /\ actor'[s].phase = a.phase
    <3>1. /\ actor'[s].todo = "none" /\ actor'[s].pendingRestart = a.pendingRestart
          /\ actor'[s].phase = a.phase
          /\ actor'[s].outbox = <<ProcessExited, StateChanged(st)>> \o more
      BY <2>4 DEF Become, TypeOK, Actor
    <3>2. \/ actor'[s].outbox = <<ProcessExited, StateChanged(st)>>
          \/ actor'[s].outbox = <<ProcessExited, StateChanged(st), DaemonShutdown(code)>>
      BY <3>1, Concatenated
    <3> QED
      BY <1>3, <3>1, <3>2
  <2> HIDE DEF Kept
  <2> QED
    BY <1>5, <2>1, <2>3, <2>4 DEF exit_by_itself
<1> QED
  BY <1>2, <1>4, <1>5 DEF ChildExit

\* A start that nobody asked for answers nobody.
LEMMA ExpiryOwes ==
  ASSUME TypeOK, NEW s \in Services, BackoffExpired(s) \/ Relaunch(s)
  PROVE  /\ ActorOwes(s)' /\ OwesNothing(s) /\ OwesNothing(s)'
         /\ actor'[s].phase = actor[s].phase
<1> DEFINE a == actor[s]
<1>1. a \in Actor /\ a.outbox = <<>> /\ a.todo # "spawn_start"
  BY DEF TypeOK, BackoffExpired, Relaunch, AtSelect
<1>2. /\ actor'[s].todo \in {"spawn_backoff", "spawn_relaunch"}
      /\ actor'[s].outbox = <<StateChanged("Starting")>>
      /\ actor'[s].phase = a.phase
  <2>1. \E todo \in {"spawn_backoff", "spawn_relaunch"} :
          actor'[s] = [a EXCEPT !.state = "Starting", !.todo = todo,
                                !.outbox = <<StateChanged("Starting")>>]
    BY DEF BackoffExpired, Relaunch, Become, TypeOK
  <2> QED
    BY <1>1, <2>1 DEF Actor
<1>3. StateChanged("Starting").kind # "reply"
  BY DEF StateChanged
<1>4. RepliesIn(actor'[s].outbox) = {}
  BY <1>2, <1>3, OneReply
<1>5. RepliesIn(a.outbox) = {}
  BY <1>1 DEF RepliesIn
<1> QED
  BY <1>1, <1>2, <1>4, <1>5 DEF ActorOwes, OwesNothing, Replies, One

\* do_start answers the command that asked for it.
LEMMA SpawnOwes ==
  ASSUME TypeOK, NEW s \in Services, DoStart(s)
  PROVE  /\ ActorOwes(s)' /\ (OwesNothing(s)' <=> OwesNothing(s))
         /\ actor'[s].todo = "none"
         /\ actor'[s].pendingRestart = actor[s].pendingRestart
         /\ actor'[s].phase = actor[s].phase
<1> DEFINE a == actor[s]
           c == config[s]
           Kept(x) == /\ x \in Actor /\ x.phase = a.phase
                      /\ x.pendingRestart = a.pendingRestart
<1>1. a \in Actor /\ c \in Configs /\ a.todo \in SpawnTodos /\ a.outbox = <<>>
  BY DEF TypeOK, DoStart
<1>2. Kept(after_start(a, c, TRUE)) /\ Kept(after_start(a, c, FALSE))
  <2>1. Kept(reset_backoff(a, c))
    BY <1>1, BackoffType DEF reset_backoff, Actor
  <2>2. after_start(a, c, TRUE) \in Actor /\ after_start(a, c, FALSE) \in Actor
    BY <1>1, AfterStartType
  <2>3. ASSUME NEW ok \in BOOLEAN
        PROVE  /\ after_start(a, c, ok).phase = a.phase
               /\ after_start(a, c, ok).pendingRestart = a.pendingRestart
    BY <1>1, <2>1 DEF after_start, Actor, SpawnTodos
  <2> QED
    BY <2>2, <2>3
<1>3. OwesNothing(s) <=> a.todo # "spawn_start"
  BY <1>1 DEF OwesNothing, Replies, RepliesIn
<1>4. ASSUME NEW d, Kept(d), NEW st \in States, NEW r \in {"ok", "err"}, NEW p \in Pids \cup {NoPid},
             Become(s, [d EXCEPT !.child = p, !.state = st, !.todo = "none",
                                 !.outbox = <<StateChanged(st)>> \o answer(a, r)])
      PROVE  /\ ActorOwes(s)' /\ (OwesNothing(s)' <=> OwesNothing(s))
             /\ actor'[s].todo = "none"
             /\ actor'[s].pendingRestart = a.pendingRestart
             /\ actor'[s].phase = a.phase
  <2>1. /\ actor'[s].todo = "none" /\ actor'[s].pendingRestart = a.pendingRestart
        /\ actor'[s].phase = a.phase
        /\ actor'[s].outbox = <<StateChanged(st)>> \o answer(a, r)
    BY <1>4 DEF Become, TypeOK, Actor
  <2>2. StateChanged(st).kind # "reply"
    BY DEF StateChanged
  <2>3. CASE a.todo = "spawn_start"
    <3>1. actor'[s].outbox = <<StateChanged(st), Reply(r)>>
      BY <2>1, <2>3, Concatenated DEF answer
    <3>2. One(RepliesIn(actor'[s].outbox)) /\ RepliesIn(actor'[s].outbox) # {}
      BY <2>2, <3>1, OneReply
    <3> QED
      BY <1>3, <2>1, <2>3, <3>2 DEF ActorOwes, OwesNothing, Replies
  <2>4. CASE a.todo # "spawn_start"
    <3>1. actor'[s].outbox = <<StateChanged(st)>>
      BY <2>1, <2>4, Concatenated DEF answer
    <3>2. One(RepliesIn(actor'[s].outbox)) /\ RepliesIn(actor'[s].outbox) = {}
      BY <2>2, <3>1, OneReply
    <3> QED
      BY <1>3, <2>1, <2>4, <3>2 DEF ActorOwes, OwesNothing, Replies
  <2> QED
    BY <2>3, <2>4
<1>5. CASE spawn_failed(s)
  <2> DEFINE d == after_start(a, c, FALSE)
  <2>1. Kept(d) /\ d.child \in Pids \cup {NoPid}
    BY <1>2 DEF Actor
  <2>2. Become(s, [d EXCEPT !.state = "Error", !.todo = "none",
                            !.outbox = <<StateChanged("Error")>> \o answer(a, "err")])
    BY <1>5 DEF spawn_failed
  <2>3. d \in Actor
    BY <1>2
  <2> HIDE DEF d
  <2>4. [d EXCEPT !.state = "Error", !.todo = "none",
                  !.outbox = <<StateChanged("Error")>> \o answer(a, "err")]
          = [d EXCEPT !.child = d.child, !.state = "Error", !.todo = "none",
                      !.outbox = <<StateChanged("Error")>> \o answer(a, "err")]
    BY <2>3 DEF Actor
  <2>5. "Error" \in States
    BY DEF States
  <2> HIDE DEF Kept
  <2> QED
    BY <1>4, <2>1, <2>2, <2>4, <2>5
<1>6. ASSUME NEW p \in Pids, spawned(s, p)
      PROVE  /\ ActorOwes(s)' /\ (OwesNothing(s)' <=> OwesNothing(s))
             /\ actor'[s].todo = "none"
             /\ actor'[s].pendingRestart = a.pendingRestart
             /\ actor'[s].phase = a.phase
  <2> HIDE DEF Kept
  <2> QED
    BY <1>2, <1>4, <1>6 DEF spawned, States
<1> QED
  BY <1>5, <1>6 DEF DoStart

\* The other steps leave what is owed alone; only Shutdown ends the loop.
LEMMA QuietOwes ==
  ASSUME TypeOK, NEW s \in Services,
         \/ Shutdown(s) \/ KillDelayPasses(s) \/ KillDeadline(s)
         \/ CleanupKill(s) \/ CleanupReaped(s)
  PROVE  /\ actor'[s].todo = actor[s].todo /\ actor'[s].outbox = actor[s].outbox
         /\ actor'[s].pendingRestart = actor[s].pendingRestart
         /\ actor'[s].state = actor[s].state
         /\ Shutdown(s) \/ (actor'[s].phase # "run" => actor[s].phase # "run")
<1> DEFINE a == actor[s]
<1>1. a \in Actor
  BY DEF TypeOK
<1>2. \/ Shutdown(s) /\ actor'[s] = [a EXCEPT !.phase = "gone"]
      \/ Shutdown(s) /\ actor'[s] = [a EXCEPT !.phase = "cleanup"]
      \/ actor'[s] = [a EXCEPT !.stopDeadline = "elapsed"]
      \/ actor'[s] = [a EXCEPT !.stopDeadline = "off"]
      \/ a.phase # "run" /\ actor'[s] = [a EXCEPT !.phase = "reaping"]
      \/ a.phase # "run" /\ actor'[s] = [a EXCEPT !.phase = "gone", !.child = NoPid]
  BY DEF Shutdown, KillDelayPasses, KillDeadline, CleanupKill, CleanupReaped, Become, TypeOK
<1> QED
  BY <1>1, <1>2 DEF Actor

\* What is left in the outbox after a delivery.
LEMMA Delivered ==
  ASSUME TypeOK, NEW s \in Services, Deliver(s), ActorOwes(s)
  PROVE  /\ actor'[s].todo = actor[s].todo /\ actor'[s].state = actor[s].state
         /\ actor'[s].pendingRestart = actor[s].pendingRestart
         /\ actor'[s].phase = actor[s].phase /\ ActorOwes(s)'
         /\ IF Head(actor[s].outbox).kind = "reply"
              THEN Replies(s) # {} /\ Replies(s)' = {}
              ELSE (Replies(s)' = {}) = (Replies(s) = {})
<1> DEFINE q == actor[s].outbox
<1>1. /\ q \in Seq(Outputs) /\ q # <<>>
      /\ actor'[s].outbox = Tail(q) /\ actor'[s].todo = actor[s].todo
      /\ actor'[s].pendingRestart = actor[s].pendingRestart
      /\ actor'[s].state = actor[s].state /\ actor'[s].phase = actor[s].phase
  <2>1. actor[s] \in Actor
    BY DEF TypeOK
  <2> QED
    BY <2>1 DEF Deliver, Become, TypeOK, Actor
<1>2. /\ Head(q) = q[1] /\ 1 \in DOMAIN q
      /\ \A i \in DOMAIN Tail(q) : i \in Nat /\ i >= 1 /\ i + 1 \in DOMAIN q
                                     /\ Tail(q)[i] = q[i + 1]
  BY <1>1
<1>3. \A i \in Replies(s)' : i \in Nat /\ i >= 1 /\ i + 1 \in Replies(s)
  BY <1>1, <1>2 DEF Replies, RepliesIn
<1>4. One(Replies(s)')
  <2> SUFFICES ASSUME NEW i \in Replies(s)', NEW j \in Replies(s)' PROVE i = j
    BY DEF One
  <2>1. i + 1 = j + 1
    BY <1>3 DEF ActorOwes, One
  <2> QED
    BY <1>3, <2>1
<1>5. Replies(s) = {} => Replies(s)' = {}
  BY <1>3
<1>6. q[1].kind = "reply" => Replies(s) # {} /\ Replies(s)' = {}
  <2> SUFFICES ASSUME q[1].kind = "reply", NEW i \in Replies(s)' PROVE FALSE
    BY <1>2 DEF Replies, RepliesIn
  <2>1. 1 \in Replies(s)
    BY <1>2 DEF Replies, RepliesIn
  <2>2. i + 1 = 1
    BY <1>3, <2>1 DEF ActorOwes, One
  <2> QED
    BY <1>3, <2>2
<1>7. ASSUME q[1].kind # "reply", NEW i \in Replies(s) PROVE i - 1 \in Replies(s)'
  <2>1. i \in DOMAIN q /\ i # 1 /\ q[i].kind = "reply"
    BY <1>7 DEF Replies, RepliesIn
  <2>2. i - 1 \in DOMAIN Tail(q) /\ Tail(q)[i - 1] = q[i]
    BY <1>1, <2>1
  <2> QED
    BY <1>1, <2>1, <2>2 DEF Replies, RepliesIn
<1>8. ActorOwes(s)'
  BY <1>1, <1>4, <1>5 DEF ActorOwes
<1> QED
  BY <1>1, <1>2, <1>5, <1>6, <1>7, <1>8

-----------------------------------------------------------------------------
(* One command under way for each reply that is awaited.                   *)

\* A service that a step does not concern.
LEMMA ProtocolFrame ==
  ASSUME NEW s \in Services, Protocol(s),
         mailbox'[s] = mailbox[s], stopTask'[s] = stopTask[s],
         waiting' = s <=> waiting = s,
         actor'[s].todo = actor[s].todo, actor'[s].outbox = actor[s].outbox,
         actor'[s].phase # "run" => actor[s].phase # "run"
  PROVE  Protocol(s)'
<1>1. Mail(s)' = Mail(s) /\ Replies(s)' = Replies(s)
  BY DEF Mail, Replies
<1>2. ActorOwes(s)' = ActorOwes(s) /\ OwesNothing(s)' = OwesNothing(s)
  BY <1>1 DEF ActorOwes, OwesNothing
<1>3. Awaited(s)' = Awaited(s) /\ (Leaving(s)' => Leaving(s))
  BY DEF Awaited, Leaving
<1> QED
  BY <1>1, <1>2, <1>3 DEF Protocol

\* The actor takes a command from its mailbox.
LEMMA ProtocolTakes ==
  ASSUME TypeOK, OverlordTypes, NEW s \in Services, Protocol(s), ReceiveCommand(s)
  PROVE  Protocol(s)'
<1> DEFINE m == mailbox[s]
<1>1. /\ m \in Seq(MailCommands) /\ m # <<>> /\ mailbox'[s] = Tail(m)
      /\ Head(m) = m[1] /\ 1 \in DOMAIN m
      /\ \A i \in DOMAIN Tail(m) : i \in Nat /\ i + 1 \in DOMAIN m /\ Tail(m)[i] = m[i + 1]
  <2>1. m \in Seq(MailCommands) /\ m # <<>> /\ mailbox'[s] = Tail(m)
    BY DEF ReceiveCommand, Take, OverlordTypes
  <2> QED
    BY <2>1
<1>2. waiting' = waiting /\ stopTask' = stopTask
  BY DEF ReceiveCommand, overlordVars
<1>3. \A i \in Mail(s)' : i \in Nat /\ i + 1 \in Mail(s) /\ i + 1 # 1
  BY <1>1 DEF Mail
<1>4. ASSUME NEW i \in DOMAIN mailbox'[s], mailbox'[s][i] = "Shutdown"
      PROVE  \E j \in DOMAIN m : m[j] = "Shutdown"
  BY <1>1, <1>4
<1>5. Awaited(s)' = Awaited(s)
  BY <1>2 DEF Awaited
<1>6. CASE m[1] \in Answered
  <2>1. /\ ActorOwes(s)' /\ ~ OwesNothing(s)'
        /\ actor[s].phase = "run" /\ actor'[s].phase = "run"
    <3>1. Start(s) \/ Stop(s) \/ Restart(s)
      BY <1>1, <1>6 DEF ReceiveCommand, Answered
    <3> QED
      BY <3>1, CommandOwes
  <2>2. 1 \in Mail(s) /\ Mail(s)' = {}
    <3>1. 1 \in Mail(s)
      BY <1>1, <1>6 DEF Mail
    <3> QED
      BY <1>3, <3>1 DEF Protocol, One
  <2>3. Leaving(s)' => Leaving(s)
    BY <1>4, <2>1 DEF Leaving
  <2> QED
    BY <1>2, <1>5, <2>1, <2>2, <2>3 DEF Protocol, One
<1>7. CASE m[1] \notin Answered
  <2>1. /\ actor'[s].todo = actor[s].todo /\ actor'[s].outbox = actor[s].outbox
        /\ Leaving(s)' => Leaving(s)
    <3>1. CASE m[1] = "Shutdown" /\ Shutdown(s)
      <4>1. Leaving(s)
        BY <1>1, <3>1 DEF Leaving
      <4> QED
        BY <3>1, <4>1, QuietOwes
    <3>2. CASE UNCHANGED vars
      BY <1>4, <3>2 DEF vars, Leaving
    <3> QED
      BY <1>1, <1>7, <3>1, <3>2 DEF ReceiveCommand, Answered
  <2>2. /\ Replies(s)' = Replies(s)
        /\ ActorOwes(s)' = ActorOwes(s) /\ OwesNothing(s)' = OwesNothing(s)
    BY <2>1 DEF Replies, ActorOwes, OwesNothing
  <2>3. One(Mail(s)')
    <3> SUFFICES ASSUME NEW i \in Mail(s)', NEW j \in Mail(s)' PROVE i = j
      BY DEF One
    <3>1. i \in Nat /\ j \in Nat
      BY <1>3
    <3>2. i + 1 = j + 1
      BY <1>3 DEF Protocol, One
    <3> QED
      BY <3>1, <3>2
  <2>4. Mail(s) = {} <=> Mail(s)' = {}
    <3>1. ASSUME NEW i \in Mail(s) PROVE i - 1 \in Mail(s)'
      <4>1. i \in DOMAIN m /\ i # 1 /\ m[i] \in Answered
        BY <1>7, <3>1 DEF Mail
      <4>2. i - 1 \in DOMAIN Tail(m) /\ Tail(m)[i - 1] = m[i]
        BY <1>1, <4>1
      <4> QED
        BY <1>1, <4>1, <4>2 DEF Mail
    <3> QED
      BY <1>3, <3>1
  <2> QED
    BY <1>2, <1>5, <2>1, <2>2, <2>3, <2>4 DEF Protocol
<1> QED
  BY <1>6, <1>7

\* The actor goes on by itself.
LEMMA ProtocolGoesOn ==
  ASSUME TypeOK, NEW s \in Services, Protocol(s), ReactUnprompted(s) \/ Continue(s)
  PROVE  Protocol(s)'
<1>1. UNCHANGED <<waiting, stopTask, mailbox>> /\ Mail(s)' = Mail(s)
  BY DEF ReactUnprompted, Continue, overlordVars, Mail
<1>2. CASE \/ KillDelayPasses(s) \/ KillDeadline(s)
           \/ CleanupKill(s) \/ CleanupReaped(s)
  <2>1. ~ Shutdown(s) \/ actor[s].phase # "run" \/ actor'[s].phase = "run"
    <3>1. CASE KillDelayPasses(s) \/ KillDeadline(s)
      <4>1. actor[s] \in Actor /\ actor[s].phase = "run"
        BY <3>1 DEF TypeOK, KillDelayPasses, KillDeadline, AtSelect
      <4> QED
        BY <3>1, <4>1 DEF TypeOK, KillDelayPasses, KillDeadline, Become, Actor
    <3>2. CASE CleanupKill(s) \/ CleanupReaped(s)
      BY <3>2 DEF CleanupKill, CleanupReaped
    <3> QED
      BY <1>2, <3>1, <3>2
  <2> QED
    BY <1>1, <1>2, <2>1, QuietOwes, ProtocolFrame
<1>3. CASE ChildExit(s) \/ BackoffExpired(s) \/ Relaunch(s) \/ DoStart(s)
  <2>1. /\ ActorOwes(s)' /\ (OwesNothing(s)' <=> OwesNothing(s))
        /\ actor'[s].phase = actor[s].phase
    BY <1>3, ExitOwes, ExpiryOwes, SpawnOwes
  <2>2. Awaited(s)' = Awaited(s) /\ Leaving(s)' = Leaving(s)
    BY <1>1, <2>1 DEF Awaited, Leaving
  <2> QED
    BY <1>1, <2>1, <2>2 DEF Protocol
<1> QED
  BY <1>2, <1>3 DEF ReactUnprompted, Continue

\* The actor reports an event, or answers.
LEMMA ProtocolDelivers ==
  ASSUME TypeOK, OverlordTypes, NEW s \in Services, Protocol(s), Emit(s) \/ Answer(s)
  PROVE  Protocol(s)'
<1>1. mailbox' = mailbox /\ Mail(s)' = Mail(s)
  BY DEF Emit, Answer, Mail
<1>2. /\ actor'[s].todo = actor[s].todo /\ ActorOwes(s)'
      /\ actor'[s].phase = actor[s].phase
      /\ IF Head(actor[s].outbox).kind = "reply"
           THEN Replies(s) # {} /\ Replies(s)' = {}
           ELSE (Replies(s)' = {}) = (Replies(s) = {})
  BY Delivered DEF Emit, Answer, Protocol
<1>3. Leaving(s)' = Leaving(s)
  BY <1>1, <1>2 DEF Leaving
<1>4. CASE Emit(s)
  <2>1. waiting' = waiting /\ stopTask' = stopTask
    BY <1>4 DEF Emit, overlordVars
  <2>2. Awaited(s)' = Awaited(s) /\ (OwesNothing(s)' <=> OwesNothing(s))
    BY <1>2, <1>4, <2>1 DEF Emit, Awaited, OwesNothing
  <2> QED
    BY <1>1, <1>2, <1>3, <2>1, <2>2 DEF Protocol
<1>5. CASE Answer(s)
  <2>1. /\ waiting' = IF waiting = s THEN NoService ELSE waiting
        /\ stopTask' = IF stopTask[s] = "await" THEN [stopTask EXCEPT ![s] = "reply"]
                                               ELSE stopTask
        /\ Replies(s) # {} /\ Replies(s)' = {}
    BY <1>2, <1>5 DEF Answer
  <2>2. Mail(s) = {} /\ actor[s].todo # "spawn_start"
    BY <2>1 DEF Protocol, OwesNothing, ActorOwes
  <2>3. ~ Awaited(s)'
    BY <2>1, NoServiceAssumption DEF Awaited, OverlordTypes
  <2>4. OwesNothing(s)'
    BY <1>2, <2>1, <2>2 DEF OwesNothing
  <2>5. Leaving(s)' => stopTask'[s] = "done"
    BY <1>3, <2>1 DEF Protocol
  <2> QED
    BY <1>1, <1>2, <2>2, <2>3, <2>4, <2>5 DEF Protocol
<1> QED
  BY <1>4, <1>5

\* The actors and their processes.
LEMMA ProtocolActors ==
  ASSUME TypeOK, ReplyInv, NEW s \in Services, ActorsStep(s)
  PROVE  DaemonInv' /\ \A t \in Services : Protocol(t)'
<1>1. \/ ReceiveCommand(s) \/ ReactUnprompted(s) \/ Continue(s) \/ Emit(s) \/ Answer(s)
  BY DEF ActorsStep
<1>2. Protocol(s)'
  BY <1>1, ProtocolTakes, ProtocolGoesOn, ProtocolDelivers DEF ReplyInv
<1>3. /\ daemon' = daemon
      /\ \/ waiting' = waiting
         \/ waiting = s /\ waiting' = NoService
      /\ \/ stopTask' = stopTask
         \/ stopTask[s] = "await" /\ stopTask' = [stopTask EXCEPT ![s] = "reply"]
      /\ mailbox' = mailbox \/ mailbox' = [mailbox EXCEPT ![s] = Tail(@)]
  <2>1. CASE ReceiveCommand(s)
    BY <2>1 DEF ReceiveCommand, Take, overlordVars
  <2>2. CASE ReactUnprompted(s) \/ Continue(s) \/ Emit(s)
    BY <2>2 DEF ReactUnprompted, Continue, Emit, overlordVars
  <2>3. CASE Answer(s)
    BY <2>3 DEF Answer
  <2> QED
    BY <1>1, <2>1, <2>2, <2>3
<1>4. DaemonInv'
  BY <1>3 DEF ReplyInv, DaemonInv, OverlordTypes
<1>5. ASSUME NEW t \in Services \ {s}
      PROVE  Protocol(t)'
  <2>1. mailbox'[t] = mailbox[t] /\ stopTask'[t] = stopTask[t] /\ (waiting' = t <=> waiting = t)
    BY <1>3, NoServiceAssumption DEF ReplyInv, OverlordTypes
  <2>2. actor'[t] = actor[t]
    <3>1. \/ Command(s) \/ ActorStep(s) \/ Deliver(s)
          \/ UNCHANGED vars
      BY ActorsStepConforms
    <3> QED
      BY <3>1, StepFrame DEF vars
  <2> QED
    BY <2>1, <2>2, ProtocolFrame DEF ReplyInv
<1> QED
  BY <1>2, <1>4, <1>5

\* The overlord gives itself something to do, enters stop_all, or ends.
LEMMA ProtocolDecides ==
  ASSUME ReplyInv, UNCHANGED <<vars, waiting, mailbox>>,
         \/ /\ daemon = "boot" /\ daemon' = "run" /\ UNCHANGED stopTask
         \/ /\ UNCHANGED <<daemon, stopTask>>
         \/ /\ daemon = "run" /\ waiting = NoService
            /\ daemon' = "stop_all" /\ stopTask' = [s \in Services |-> "start"]
         \/ /\ daemon = "stop_all" /\ \A s \in Services : stopTask[s] = "done"
            /\ daemon' = "exited" /\ UNCHANGED stopTask
  PROVE  DaemonInv' /\ \A t \in Services : Protocol(t)'
<1>1. DaemonInv'
  BY DEF ReplyInv, DaemonInv
<1>2. ASSUME NEW t \in Services, stopTask' = stopTask
      PROVE  Protocol(t)'
  BY <1>2, ProtocolFrame DEF vars, ReplyInv
<1>3. ASSUME NEW t \in Services, daemon = "run", waiting = NoService,
             stopTask' = [s \in Services |-> "start"]
      PROVE  Protocol(t)'
  <2>1. stopTask[t] = "idle" /\ waiting # t /\ stopTask'[t] = "start"
    BY <1>3, NoServiceAssumption DEF ReplyInv, DaemonInv
  <2>2. /\ Mail(t)' = Mail(t) /\ Leaving(t)' = Leaving(t)
        /\ ActorOwes(t)' = ActorOwes(t) /\ OwesNothing(t)' = OwesNothing(t)
    BY DEF Mail, Replies, ActorOwes, OwesNothing, Leaving, vars
  <2>3. ~ Awaited(t) /\ ~ Awaited(t)' /\ ~ Leaving(t)
    BY <2>1 DEF Awaited, ReplyInv, Protocol
  <2> QED
    BY <2>2, <2>3 DEF Protocol, ReplyInv
<1> QED
  BY <1>1, <1>2, <1>3

\* A command is put into the mailbox of a service, by svc_cmd or by the task of
\* stop_all.
LEMMA ProtocolSends ==
  ASSUME ReplyInv, NEW s \in Services,
         NEW cmd \in MailCommands, Put(s, cmd), UNCHANGED vars,
         \/ /\ cmd = "ForwardSignal" /\ waiting' = waiting /\ stopTask' = stopTask
         \/ /\ cmd \in Answered /\ daemon = "run" /\ waiting = NoService
            /\ waiting' = s /\ stopTask' = stopTask
         \/ /\ cmd = "Stop" /\ daemon # "run" /\ stopTask[s] = "start" /\ waiting' = waiting
            /\ stopTask' = [stopTask EXCEPT ![s] = "await"]
         \/ /\ cmd = "Shutdown" /\ stopTask[s] = "reply" /\ waiting' = waiting
            /\ stopTask' = [stopTask EXCEPT ![s] = "done"]
  PROVE  Protocol(s)'
<1> DEFINE m == mailbox[s]
           n == Len(m)
<1>1. /\ m \in Seq(MailCommands) /\ n \in Nat /\ DOMAIN m = 1 .. n
      /\ mailbox'[s] = Append(m, cmd)
      /\ DOMAIN mailbox'[s] = 1 .. n + 1 /\ mailbox'[s][n + 1] = cmd
      /\ \A i \in 1 .. n : mailbox'[s][i] = m[i]
  <2>1. m \in Seq(MailCommands) /\ mailbox'[s] = Append(m, cmd)
    BY DEF ReplyInv, OverlordTypes, Put
  <2> QED
    BY <2>1
<1>2. /\ Replies(s)' = Replies(s) /\ actor'[s].phase = actor[s].phase
      /\ ActorOwes(s)' = ActorOwes(s) /\ OwesNothing(s)' = OwesNothing(s)
  BY DEF Replies, ActorOwes, OwesNothing, vars
<1>3. DOMAIN stopTask = Services /\ Protocol(s)
  BY DEF ReplyInv, OverlordTypes
<1>4. cmd # "Shutdown" => (Leaving(s)' => Leaving(s))
  BY <1>1, <1>2 DEF Leaving
<1>5. CASE cmd \in {"ForwardSignal", "Shutdown"}
  <2>1. cmd \notin Answered
    BY <1>5 DEF Answered
  <2>2. Mail(s)' = Mail(s)
    BY <1>1, <2>1 DEF Mail
  <2>3. /\ waiting' = waiting
        /\ \/ cmd # "Shutdown" /\ stopTask'[s] = stopTask[s]
           \/ stopTask[s] = "reply" /\ stopTask'[s] = "done"
    BY <1>3, <1>5 DEF Answered
  <2>4. Awaited(s)' = Awaited(s) /\ (Leaving(s)' => stopTask'[s] = "done")
    BY <1>3, <1>4, <2>3 DEF Awaited, Protocol
  <2> QED
    BY <1>2, <1>3, <2>2, <2>4 DEF Protocol
<1>6. CASE cmd \in Answered
  <2>1. /\ waiting # s /\ stopTask[s] \in {"idle", "start"}
        /\ waiting' = s \/ stopTask'[s] = "await"
    BY <1>3, <1>6, NoServiceAssumption DEF ReplyInv, DaemonInv, Answered
  <2>2. Mail(s) = {} /\ OwesNothing(s) /\ ~ Leaving(s) /\ Awaited(s)'
    BY <1>3, <2>1 DEF Protocol, Awaited
  <2>3. Mail(s)' = {n + 1}
    BY <1>1, <1>6, <2>2 DEF Mail
  <2>4. ~ Leaving(s)'
    BY <1>4, <1>6, <2>2 DEF Answered
  <2> QED
    BY <1>2, <1>3, <2>2, <2>3, <2>4 DEF Protocol, One
<1> QED
  BY <1>5, <1>6 DEF Answered

-----------------------------------------------------------------------------
(* The overlord's own types, and its part.                                 *)

\* The scripts of SendEach and SendAll, restarts included.
LEMMA EachIsAnyEntry ==
  ASSUME NEW cmd \in Answered \cup {"ForwardSignal"}, NEW S, S \subseteq Services,
         NEW names \in BoundedSeq(S, Len(Order))
  PROVE  SendEach(cmd, names) \in Seq(AnyEntry)
<1>1. PICK m \in Nat :
        /\ DOMAIN SendEach(cmd, names) = 1 .. m
        /\ \A i \in 1 .. m : names[i] \in S /\ SendEach(cmd, names)[i] = Send(cmd, names[i])
  BY EachIsSent
<1>2. SendEach(cmd, names) \in [1 .. m -> AnyEntry]
  BY <1>1 DEF SendEach, Send, AnyEntry
<1> QED
  BY <1>2

LEMMA SendsAreAnyEntries ==
  ASSUME NEW cmd \in Answered \cup {"ForwardSignal"}, NEW S, S \subseteq Services,
         NEW q \in SendAll(cmd, S)
  PROVE  q \in Seq(AnyEntry)
BY EachIsAnyEntry DEF SendAll, InPlanOrder

\* The plan keeps its policies, whatever Autostart does to it.
LEMMA PolicyKept ==
  ASSUME OverlordTypes, NEW action \in ServiceActions, NEW names \in Requestable,
         ServicesAction(action, names)
  PROVE  /\ plan' \in [Services -> PlanEntry]
         /\ \A s \in Services : plan'[s].onCheckFailure = plan[s].onCheckFailure
<1>1. \A s \in Services : plan[s] \in PlanEntry
  BY DEF OverlordTypes
<1>2. ASSUME NEW entry \in PlanEntry
      PROVE  /\ [entry EXCEPT !.startup = "enabled"] \in PlanEntry
             /\ [entry EXCEPT !.startup = "enabled"].onCheckFailure = entry.onCheckFailure
  <2>1. [entry EXCEPT !.startup = "enabled"] \in PlanEntry
    BY DEF PlanEntry
  <2>2. [entry EXCEPT !.startup = "enabled"].onCheckFailure = entry.onCheckFailure
    BY DEF PlanEntry
  <2> QED
    BY <2>1, <2>2
<1> QED
  BY <1>1, <1>2 DEF ServicesAction, OverlordTypes

\* The scripts that events, requests and checks make.
LEMMA ScriptsAreEntries ==
  ASSUME OverlordTypes, OverlordStep \/ EnvironmentStep
  PROVE  script' \in Seq(AnyEntry)
<1>1. CASE Autostart
  BY <1>1, SendsAreAnyEntries DEF Autostart, Answered
<1>2. CASE OnStateChanged
  <2>1. ASSUME NEW R, R \subseteq Services, NEW D, D \subseteq Services,
               NEW starts \in SendAll("Start", R), NEW stops \in SendAll("Stop", D)
        PROVE  starts \o stops \in Seq(AnyEntry)
    <3>1. starts \in Seq(AnyEntry) /\ stops \in Seq(AnyEntry)
      BY <2>1, SendsAreAnyEntries DEF Answered
    <3> QED
      BY <3>1, ConcatProperties
  <2>2. PICK R, D : /\ R \subseteq Services /\ D \subseteq Services
                    /\ \E starts \in SendAll("Start", R), stops \in SendAll("Stop", D) :
                         script' = starts \o stops
    BY <1>2 DEF OnStateChanged, OverlordTypes
  <2> QED
    BY <2>1, <2>2
<1>3. CASE OnCheckDown
  <2>1. \E R : /\ R \subseteq Services
               /\ \E sends \in SendAll("Restart", R),
                    exit \in {<<>>, <<ExitWith("0")>>, <<ExitWith("10")>>} :
                    script' = sends \o exit
    <3> DEFINE ends == {s \in Services : plan[s].onCheckFailure \notin {"restart", "ignore"}}
               R == {s \in Services : /\ plan[s].onCheckFailure = "restart"
                                      /\ \A x \in ends : Place(s) < Place(x)}
    <3>1. R \subseteq Services
      OBVIOUS
    <3>2. \E sends \in SendAll("Restart", R),
             exit \in {<<>>, <<ExitWith("0")>>, <<ExitWith("10")>>} : script' = sends \o exit
      BY <1>3 DEF OnCheckDown
    <3> HIDE DEF R
    <3> QED
      BY <3>1, <3>2
  <2>2. PICK R : /\ R \subseteq Services
                 /\ \E sends \in SendAll("Restart", R),
                      exit \in {<<>>, <<ExitWith("0")>>, <<ExitWith("10")>>} :
                      script' = sends \o exit
    BY <2>1
  <2>3. PICK sends \in SendAll("Restart", R),
             exit \in {<<>>, <<ExitWith("0")>>, <<ExitWith("10")>>} :
          script' = sends \o exit
    BY <2>2
  <2>4. sends \in Seq(AnyEntry)
    BY <2>2, SendsAreAnyEntries DEF Answered
  <2>5. exit \in Seq(AnyEntry)
    <3>1. ExitWith("0") \in AnyEntry /\ ExitWith("10") \in AnyEntry
      BY DEF ExitWith, AnyEntry
    <3>2. \A e \in AnyEntry : <<e>> \in Seq(AnyEntry)
      OBVIOUS
    <3>3. <<>> \in Seq(AnyEntry)
      OBVIOUS
    <3> QED
      BY <3>1, <3>2, <3>3
  <2> QED
    BY <2>3, <2>4, <2>5, ConcatProperties
<1>4. ASSUME NEW action \in ServiceActions, NEW names \in Requestable,
             ServicesAction(action, names)
      PROVE  script' \in Seq(AnyEntry)
  BY <1>4, EachIsAnyEntry DEF ServicesAction, Requestable, ServiceActions, Answered
<1>5. CASE ForwardSignal
  BY <1>5, SendsAreAnyEntries DEF ForwardSignal
<1>6. CASE SendNext
  <2>1. script \in Seq(AnyEntry) /\ script # <<>> /\ script' = Tail(script)
    BY <1>6 DEF SendNext, OverlordTypes
  <2> QED
    BY <2>1
<1>7. CASE ExitNext
  BY <1>7 DEF ExitNext
<1>8. CASE \/ OnProcessExited \/ OnDaemonShutdown \/ Exit \/ DaemonStop
           \/ \E s \in Services : StopTaskSends(s)
  BY <1>8 DEF OverlordTypes, OnProcessExited, OnDaemonShutdown, Exit, DaemonStop,
              StopTaskSends, overlordVars
<1> QED
  BY <1>1, <1>2, <1>3, <1>4, <1>5, <1>6, <1>7, <1>8 DEF OverlordStep, EnvironmentStep

LEMMA OverlordTypesStep ==
  ASSUME OverlordTypes, [SupNext]_supVars
  PROVE  OverlordTypes'
<1>1. CASE UNCHANGED supVars
  BY <1>1 DEF supVars, overlordVars, OverlordTypes
<1>2. CASE OverlordStep
  <2>1. script' \in Seq(AnyEntry)
    BY <1>2, ScriptsAreEntries
  <2>2. CASE SendNext
    <3>1. PICK s \in Services : Head(script).to = s
      BY <2>2 DEF SendNext
    <3>2. Head(script) \in AnyEntry
      BY <2>2 DEF SendNext, OverlordTypes
    <3>3. Head(script).do \in MailCommands
      BY <3>1, <3>2, NoServiceAssumption DEF AnyEntry, Answered, MailCommands
    <3>4. mailbox' \in [Services -> Seq(MailCommands)]
      BY <2>2, <3>1, <3>3 DEF SendNext, Put, OverlordTypes
    <3> QED
      BY <2>1, <2>2, <3>1, <3>4 DEF SendNext, OverlordTypes
  <2>3. CASE ExitNext \/ OnDaemonShutdown \/ Exit \/ Autostart
    BY <2>1, <2>3 DEF ExitNext, OnDaemonShutdown, Exit, Autostart, StopAll, OverlordTypes
  <2>4. CASE OnStateChanged \/ OnProcessExited
    BY <2>1, <2>4 DEF OnStateChanged, OnProcessExited, overlordVars, OverlordTypes
  <2>5. ASSUME NEW s \in Services, StopTaskSends(s)
        PROVE  OverlordTypes'
    <3>1. mailbox' \in [Services -> Seq(MailCommands)]
      <4>1. PICK cmd \in {"Stop", "Shutdown"} : Put(s, cmd)
        BY <2>5 DEF StopTaskSends
      <4>2. cmd \in MailCommands
        BY DEF MailCommands
      <4> QED
        BY <4>1, <4>2 DEF Put, OverlordTypes
    <3> QED
      BY <2>1, <2>5, <3>1 DEF StopTaskSends, OverlordTypes
  <2> QED
    BY <1>2, <2>2, <2>3, <2>4, <2>5 DEF OverlordStep
<1>3. CASE EnvironmentStep
  <2>1. script' \in Seq(AnyEntry)
    BY <1>3, ScriptsAreEntries
  <2>2. ASSUME NEW action \in ServiceActions, NEW names \in Requestable,
               ServicesAction(action, names)
        PROVE  OverlordTypes'
    <3>1. UNCHANGED <<waiting, stopTask, mailbox, pending>>
      BY <2>2 DEF ServicesAction
    <3> QED
      BY <2>1, <2>2, <3>1, PolicyKept DEF OverlordTypes
  <2>3. CASE ForwardSignal \/ DaemonStop \/ OnCheckDown
    BY <2>1, <2>3 DEF ForwardSignal, DaemonStop, OnCheckDown, StopAll, OverlordTypes
  <2> QED
    BY <1>3, <2>2, <2>3 DEF EnvironmentStep
<1>4. ASSUME NEW s \in Services, ActorsStep(s)
      PROVE  OverlordTypes'
  <2>1. CASE ReceiveCommand(s)
    <3>1. mailbox' \in [Services -> Seq(MailCommands)]
      <4>1. mailbox[s] \in Seq(MailCommands) /\ mailbox[s] # <<>>
        BY <2>1 DEF ReceiveCommand, OverlordTypes
      <4>2. Tail(mailbox[s]) \in Seq(MailCommands)
        BY <4>1
      <4> QED
        BY <2>1, <4>2 DEF ReceiveCommand, Take, OverlordTypes
    <3> QED
      BY <2>1, <3>1 DEF ReceiveCommand, overlordVars, OverlordTypes
  <2>2. CASE ReactUnprompted(s) \/ Continue(s) \/ Emit(s)
    BY <2>2 DEF ReactUnprompted, Continue, Emit, overlordVars, OverlordTypes
  <2>3. CASE Answer(s)
    BY <2>3 DEF Answer, OverlordTypes
  <2> QED
    BY <1>4, <2>1, <2>2, <2>3 DEF ActorsStep
<1>5. ASSUME NEW s \in Services, ProcessesStep(s)
      PROVE  OverlordTypes'
  BY <1>5 DEF ProcessesStep, overlordVars, OverlordTypes
<1> QED
  BY <1>1, <1>2, <1>3, <1>4, <1>5 DEF SupNext

LEMMA ProtocolOverlord ==
  ASSUME ReplyInv, OverlordStep \/ EnvironmentStep
  PROVE  DaemonInv' /\ \A t \in Services : Protocol(t)'
<1>1. CASE SendNext
  <2>1. /\ Head(script) \in AnyEntry /\ Head(script).to \in Services
        /\ daemon = "run" /\ waiting = NoService
    BY <1>1 DEF SendNext, ReplyInv, OverlordTypes
  <2>2. Head(script).do \in Answered \cup {"ForwardSignal"}
    BY <2>1, NoServiceAssumption DEF AnyEntry
  <2>3. PICK s \in Services, cmd \in Answered \cup {"ForwardSignal"} :
          Head(script).to = s /\ Head(script).do = cmd
    BY <2>1, <2>2
  <2>4. Protocol(s)'
    <3>1. /\ Put(s, cmd) /\ UNCHANGED vars /\ stopTask' = stopTask
          /\ waiting' = IF cmd = "ForwardSignal" THEN NoService ELSE s
      BY <1>1, <2>3 DEF SendNext
    <3>2. cmd \in MailCommands
      BY DEF MailCommands, Answered
    <3>3. CASE cmd = "ForwardSignal"
      BY <2>1, <3>1, <3>2, <3>3, ProtocolSends
    <3>4. CASE cmd \in Answered
      <4>1. waiting' = s
        BY <3>1, <3>4 DEF Answered
      <4> QED
        BY <2>1, <3>1, <3>2, <3>4, <4>1, ProtocolSends
    <3> QED
      BY <3>3, <3>4
  <2>5. ASSUME NEW t \in Services \ {s}
        PROVE  Protocol(t)'
    <3>1. mailbox'[t] = mailbox[t] /\ (waiting' = t <=> waiting = t)
      BY <1>1, <2>3, NoServiceAssumption DEF SendNext, Put, ReplyInv, OverlordTypes
    <3> QED
      BY <1>1, <3>1, ProtocolFrame DEF SendNext, vars, ReplyInv
  <2>6. DaemonInv'
    BY <1>1 DEF SendNext, ReplyInv, DaemonInv
  <2> QED
    BY <2>4, <2>5, <2>6
<1>2. ASSUME NEW s \in Services, StopTaskSends(s)
      PROVE  DaemonInv' /\ \A t \in Services : Protocol(t)'
  <2>1. Protocol(s)'
    <3>1. CASE stopTask[s] = "start"
      <4>1. Put(s, "Stop") /\ stopTask' = [stopTask EXCEPT ![s] = "await"]
        BY <1>2, <3>1 DEF StopTaskSends
      <4> QED
        BY <1>2, <3>1, <4>1, ProtocolSends DEF StopTaskSends, MailCommands
    <3>2. CASE stopTask[s] = "reply"
      <4>1. Put(s, "Shutdown") /\ stopTask' = [stopTask EXCEPT ![s] = "done"]
        BY <1>2, <3>2 DEF StopTaskSends
      <4> QED
        BY <1>2, <3>2, <4>1, ProtocolSends DEF StopTaskSends, MailCommands
    <3> QED
      BY <1>2, <3>1, <3>2 DEF StopTaskSends
  <2>2. ASSUME NEW t \in Services \ {s}
        PROVE  Protocol(t)'
    <3>1. mailbox'[t] = mailbox[t] /\ stopTask'[t] = stopTask[t]
      BY <1>2 DEF StopTaskSends, Put, ReplyInv, OverlordTypes
    <3> QED
      BY <1>2, <3>1, ProtocolFrame DEF StopTaskSends, vars, ReplyInv
  <2>3. DaemonInv'
    BY <1>2 DEF StopTaskSends, ReplyInv, DaemonInv, OverlordTypes
  <2> QED
    BY <2>1, <2>2, <2>3
<1>3. CASE Autostart
  BY <1>3, ProtocolDecides DEF Autostart
<1>4. CASE OnStateChanged \/ OnProcessExited
  BY <1>4, ProtocolDecides DEF OnStateChanged, OnProcessExited, overlordVars
<1>5. CASE OnDaemonShutdown
  BY <1>5, ProtocolDecides DEF OnDaemonShutdown, NextEvent, OverlordAtSelect, StopAll
<1>6. CASE ExitNext
  BY <1>6, ProtocolDecides DEF ExitNext, StopAll
<1>7. CASE Exit
  BY <1>7, ProtocolDecides DEF Exit
<1>8. ASSUME NEW action \in ServiceActions, NEW names \in Requestable,
             ServicesAction(action, names)
      PROVE  DaemonInv' /\ \A t \in Services : Protocol(t)'
  BY <1>8, ProtocolDecides DEF ServicesAction
<1>9. CASE ForwardSignal \/ OnCheckDown
  BY <1>9, ProtocolDecides DEF ForwardSignal, OnCheckDown
<1>10. CASE DaemonStop
  BY <1>10, ProtocolDecides DEF DaemonStop, OverlordAtSelect, StopAll
<1> QED
  BY <1>1, <1>2, <1>3, <1>4, <1>5, <1>6, <1>7, <1>8, <1>9, <1>10
     DEF OverlordStep, EnvironmentStep

LEMMA ReplyStep ==
  ASSUME TypeOK, ReplyInv, [SupNext]_supVars
  PROVE  ReplyInv'
<1>1. OverlordTypes'
  BY OverlordTypesStep DEF ReplyInv
<1>2. CASE UNCHANGED supVars
  BY <1>1, <1>2, ProtocolDecides DEF ReplyInv, supVars, overlordVars
<1>3. CASE OverlordStep \/ EnvironmentStep
  BY <1>1, <1>3, ProtocolOverlord DEF ReplyInv
<1>4. ASSUME NEW s \in Services, ActorsStep(s)
      PROVE  ReplyInv'
  BY <1>1, <1>4, ProtocolActors DEF ReplyInv
<1>5. ASSUME NEW s \in Services, ProcessesStep(s)
      PROVE  ReplyInv'
  <2>1. UNCHANGED <<actor, daemon, waiting, stopTask, mailbox>>
    BY <1>5 DEF ProcessesStep, ProcessStep, ProcessExit, overlordVars
  <2>2. DaemonInv'
    BY <2>1 DEF ReplyInv, DaemonInv
  <2>3. \A t \in Services : Protocol(t)'
    BY <2>1, ProtocolFrame DEF ReplyInv
  <2> QED
    BY <1>1, <2>2, <2>3 DEF ReplyInv
<1> QED
  BY <1>2, <1>3, <1>4, <1>5 DEF SupNext

LEMMA ReplyInit ==
  ASSUME SupInit PROVE ReplyInv
<1>1. \A s \in Services : actor[s] = NewActor
  BY DEF SupInit, Init
<1>2. NewActor.todo = "none" /\ NewActor.outbox = <<>> /\ NewActor.phase = "run"
  BY DEF NewActor
<1>3. OverlordTypes
  BY PlansAssumption DEF SupInit, OverlordTypes
<1>4. ASSUME NEW s \in Services
      PROVE  Protocol(s)
  <2>1. mailbox[s] = <<>> /\ actor[s].outbox = <<>>
    BY <1>1, <1>2 DEF SupInit
  <2>2. DOMAIN mailbox[s] = {} /\ DOMAIN actor[s].outbox = {}
    BY <2>1
  <2>3. Replies(s) = {} /\ Mail(s) = {}
    BY <2>2 DEF Replies, RepliesIn, Mail
  <2>4. actor[s].todo = "none" /\ actor[s].phase = "run" /\ stopTask[s] = "idle"
    BY <1>1, <1>2 DEF SupInit
  <2>5. waiting # s
    BY NoServiceAssumption DEF SupInit
  <2>6. OwesNothing(s) /\ ActorOwes(s) /\ ~ Awaited(s) /\ ~ Leaving(s)
    BY <2>2, <2>3, <2>4, <2>5 DEF ActorOwes, OwesNothing, Awaited, Leaving, One
  <2> QED
    BY <2>3, <2>6 DEF Protocol, One
<1>5. DaemonInv
  BY DEF SupInit, DaemonInv
<1> QED
  BY <1>3, <1>4, <1>5 DEF ReplyInv

LEMMA Replied == SupSpec => []ReplyInv
<1>1. SupInit => ReplyInv
  BY ReplyInit
<1>2. TypeOK /\ ReplyInv /\ [SupNext]_supVars => ReplyInv'
  BY ReplyStep
<1> QED
  BY <1>1, <1>2, SupervisedActors, PTL DEF SupSpec

\* Nobody awaits a reply in vain (svc_cmd and the tasks of stop_all do so with no
\* timeout): the command, its handler or its reply is there, one of them and once,
\* and the actor has not left its loop with the command in its mailbox.  Nor is
\* there a command or a reply that nobody awaits any more, which would be taken
\* for the answer to a later one.
RepliesAreAwaited ==
  \A s \in Services :
    /\ waiting = s \/ stopTask[s] = "await" <=>
         \/ \E i \in DOMAIN mailbox[s] : mailbox[s][i] \in Answered
         \/ actor[s].todo = "spawn_start"
         \/ \E i \in DOMAIN actor[s].outbox : actor[s].outbox[i].kind = "reply"
    /\ One(Mail(s)) /\ One(Replies(s))
    /\ Mail(s) # {} => actor[s].todo # "spawn_start" /\ Replies(s) = {}
    /\ actor[s].todo = "spawn_start" => Replies(s) = {}
    /\ waiting = s \/ stopTask[s] = "await" =>
         /\ actor[s].phase = "run"
         /\ \A i \in DOMAIN mailbox[s] : mailbox[s][i] # "Shutdown"

\* What the overlord waits for comes from an actor that is there, and comes once.
THEOREM RepliesConserved == SupSpec => []RepliesAreAwaited
<1>1. ReplyInv => RepliesAreAwaited
  <2> SUFFICES ASSUME ReplyInv, NEW s \in Services
               PROVE  /\ Awaited(s) <=>
                           \/ \E i \in DOMAIN mailbox[s] : mailbox[s][i] \in Answered
                           \/ actor[s].todo = "spawn_start"
                           \/ \E i \in DOMAIN actor[s].outbox :
                                actor[s].outbox[i].kind = "reply"
                      /\ One(Mail(s)) /\ One(Replies(s))
                      /\ Mail(s) # {} => actor[s].todo # "spawn_start" /\ Replies(s) = {}
                      /\ actor[s].todo = "spawn_start" => Replies(s) = {}
                      /\ Awaited(s) =>
                           /\ actor[s].phase = "run"
                           /\ \A i \in DOMAIN mailbox[s] : mailbox[s][i] # "Shutdown"
    BY DEF RepliesAreAwaited, Awaited
  <2>1. Protocol(s)
    BY DEF ReplyInv
  <2>2. Mail(s) # {} <=> \E i \in DOMAIN mailbox[s] : mailbox[s][i] \in Answered
    BY DEF Mail
  <2>3. Replies(s) # {} <=>
          \E i \in DOMAIN actor[s].outbox : actor[s].outbox[i].kind = "reply"
    BY DEF Replies, RepliesIn
  <2>4. Awaited(s) => ~ Leaving(s)
    <3> SUFFICES ASSUME Leaving(s) PROVE waiting # s /\ stopTask[s] # "await"
      BY DEF Awaited
    <3>1. stopTask[s] = "done"
      BY <2>1 DEF Protocol
    <3>2. waiting = NoService
      BY <3>1 DEF ReplyInv, DaemonInv
    <3> QED
      BY <3>1, <3>2, NoServiceAssumption
  <2> QED
    BY <2>1, <2>2, <2>3, <2>4 DEF Protocol, ActorOwes, OwesNothing, Leaving
<1> QED
  BY <1>1, Replied, PTL

-----------------------------------------------------------------------------
(* No deferred start is forgotten.                                         *)

\* A Start of s is on its way to the actor.
Coming(s) ==
  \/ \E i \in DOMAIN script : script[i] = Send("Start", s)
  \/ \E i \in DOMAIN mailbox[s] : mailbox[s][i] = "Start"

\* Who is to be started was, or has a Start coming, or waits for something that the
\* overlord has not seen to run.
WakeInv ==
  /\ \A x \in Services : x \notin born => Untouched(x)
  /\ \A x \in pending : ~ after_deps_running(snap, x)
  /\ daemon = "run" =>
       \A x \in Services : plan[x].startup = "enabled" => x \in born \cup pending \/ Coming(x)

\* The commands to a set of services reach each of them.
LEMMA SendsReach ==
  ASSUME NEW cmd, NEW S, NEW q \in SendAll(cmd, S), NEW s \in S
  PROVE  \E i \in DOMAIN q : q[i] = Send(cmd, s)
<1>1. PICK o \in InPlanOrder(S) : q = [i \in DOMAIN o |-> Send(cmd, o[i])]
  BY DEF SendAll, SendEach
<1>2. PICK i \in DOMAIN o : o[i] = s
  BY <1>1 DEF InPlanOrder
<1> QED
  BY <1>1, <1>2

\* The first command of an actor that was never started makes it begin.
LEMMA StartBegins ==
  ASSUME TypeOK, NEW s \in Services, Untouched(s), Start(s) \/ Restart(s)
  PROVE  actor'[s].state = "Starting"
<1>1. actor[s] \in Actor
  BY DEF TypeOK
<1>2. actor'[s] = [actor[s] EXCEPT !.state = "Starting", !.todo = "spawn_start",
                                   !.outbox = <<StateChanged("Starting")>>]
  BY DEF Start, Restart, handle_start, is_running, Become, TypeOK, Untouched
<1> QED
  BY <1>1, <1>2 DEF Actor

\* The actors: a Start that is taken makes its service begin, unless it has before.
LEMMA WakeActors ==
  ASSUME TypeOK, OverlordTypes, WakeInv, NEW s \in Services, ActorsStep(s), RecordsStarts
  PROVE  WakeInv'
<1>1. \A t \in Services \ {s} : actor'[t] = actor[t]
  <2>1. Command(s) \/ ActorStep(s) \/ Deliver(s) \/ UNCHANGED vars
    BY ActorsStepConforms
  <2> QED
    BY <2>1, StepFrame DEF vars
<1>2. UNCHANGED <<plan, snap, pending, script, daemon>>
  BY DEF ActorsStep, ReceiveCommand, ReactUnprompted, Continue, Emit, Answer, overlordVars
<1>3. /\ born \subseteq born'
      /\ actor'[s].state = "Starting" => s \in born'
  BY DEF RecordsStarts
<1>4. /\ \A t \in Services \ {s} : mailbox'[t] = mailbox[t]
      /\ \/ mailbox'[s] = mailbox[s]
         \/ /\ mailbox[s] # <<>> /\ mailbox'[s] = Tail(mailbox[s])
            /\ Head(mailbox[s]) = "Start" => Start(s)
  <2>1. mailbox' = mailbox \/ ReceiveCommand(s)
    BY DEF ActorsStep, ReactUnprompted, Continue, Emit, Answer
  <2> QED
    BY <2>1 DEF OverlordTypes, ReceiveCommand, Take
<1>5. ASSUME NEW t \in Services, t \notin born' PROVE Untouched(t)'
  <2>1. Untouched(t)
    BY <1>3, <1>5 DEF WakeInv
  <2>2. CASE t # s
    BY <1>1, <2>1, <2>2 DEF Untouched
  <2>3. CASE t = s
    <3>1. ~ Start(s) /\ ~ Restart(s)
      BY <1>3, <1>5, <2>1, <2>3, StartBegins
    <3>2. Stop(s) \/ Shutdown(s) \/ ActorStep(s) \/ Deliver(s) \/ UNCHANGED vars
      BY <3>1, ActorsStepConforms DEF Command
    <3>3. CASE UNCHANGED vars
      BY <2>1, <2>3, <3>3 DEF vars, Untouched
    <3> QED
      BY <2>1, <2>3, <3>2, <3>3, UntouchedActs
  <2> QED
    BY <2>2, <2>3
<1>6. \A x \in pending' : ~ after_deps_running(snap', x)
  <2>1. \A x : after_deps_running(snap, x)' = after_deps_running(snap', x)
    BY <1>2 DEF after_deps_running, Dependencies
  <2>2. \A x : after_deps_running(snap', x) => after_deps_running(snap, x)
    BY <1>2
  <2> QED
    BY <1>2, <2>2 DEF WakeInv
<1>7. ASSUME NEW x \in Services, Coming(x) PROVE Coming(x)' \/ x \in born'
  <2>1. CASE \E i \in DOMAIN script : script[i] = Send("Start", x)
    BY <1>2, <2>1 DEF Coming
  <2>2. ASSUME NEW i \in DOMAIN mailbox[x], mailbox[x][i] = "Start"
        PROVE  Coming(x)' \/ x \in born'
    <3>1. CASE mailbox'[x] = mailbox[x]
      BY <2>2, <3>1 DEF Coming
    <3>2. CASE x = s /\ mailbox[s] # <<>> /\ mailbox'[s] = Tail(mailbox[s])
                 /\ (Head(mailbox[s]) = "Start" => Start(s))
      <4>1. mailbox[s] \in Seq(MailCommands)
        BY DEF OverlordTypes
      <4>2. \/ i = 1 /\ Head(mailbox[s]) = mailbox[s][1]
            \/ i - 1 \in DOMAIN mailbox'[s] /\ mailbox'[s][i - 1] = mailbox[s][i]
        BY <2>2, <3>2, <4>1
      <4>3. CASE i = 1 /\ Head(mailbox[s]) = mailbox[s][1]
        <5>1. Start(s)
          BY <2>2, <3>2, <4>3
        <5>2. s \in born \/ Untouched(s)
          BY DEF WakeInv
        <5> QED
          BY <1>3, <3>2, <5>1, <5>2, StartBegins
      <4>4. CASE i - 1 \in DOMAIN mailbox'[s] /\ mailbox'[s][i - 1] = mailbox[s][i]
        BY <2>2, <3>2, <4>4 DEF Coming
      <4> QED
        BY <4>2, <4>3, <4>4
    <3> QED
      BY <1>4, <3>1, <3>2
  <2> QED
    BY <1>7, <2>1, <2>2 DEF Coming
<1>8. daemon' = "run" => \A x \in Services : plan'[x].startup = "enabled" =>
                            x \in born' \cup pending' \/ Coming(x)'
  BY <1>2, <1>3, <1>7 DEF WakeInv
<1> QED
  BY <1>2, <1>5, <1>6, <1>8 DEF WakeInv, after_deps_running, Dependencies

\* The overlord decides: who waits, waits for something, and who does not has its Start.
LEMMA WakeDecides ==
  ASSUME WakeInv, UNCHANGED <<vars, born>>,
         \A x \in Services : Dependencies(x)' = Dependencies(x),
         pending' \subseteq Services,
         \A x \in pending' : ~ after_deps_running(snap', x),
         daemon' = "run" => \A x \in Services : plan'[x].startup = "enabled" =>
                              x \in born \cup pending' \/ Coming(x)'
  PROVE  WakeInv'
<1>1. \A x \in Services : x \notin born' => Untouched(x)'
  BY DEF WakeInv, vars, Untouched
<1>2. \A x \in pending' : ~ after_deps_running(snap, x)'
  BY DEF after_deps_running
<1> QED
  BY <1>1, <1>2 DEF WakeInv

\* It goes on with what it has decided.
LEMMA WakeGoesOn ==
  ASSUME WakeInv, OverlordTypes, UNCHANGED <<vars, born, plan, snap, pending>>,
         daemon' = "run" => /\ daemon = "run"
                            /\ \A x \in Services : Coming(x) => Coming(x)'
  PROVE  WakeInv'
<1>1. \A x \in Services : Dependencies(x)' = Dependencies(x)
  BY DEF Dependencies
<1>2. \A x \in pending' : ~ after_deps_running(snap', x)
  BY DEF WakeInv
<1>3. daemon' = "run" => \A x \in Services : plan'[x].startup = "enabled" =>
                           x \in born \cup pending' \/ Coming(x)'
  BY DEF WakeInv
<1>4. pending' \subseteq Services
  BY DEF OverlordTypes
<1> QED
  BY <1>1, <1>2, <1>3, <1>4, WakeDecides

LEMMA WakeOverlord ==
  ASSUME FollowInv, OverlordTypes, WakeInv, born' = born, OverlordStep
  PROVE  WakeInv'
<1>1. UNCHANGED vars
  BY OverlordConforms
<1>2. CASE Autostart
  <2> DEFINE enabled == {s \in Services : plan[s].startup = "enabled"}
             ready == {s \in enabled : after_deps_running(snap, s)}
  <2>1. /\ script' \in SendAll("Start", ready) /\ pending' = pending \cup (enabled \ ready)
        /\ UNCHANGED <<plan, snap>>
    BY <1>2 DEF Autostart
  <2>2. \A x \in ready : Coming(x)'
    BY <2>1, SendsReach DEF Coming
  <2>3. \A x \in pending' : ~ after_deps_running(snap, x)
    BY <2>1 DEF WakeInv
  <2>4. \A x \in Services : plan[x].startup = "enabled" => x \in pending' \/ Coming(x)'
    BY <2>1, <2>2
  <2>5. pending' \subseteq Services
    BY <2>1 DEF OverlordTypes
  <2>6. \A x \in Services : Dependencies(x)' = Dependencies(x)
    BY <2>1 DEF Dependencies
  <2> HIDE DEF enabled, ready
  <2> QED
    BY <1>1, <2>1, <2>3, <2>4, <2>5, <2>6, WakeDecides
<1>3. CASE OnStateChanged
  <2> DEFINE s == Head(events).from
             st == Head(events).what.value
             sn == [snap EXCEPT ![s] = st]
             ready == {x \in pending : is_running(st) /\ after_deps_running(sn, x)}
             dependents == {x \in Services : /\ st \in {"Inactive", "Error"}
                                             /\ s \in plan[x].requires
                                             /\ is_running(sn[x])}
  <2>1. PICK starts \in SendAll("Start", ready), stops \in SendAll("Stop", dependents) :
          script' = starts \o stops
    BY <1>3 DEF OnStateChanged
  <2>2. /\ snap' = sn /\ pending' = pending \ ready /\ UNCHANGED <<plan, mailbox, daemon>>
        /\ script = <<>> /\ daemon = "run" /\ events # <<>>
    BY <1>3 DEF OnStateChanged, NextEvent, OverlordAtSelect
  <2>3. s \in Services /\ snap \in [Services -> States]
    <3> DEFINE E == [from : Services, what : Outputs]
    <3>1. events \in Seq(E) /\ snap \in [Services -> States]
      BY DEF FollowInv
    <3> HIDE DEF E
    <3>2. Head(events) \in E
      BY <2>2, <3>1
    <3> QED
      BY <3>1, <3>2 DEF E
  <2>4. ready \subseteq Services /\ dependents \subseteq Services
    BY DEF OverlordTypes
  <2>5. \A x \in pending' : ~ after_deps_running(snap', x)
    <3> SUFFICES ASSUME NEW x \in pending, x \notin ready, after_deps_running(sn, x)
                 PROVE  FALSE
      BY <2>2
    <3>1. ~ is_running(st)
      OBVIOUS
    <3>2. sn[s] = st /\ \A d \in Services \ {s} : sn[d] = snap[d]
      BY <2>3
    <3>3. after_deps_running(snap, x)
      BY <3>1, <3>2 DEF after_deps_running
    <3> QED
      BY <3>3 DEF WakeInv
  <2>6. \A x \in ready : Coming(x)'
    <3> SUFFICES ASSUME NEW x \in ready PROVE Coming(x)'
      OBVIOUS
    <3>1. starts \in Seq(AnyEntry) /\ stops \in Seq(AnyEntry)
      BY <2>4, SendsAreAnyEntries DEF Answered
    <3>2. PICK i \in DOMAIN starts : starts[i] = Send("Start", x)
      BY SendsReach
    <3>3. i \in DOMAIN (starts \o stops) /\ (starts \o stops)[i] = starts[i]
      BY <3>1
    <3> QED
      BY <2>1, <3>2, <3>3 DEF Coming
  <2>7. \A x \in Services : Coming(x) => Coming(x)'
    BY <2>2 DEF Coming
  <2>8. \A x \in Services : plan'[x].startup = "enabled" =>
                              x \in born \cup pending' \/ Coming(x)'
    BY <2>2, <2>6, <2>7 DEF WakeInv
  <2>9. /\ pending' \subseteq Services
        /\ \A x \in Services : Dependencies(x)' = Dependencies(x)
    BY <2>2 DEF OverlordTypes, Dependencies
  <2> QED
    BY <1>1, <2>5, <2>8, <2>9, WakeDecides
<1>4. CASE OnProcessExited \/ Exit
  <2>1. \A x \in Services : Coming(x)' = Coming(x)
    BY <1>4 DEF OnProcessExited, Exit, overlordVars, Coming
  <2> QED
    BY <1>1, <1>4, <2>1, WakeGoesOn DEF OnProcessExited, Exit, overlordVars
<1>5. CASE OnDaemonShutdown \/ ExitNext
  BY <1>1, <1>5, WakeGoesOn DEF OnDaemonShutdown, ExitNext, StopAll
<1>6. CASE SendNext
  <2>1. /\ script \in Seq(AnyEntry) /\ script # <<>> /\ script' = Tail(script)
        /\ Head(script).to \in Services /\ Put(Head(script).to, Head(script).do)
        /\ UNCHANGED <<plan, snap, pending, daemon>> /\ daemon = "run"
    BY <1>6 DEF SendNext, OverlordTypes
  <2>2. ASSUME NEW x \in Services, NEW i \in DOMAIN script, script[i] = Send("Start", x)
        PROVE  Coming(x)'
    <3>1. \/ i = 1 /\ Head(script) = script[1]
          \/ i - 1 \in DOMAIN script' /\ script'[i - 1] = script[i]
      BY <2>1
    <3>2. CASE i = 1 /\ Head(script) = script[1]
      <4>1. Put(x, "Start")
        BY <2>1, <2>2, <3>2 DEF Send
      <4>2. mailbox[x] \in Seq(MailCommands) /\ mailbox'[x] = Append(mailbox[x], "Start")
        BY <4>1 DEF Put, OverlordTypes
      <4>3. Len(mailbox'[x]) \in DOMAIN mailbox'[x] /\ mailbox'[x][Len(mailbox'[x])] = "Start"
        BY <4>2
      <4> QED
        BY <4>3 DEF Coming
    <3>3. CASE i - 1 \in DOMAIN script' /\ script'[i - 1] = script[i]
      BY <2>2, <3>3 DEF Coming
    <3> QED
      BY <3>1, <3>2, <3>3
  <2>3. ASSUME NEW x \in Services, NEW i \in DOMAIN mailbox[x], mailbox[x][i] = "Start"
        PROVE  Coming(x)'
    <3>1. mailbox[x] \in Seq(MailCommands)
      BY DEF OverlordTypes
    <3>2. mailbox'[x] = mailbox[x] \/ \E c : mailbox'[x] = Append(mailbox[x], c)
      BY <2>1 DEF Put, OverlordTypes
    <3>3. i \in DOMAIN mailbox'[x] /\ mailbox'[x][i] = mailbox[x][i]
      <4>1. CASE mailbox'[x] = mailbox[x]
        BY <4>1
      <4>2. ASSUME NEW c, mailbox'[x] = Append(mailbox[x], c)
            PROVE  i \in DOMAIN mailbox'[x] /\ mailbox'[x][i] = mailbox[x][i]
        BY <3>1, <4>2
      <4> QED
        BY <3>2, <4>1, <4>2
    <3> QED
      BY <2>3, <3>3 DEF Coming
  <2>4. \A x \in Services : Coming(x) => Coming(x)'
    BY <2>2, <2>3 DEF Coming
  <2> QED
    BY <1>1, <2>1, <2>4, WakeGoesOn
<1>7. ASSUME NEW s \in Services, StopTaskSends(s)
      PROVE  WakeInv'
  BY <1>1, <1>7, WakeGoesOn DEF StopTaskSends
<1> QED
  BY <1>2, <1>3, <1>4, <1>5, <1>6, <1>7 DEF OverlordStep

LEMMA WakeEnvironment ==
  ASSUME OverlordTypes, WakeInv, born' = born, EnvironmentStep
  PROVE  WakeInv'
<1>1. UNCHANGED vars
  BY OverlordConforms
<1>2. ASSUME NEW action \in ServiceActions, NEW names \in Requestable,
             ServicesAction(action, names)
      PROVE  WakeInv'
  <2> DEFINE Named(x) == \E i \in DOMAIN names : names[i] = x
  <2>1. /\ UNCHANGED <<snap, pending, mailbox, daemon>> /\ script = <<>> /\ daemon = "run"
        /\ script' = SendEach(IF action = "Autostart" THEN "Start" ELSE action, names)
    BY <1>2 DEF ServicesAction, Request, OverlordAtSelect
  <2>2. /\ \A x \in Services : plan'[x].after = plan[x].after
                            /\ plan'[x].requires = plan[x].requires
                            /\ plan'[x].before = plan[x].before
        /\ \A x \in Services : plan'[x].startup = "enabled" =>
             plan[x].startup = "enabled" \/ (action = "Autostart" /\ Named(x))
    <3>1. \A x \in Services : plan[x] \in PlanEntry
      BY DEF OverlordTypes
    <3>2. ASSUME NEW entry \in PlanEntry
          PROVE  /\ [entry EXCEPT !.startup = "enabled"].after = entry.after
                 /\ [entry EXCEPT !.startup = "enabled"].requires = entry.requires
                 /\ [entry EXCEPT !.startup = "enabled"].before = entry.before
      BY DEF PlanEntry
    <3>3. ASSUME NEW x \in Services
          PROVE  \/ plan'[x] = plan[x]
                 \/ /\ action = "Autostart" /\ Named(x)
                    /\ plan'[x] = [plan[x] EXCEPT !.startup = "enabled"]
      BY <1>2 DEF ServicesAction
    <3> QED
      BY <3>1, <3>2, <3>3
  <2>3. \A x \in Services : Dependencies(x)' = Dependencies(x)
    BY <2>2 DEF Dependencies
  <2>4. \A x \in Services : Coming(x) => Coming(x)'
    BY <2>1 DEF Coming
  <2>5. action = "Autostart" => \A x \in Services : Named(x) => Coming(x)'
    <3>1. action = "Autostart" => script' = [i \in DOMAIN names |-> Send("Start", names[i])]
      BY <2>1 DEF SendEach
    <3> QED
      BY <3>1 DEF Coming
  <2>6. \A x \in Services : plan'[x].startup = "enabled" =>
                              x \in born \cup pending' \/ Coming(x)'
    BY <2>1, <2>2, <2>4, <2>5 DEF WakeInv
  <2>7. pending' \subseteq Services /\ \A x \in pending' : ~ after_deps_running(snap', x)
    BY <2>1 DEF OverlordTypes, WakeInv
  <2> QED
    BY <1>1, <2>3, <2>6, <2>7, WakeDecides
<1>3. CASE ForwardSignal \/ OnCheckDown
  <2>1. /\ UNCHANGED <<plan, snap, pending, mailbox, daemon>> /\ script = <<>> /\ daemon = "run"
    BY <1>3 DEF ForwardSignal, OnCheckDown, Request, OverlordAtSelect
  <2>2. \A x \in Services : Coming(x) => Coming(x)'
    BY <2>1 DEF Coming
  <2> QED
    BY <1>1, <2>1, <2>2, WakeGoesOn
<1>4. CASE DaemonStop
  BY <1>1, <1>4, WakeGoesOn DEF DaemonStop, StopAll
<1> QED
  BY <1>2, <1>3, <1>4 DEF EnvironmentStep

\* Who has not begun has not since.
LEMMA NobodyBegins ==
  ASSUME WakeInv, actor' = actor, RecordsStarts
  PROVE  born' = born
BY DEF WakeInv, Untouched, RecordsStarts

LEMMA WakeStep ==
  ASSUME TypeOK, FollowInv, OverlordTypes, WakeInv, [SupNext]_supVars
  PROVE  WakeInv'
<1>1. CASE UNCHANGED supVars
  BY <1>1, WakeGoesOn DEF supVars, overlordVars, Coming
<1>2. CASE RecordsStarts /\ (OverlordStep \/ EnvironmentStep)
  <2>1. born' = born
    BY <1>2, OverlordConforms, NobodyBegins DEF vars
  <2> QED
    BY <1>2, <2>1, WakeOverlord, WakeEnvironment
<1>3. ASSUME NEW s \in Services, ActorsStep(s), RecordsStarts
      PROVE  WakeInv'
  BY <1>3, WakeActors
<1>4. ASSUME NEW s \in Services, ProcessesStep(s), RecordsStarts
      PROVE  WakeInv'
  <2>1. UNCHANGED <<actor, overlordVars, mailbox, events>>
    BY <1>4 DEF ProcessesStep, ProcessStep, ProcessExit
  <2>2. born' = born
    BY <1>4, <2>1, NobodyBegins
  <2> QED
    BY <2>1, <2>2 DEF overlordVars, WakeInv, Untouched, Coming, after_deps_running, Dependencies
<1> QED
  BY <1>1, <1>2, <1>3, <1>4 DEF SupNext

LEMMA WakeInit ==
  ASSUME SupInit PROVE WakeInv
<1>1. \A s \in Services : actor[s] = NewActor
  BY DEF SupInit, Init
<1>2. /\ NewActor.state = "Inactive" /\ NewActor.child = NoPid /\ NewActor.todo = "none"
      /\ ~ NewActor.backoffSleep /\ NewActor.outbox = <<>>
  BY DEF NewActor
<1>3. ASSUME NEW s \in Services PROVE Untouched(s)
  <2>1. actor[s] = NewActor /\ DOMAIN NewActor.outbox = {}
    BY <1>1, <1>2
  <2> QED
    BY <1>2, <2>1 DEF Untouched
<1> QED
  BY <1>3 DEF SupInit, WakeInv

LEMMA Awake == SupSpec => []WakeInv
<1>1. SupInit => WakeInv
  BY WakeInit
<1>2. TypeOK /\ FollowInv /\ OverlordTypes /\ WakeInv /\ [SupNext]_supVars => WakeInv'
  BY WakeStep
<1>3. ReplyInv => OverlordTypes
  BY DEF ReplyInv
<1> QED
  BY <1>1, <1>2, <1>3, SupervisedActors, Followed, Replied, PTL DEF SupSpec

\* No wakeup is lost: while the daemon runs, a service that the plan or a client has
\* start was started, or its Start is on its way, or it is on the list of those that
\* wait and one of the services it waits for is unknown, does not run, or is about to
\* be seen to run by an event that is still to be handled.
DeferredStartsWake ==
  daemon = "run" =>
    \A x \in Services : plan[x].startup = "enabled" =>
      \/ x \in born
      \/ Coming(x)
      \/ /\ x \in pending
         /\ \E d \in Dependencies(x) :
              \/ d \notin Services
              \/ ~ is_running(actor[d].state)
              \/ Held(d) \cup Sent(d) # {}

\* It is the safety half of AutostartProgress (autostart, try_start_pending with every
\* event of a service that runs, and the autostart action of the API): the last event
\* that a deferred service waits for finds it on the list.
THEOREM NoForgottenStart == SupSpec => []DeferredStartsWake
<1>1. FollowInv /\ WakeInv => DeferredStartsWake
  <2> SUFFICES ASSUME SnapshotFollows, WakeInv, daemon = "run",
                      NEW x \in Services, plan[x].startup = "enabled",
                      x \notin born, ~ Coming(x)
               PROVE  /\ x \in pending
                      /\ \E d \in Dependencies(x) : \/ d \notin Services
                                                    \/ ~ is_running(actor[d].state)
                                                    \/ Held(d) \cup Sent(d) # {}
    BY DEF FollowInv, DeferredStartsWake
  <2>1. x \in pending /\ ~ after_deps_running(snap, x)
    BY DEF WakeInv
  <2>2. PICK d \in Dependencies(x) : d \notin Services \/ ~ is_running(snap[d])
    BY <2>1 DEF after_deps_running
  <2>3. d \in Services /\ Held(d) \cup Sent(d) = {} => ~ is_running(actor[d].state)
    BY <2>2 DEF SnapshotFollows
  <2> QED
    BY <2>1, <2>2, <2>3
<1> QED
  BY <1>1, Followed, Awake, PTL

-----------------------------------------------------------------------------
(* What the end of the daemon leaves behind.                               *)

\* The restarts that a plan or a client may ask for, in the middle of a stop.
NoRestarts ==
  /\ "Restart" \notin Inputs
  /\ \A s \in Services : plan[s].onCheckFailure # "restart"

Asked(s) == \A p \in Pids : proc[s][p] # "running"

\* Every process was asked to stop, and the actor will start no other by itself.
Settled(s) ==
  /\ Asked(s)
  /\ actor[s].todo = "none"
  /\ actor[s].state \in {"Inactive", "Error", "Stopping"}

\* No Restart is on its way to the actor, or under way in it.
Restartless(s) ==
  /\ \A i \in DOMAIN mailbox[s] : mailbox[s][i] # "Restart"
  /\ ~ actor[s].pendingRestart
  /\ actor[s].todo \in {"none", "spawn_start", "spawn_backoff"}

\* A task of stop_all has asked every process of its service, and ended every
\* retry, once the reply to its Stop is under way.
TaskAsks(s) ==
  /\ stopTask[s] = "await" =>
       /\ actor[s].todo # "spawn_start"
       /\ \A i \in Mail(s) : mailbox[s][i] = "Stop"
       /\ Replies(s) # {} => Settled(s)
  /\ stopTask[s] \in {"reply", "done"} => Settled(s)

AskInv ==
  NoRestarts =>
    /\ script \in Seq(ScriptEntry)
    /\ \A s \in Services : Restartless(s) /\ TaskAsks(s)

\* A service that a step does not concern.
LEMMA AskFrame ==
  ASSUME NEW s \in Services, Restartless(s), TaskAsks(s),
         mailbox'[s] = mailbox[s], stopTask'[s] = stopTask[s],
         actor'[s].todo = actor[s].todo, Replies(s)' # {} => Replies(s) # {},
         actor'[s].pendingRestart = actor[s].pendingRestart,
         Settled(s) => Settled(s)'
  PROVE  Restartless(s)' /\ TaskAsks(s)'
<1>1. Mail(s)' = Mail(s)
  BY DEF Mail
<1> QED
  BY <1>1 DEF Restartless, TaskAsks

LEMMA StartGoesOn ==
  ASSUME TypeOK, NEW s \in Services, Start(s), ~ actor[s].pendingRestart
  PROVE  ~ actor'[s].pendingRestart /\ actor'[s].todo \in {"none", "spawn_start"}
<1> DEFINE a == actor[s]
<1>1. a \in Actor /\ a.todo = "none"
  BY DEF TypeOK, Start, AtSelect
<1>2. ASSUME NEW q, Become(s, [a EXCEPT !.outbox = q])
      PROVE  ~ actor'[s].pendingRestart /\ actor'[s].todo = "none"
  BY <1>1, <1>2 DEF Become, TypeOK, Actor
<1>3. ASSUME Become(s, [a EXCEPT !.state = "Starting", !.todo = "spawn_start",
                                 !.outbox = <<StateChanged("Starting")>>])
      PROVE  ~ actor'[s].pendingRestart /\ actor'[s].todo = "spawn_start"
  BY <1>1, <1>3 DEF Become, TypeOK, Actor
<1> QED
  BY <1>2, <1>3 DEF Start, handle_start

\* When the reply to a Stop is under way, every process of the service has been
\* asked, the child by now, and there is no other; a retry is called off.
LEMMA StopSettles ==
  ASSUME PatientInv, NEW s \in Services, Stop(s), ~ actor[s].pendingRestart
  PROVE  Settled(s)' /\ ~ actor'[s].pendingRestart
<1> DEFINE a == actor[s]
<1>1. /\ TypeOK /\ a \in Actor /\ a.todo = "none" /\ a.phase = "run"
      /\ PatientServiceInv(s) /\ ControlInv(s) /\ StopInv(s)
  BY DEF PatientInv, Inv, ServiceInv, TypeOK, Stop, AtSelect
<1>2. a.state # "Stopping" /\ ~ is_running(a.state) => Asked(s)
  <2>1. a.state # "Stopping" /\ ~ is_running(a.state) => a.child = NoPid
    BY <1>1 DEF PatientServiceInv, is_running
  <2> QED
    BY <1>1, <2>1, NoPidAssumption DEF Asked, PatientServiceInv, Live
<1>3. a.state = "Stopping" => Asked(s)
  BY <1>1 DEF Asked, PatientServiceInv, StopInv, Live
<1>4. CASE /\ a.state \in {"Inactive", "Error", "Stopping"}
           /\ Become(s, [a EXCEPT !.outbox = <<Reply("ok")>>])
           /\ UNCHANGED proc
  <2>1. /\ actor'[s].todo = "none" /\ ~ actor'[s].pendingRestart /\ actor'[s].state = a.state
    BY <1>1, <1>4 DEF Become, TypeOK, Actor
  <2>2. Asked(s)'
    BY <1>2, <1>3, <1>4 DEF Asked, is_running
  <2> QED
    BY <1>4, <2>1, <2>2 DEF Settled
<1>5. CASE /\ a.state = "Backoff"
           /\ Become(s, [a EXCEPT !.state = "Inactive", !.backoffSleep = FALSE,
                                  !.outbox = <<StateChanged("Inactive"), Reply("ok")>>])
           /\ UNCHANGED proc
  <2>1. actor'[s].todo = "none" /\ ~ actor'[s].pendingRestart /\ actor'[s].state = "Inactive"
    BY <1>1, <1>5 DEF Become, TypeOK, Actor
  <2>2. Asked(s)'
    BY <1>2, <1>5 DEF Asked, is_running
  <2> QED
    BY <2>1, <2>2 DEF Settled
<1>6. CASE is_running(a.state) /\ begin_stop(s, FALSE)
  <2>1. /\ actor'[s].todo = "none" /\ ~ actor'[s].pendingRestart
        /\ actor'[s].state = "Stopping"
        /\ proc'[s] = send_stop_signal(s)
    BY <1>1, <1>6 DEF begin_stop, Become, TypeOK, Actor
  <2>2. Asked(s)'
    BY <1>1, <2>1 DEF Asked, PatientServiceInv, Live, send_stop_signal, TypeOK, ProcStatus
  <2> QED
    BY <2>1, <2>2 DEF Settled
<1> QED
  BY <1>4, <1>5, <1>6 DEF Stop

\* The process that was asked to stop is the last one.
LEMMA ExitSettles ==
  ASSUME PatientInv, NEW s \in Services, ChildExit(s), ~ actor[s].pendingRestart, Settled(s)
  PROVE  Settled(s)'
<1> DEFINE a == actor[s]
<1>1. TypeOK /\ a \in Actor /\ a.todo = "none" /\ a.child # NoPid /\ PatientServiceInv(s)
  BY DEF PatientInv, Inv, TypeOK, ChildExit, AtSelect
<1>2. a.state = "Stopping"
  BY <1>1 DEF PatientServiceInv, Settled
<1>3. exit_while_stopping(s) /\ proc' = proc
  BY <1>1, <1>2 DEF ChildExit, exit_by_itself, Actor
<1>4. actor'[s].todo = "none" /\ actor'[s].state = "Inactive"
  BY <1>1, <1>3 DEF exit_while_stopping, Become, TypeOK, Actor
<1> QED
  BY <1>3, <1>4 DEF Settled, Asked

\* Signals ask, and Shutdown and the deadlines do nothing else to what is settled.
LEMMA QuietSettles ==
  ASSUME TypeOK, NEW s \in Services,
         \/ Shutdown(s) \/ KillDelayPasses(s) \/ KillDeadline(s)
         \/ CleanupKill(s) \/ CleanupReaped(s)
  PROVE  /\ actor'[s].todo = actor[s].todo
         /\ actor'[s].pendingRestart = actor[s].pendingRestart
         /\ Replies(s)' = Replies(s)
         /\ Settled(s) => Settled(s)'
<1>1. proc' = proc \/ proc'[s] = send_stop_signal(s) \/ proc'[s] = send_sigkill(s)
  BY DEF Shutdown, KillDelayPasses, KillDeadline, CleanupKill, CleanupReaped, TypeOK
<1>2. Asked(s) => Asked(s)'
  BY <1>1 DEF Asked, send_stop_signal, send_sigkill
<1> QED
  BY <1>2, QuietOwes DEF Settled, Replies

-----------------------------------------------------------------------------
(* Preservation of what has been asked.                                    *)

\* The actor takes a command from its mailbox.
LEMMA AskTakes ==
  ASSUME PatientInv, ReplyInv, NEW s \in Services,
         Restartless(s), TaskAsks(s), ReceiveCommand(s)
  PROVE  Restartless(s)' /\ TaskAsks(s)'
<1> DEFINE m == mailbox[s]
<1>1. /\ m \in Seq(MailCommands) /\ m # <<>> /\ mailbox'[s] = Tail(m)
      /\ Head(m) = m[1] /\ 1 \in DOMAIN m
      /\ \A i \in DOMAIN Tail(m) : i + 1 \in DOMAIN m /\ Tail(m)[i] = m[i + 1]
  <2>1. m \in Seq(MailCommands) /\ m # <<>> /\ mailbox'[s] = Tail(m)
    BY DEF ReplyInv, OverlordTypes, ReceiveCommand, Take
  <2> QED
    BY <2>1
<1>2. stopTask' = stopTask
  BY DEF ReceiveCommand, overlordVars
<1>3. \A i \in Mail(s)' : i + 1 \in Mail(s) /\ mailbox'[s][i] = m[i + 1]
  BY <1>1 DEF Mail
<1>4. \A i \in DOMAIN mailbox'[s] : mailbox'[s][i] # "Restart"
  BY <1>1 DEF Restartless
<1>5. TypeOK /\ ~ actor[s].pendingRestart /\ Protocol(s)
  BY DEF PatientInv, Inv, Restartless, ReplyInv
<1>6. CASE m[1] \in {"Start", "Stop"}
  <2>1. 1 \in Mail(s)
    BY <1>1, <1>6 DEF Mail, Answered
  <2>2. waiting = s \/ stopTask[s] = "await"
    BY <1>5, <2>1 DEF Protocol, Awaited
  <2>3. stopTask[s] \notin {"reply", "done"}
    BY <2>2, NoServiceAssumption DEF ReplyInv, DaemonInv
  <2>4. CASE m[1] = "Start"
    <3>1. Start(s) /\ stopTask[s] # "await"
      BY <1>1, <2>1, <2>4 DEF ReceiveCommand, TaskAsks
    <3>2. ~ actor'[s].pendingRestart /\ actor'[s].todo \in {"none", "spawn_start"}
      BY <1>5, <3>1, StartGoesOn
    <3> QED
      BY <1>2, <1>4, <2>3, <3>1, <3>2 DEF Restartless, TaskAsks
  <2>5. CASE m[1] = "Stop"
    <3>1. Stop(s)
      BY <1>1, <2>5 DEF ReceiveCommand
    <3>2. Settled(s)' /\ ~ actor'[s].pendingRestart
      BY <1>5, <3>1, StopSettles
    <3>3. actor'[s].todo = "none"
      BY <3>2 DEF Settled
    <3> QED
      BY <1>2, <1>3, <1>4, <3>2, <3>3 DEF Restartless, TaskAsks
  <2> QED
    BY <1>6, <2>4, <2>5
<1>7. CASE m[1] \notin {"Start", "Stop"}
  <2>1. /\ actor'[s].todo = actor[s].todo /\ Replies(s)' = Replies(s)
        /\ actor'[s].pendingRestart = actor[s].pendingRestart
        /\ Settled(s) => Settled(s)'
    <3>1. CASE Shutdown(s)
      BY <1>5, <3>1, QuietSettles
    <3>2. CASE UNCHANGED vars
      BY <3>2 DEF vars, Settled, Asked, Replies
    <3>3. m[1] # "Restart"
      BY <1>1 DEF Restartless
    <3> QED
      BY <1>1, <1>7, <3>1, <3>2, <3>3 DEF ReceiveCommand
  <2> QED
    BY <1>2, <1>3, <1>4, <2>1 DEF Restartless, TaskAsks
<1> QED
  BY <1>6, <1>7

\* The actor goes on by itself.
LEMMA AskGoesOn ==
  ASSUME PatientInv, ReplyInv, NEW s \in Services,
         Restartless(s), TaskAsks(s), ReactUnprompted(s) \/ Continue(s)
  PROVE  Restartless(s)' /\ TaskAsks(s)'
<1>1. UNCHANGED <<stopTask, mailbox>> /\ Mail(s)' = Mail(s)
  BY DEF ReactUnprompted, Continue, overlordVars, Mail
<1>2. TypeOK /\ Protocol(s)
  BY DEF PatientInv, Inv, ReplyInv
<1>3. /\ ~ actor[s].pendingRestart
      /\ actor[s].todo \in {"none", "spawn_start", "spawn_backoff"}
  BY DEF Restartless
<1>4. CASE ChildExit(s)
  <2>1. /\ actor'[s].todo = "none" /\ ~ actor'[s].pendingRestart
        /\ actor[s].todo = "none" /\ Replies(s)' = {}
    BY <1>2, <1>3, <1>4, ExitOwes DEF OwesNothing, ChildExit, AtSelect
  <2>2. Settled(s) => Settled(s)'
    BY <1>3, <1>4, ExitSettles
  <2> QED
    BY <1>1, <2>1, <2>2 DEF Restartless, TaskAsks
<1>5. CASE KillDelayPasses(s) \/ KillDeadline(s) \/ CleanupKill(s) \/ CleanupReaped(s)
  BY <1>1, <1>2, <1>5, QuietSettles, AskFrame
<1>6. CASE BackoffExpired(s)
  <2>1. /\ actor[s] \in Actor /\ actor[s].state = "Backoff"
    BY <1>2, <1>6 DEF BackoffExpired, AtSelect, PatientInv, PatientServiceInv, TypeOK
  <2>2. actor'[s].todo = "spawn_backoff" /\ ~ actor'[s].pendingRestart
    BY <1>2, <1>3, <1>6, <2>1 DEF BackoffExpired, Become, TypeOK, Actor
  <2>3. Replies(s)' = {}
    BY <1>2, <1>6, ExpiryOwes DEF OwesNothing
  <2>4. stopTask[s] \notin {"reply", "done"}
    BY <2>1 DEF TaskAsks, Settled
  <2> QED
    BY <1>1, <2>2, <2>3, <2>4 DEF Restartless, TaskAsks
<1>7. CASE Relaunch(s)
  BY <1>3, <1>7 DEF Relaunch
<1>8. CASE DoStart(s)
  <2>1. actor[s].todo \in {"spawn_start", "spawn_backoff"}
    BY <1>3, <1>8 DEF DoStart, SpawnTodos
  <2>2. /\ actor'[s].todo = "none" /\ ~ actor'[s].pendingRestart
        /\ OwesNothing(s)' <=> OwesNothing(s)
    BY <1>2, <1>3, <1>8, SpawnOwes
  <2>3. stopTask[s] \notin {"reply", "done"}
    BY <2>1 DEF TaskAsks, Settled
  <2>4. stopTask[s] = "await" => Replies(s)' = {}
    <3> SUFFICES ASSUME stopTask[s] = "await" PROVE OwesNothing(s)
      BY <2>2 DEF OwesNothing
    <3>1. actor[s].todo # "spawn_start" /\ actor[s].outbox = <<>>
      BY <1>8 DEF TaskAsks, DoStart
    <3> QED
      BY <3>1 DEF OwesNothing, Replies, RepliesIn
  <2> QED
    BY <1>1, <2>2, <2>3, <2>4 DEF Restartless, TaskAsks
<1> QED
  BY <1>4, <1>5, <1>6, <1>7, <1>8 DEF ReactUnprompted, Continue

\* The actor reports an event, or answers.
LEMMA AskDelivers ==
  ASSUME PatientInv, ReplyInv, NEW s \in Services,
         Restartless(s), TaskAsks(s), Emit(s) \/ Answer(s)
  PROVE  Restartless(s)' /\ TaskAsks(s)'
<1>1. TypeOK /\ Protocol(s) /\ mailbox' = mailbox /\ proc' = proc
  BY DEF PatientInv, Inv, ReplyInv, Emit, Answer, Deliver
<1>2. /\ actor'[s].todo = actor[s].todo /\ actor'[s].state = actor[s].state
      /\ actor'[s].pendingRestart = actor[s].pendingRestart
      /\ Replies(s)' # {} => Replies(s) # {}
      /\ Head(actor[s].outbox).kind = "reply" => Replies(s) # {} /\ Replies(s)' = {}
  BY <1>1, Delivered DEF Emit, Answer, Protocol
<1>3. Settled(s) => Settled(s)'
  BY <1>1, <1>2 DEF Settled, Asked
<1>4. CASE stopTask'[s] = stopTask[s]
  BY <1>1, <1>2, <1>3, <1>4, AskFrame
<1>5. CASE Answer(s) /\ stopTask[s] = "await"
  <2>1. stopTask'[s] = "reply" /\ Replies(s) # {}
    BY <1>2, <1>5 DEF Answer, ReplyInv, OverlordTypes
  <2>2. Settled(s)'
    BY <1>3, <1>5, <2>1 DEF TaskAsks
  <2> QED
    BY <1>1, <1>2, <2>1, <2>2 DEF Restartless, TaskAsks
<1> QED
  BY <1>4, <1>5 DEF Emit, Answer, overlordVars

\* The actors and their processes.
LEMMA AskActors ==
  ASSUME PatientInv, ReplyInv,
         \A t \in Services : Restartless(t) /\ TaskAsks(t),
         NEW s \in Services, ActorsStep(s)
  PROVE  /\ UNCHANGED script
         /\ \A t \in Services : Restartless(t)' /\ TaskAsks(t)'
<1>1. \/ ReceiveCommand(s) \/ ReactUnprompted(s) \/ Continue(s) \/ Emit(s) \/ Answer(s)
  BY DEF ActorsStep
<1>2. Restartless(s)' /\ TaskAsks(s)'
  BY <1>1, AskTakes, AskGoesOn, AskDelivers
<1>3. /\ script' = script
      /\ \/ stopTask' = stopTask
         \/ stopTask' = [stopTask EXCEPT ![s] = "reply"]
      /\ mailbox' = mailbox \/ mailbox' = [mailbox EXCEPT ![s] = Tail(@)]
  <2>1. CASE ReceiveCommand(s)
    BY <2>1 DEF ReceiveCommand, Take, overlordVars
  <2>2. CASE ReactUnprompted(s) \/ Continue(s) \/ Emit(s)
    BY <2>2 DEF ReactUnprompted, Continue, Emit, overlordVars
  <2>3. CASE Answer(s)
    BY <2>3 DEF Answer
  <2> QED
    BY <1>1, <2>1, <2>2, <2>3
<1>4. ASSUME NEW t \in Services \ {s}
      PROVE  Restartless(t)' /\ TaskAsks(t)'
  <2>1. mailbox'[t] = mailbox[t] /\ stopTask'[t] = stopTask[t]
    BY <1>3 DEF ReplyInv, OverlordTypes
  <2>2. actor'[t] = actor[t] /\ proc'[t] = proc[t]
    <3>1. \/ Command(s) \/ ActorStep(s) \/ Deliver(s)
          \/ UNCHANGED vars
      BY ActorsStepConforms
    <3> QED
      BY <3>1, StepFrame DEF vars, PatientInv, Inv
  <2> QED
    BY <2>1, <2>2, AskFrame DEF Settled, Asked, Replies
<1> QED
  BY <1>2, <1>3, <1>4

\* The overlord gives itself something to do, enters stop_all, or ends.
LEMMA AskDecides ==
  ASSUME \A t \in Services : Restartless(t) /\ TaskAsks(t),
         UNCHANGED <<vars, mailbox>>,
         \/ UNCHANGED stopTask
         \/ stopTask' = [s \in Services |-> "start"]
  PROVE  \A t \in Services : Restartless(t)' /\ TaskAsks(t)'
<1>1. ASSUME NEW t \in Services, stopTask' = stopTask
      PROVE  Restartless(t)' /\ TaskAsks(t)'
  BY <1>1, AskFrame DEF vars, Settled, Asked, Replies
<1>2. ASSUME NEW t \in Services, stopTask' = [s \in Services |-> "start"]
      PROVE  Restartless(t)' /\ TaskAsks(t)'
  BY <1>2 DEF vars, Restartless, TaskAsks
<1> QED
  BY <1>1, <1>2

\* A command is put into the mailbox of a service, by svc_cmd or by the task of
\* stop_all.
LEMMA AskSends ==
  ASSUME ReplyInv, NEW s \in Services, Restartless(s), TaskAsks(s),
         NEW cmd \in MailCommands, cmd # "Restart", Put(s, cmd), UNCHANGED vars,
         \/ /\ cmd = "ForwardSignal" /\ stopTask' = stopTask
         \/ /\ cmd \in {"Start", "Stop"} /\ daemon = "run" /\ stopTask' = stopTask
         \/ /\ cmd = "Stop" /\ daemon # "run" /\ stopTask[s] = "start"
            /\ stopTask' = [stopTask EXCEPT ![s] = "await"]
         \/ /\ cmd = "Shutdown" /\ stopTask[s] = "reply"
            /\ stopTask' = [stopTask EXCEPT ![s] = "done"]
  PROVE  Restartless(s)' /\ TaskAsks(s)'
<1> DEFINE m == mailbox[s]
           n == Len(m)
<1>1. /\ m \in Seq(MailCommands) /\ n \in Nat /\ DOMAIN m = 1 .. n
      /\ mailbox'[s] = Append(m, cmd)
      /\ DOMAIN mailbox'[s] = 1 .. n + 1 /\ mailbox'[s][n + 1] = cmd
      /\ \A i \in 1 .. n : mailbox'[s][i] = m[i]
  <2>1. m \in Seq(MailCommands) /\ mailbox'[s] = Append(m, cmd)
    BY DEF ReplyInv, OverlordTypes, Put
  <2> QED
    BY <2>1
<1>2. /\ Replies(s)' = Replies(s) /\ actor'[s].todo = actor[s].todo
      /\ Settled(s)' = Settled(s)
  BY DEF Replies, Settled, Asked, vars
<1>3. Restartless(s)'
  <2>1. \A i \in DOMAIN mailbox'[s] : mailbox'[s][i] # "Restart"
    BY <1>1 DEF Restartless
  <2> QED
    BY <2>1 DEF Restartless, vars
<1>4. DOMAIN stopTask = Services /\ Protocol(s)
  BY DEF ReplyInv, OverlordTypes
<1>5. CASE stopTask'[s] = "await" /\ stopTask[s] = "await"
  <2>1. cmd = "ForwardSignal"
    BY <1>4, <1>5 DEF ReplyInv, DaemonInv
  <2>2. Mail(s)' = Mail(s) /\ \A i \in Mail(s) : mailbox'[s][i] = m[i]
    BY <1>1, <2>1 DEF Mail, Answered
  <2> QED
    BY <1>2, <1>3, <1>5, <2>2 DEF TaskAsks
<1>6. CASE stopTask'[s] = "await" /\ stopTask[s] # "await"
  <2>1. cmd = "Stop" /\ stopTask[s] = "start" /\ daemon # "run"
    BY <1>4, <1>6
  <2>2. ~ Awaited(s)
    BY <1>6, <2>1, NoServiceAssumption DEF Awaited, ReplyInv, DaemonInv
  <2>3. Mail(s) = {} /\ OwesNothing(s)
    BY <1>4, <2>2 DEF Protocol
  <2>4. \A i \in Mail(s)' : mailbox'[s][i] = "Stop"
    BY <1>1, <2>1, <2>3 DEF Mail
  <2> QED
    BY <1>2, <1>3, <1>6, <2>3, <2>4 DEF TaskAsks, OwesNothing
<1>7. CASE stopTask'[s] # "await"
  <2>1. stopTask'[s] \in {"reply", "done"} => stopTask[s] \in {"reply", "done"}
    BY <1>4, <1>7
  <2> QED
    BY <1>2, <1>3, <1>7, <2>1 DEF TaskAsks
<1> QED
  BY <1>5, <1>6, <1>7

LEMMA RestartsStay ==
  ASSUME OverlordTypes, [SupNext]_supVars
  PROVE  NoRestarts' => NoRestarts
<1>1. plan' = plan \/ EnvironmentStep
  BY DEF SupNext, supVars, overlordVars, OverlordStep, SendNext, ExitNext, OnDaemonShutdown,
         Exit, Autostart, OnStateChanged, OnProcessExited, StopTaskSends, ActorsStep,
         ReceiveCommand, ReactUnprompted, Continue, Emit, Answer, ProcessesStep
<1>2. ASSUME NEW action \in ServiceActions, NEW names \in Requestable,
             ServicesAction(action, names)
      PROVE  NoRestarts' => NoRestarts
  BY <1>2, PolicyKept DEF NoRestarts
<1>3. CASE ForwardSignal \/ DaemonStop \/ OnCheckDown
  BY <1>3 DEF ForwardSignal, DaemonStop, OnCheckDown, NoRestarts
<1> QED
  BY <1>1, <1>2, <1>3 DEF EnvironmentStep, NoRestarts

\* What the overlord does by itself.
LEMMA AskOverlord ==
  ASSUME ReplyInv, script \in Seq(ScriptEntry),
         \A t \in Services : Restartless(t) /\ TaskAsks(t),
         OverlordStep
  PROVE  /\ script' \in Seq(ScriptEntry)
         /\ \A t \in Services : Restartless(t)' /\ TaskAsks(t)'
<1>1. CASE Autostart
  <2>1. script' \in Seq(ScriptEntry)
    BY <1>1, SendsAreEntries DEF Autostart
  <2> QED
    BY <1>1, <2>1, AskDecides DEF Autostart
<1>2. CASE OnStateChanged
  <2>1. script' \in Seq(ScriptEntry)
    <3>1. ASSUME NEW R, R \subseteq Services, NEW D, D \subseteq Services,
                 NEW starts \in SendAll("Start", R), NEW stops \in SendAll("Stop", D)
          PROVE  starts \o stops \in Seq(ScriptEntry)
      <4>1. starts \in Seq(ScriptEntry) /\ stops \in Seq(ScriptEntry)
        BY <3>1, SendsAreEntries
      <4> QED
        BY <4>1, ConcatProperties
    <3>2. PICK R, D : /\ R \subseteq Services /\ D \subseteq Services
                      /\ \E starts \in SendAll("Start", R), stops \in SendAll("Stop", D) :
                           script' = starts \o stops
      BY <1>2 DEF OnStateChanged, ReplyInv, OverlordTypes
    <3> QED
      BY <3>1, <3>2
  <2> QED
    BY <1>2, <2>1, AskDecides DEF OnStateChanged
<1>3. CASE OnProcessExited \/ OnDaemonShutdown \/ Exit
  BY <1>3, AskDecides DEF OnProcessExited, OnDaemonShutdown, Exit, StopAll, overlordVars
<1>4. CASE ExitNext
  <2>1. script' \in Seq(ScriptEntry)
    BY <1>4 DEF ExitNext
  <2> QED
    BY <1>4, <2>1, AskDecides DEF ExitNext, StopAll
<1>5. CASE SendNext
  <2>1. /\ Head(script) \in ScriptEntry /\ Tail(script) \in Seq(ScriptEntry) /\ script # <<>>
        /\ script' = Tail(script)
    BY <1>5 DEF SendNext
  <2>2. Head(script).to \in Services /\ Head(script).do \in {"Start", "Stop", "ForwardSignal"}
    BY <1>5, <2>1, NoServiceAssumption DEF SendNext, ScriptEntry
  <2>3. PICK s \in Services, cmd \in {"Start", "Stop", "ForwardSignal"} :
          Head(script).to = s /\ Head(script).do = cmd
    BY <2>2
  <2>4. Restartless(s)' /\ TaskAsks(s)'
    <3>1. Put(s, cmd) /\ UNCHANGED vars /\ stopTask' = stopTask /\ daemon = "run"
      BY <1>5, <2>3 DEF SendNext
    <3>2. cmd \in MailCommands /\ cmd # "Restart"
      BY DEF MailCommands
    <3> QED
      BY <3>1, <3>2, AskSends
  <2>5. ASSUME NEW t \in Services \ {s}
        PROVE  Restartless(t)' /\ TaskAsks(t)'
    <3>1. mailbox'[t] = mailbox[t]
      BY <1>5, <2>3 DEF SendNext, Put, ReplyInv, OverlordTypes
    <3> QED
      BY <1>5, <3>1, AskFrame DEF SendNext, vars, Settled, Asked, Replies
  <2> QED
    BY <2>1, <2>4, <2>5
<1>6. ASSUME NEW s \in Services, StopTaskSends(s)
      PROVE  /\ script' \in Seq(ScriptEntry)
             /\ \A t \in Services : Restartless(t)' /\ TaskAsks(t)'
  <2>1. Restartless(s)' /\ TaskAsks(s)'
    <3>1. CASE stopTask[s] = "start"
      <4>1. Put(s, "Stop") /\ stopTask' = [stopTask EXCEPT ![s] = "await"]
        BY <1>6, <3>1 DEF StopTaskSends
      <4> QED
        BY <1>6, <3>1, <4>1, AskSends DEF StopTaskSends, MailCommands
    <3>2. CASE stopTask[s] = "reply"
      <4>1. Put(s, "Shutdown") /\ stopTask' = [stopTask EXCEPT ![s] = "done"]
        BY <1>6, <3>2 DEF StopTaskSends
      <4> QED
        BY <1>6, <3>2, <4>1, AskSends DEF StopTaskSends, MailCommands
    <3> QED
      BY <1>6, <3>1, <3>2 DEF StopTaskSends
  <2>2. ASSUME NEW t \in Services \ {s}
        PROVE  Restartless(t)' /\ TaskAsks(t)'
    <3>1. mailbox'[t] = mailbox[t] /\ stopTask'[t] = stopTask[t]
      BY <1>6 DEF StopTaskSends, Put, ReplyInv, OverlordTypes
    <3> QED
      BY <1>6, <3>1, AskFrame DEF StopTaskSends, vars, Settled, Asked, Replies
  <2> QED
    BY <1>6, <2>1, <2>2 DEF StopTaskSends
<1> QED
  BY <1>1, <1>2, <1>3, <1>4, <1>5, <1>6 DEF OverlordStep

\* What it is asked to do, by clients, signals and checks.
LEMMA AskEnvironment ==
  ASSUME NoRestarts, script \in Seq(ScriptEntry),
         \A t \in Services : Restartless(t) /\ TaskAsks(t),
         EnvironmentStep
  PROVE  /\ script' \in Seq(ScriptEntry)
         /\ \A t \in Services : Restartless(t)' /\ TaskAsks(t)'
<1>1. ASSUME NEW action \in ServiceActions, NEW names \in Requestable,
             ServicesAction(action, names)
      PROVE  /\ script' \in Seq(ScriptEntry)
             /\ \A t \in Services : Restartless(t)' /\ TaskAsks(t)'
  <2>1. action \in {"Start", "Stop", "Autostart"}
    BY <1>1 DEF ServicesAction, Request, NoRestarts, ServiceActions
  <2>2. script' \in Seq(ScriptEntry)
    BY <1>1, <2>1, EachIsEntry DEF ServicesAction, Requestable
  <2> QED
    BY <1>1, <2>2, AskDecides DEF ServicesAction
<1>2. CASE ForwardSignal
  <2>1. script' \in Seq(ScriptEntry)
    BY <1>2, SendsAreEntries DEF ForwardSignal
  <2> QED
    BY <1>2, <2>1, AskDecides DEF ForwardSignal
<1>3. CASE DaemonStop
  BY <1>3, AskDecides DEF DaemonStop, StopAll
<1>4. CASE OnCheckDown
  <2>1. script' \in Seq(ScriptEntry)
    BY <1>4, CheckEntries DEF NoRestarts
  <2> QED
    BY <1>4, <2>1, AskDecides DEF OnCheckDown
<1> QED
  BY <1>1, <1>2, <1>3, <1>4 DEF EnvironmentStep

LEMMA AskStep ==
  ASSUME PatientInv, ReplyInv, AskInv, [SupNext]_supVars
  PROVE  AskInv'
<1>1. SUFFICES ASSUME NoRestarts'
               PROVE  /\ script' \in Seq(ScriptEntry)
                      /\ \A t \in Services : Restartless(t)' /\ TaskAsks(t)'
  BY DEF AskInv
<1>2. NoRestarts
  BY <1>1, RestartsStay DEF ReplyInv
<1>3. /\ script \in Seq(ScriptEntry)
      /\ \A t \in Services : Restartless(t) /\ TaskAsks(t)
  BY <1>2 DEF AskInv
<1>4. CASE UNCHANGED supVars
  BY <1>3, <1>4, AskDecides DEF supVars, overlordVars
<1>5. CASE OverlordStep
  BY <1>3, <1>5, AskOverlord
<1>6. CASE EnvironmentStep
  BY <1>2, <1>3, <1>6, AskEnvironment
<1>7. ASSUME NEW s \in Services, ActorsStep(s)
      PROVE  /\ script' \in Seq(ScriptEntry)
             /\ \A t \in Services : Restartless(t)' /\ TaskAsks(t)'
  BY <1>3, <1>7, AskActors
<1>8. ASSUME NEW s \in Services, ProcessesStep(s)
      PROVE  /\ script' \in Seq(ScriptEntry)
             /\ \A t \in Services : Restartless(t)' /\ TaskAsks(t)'
  <2>1. UNCHANGED <<actor, script, stopTask, mailbox>>
    BY <1>8 DEF ProcessesStep, ProcessStep, ProcessExit, overlordVars
  <2>2. \A t \in Services : Settled(t) => Settled(t)'
    BY <1>8 DEF ProcessesStep, ProcessStep, ProcessExit, Settled, Asked, PatientInv, Inv, TypeOK
  <2>3. \A t \in Services : Replies(t)' = Replies(t)
    BY <2>1 DEF Replies
  <2> QED
    BY <1>3, <2>1, <2>2, <2>3, AskFrame
<1> QED
  BY <1>4, <1>5, <1>6, <1>7, <1>8 DEF SupNext

LEMMA AskInit ==
  ASSUME SupInit PROVE AskInv
<1>1. \A s \in Services : actor[s] = NewActor
  BY DEF SupInit, Init
<1>2. NewActor.todo = "none" /\ ~ NewActor.pendingRestart
  BY DEF NewActor
<1>3. ASSUME NEW s \in Services
      PROVE  Restartless(s) /\ TaskAsks(s)
  <2>1. DOMAIN mailbox[s] = {}
    <3>1. mailbox[s] = <<>>
      BY DEF SupInit
    <3> QED
      BY <3>1
  <2>2. actor[s].todo = "none" /\ ~ actor[s].pendingRestart /\ stopTask[s] = "idle"
    BY <1>1, <1>2 DEF SupInit
  <2> QED
    BY <2>1, <2>2 DEF Restartless, TaskAsks
<1>4. script \in Seq(ScriptEntry)
  BY DEF SupInit
<1> QED
  BY <1>3, <1>4 DEF AskInv

\* No process is left at the daemon's exit that was never asked to stop, unless a
\* client or a failed check asks for a restart, or for the start of a service that
\* waits for its retry.
THEOREM ExitAsks ==
  ASSUME Patience
  PROVE  SupSpec => []ExitAsksEveryProcess
<1>1. SupInit => AskInv
  BY AskInit
<1>2. PatientInv /\ ReplyInv /\ AskInv /\ [SupNext]_supVars => AskInv'
  BY AskStep
<1>3. ReplyInv /\ AskInv => ExitAsksEveryProcess
  BY DEF ReplyInv, AskInv, ExitAsksEveryProcess, NoRestarts, DaemonInv, TaskAsks, Settled,
         Asked, Live
<1> QED
  BY <1>1, <1>2, <1>3, Replied, OverlordIsPatient, PatientInductive, PTL DEF SupSpec
-----------------------------------------------------------------------------
(* Services autostart in order.                                            *)

\* The command an actor takes from the overlord is the only one that is awaited:
\* no other service is being launched for the first time meanwhile.
LEMMA OneLaunch ==
  ASSUME ReplyInv, AskInv, NoRestarts, NEW x \in Services, NEW d \in Services \ {x},
         \E i \in DOMAIN mailbox[x] : mailbox[x][i] = "Start"
  PROVE  actor[d].todo # "spawn_start"
<1>1. PICK i \in Mail(x) : mailbox[x][i] = "Start"
  BY DEF Mail, Answered
<1>2. Awaited(x)
  BY <1>1 DEF ReplyInv, Protocol
<1>3. stopTask[x] # "await"
  BY <1>1 DEF AskInv, TaskAsks
<1>4. waiting = x
  BY <1>2, <1>3 DEF Awaited
<1>5. stopTask[d] # "await"
  BY <1>4, NoServiceAssumption DEF ReplyInv, DaemonInv
<1>6. ~ Awaited(d)
  BY <1>4, <1>5 DEF Awaited
<1> QED
  BY <1>6 DEF ReplyInv, Protocol, OwesNothing

\* A service is autostarted only after everything that it depends on has been
\* Active or was launched in vain, however late the events arrive and whoever stops
\* what meanwhile: although after_deps_running counts Starting, the overlord awaits
\* the end of every launch it asks for before it starts another service.
THEOREM StartsInOrder ==
  ASSUME OnlyAutostarts
  PROVE  SupSpec => AutostartOrder
<1> DEFINE InTurn == \A x \in born' \ born : \A d \in Dependencies(x) :
                       d \in ran \/ (d \in born /\ actor[d].state = "Error")
<1>1. SupInit => RanInv
  BY DEF SupInit, Init, NewActor, RanInv, NeverActive
<1>2. TypeOK /\ RanInv /\ [SupNext]_supVars => RanInv'
  BY RanStep
<1>3. SupInit => AskInv
  BY AskInit
<1>4. PatientInv /\ ReplyInv /\ AskInv /\ [SupNext]_supVars => AskInv'
  BY AskStep
<1>5. TypeOK /\ FollowInv /\ OrderInv /\ RanInv /\ ReplyInv /\ AskInv /\ [SupNext]_supVars
        => [InTurn]_supVars
  <2> SUFFICES ASSUME TypeOK, FollowInv, OrderInv, RanInv, ReplyInv, AskInv, [SupNext]_supVars,
                      NEW x \in born' \ born, NEW d \in Dependencies(x)
               PROVE  d \in ran \/ (d \in born /\ actor[d].state = "Error")
    OBVIOUS
  <2>1. d \in born /\ d \in Services
    BY OrderStep DEF RanInv
  <2>2. d \in ran \/ actor[d].state = "Error"
               \/ (actor[d].state = "Starting" /\ actor[d].todo = "spawn_start")
    BY <2>1 DEF RanInv, NeverActive
  <2>3. x \in Services /\ \E i \in DOMAIN mailbox[x] : mailbox[x][i] = "Start"
    <3>1. PICK s \in Services : ActorsStep(s) /\ RecordsStarts
      <4>1. CASE UNCHANGED supVars
        BY <4>1 DEF supVars
      <4>2. ASSUME UNCHANGED actor, RecordsStarts PROVE FALSE
        BY <4>2, NothingStarts
      <4>3. ASSUME NEW s \in Services, ProcessesStep(s) PROVE UNCHANGED actor
        BY <4>3 DEF ProcessesStep, ProcessStep, ProcessExit
      <4> QED
        BY <4>1, <4>2, <4>3, OverlordConforms DEF SupNext, vars
    <3>2. x = s /\ mailbox[s] # <<>> /\ Head(mailbox[s]) = "Start"
      BY <3>1, BornOfStart
    <3>3. mailbox[s] \in Seq(MailCommands)
      BY DEF ReplyInv, OverlordTypes
    <3>4. 1 \in DOMAIN mailbox[s] /\ mailbox[s][1] = "Start"
      BY <3>2, <3>3
    <3> QED
      BY <3>2, <3>4
  <2>4. x # d
    BY <2>1
  <2>5. NoRestarts
    BY DEF NoRestarts, OnlyAutostarts, OrderInv
  <2>6. actor[d].todo # "spawn_start"
    BY <2>1, <2>3, <2>4, <2>5, OneLaunch
  <2> QED
    BY <2>1, <2>2, <2>6
<1>6. Patience
  BY DEF Patience
<1>7. SupSpec => []PatientInv
  BY <1>6, OverlordIsPatient, PatientInductive, PTL
<1> QED
  BY <1>1, <1>2, <1>3, <1>4, <1>5, <1>7, SupervisedActors, Followed, InOrder, Replied, PTL
     DEF SupSpec, AutostartOrder
=============================================================================
