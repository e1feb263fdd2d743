----------------------------- MODULE Monitoring -----------------------------
(***************************************************************************)
(* Health checks and alerts of vigild: the check actors                    *)
(* (crates/vigild/src/check), the alert sender and its delivery workers    *)
(* (crates/vigild/src/alert), and what the overlord does for them: it      *)
(* replaces check actors at a replan, asks them for their status, and      *)
(* turns their events into alerts and into actions on services.            *)
(*                                                                         *)
(* A check actor is a task that probes once per period.  It reports its    *)
(* status on a bounded channel to the overlord: every change, and once     *)
(* more at the end of its first run.  A replaced actor may still be in the *)
(* middle of a probe, and reports like any other until it sees that it was *)
(* told to shut down.                                                      *)
(*                                                                         *)
(* The overlord enqueues one delivery job per change of status and         *)
(* subscribed alert, while the worker of the queue may take others from    *)
(* it; each job it takes is posted by a task of its own, with retries.     *)
(***************************************************************************)
EXTENDS Naturals, FiniteSets, SequencesExt

CONSTANTS
  Checks,        \* the names a plan may give to checks
  CheckOrder,    \* the same, in the order of the plan
  Plans,         \* the plans that may be loaded
  EventCap,      \* capacity of the channel of check events (256)
  MaxProbes,     \* bound: no probe begins when so many have ended
  MaxReplans,    \* bound: replans
  MaxQueries,    \* bound: requests for the status of the checks
  MaxActors,     \* at least the check actors that these bounds allow
  MaxJobs        \* at least the delivery jobs that these bounds allow

ASSUME CheckOrderAssumption ==
  /\ CheckOrder \in Seq(Checks) /\ IsInjective(CheckOrder)
  /\ \A c \in Checks : \E i \in DOMAIN CheckOrder : CheckOrder[i] = c
ASSUME BoundAssumption ==
  /\ EventCap \in Nat \ {0}
  /\ MaxProbes \in Nat /\ MaxReplans \in Nat /\ MaxQueries \in Nat
  /\ MaxActors \in Nat /\ MaxJobs \in Nat

Status == {"up", "down"}

\* What is needed of a CheckConfig: `probes' says that it has an http, tcp or
\* exec section.
CheckConfig == [startup : {"enabled", "disabled"}, threshold : Nat, probes : BOOLEAN]

\* What is needed of an AlertConfig.  `url' says that its url resolves to
\* something.
AlertConfig == [name : STRING, onCheck : SUBSET Checks, attempts : Nat, url : BOOLEAN]

\* A plan: some of the checks, a list of alerts, max-queue-depth.
Plan == [checks : UNION {[C -> CheckConfig] : C \in SUBSET Checks},
         alerts : Seq(AlertConfig),
         depth : Nat \ {0}]

ASSUME PlansAssumption ==
  \A p \in Plans :
    /\ DOMAIN p.checks \subseteq Checks /\ \A c \in DOMAIN p.checks : p.checks[c] \in CheckConfig
    /\ p.alerts \in Seq(AlertConfig)
    /\ \A i, j \in DOMAIN p.alerts : p.alerts[i].name = p.alerts[j].name => i = j
    /\ p.depth \in Nat \ {0}

VARIABLES
  plan,          \* Overlord.plan
  actors,        \* every check actor ever spawned; the overlord's handle is its index
  checks,        \* Overlord.checks: the actor in charge of each check, or NoActor
  checkEvents,   \* the channel of check events
  query,         \* the actors query_checks still asks, in order
  asked,         \* the actor whose answer query_checks awaits, or NoActor
  state,         \* AlertSender.state, with "unknown" where there is no entry
  sending,       \* the alerts handle_check_event has still to go through
  channel,       \* [depth, number] of the queue behind AlertSender.delivery_tx
  jobs,          \* every delivery job ever enqueued
  replans,       \* replans so far
  queries,       \* requests so far
  reporter,      \* history: the actor that sent the last event handled for a check
  dropped,       \* history: <<alert, check>> that lost a job to a full queue
  tally          \* history: per check, how often it went down and was acted upon

overlordVars == <<plan, checks, query, asked, state, sending, channel, replans, queries, reporter,
                  tally, dropped>>
monVars == <<overlordVars, actors, checkEvents, jobs>>

NoActor == 0
Actors == DOMAIN actors
Jobs == DOMAIN jobs

-----------------------------------------------------------------------------
(* State.                                                                  *)

\* A check actor.  `outbox' holds the reports the handler in progress has still
\* to send; `told' that Cmd::Shutdown is in the mailbox; `results' is history.
NewActor(c, config, initial) ==
  [check |-> c, config |-> config, initial |-> initial,
   phase |-> "delay", status |-> initial, failures |-> 0, firstRun |-> TRUE,
   outbox |-> <<>>, told |-> FALSE, results |-> <<>>]

\* The body of an alert: all formats carry the check and the status, and a
\* template that cannot be rendered falls back to the default format.
format_payload(c, status) == [check |-> c, status |-> status]

\* A delivery job.  The fields after `url' are its fate and history: `posts'
\* counts the attempts to post it, `accepted' how often the endpoint took it,
\* `unheard' how often its answer to that was lost.
NewJob(alert, body, number) ==
  [alert |-> alert.name, body |-> body, attempts |-> alert.attempts, url |-> alert.url,
   queue |-> number, phase |-> "queued", posts |-> 0, accepted |-> 0, unheard |-> 0]

\* The place of c in the plan, and the checks of S in the order of the plan: there
\* is one such sequence.
Place(c) == CHOOSE i \in DOMAIN CheckOrder : CheckOrder[i] = c

InPlanOrder(S) ==
  {q \in BoundedSeq(S, Len(CheckOrder)) :
     /\ \A c \in S : \E i \in DOMAIN q : q[i] = c
     /\ \A i, j \in DOMAIN q : i < j => Place(q[i]) < Place(q[j])}

\* The checks of plan p that get a new actor: those that are enabled and have
\* no actor, or one with another configuration.
ToSpawn(p, of, all) ==
  {c \in DOMAIN p.checks :
     /\ p.checks[c].startup = "enabled"
     /\ of[c] = NoActor \/ all[of[c]].config # p.checks[c]}

\* A new actor starts with the last status the alert sender has seen.
initial_status(c, seen) == IF seen[c] = "unknown" THEN "up" ELSE seen[c]

Spawned(p, names, seen) ==
  [i \in DOMAIN names |-> NewActor(names[i], p.checks[names[i]], initial_status(names[i], seen))]

MonInit ==
  /\ plan \in Plans
  /\ state = [c \in Checks |-> "unknown"]
  /\ \E names \in InPlanOrder(ToSpawn(plan, [c \in Checks |-> NoActor], <<>>)) :
       /\ actors = Spawned(plan, names, state)
       /\ checks = [c \in Checks |-> IF \E i \in DOMAIN names : names[i] = c
                                       THEN CHOOSE i \in DOMAIN names : names[i] = c
                                       ELSE NoActor]
  /\ checkEvents = <<>>
  /\ query = <<>> /\ asked = NoActor /\ sending = <<>>
  /\ channel = [depth |-> plan.depth, number |-> 1]
  /\ jobs = <<>>
  /\ replans = 0 /\ queries = 0
  /\ reporter = [c \in Checks |-> NoActor]
  /\ dropped = {}
  /\ tally = [c \in Checks |-> [downs |-> 0, acted |-> 0]]

OverlordIdle == query = <<>> /\ asked = NoActor /\ sending = <<>>

-----------------------------------------------------------------------------
(* Check actors.                                                           *)

\* The actor is at one of its selects with nothing in its mailbox, which the
\* biased order prefers to the timers.
AtTimer(a, phase) ==
  /\ actors[a].phase = phase
  /\ actors[a].outbox = <<>>
  /\ ~ actors[a].told
  /\ asked # a

DelayOver(a) ==
  /\ AtTimer(a, "delay")
  /\ actors' = [actors EXCEPT ![a].phase = "idle"]
  /\ UNCHANGED <<overlordVars, checkEvents, jobs>>

ProbesDone == FoldLeft(LAMBDA n, act : n + Len(act.results), 0, actors)

Tick(a) ==
  /\ AtTimer(a, "idle")
  /\ ProbesDone < MaxProbes
  /\ actors' = [actors EXCEPT ![a].phase = "probing"]
  /\ UNCHANGED <<overlordVars, checkEvents, jobs>>

\* What a probe may find; a check without any probe always passes.
perform(config) == IF config.probes THEN BOOLEAN ELSE {TRUE}

FailureCount_kept(act, ok) == IF ok THEN act.failures ELSE act.failures + 1

FailureCount(act, ok) == IF ok THEN 0 ELSE act.failures + 1

StatusAfter(act, ok) ==
  IF ok THEN "up"
  ELSE IF FailureCount(act, ok) >= act.config.threshold THEN "down"
  ELSE act.status

\* A change is reported, and the status after the first run whatever it is.
Reports_no_first_run(act, status) == IF status # act.status THEN <<status>> ELSE <<>>

Reports_every_run(act, status) ==
  (IF status # act.status THEN <<status>> ELSE <<>>) \o <<status>>

Reports(act, status) ==
  (IF status # act.status THEN <<status>> ELSE <<>>)
    \o (IF act.firstRun THEN <<status>> ELSE <<>>)

\* The handler of a tick, after the probe.
AfterProbe(act, ok) ==
  [act EXCEPT
    !.phase = "idle",
    !.failures = FailureCount(act, ok),
    !.status = StatusAfter(act, ok),
    !.outbox = Reports(act, StatusAfter(act, ok)),
    !.firstRun = FALSE,
    !.results = Append(@, ok)]

ProbeEnds(a, ok) ==
  /\ actors[a].phase = "probing"
  /\ actors' = [actors EXCEPT ![a] = AfterProbe(@, ok)]
  /\ tally' = [tally EXCEPT ![actors[a].check].downs =
                 IF actors[a].status = "up" /\ AfterProbe(actors[a], ok).status = "down"
                   THEN @ + 1 ELSE @]
  /\ UNCHANGED <<plan, checks, query, asked, state, sending, channel, replans, queries, reporter,
                 dropped, checkEvents, jobs>>

\* The probe answers, or its timeout makes it fail.
ProbeAnswers(a) == \E ok \in perform(actors[a].config) : ProbeEnds(a, ok)

ProbeTimesOut_off(a) == FALSE /\ ProbeEnds(a, FALSE)

ProbeTimesOut(a) == actors[a].config.probes /\ ProbeEnds(a, FALSE)

\* The actor awaits room in the channel for its next report.
Report(a) ==
  /\ actors[a].outbox # <<>>
  /\ Len(checkEvents) < EventCap
  /\ checkEvents' = Append(checkEvents, [check |-> actors[a].check,
                                         status |-> Head(actors[a].outbox),
                                         from |-> a])
  /\ actors' = [actors EXCEPT ![a].outbox = Tail(@)]
  /\ UNCHANGED <<overlordVars, jobs>>

ReceiveShutdown(a) ==
  /\ actors[a].phase \in {"delay", "idle"}
  /\ actors[a].outbox = <<>>
  /\ actors[a].told
  /\ actors' = [actors EXCEPT ![a].phase = "gone"]
  /\ UNCHANGED <<overlordVars, checkEvents, jobs>>

\* Cmd::GetStatus.  The reply changes nothing.
Answer(a) ==
  /\ asked = a
  /\ actors[a].phase \in {"delay", "idle"}
  /\ actors[a].outbox = <<>>
  /\ asked' = NoActor
  /\ UNCHANGED <<plan, checks, query, state, sending, channel, replans, queries, reporter, tally,
                 dropped, actors, checkEvents, jobs>>

CheckStep(a) ==
  \/ DelayOver(a) \/ Tick(a) \/ ProbeAnswers(a) \/ ProbeTimesOut(a)
  \/ Report(a) \/ ReceiveShutdown(a) \/ Answer(a)

-----------------------------------------------------------------------------
(* The overlord.                                                           *)

\* The handles of H as Overlord.checks lists them: a replaced entry is removed
\* and added at the end, so that the order is that of the spawns.
InSpawnOrder(H) ==
  {q \in BoundedSeq(H, Cardinality(H)) :
     /\ \A a \in H : \E i \in DOMAIN q : q[i] = a
     /\ \A i, j \in DOMAIN q : i < j => q[i] < q[j]}

\* A request for the status of the checks of S, or of all.
QueryChecks(S) ==
  /\ OverlordIdle
  /\ queries < MaxQueries
  /\ queries' = queries + 1
  /\ query' \in InSpawnOrder({checks[c] : c \in S} \ {NoActor})
  /\ UNCHANGED <<plan, checks, asked, state, sending, channel, replans, reporter, tally, dropped,
                 actors, checkEvents, jobs>>

Ask ==
  /\ query # <<>> /\ asked = NoActor
  /\ asked' = Head(query)
  /\ query' = Tail(query)
  /\ UNCHANGED <<plan, checks, state, sending, channel, replans, queries, reporter, tally, dropped,
                 actors, checkEvents, jobs>>

Queued(number, all) == {n \in DOMAIN all : all[n].phase = "queued" /\ all[n].queue = number}

HasRoom == Cardinality(Queued(channel.number, jobs)) < channel.depth

Fires_always(c, status) == ~ (status = "up" /\ state[c] = "unknown")

\* The status is news, and not merely that a check is up from the start.
Fires(c, status) == state[c] # status /\ ~ (status = "up" /\ state[c] = "unknown")

\* The beginning of AlertSender::handle_check_event, and the policies of
\* on-check-failure, of which only their number is kept.
HandleCheckEvent ==
  /\ OverlordIdle
  /\ checkEvents # <<>>
  /\ LET event == Head(checkEvents)
         c == event.check
     IN  /\ sending' = IF Fires(c, event.status)
                         THEN [i \in DOMAIN plan.alerts |->
                                 [alert |-> plan.alerts[i],
                                  body |-> format_payload(c, event.status)]]
                         ELSE <<>>
         /\ state' = [state EXCEPT ![c] = event.status]
         /\ reporter' = [reporter EXCEPT ![c] = event.from]
         /\ tally' = [tally EXCEPT ![c].acted = IF event.status = "down" THEN @ + 1 ELSE @]
  /\ checkEvents' = Tail(checkEvents)
  /\ UNCHANGED <<plan, checks, query, asked, channel, replans, queries, dropped, actors, jobs>>

\* ... and its loop: one try_send per subscribed alert.  The worker runs on
\* another thread and may make room between two of them.
SendAlert ==
  LET next == Head(sending) IN
  /\ sending # <<>>
  /\ sending' = Tail(sending)
  /\ IF next.body.check \notin next.alert.onCheck THEN UNCHANGED <<jobs, dropped>>
     ELSE IF HasRoom
       THEN /\ jobs' = Append(jobs, NewJob(next.alert, next.body, channel.number))
            /\ UNCHANGED dropped
       ELSE /\ dropped' = dropped \cup {<<next.alert.name, next.body.check>>}
            /\ UNCHANGED jobs
  /\ UNCHANGED <<plan, checks, query, asked, state, channel, replans, queries, reporter, tally,
                 actors, checkEvents>>

\* update_queue_limits: another depth means a new queue with a worker of its own.
update_queue_limits(depth) ==
  IF depth = channel.depth THEN channel
                           ELSE [depth |-> depth, number |-> channel.number + 1]

SyncChecks_without_shutdown(p) ==
  LET new == ToSpawn(p, checks, actors)
      removed == {checks[c] : c \in Checks \ DOMAIN p.checks}
  IN  \E names \in InPlanOrder(new) :
        /\ actors' = [a \in Actors |-> [actors[a] EXCEPT !.told = @ \/ a \in removed]]
                       \o Spawned(p, names, state)
        /\ checks' = [c \in Checks |->
                        IF c \notin DOMAIN p.checks THEN NoActor
                        ELSE IF c \notin new THEN checks[c]
                        ELSE Len(actors) + CHOOSE i \in DOMAIN names : names[i] = c]

\* sync_actors and the removal of checks.  An actor whose check is now disabled
\* is left as it is.
SyncChecks(p) ==
  LET new == ToSpawn(p, checks, actors)
      replaced == {checks[c] : c \in new}
      removed == {checks[c] : c \in Checks \ DOMAIN p.checks}
  IN  \E names \in InPlanOrder(new) :
        /\ actors' = [a \in Actors |-> [actors[a] EXCEPT !.told = @ \/ a \in replaced \cup removed]]
                       \o Spawned(p, names, state)
        /\ checks' = [c \in Checks |->
                        IF c \notin DOMAIN p.checks THEN NoActor
                        ELSE IF c \notin new THEN checks[c]
                        ELSE Len(actors) + CHOOSE i \in DOMAIN names : names[i] = c]

\* reload_layers, as far as checks and alerts are concerned.
Replan ==
  /\ OverlordIdle
  /\ replans < MaxReplans
  /\ replans' = replans + 1
  /\ \E p \in Plans :
       /\ plan' = p
       /\ channel' = update_queue_limits(p.depth)
       /\ SyncChecks(p)
  /\ UNCHANGED <<query, asked, state, sending, queries, reporter, tally, dropped, checkEvents, jobs>>

-----------------------------------------------------------------------------
(* Delivery.                                                               *)

NextInQueue(n) ==
  /\ jobs[n].phase = "queued"
  /\ \A m \in Queued(jobs[n].queue, jobs) : n <= m

DeliveryFrame == UNCHANGED <<overlordVars, actors, checkEvents>>

\* The worker posts the job itself and takes no other meanwhile.
Dispatch_one_at_a_time(n) ==
  /\ ~ \E m \in Jobs : jobs[m].queue = jobs[n].queue /\ jobs[m].phase = "posting"
  /\ NextInQueue(n)
  /\ \E fate \in {"expired", IF jobs[n].url THEN "posting" ELSE "no url"} :
       jobs' = [jobs EXCEPT ![n].phase = fate]
  /\ DeliveryFrame

\* The worker of the job's queue takes it: a job that has waited longer than
\* max-queue-time is discarded, another gets a task, which gives up at once if
\* there is no url.
Dispatch(n) ==
  /\ NextInQueue(n)
  /\ \E fate \in {"expired", IF jobs[n].url THEN "posting" ELSE "no url"} :
       jobs' = [jobs EXCEPT ![n].phase = fate]
  /\ DeliveryFrame

max_attempts(job) == IF job.attempts = 0 THEN 1 ELSE job.attempts

AfterFailure_off_by_one(job) == IF job.posts < max_attempts(job) THEN "posting" ELSE "failed"

\* What comes after an attempt that may be repeated.
AfterFailure(job) == IF job.posts + 1 < max_attempts(job) THEN "posting" ELSE "failed"

Posted(n, fate, took, heard) ==
  /\ jobs[n].phase = "posting"
  /\ jobs' = [jobs EXCEPT ![n].phase = fate,
                          ![n].posts = @ + 1,
                          ![n].accepted = IF took THEN @ + 1 ELSE @,
                          ![n].unheard = IF took /\ ~ heard THEN @ + 1 ELSE @]
  /\ DeliveryFrame

PostSucceeds(n) == Posted(n, "delivered", TRUE, TRUE)

\* An answer outside 2xx and 5xx is final.
PostRefused(n) == Posted(n, "failed", FALSE, TRUE)

\* A 5xx, or no connection.
PostFails(n) == Posted(n, AfterFailure(jobs[n]), FALSE, TRUE)

\* The endpoint took the alert and the connection broke before the answer.
PostUnheard(n) == Posted(n, AfterFailure(jobs[n]), TRUE, FALSE)

Post(n) == PostSucceeds(n) \/ PostRefused(n) \/ PostFails(n) \/ PostUnheard(n)

-----------------------------------------------------------------------------
(* Specification.                                                          *)

MonNext ==
  \/ \E a \in Actors : CheckStep(a)
  \/ \E S \in SUBSET Checks \ {{}} : QueryChecks(S)
  \/ Ask \/ HandleCheckEvent \/ SendAlert \/ Replan
  \/ \E n \in Jobs : Dispatch(n) \/ Post(n)

\* Tasks that can proceed do, probes time out, and the workers take jobs.
\* Nothing is assumed of the endpoints: a request to one has no timeout.
MonFairness ==
  /\ \A a \in 1 .. MaxActors :
       WF_monVars(a \in Actors /\ (DelayOver(a) \/ Tick(a) \/ ProbeTimesOut(a)
                                   \/ Report(a) \/ ReceiveShutdown(a) \/ Answer(a)))
  /\ WF_monVars(Ask)
  /\ WF_monVars(HandleCheckEvent \/ SendAlert)
  /\ \A n \in 1 .. MaxJobs : WF_monVars(n \in Jobs /\ Dispatch(n))

MonSpec == MonInit /\ [][MonNext]_monVars /\ MonFairness

-----------------------------------------------------------------------------
(* Properties.                                                             *)

CheckActor ==
  [check : Checks, config : CheckConfig, initial : Status,
   phase : {"delay", "idle", "probing", "gone"}, status : Status, failures : Nat,
   firstRun : BOOLEAN, outbox : Seq(Status), told : BOOLEAN, results : Seq(BOOLEAN)]

Body == [check : Checks, status : Status]

DeliveryJob ==
  [alert : STRING, body : Body, attempts : Nat, url : BOOLEAN, queue : Nat \ {0},
   phase : {"queued", "expired", "no url", "posting", "delivered", "failed"},
   posts : Nat, accepted : Nat, unheard : Nat]

\* Every variable holds a value of its type, and the channel its capacity.
MonTypeOK ==
  /\ plan \in Plans
  /\ actors \in Seq(CheckActor)
  /\ checks \in [Checks -> {NoActor} \cup Actors]
  /\ checkEvents \in Seq([check : Checks, status : Status, from : Actors])
  /\ Len(checkEvents) <= EventCap
  /\ query \in Seq(Nat) /\ asked \in Nat
  /\ state \in [Checks -> Status \cup {"unknown"}]
  /\ sending \in Seq([alert : AlertConfig, body : Body])
  /\ channel \in [depth : Nat \ {0}, number : Nat \ {0}]
  /\ jobs \in Seq(DeliveryJob)
  /\ replans \in Nat /\ queries \in Nat
  /\ reporter \in [Checks -> {NoActor} \cup Actors]
  /\ dropped \subseteq STRING \X Checks
  /\ tally \in [Checks -> [downs : Nat, acted : Nat]]

\* One actor is in charge of a check, and every other that is left of it was
\* told to shut down: reload_layers and sync_actors leave no actor behind that
\* would go on probing and reporting beside its successor.
OneActorInCharge ==
  /\ \A a \in Actors : ~ actors[a].told => checks[actors[a].check] = a
  /\ \A c \in Checks : checks[c] # NoActor =>
       LET act == actors[checks[c]]
       IN  act.check = c /\ ~ act.told /\ act.phase # "gone"

\* The verdict that the probes of an actor justify, by the documentation of
\* `threshold': the check is down when the last `threshold' probes or more
\* failed, or when it was down at the start and no probe has passed.
TrailingFailures(results) ==
  Cardinality({i \in DOMAIN results : \A j \in i .. Len(results) : ~ results[j]})

Verdict(act) ==
  LET failed == TrailingFailures(act.results)
  IN  IF \/ failed > 0 /\ failed >= act.config.threshold
         \/ act.initial = "down" /\ failed = Len(act.results)
        THEN "down" ELSE "up"

\* The incremental bookkeeping of a check actor (failures, status, the status it
\* inherits) amounts to that verdict after any sequence of probes.
StatusIsVerdict == \A a \in Actors : actors[a].status = Verdict(actors[a])

\* The reports of check c that wait in the channel.
About(c) == {i \in DOMAIN checkEvents : checkEvents[i].check = c}

Latest(i, S) == i \in S /\ \A j \in S : j <= i

\* A report of actor a with its status, or one of an actor that was told to go.
OwnOrStale(a, status, from) ==
  \/ from = a /\ status = actors[a].status
  \/ from \in Actors \ {a} /\ actors[from].told

\* Once the actor in charge of a check has reported, the status the alert sender
\* will have when the channel is empty is the one of that actor, unless the last
\* report came from an actor it has replaced: that one may have been in the
\* middle of a probe (check/actor/mod.rs, perform().await), and its report is
\* then believed for as long as its successor sees no change.
StatusFollowsChecks ==
  \A c \in Checks :
    LET a == checks[c]
    IN  a # NoActor /\ ~ actors[a].firstRun /\ actors[a].outbox = <<>> =>
          /\ \A i \in About(c) :
               Latest(i, About(c)) => OwnOrStale(a, checkEvents[i].status, checkEvents[i].from)
          /\ About(c) = {} => OwnOrStale(a, state[c], reporter[c])

\* Downs of a check that are reported and not yet acted upon.
PendingDowns(c) ==
  Cardinality({i \in DOMAIN checkEvents :
                 checkEvents[i].check = c /\ checkEvents[i].status = "down"})
  + Cardinality({pos \in Actors \X (1 .. 2) :
                   /\ actors[pos[1]].check = c
                   /\ pos[2] \in DOMAIN actors[pos[1]].outbox
                   /\ actors[pos[1]].outbox[pos[2]] = "down"})

\* The policies of on-check-failure run at least once for every time a check
\* goes down, and at most once more per actor, for its first run: no event is
\* lost or counted twice between the actors and the overlord.
OutagesActedUpon ==
  \A c \in Checks :
    LET seen == tally[c].acted + PendingDowns(c)
    IN  /\ tally[c].downs <= seen
        /\ seen <= tally[c].downs
                    + Cardinality({a \in Actors : actors[a].check = c /\ ~ actors[a].firstRun})

\* What an alert is told of a check: its jobs, in the order of the queue.
ToldOf(name, c) == {n \in Jobs : jobs[n].alert = name /\ jobs[n].body.check = c}

AlwaysSubscribed ==
  {pair \in {alert.name : alert \in UNION {ToSet(p.alerts) : p \in Plans}} \X Checks :
     \A p \in Plans : \E alert \in ToSet(p.alerts) :
       alert.name = pair[1] /\ pair[2] \in alert.onCheck}

\* The table of docs/user-guide/configuration.md: an alert is told of changes
\* only, first of a failure and then of recoveries and failures by turns,
\* through replans, replaced actors and repeated reports, as long as the queue
\* has had room for its jobs.
AlertsAlternate ==
  \A pair \in AlwaysSubscribed \ dropped :
    LET told == ToldOf(pair[1], pair[2])
    IN  \A n \in told :
          LET earlier == {m \in told : m < n}
          IN  /\ earlier = {} => jobs[n].body.status = "down"
              /\ \A m \in earlier :
                   Latest(m, earlier) => jobs[n].body.status # jobs[m].body.status

\* An alert is posted at most retry_attempts times, counts as delivered only if
\* the endpoint took it, and is taken twice only if an answer was lost.
DeliveryAccounts ==
  \A n \in Jobs :
    /\ jobs[n].posts <= max_attempts(jobs[n])
    /\ jobs[n].phase = "delivered" => jobs[n].accepted = jobs[n].unheard + 1
    /\ jobs[n].phase # "delivered" => jobs[n].accepted = jobs[n].unheard

\* A request for the status of checks is answered, although the overlord waits
\* for actors that are in the middle of a probe or of a report.
QueriesAnswered == ~ OverlordIdle ~> OverlordIdle

\* No job waits in a queue for ever, whatever the endpoints do with the jobs
\* before it, and whether or not a replan has replaced its queue.
QueuesDrain ==
  \A n \in 1 .. MaxJobs :
    (n \in Jobs /\ jobs[n].phase = "queued") ~> (n \in Jobs /\ jobs[n].phase # "queued")
=============================================================================
