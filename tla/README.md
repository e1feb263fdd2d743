# A TLA+ model of vigil-rs

vigil-rs is a service supervisor for containers: the daemon `vigild` starts the
services of a plan, restarts them, checks their health, collects their logs and
stops them when it ends; `vigil-log-relay` carries those logs, or those of the
pods of a Kubernetes cluster, to a collector. These modules model from the source
what of it runs concurrently or can fail: the actor of a service, the overlord that
commands the actors, the plan and its replacement, the health checks with their
alerts, the log store with its followers, the zombie reaper, and the relay with both
of its kinds of source. TLC checks them on small instances, and theorems about each
of them are proved with TLAPS for all values of their constants.

Paths below are relative to `crates/vigild/src/` unless they start with
`crates/`, `docs/` or `README.md`.

## 1. Inventory

| Component | State it keeps | Operations | Interacts with | Modelled |
|---|---|---|---|---|
| ServiceActor, `service/` | state, child, backoff count and delay; in the loop: backoff timer, kill deadline, pending restart | Start, Stop, Restart, Status, ForwardSignal, Shutdown; child exit, kill deadline, backoff expiry; cleanup | mailbox (32) from the overlord; event channel (256) to it; kernel processes; reaper; readers | yes |
| Overlord, `overlord/` | plan, service entries (handle and snapshot), checks, pending_autostart, changes | service actions, autostart, service events, check events, replan, forward signal, shutdown | all of the above; API and main through a channel (128) | all but the change log and the listings |
| main, `main.rs` | restart flag | signals, API stop and restart, join of the overlord, re-exec | overlord | stop and exit |
| Plan, `overlord/plan.rs`, `crates/vigil-types/src/plan/` | none | load and merge layers | overlord | yes |
| CheckActor, `check/actor/` | status, failures, first_run | tick and probe, GetStatus, Shutdown | overlord (channel of 256) | yes |
| Probes, `check/probe/` | none | http, tcp, exec | network, processes | their results, and the process an exec probe leaves |
| AlertSender, `alert/` | last status per check, queue, shared max age | check event, replan of alerts and queue, worker, retries | overlord, HTTP endpoints | yes |
| LogStore, `logs/` | ring buffer per service, broadcast channel | push, tail, subscribe; readers; push tasks | actors, API, sockets | yes |
| Reaper, `reaper.rs` | map from pid to exit status | reap on SIGCHLD, wait_child | kernel, actors, exec probes | yes |
| Log relay, `crates/vigil-log-relay/` | channel of lines; sink: pending line, backoff; source: failures, backoff | sources, filter, sinks, liveness file | vigild, TCP collector | sinks yes; sources but for proxies, TLS and the health endpoint |
| Kubernetes source, `crates/vigil-log-relay/src/source_k8s/` | running pods, initialized pods, stream tasks, permits | watch events, reconciliation, stream tasks | Kubernetes, the relay's channel | yes |
| API and auth, `api/`, `server.rs`, `identity/`, `tls/` | identities | requests | overlord, log store | no |
| Metrics, `metrics/` | counters | set and render | everything writes, nobody reads | no, on purpose |
| Pure code: `duration.rs`, `process_util/`, `crates/vigil-types/src/no_proxy/` | none | parsing and matching | | no |
| `vigil` client, `crates/vigil/` | none | prints what the API returns | API | only the two requests of `logs -f`, in `LogStore` |

### What is hard, and what correct means

**ServiceActor.** One task handles one input at a time, but three pieces of its
state are locals of the loop that each handler is passed or not: the backoff
timer, the kill deadline, the pending restart. Each must be cleared by every
handler that ends the situation it belongs to, over sequences no test writes
down: stop in backoff, restart while stopping, a spawn that fails in the middle
of a restart, a timer that fires after the state has moved on. Correct means
one process per service, a stop that ends even when the process ignores it, no
kill of a process that was not asked first, no restart and no delay left over
from an earlier life, crash loops that end, and nothing left at the end.

**Overlord.** It is one task too, but it decides on snapshots that are as old as
the last event it handled, and it awaits replies of actors that may themselves
await room in the channel only it empties. Correct means snapshots that follow
the actors, starts in the order of the dependencies, deferred services that are
not forgotten, required dependencies that take their dependents down, replies
and shutdowns that come, and an exit that leaves no process unasked.

**Plan and replan.** Layers are read one by one from a directory that others write
to, merged field by field with three different rules, and applied to actors that are
busy, while events of actors that are on their way out wait in the channel under the
names of their successors. Correct means a plan that says what its layers say, one
actor at work for each of its services, removed services that end, and snapshots that
belong to the actor that has the name now.

**Checks and alerts.** Events of replaced actors, the repeated first report, an
alert queue that drops a job after its status is recorded, deliveries that
overtake each other. Correct means one action per change of status, and alerts
whose last delivery agrees with the status, or a known reason why not.

**Logs.** A ring buffer replaced by a racing first push, a broadcast that lags,
push tasks that subscribe after connecting. Correct means lines in order, and
lost only where the code says so.

**Reaper.** `waitpid(-1)` and tokio wait for the same children, one SIGCHLD stands
for many exits, waits are dropped and begun again, the records age, and the kernel uses
identifiers again. Correct means that each wait gets the status of its own child, and
that no zombie stays.

**Relay.** Reconnection on both sides with one pending line between them, a bounded
channel that drops, writes that fail half-way, an end that does not wait. Correct
means that the sink neither loses, reorders nor repeats a line beyond the one whose
write failed, and that the source gives up when, and only when, it was told to.

**Kubernetes source.** Two tables, a semaphore and tasks that end, break or are
aborted at any time, against a cluster that changes while the watch is interrupted.
Correct means that tables, permits and tasks agree, that the tables follow the cluster,
and that a pod that runs is streamed again whatever breaks.

**Pure code.** Durations, `no_proxy`, command splitting, credentials: text in, value
out, no state and no order of steps; the unit tests are the right tool.

The `hazards` of `PROJECT.json` list all of this line by line.

## 2. Modules

| Module | What it is |
|---|---|
| `ServiceLifecycle` | Abstract: the state a service reports and whether it has a process, with the eight moves it may make |
| `ServiceActor` | The actor, with an environment that sends any command at any time; its properties; the refinement mapping to `ServiceLifecycle` |
| `Supervisor` | EXTENDS `ServiceActor`: the overlord, the mailboxes, the event channel, shutdown; its properties |
| `Replan` | Layer files, their merge, the replan; the actors are `ServiceLifecycle`'s (INSTANCE), behind mailboxes |
| `Monitoring` | The check actors, the alert sender, the delivery workers and what the overlord does for them, replans included |
| `LogStore` | The readers of the captured streams, the ring buffers, the broadcast channel, push tasks and `vigil logs -f` |
| `Reaper` | The reaper, the waits of services and probes, and what the kernel does with identifiers and zombies |
| `Relay` | The relay's source, channel and sinks, with the network and the collector |
| `KubeSource` | The Kubernetes source: its loop, its tables and its tasks, with the cluster and the watch |
| `ServiceActorMC`, `SupervisorMC`, `ReplanMC`, `MonitoringMC`, `LogStoreMC`, `ReaperMC`, `RelayMC`, `KubeSourceMC` | Plans, texts and other values for TLC |
| `ServiceActorProofs`, `SupervisorProofs`, `ReplanProofs`, `MonitoringProofs`, `LogStoreProofs`, `ReaperProofs`, `RelayProofs`, `KubeSourceProofs` | Theorems about the module of that name, and their proofs |

The composition of actor and overlord is `Supervisor`. The replan has a module of its
own, over the abstract lifecycle, because the overlord's part in it needs several
actors per name, for which `Supervisor`'s full actors are too many states; what the
abstract actors may do is what `ServiceActor` is shown to do (theorem `Refinement`).

### ServiceActor and the code

`actor[s]` is the `Actor` struct with the three locals of `run`; `proc[s]` is
what the kernel knows of the processes spawned for `s`: absent, running, asked
(sent the stop signal) or killed (sent SIGKILL). A process can leave at any
time and need not leave before SIGKILL.

Each command, `ChildExit`, `KillDeadline` and `BackoffExpired` is one branch of
the `select!`, enabled only when no handler is in progress (`AtSelect`). A
handler awaits wherever it emits an event, since the channel to the overlord is
bounded, so its outputs go to `outbox` in order and leave it one at a time
(`Deliver`); what it does after they have left is in `todo`. Between two awaits
only the actor itself sees its state, so a handler's assignments are made when
it begins, except for the spawn (`DoStart`), which really happens after the
event `Starting` has been delivered, and the second half of a restart
(`Relaunch`), which comes after `Inactive` has been. The `biased` order of the
`select!` matters for commands only: `Supervisor` lets the other branches run
when the mailbox is empty, and `ServiceActor` leaves the order open.

Abstractions: durations are numbers of an arbitrary unit, and time passes in
`KillDelayPasses` and `BackoffExpired` with no clock, so two timers may fire in
either order; the backoff factor is a fraction, and the product is truncated
as the code truncates it; `backoff_count` is kept as `backedOff`, because only
`> 0` is asked of it; process identifiers are per service and are not reused
while the actor holds them; the stop signal is one, and forwarded signals,
`Status`, metrics, log readers and push tasks change nothing the actor decides
on. `wait_child` that fails counts as a failed exit (`Reaper` says when it fails),
so the exit's success is a free choice.

### Supervisor and the code

`script` is what the handler in progress still has to do: one `svc_cmd` or
signal after another, or the exit. `waiting` is the service whose reply
`svc_cmd` awaits. The overlord is at its own `select!` when both are empty.
Handlers decide at once and send later: nothing else changes snapshots, plan or
pending services while a handler is in progress, so this is what the code does.
A handler that commands several services does so in the order of the plan: `SendAll`
are the scripts that do (`InPlanOrder`). `ServicesAction` goes through the names in the
client's order instead, and commands a service twice when it is named twice (`Requestable`).
`stop_all` is a task per service (`stopTask`): Stop, its reply, Shutdown.
`Exit` drops the actors where they are, as `process::exit` and the end of
`main` do; processes go on. The channel of commands to the overlord is not
modelled: a request arrives when the overlord can take it, which is all that
its `biased` order allows to be seen.

`Inputs`, `MaxRequests`, `EventCap`, `MailboxCap` and `Pids` are the bounds, and
`Inputs` says which requests the environment makes. `born` and `ran` are history variables, kept by
`RecordsStarts` in every step: the services that were ever started, and those that ever
were `Active`.

### Replan and the code

`files` is the directory; `reading` is `load_plan` in progress, file by file, so that
an edit may come between two files, and a file that is gone or broken ends the replan
with an error. `Plan(contents)` parses and merges: each of the ways in which
the code merges fields (`opt!`, extension of a list, plain assignment) has one field of
services, checks and alerts that stands for all of its kind, and a map is an optional
field for each key. The parser leaves keys it does not know alone, `override` among them.

`Apply` is what `run` at boot and `reload_layers` have in common: `sync_actors` spawns
an actor for each name that has none, the removals send Shutdown without waiting, and
`autostart` starts the enabled services whose requirements run and puts off the others.
Actors are numbered in the order in which they may be spawned, `table` says which one a
name has, and an event carries the name in the code; here it carries its actor (`by`), and
`OnStateChanged` looks only at the name of that. `AutostartRequest` is the client's action
that changes the plan itself: it sets the `startup` of a service, after which the plan is the
merge of the layers but for that field of the services in `autostarted`, until the
next replan reads the files again. The other commands of clients, processes that end
unasked and a full event channel are in `Supervisor`.
`changed` (names whose configuration changed under a kept actor) and `mixed` (names
that have got an event of an earlier actor) are history.

### Monitoring and the code

`actors` lists every check actor ever spawned, and `checks[c]` is the index of the
one in charge, as the overlord's `CheckEntry` holds its handle. `told` says that
`Cmd::Shutdown` is in its mailbox, or the mailbox closed. An actor that is told
goes at its next `select!`, which may be a whole probe away (`perform().await` is
not cancelled), and until then reports like any other; the reports of a handler
wait in `outbox` for room in the channel. `query` and `asked` are the progress of
`query_checks`: the overlord does nothing else until the actor it asks answers, and it
asks the actors in the order in which they were spawned, which is that of
`Overlord.checks`.

`AlertSender::handle_check_event` is two actions. `HandleCheckEvent` is its beginning:
the status is recorded, and `sending` gets the alerts its loop goes through.
`SendAlert` is one round of the loop, a `try_send` if the alert subscribed to the check:
the worker runs on another thread and may take a job between two rounds, so that the
second of two alerts can find room or none in a queue that holds one.

`jobs` is the list of all delivery jobs with what became of them; the jobs of one
queue that are still `queued`, in order, are the content of that queue. A queue is
replaced when a replan changes its depth (`channel`), and the old worker drains
the old one. Each job that a worker takes is a task of its own, so their posts
interleave freely.

Abstractions: periods, delays, ages and backoffs are free choices of when; a
probe's result, an endpoint's answer and whether it arrives are free too; a
payload is its check and status; the policies of `on-check-failure` are only
counted (`tally`), since `Supervisor` has what they do. `reporter`, `dropped`, `tally`
and the fields `initial`, `results`, `accepted` and `unheard` are history. Replan takes
any of `Plans`; how a plan comes about is in the module `Replan`.

### LogStore and the code

A reader task handles one line at a time: timestamp, `Lookup` under the read lock,
`CreateBuffer` under the write lock if there was none, `PushLine` under the lock of the
buffer, `SendLine` on the channel. Others run between any two of these, as they do on
the threads of the runtime. `buffers` keeps the buffers that were replaced too, because a
reader may still hold one; `current` is the map of `LogStore`.

The broadcast channel is the sequence of all that was ever sent, and the places it
has are its last `BroadcastCapacity` elements: a receiver is a position, and one that is
before `Oldest` lags. A push task connects, subscribes, takes and writes lines; a write
may fail after the collector has the line or before, and the kernel may take a line
the collector never gets, so every `WriteLine` has both outcomes. `vigil logs -f` is
`GetLogs`, then `FollowLogs`, then `Follow` for each event of the stream. What `GetLogs`
shows is stated rather than computed (`IsTail`): sorted by time, and nothing that is left
out is younger than what is shown.

Abstractions: a line is its reader and its time, and the clock is the number of lines
read so far, so no two timestamps are equal; the backoff between connections is a free
choice of when. A tail over several services, which locks one buffer after the other,
the ndjson stream, which differs from SSE in that it skips silently, the end of a
client, and the tasks' abortion with their service are left out. `got`, `pushed` and
`viewer.since`, `viewer.unsent` are history. Followers share nothing but a channel that
waits for none of them, so `Uses` has them run one at a time.

### Reaper and the code

`owner` and `zombie` are the kernel's: whose process an identifier is, and whether it
has exited and waits to be collected; `sigchld` is one bit, however many exits it
stands for. The reaper sleeps until SIGCHLD, drains `waitpid(-1)` child by child and
records each status; between the collection and the record it holds the status
(`held`), and others may run. `old` says which records are older than `REAPED_KEEP`; they go
when the next one is made. A wait is tokio's first (`wait`), and on `ECHILD` it asks the
record (`lookup`), again and again for `REAPED_LOOKUP`. A service's wait is a branch of
a `select!`, so it can be dropped and begun again; a probe's is dropped for good when the
probe times out, and its process goes on. `reaping` is chosen at the beginning: without
`--reaper` and a process identifier of 1, `vigild` collects its children by tokio alone.

A status is named by the process it belongs to, and each wait is for one process, so
that a wait with another's status shows. `reused` (waits whose identifier two processes
had) and `late` (waits that came after their record was dropped) are history.

### Relay and the code

The source task is `source`, its count of `failures` and its delay; every reading of a
line is `ReadLine`, which filters and then does `try_send` as `forward_line` does: a full
channel drops the line. What a line is made of is what the filter and the framing
tell apart (`Text`). The sink task is `sink` with its `pending` line, the `line` it
writes and its delay. The other sink takes a line (`PrintTakes`) and writes it to stdout
(`PrintLine`); the write may fail, wholly or in part, whereupon the line is gone, as the code
drops the error (`PrintFails`). `SourceResult` and `Signal` end the
process whatever the sink holds, as `main` does.

`sent` has every chunk ever written to any connection, with the connection and where the
chunk is: in the socket's buffers, with the collector, or lost. A write puts a whole line
into the buffers, even when the connection has broken and nobody knows yet; a failed one
leaves a part of it or nothing. `Receive` brings the chunks of one connection in order, and
different connections in any. `WireBreaks`, `CollectorFails`, `CollectorReturns`
and connections that fail are the environment's, bounded by `MaxTrouble`, and so are the
writes to stdout that fail. `handed` (the lines put into the channel), `unprinted` (those
whose write to stdout failed) and `outcomes` (how the source's last attempts ended) are
history.

### KubeSource and the code

The cluster is a phase and a number of creations (`gen`) for each pod; `watch` has the
events that the watcher has not handed out. A watch that is lost may miss changes, and
`WatchLists` lists the pods anew (`Init`, `InitApply`, `InitDone`; the loop ignores the
first). `running_pods`, `initialized` and `active` are the tables of the loop, `permits` is
the semaphore, and `pass` is the handler in progress: the pods it has still to go through, the
pod it is at, the containers left, whether it asks for the last lines, whether it
started a task. Other tasks run between any two of its steps.

A task is a slot: what it streams, whether it is new, runs or is done, whether it was
aborted, and its `open` log streams. Since Kubernetes 1.32 (`split`) there are two of those
with a task each; `TaskEnds` aborts the other when one ends, while `TaskCancelled`, which is what the
runtime makes of an abort, leaves them open. The runtime drops the other stream a little after
the abort and `TaskEnds` at once, which nothing in the loop can tell: that stream has no permit
and is in no table. Of `stream_pod` there are the stream's beginning and its end (`StreamEnds`);
what it does with the lines is not modelled (see 6). `unseen` (deletions the watch missed) and
`tailed` (the creation for which the last lines were asked for) are history.

Operators named `X_<mistake>` (`Emit_dropping` for `Emit`) are mutated forms of
`X`. Nothing uses them; they are there to replace `X` when one wants to see that
a property notices the mistake.

## 3. Runs

| Run | Instance | Properties | States |
|---|---|---|---|
| `service_actor` | one service, three pids, four configurations, any command | `StoppingEscalates`, `NoLeftovers`, `KillOnlyAfterAsk`, `StopCompletes`: a stop always escalates and ends; no restart and no backoff left over; SIGKILL only after the stop signal | 44 000 |
| `service_actor_patient` | two pids; no Start or Restart in backoff | `SingleProcess`, `NothingBehindState`, `RetriesEnd`, `LifecycleSpec`: one process; timers match states and the end is clean; crash loops end; refinement | 1 700 |
| `supervisor_boot` | three services, four plans, no requests | `AutostartOrder`, `AutostartProgress`: a service starts when each dependency has been active or failed to launch; deferred services are started | 55 000 |
| `supervisor_run` | two services, one requires the other, failures stop the daemon, signals | `CommandsAnswered`, `ShutdownEnds`, `RequiresCascade`: every command is answered; every shutdown ends; a dependency that ends takes its dependent down | 143 000 |
| `supervisor_safety` | two services, three plans, one request, a channel for three events | `SnapshotFollows`, `ExitAsksEveryProcess`: snapshots follow the actors; no process unasked at the exit | 1.5 million |
| `monitoring` | one check (and one that probes nothing), three plans, one replan, three probes, a channel for three events, two alerts that share a queue of one | `OneActorInCharge`, `StatusIsVerdict`, `StatusFollowsChecks`, `OutagesActedUpon`, `AlertsAlternate`, `DeliveryAccounts`: verdicts, one actor in charge, alerts follow checks and alternate, retries within bounds | 1.8 million |
| `monitoring_live` | one check, two alerts (one with no url), two depths of the queue | `QueriesAnswered`, `QueuesDrain`: status queries are answered; queues drain | 23 000 |
| `log_store` | two streams of one service with two lines each, buffers and channel of two; a push task for it, one for another service, or a viewer | `KeepsLastLines`, `FollowersInOrder`, `FollowerAccounts`: the last lines are kept but for one race; followers get lines in order and account for the rest | 325 000 |
| `relay` | two lines that pass the filter and one that does not, a channel of one, a limit of two failures, two troubles, both sinks | `SinkKeepsLines`, `WritesInOrder`, `GivesUpAfterFailures`, `LinesArrive`: the TCP sink loses no line and the stdout sink those whose write fails; order over all connections; the source gives up when it should; lines arrive | 356 000 |
| `kube_source` | one pod of two containers, a limit of one or none, Kubernetes 1.31 and 1.32, three slots, two changes of the pod, one interruption | `TasksTracked`, `PodsFollowCluster`, `TailOnce`, `RunningPodsStreamed`: tables, tasks and permits agree; the table follows the cluster; last lines are asked for once; a pod that runs is streamed again and again | 233 000 |
| `reaper` | a service and a probe, two identifiers, orphans, with and without the reaper | `StatusesDelivered`, `ZombiesCollected`: each wait gets its own status; every zombie is collected | 461 000 |
| `replan` | two names, two layer files, four contents, three directories, three actors, one edit, two requests (a replan or an autostart each) | `PlanIsMerge`, `ActorsFollowPlan`, `SnapshotOfTheActor`, `RemovedServicesStop`: the plan is what the layers say; one actor per service; snapshots are of the right actor; removed services end | 136 000 |

All of them pass. Where a document promises more than the code does, the property states
what the code does, with the exception named, and the exception is explained below.

**Bounds.** Actors share nothing but the overlord's channels, so one service is
enough for the properties of the actor. Three pids let an orphan, its successor
and the next process be alive at once, which is how many it takes for every
step of `ServiceActor` to meet every other; with patient clients two suffice
(the one that is leaving and the next). The configurations have every exit
policy and both exit codes, and a backoff that makes two retries and gives up.
In the supervisor runs the services do not use the policy `restart`: backoff is the
actor's own affair, one pid per service is then all that can be alive, and
the restarts that matter to the overlord come from clients and checks. Two
services make a dependency, a cascade and an actor that blocks while another is
commanded; three make a chain and a fan-in. `EventCap` is three in
`supervisor_safety`, so that the channel is full all the time, and larger than
the number of events that can be sent in the runs that check liveness, since a
full channel can stop everything (see the findings). One request is enough to
put a client's command between any two steps of the daemon; `DaemonStop` is
not counted.

Checks share nothing but their channel and the queue, so one check with two
generations of actors has all the interleavings that matter to it, and the
second check only its place in the order. Three probes allow a failure, a
success and a failure again, which a threshold of 2 must tell from two failures in
a row, or a change of status before and after a replan; no probe begins when three
have ended, so two actors may be in their probes beyond that. The plans differ in
threshold, in depth, in what is enabled and in the number of attempts (0, which the
code takes for 1, to 2). A queue of one is full at once. `EventCap` is three in
`monitoring`, which a check and its predecessor can fill, and exceeds what can be
sent in `monitoring_live`, for the same reason as above.

Two streams of one service are the only readers that share a buffer. With two lines
each, the buffer of two evicts and the channel of two overtakes a follower, twice, and two
connections of a push task have lines before, between and after them. The real channel
has at least 64 places; its size only says when a follower lags.

Two lines make an order, and with room for one in the channel the second is
dropped or waits. Two troubles let a connection break and the next one fail, or
the same line fail twice. A limit of two failures is the least for which a failure that is
forgiven differs from one that is not. One pod is enough for `KubeSource`, as pods share
only the permits; its two containers compete for the one there is. Two changes make it
stop and run again, or be deleted and created, before, during and after the
interruption; three slots hold two tasks and a leftover of an aborted one.

Two identifiers let the service's process, the probe's and an orphan take turns, so that
each identifier can be reused. Two replans remove a name and add it again, which is what
it takes for events of an earlier actor to be mistaken; the third actor is the one that is
spawned for it. The four contents are a whole configuration, an overlay that sets one
field of each kind, and a replacement, written as documented and as the code reads it.

`CHECK_DEADLOCK` is off everywhere: an actor stops for good after Shutdown, the
daemon after its exit, and with a full event channel sooner; the log store rests when
all lines are read and followed, the relay has ended, and the cluster, the kernel and the
operators of the other runs have no more to do within their bounds.

**Fairness.** Tokio polls every task that can proceed: weak fairness for
deliveries, continuations, the receipt of a command, and the overlord. A command
in the mailbox comes before the child's exit and the timers, but the overlord
awaits the reply before it sends the next, so the mailbox is found empty again
and again: strong fairness for those branches. Timers do fire. Processes are
unfair except that one sent SIGKILL must go; requests are never fair.
Probes time out, so `ProbeTimesOut` is weakly fair; posts to endpoints are not
fair at all, because a request to one has no timeout. `LogStore` has safety properties
only. `StopCompletes` needs restarts to cease, because each re-arms the kill
deadline, and `RetriesEnd` needs clients to stop starting the service.

In `Relay` the sink's steps and `Receive` are weakly fair, nothing of the source or of the
collector is, and `LinesArrive` is about collectors that stay up. In `KubeSource` the
branches of the loop's `select!` are taken in random order, which is strong fairness for
the events of the watch and for `Reconcile`; steps of a handler and of tasks are weakly
fair, and so are `WatchLists`, because the watcher retries, and `StreamEnds`, because
the API server closes every log stream after minutes. In `Reaper` the reaper's steps are
weakly fair, and strongly for each identifier, as `waitpid(-1)` takes every zombie in the
end; waits are not fair. In `Replan` the overlord and each actor are weakly fair.

### What the findings show

Each is a finding of `PROJECT.json`, with the lines of the document and of the code, and
concerns the property named here, which has it for an exception or a condition.

**Service actor and overlord**

* **Two processes** (`SingleProcess`). `handle_start` is not given the backoff timer, so a
  Start in `Backoff` leaves it armed, and it spawns over the new child later.
  `service_actor_patient` and the theorem `OneProcess` show that this is the only way
  to get there.
* **Deadlock at start** (`CommandsAnswered`). `autostart` awaits each reply and reads no
  events, each start sends two, and the actor awaits room before it replies: 129
  independent enabled services fill the 256 places. With two services and two places TLC
  shows the same.
* **Early exit** (`ExitAsksEveryProcess`). A Stop is answered when the signal is sent,
  `stop_all` waits for no more than that, and the daemon leaves while the processes
  run; the documentation has it wait for `kill-delay`. That every process was asked is all
  that holds.
* **Missed cascade** (`RequiresCascade`). The event `Starting` of a service releases its
  dependents and its event `Error` may be handled before theirs: the dependent is not
  yet running in the snapshots, is not stopped, and runs for ever without what it
  requires. It takes no client and no timing, just a dependency whose command
  cannot be spawned.
* **The limit of retries** (`RetriesEnd`). docs/user-guide/configuration.md:201 has the
  retry delay stay at the limit, while the code gives up before it waits for the limit
  once.

* **A failed launch will do** (`AutostartOrder`). The manual has a service wait until its
  dependencies are `Active`. `is_running` counts `Starting`, and the event that says so
  releases the dependents, even if the launch has failed when the event is handled. No
  service starts while a dependency is being launched, because the overlord awaits the end
  of each launch it asks for: the failed launch is the only exception, and without it TLC
  refutes the property.

**Plan and replan**

* **`override` is ignored** (`PlanIsMerge`). The documented key `override: replace` is
  `override-mode` to the parser, which ignores the other: an entry meant to replace is
  merged.
* **Overlays reset what they do not mention** (`PlanIsMerge`). Fields that are not
  optional (`startup`, `level`, `format`, `tls_insecure`) take their default from an overlay
  that leaves them out: an overlay that adds an environment variable disables the service.
* **Kept actors keep their configuration** (`ActorsFollowPlan`). A replan gives no actor
  a new configuration, and no restart does, although the documentation says so; only a
  replan without the name and another with it.
* **Events of an earlier actor** (`SnapshotOfTheActor`). Events name the service, so one of
  a removed actor that still waits is believed of its successor, until that changes its
  state.

**Checks and alerts**

* **Policies applied twice** (`OutagesActedUpon`). A check actor reports once more at the
  end of its first run, for the benefit of the alert sender, which ignores the
  repetition; the policies do not. The exact bound: once per transition and once more
  per actor.
* **A replaced actor's report** (`StatusFollowsChecks`) may come after the first one of its
  successor, and the alert sender then believes it until the successor sees a
  change, which it suppresses as a duplicate if it is to the same status.
* **Unbounded deliveries** (`QueuesDrain`). The worker hands every job to a task at once,
  so neither `max-queue-depth` nor `max-queue-time` bounds what is pending while an
  endpoint hangs: queues drain without any fairness of the endpoints.

**Logs and relay**

* **Race for the buffer** (`KeepsLastLines`). The first lines of the two streams of a service
  may each find no buffer and create one, and the second replaces the first with
  the line that is in it.
* **Slow followers** (`FollowerAccounts`) go on after a gap they are told of, where
  docs/user-guide/logging.md:66 has them disconnected.
* **`vigil logs -f`** (`FollowersInOrder`) cannot keep the promise of line 122 of that page: a
  line sent between its two requests is not shown, and one pushed but not yet sent
  at the first is shown twice.
* **Lines in a broken connection** (`LinesArrive`). The sink keeps the line whose write
  failed, but the kernel took those before it: what a broken connection held is lost,
  although the comment says that no entry is.
* **Writes to stdout** (`SinkKeepsLines`, `LinesArrive`). The stdout sink looks at the result
  of no write, so that a line whose write fails is gone, and the relay goes on taking lines
  after the reader of its pipe has left. The TCP sink, which keeps the line, has no such
  exception.
* **Fragments** (`WritesInOrder`). A write that fails may have written a part of the line;
  not every line on the wire is a complete JSON object.
* **Forgiving 2xx** (`GivesUpAfterFailures`). Every connection resets the count of failures,
  so that streams that break or time out for ever never end the source.
* **Detached streams** (`TasksTracked`). Aborting a task that spawned one task for stdout
  and one for stderr detaches those: they go on beside their successors, and hold no permit.
* **The last lines, once** (`TailOnce`). The help of `--tail-lines` has it apply on every
  connection, and instead of `--since-seconds`; the code asks for the last lines when a pod is
  first streamed and uses `--since-seconds` afterwards, which is what the relay's README says. A
  pod counts as streamed when a pass has started its tasks, even if the API server then refuses
  the request, and its last lines are not asked for again.
* **Deletions while the watch is down** (`PodsFollowCluster`). The new list adds to the
  table and removes nothing.

**Reaper**

* **Reused identifiers** (`StatusesDelivered`). The record of an orphan is kept for a minute
  under its identifier, and a later process with that identifier may be given it.

README.md:28 has vigild exit with the service's exit code, while the codes are 0 and 10;
that needs no run.

## 4. Proofs

Each theorem is for all values of the constants that satisfy the named assumptions of
the module: any number of services, streams, pods or lines, any capacities and limits. The
bounds of the runs are parameters too.

| Theorem | Statement |
|---|---|
| **`ServiceActorProofs`** | |
| `TypeCorrect` | `Spec => []TypeOK` |
| `StopsEscalate` | `Spec => []StoppingEscalates` |
| `Leftovers` | `Spec => []NoLeftovers` |
| `KillsAreAsked` | `Spec => KillOnlyAfterAsk` |
| `OneProcess` | `PatientSpec => []SingleProcess` |
| `NothingBehind` | `PatientSpec => []NothingBehindState` |
| `Refinement` | `PatientSpec => LifecycleSpec` |
| **`SupervisorProofs`** | |
| `ActorsConform` | `SupSpec` implies `ServiceActor`'s specification: every step of the composition is one of the actors' own or leaves them alone |
| `SupervisedActors` | under the overlord, too, stops escalate and nothing is left over |
| `SnapshotsFollow` | `SupSpec => []SnapshotFollows` |
| `StartsInOrder` | `OnlyAutostarts` and `SupSpec` imply `AutostartOrder`: when a service is started, each of its dependencies has been active, or failed to launch |
| `OverlordIsPatient` | `Patience` and `SupSpec` imply the patient specification: no service is started in backoff |
| `SupervisedProcesses` | then `SingleProcess` and `NothingBehindState` hold under the overlord |
| `SupervisedLifecycle` | then `SupSpec => LifecycleSpec`: under the overlord every service goes through the lifecycle of `ServiceLifecycle` |
| `ExitAsks` | then `SupSpec => []ExitAsksEveryProcess` |
| `RepliesConserved` | `SupSpec => []RepliesAreAwaited`: for each reply that is awaited one command, handler or reply is under way, at an actor that is still in its loop, and there is no other |
| `NoForgottenStart` | `SupSpec => []DeferredStartsWake`: a service to be started was, has its Start on the way, or is listed as waiting for one that does not run or whose event is still to be handled |
| **`ReplanProofs`** | |
| `PlansAreMerges` | `Spec => []PlanIsMerge`, the `startup` of services autostarted since excepted |
| `ReplanHolds` | `Spec => []ReplanInv`, the types and the invariant of the other two |
| `ActorsAreOfThePlan` | `Spec => []ActorsFollowPlan` |
| `SnapshotsOfActors` | `Spec => []SnapshotOfTheActor` |
| `CommandsOneByOne` | `Spec => []OneCommandAtATime`: an actor never has two commands to do, the one that is awaited is at its actor, and each command of a script finds an actor to go to |
| `NoOrphans` | `Spec => []ProcessesFollowPlan`: a process is that of a service of the plan, or its actor has the Shutdown still to take or is stopping it |
| `ReplanLifecycle` | `Spec => Life!Spec`: every actor goes through the lifecycle of `ServiceLifecycle`, whatever is replanned meanwhile |
| **`MonitoringProofs`** | |
| `MonTypes` | `MonSpec => []MonTypeOK`, the capacity of the channel of check events included |
| `InCharge` | `MonSpec => []OneActorInCharge` |
| `Verdicts` | `MonSpec => []StatusIsVerdict` |
| `Follows` | `MonSpec => []StatusFollowsChecks` |
| `Acted` | `MonSpec => []OutagesActedUpon` |
| `Alternate` | `MonSpec => []AlertsAlternate` |
| `Accounts` | `MonSpec => []DeliveryAccounts` |
| `RequestsAnswerable` | `MonSpec => []RequestsReachActors`: a request for the status awaits only actors that are in charge and stay, each once |
| **`LogStoreProofs`** | |
| `LogTypes` | `LogSpec => []LogTypeOK`, the bound of the ring buffers included |
| `KeepsLast` | `LogSpec => []KeepsLastLines` |
| `InOrder` | `LogSpec => []FollowersInOrder` |
| `Accounts` | `LogSpec => []FollowerAccounts` |
| **`ReaperProofs`** | |
| `ReaperTypes` | `Spec => []ReaperTypeOK` |
| `OwnStatus` | `Spec => []StatusesDelivered` |
| `NoZombieMissed` | `Spec => []ZombiesHeard`: a zombie has a SIGCHLD pending or the reaper's loop still to come |
| **`RelayProofs`** | |
| `RelayTypes` | `Spec => []RelayTypeOK`, the capacity of the channel included |
| `KeepsLines` | `Spec => []SinkKeepsLines`: a line put into the channel is written whole or at hand, and not both, or its write to stdout failed, and with a TCP sink none does |
| `InOrder` | `Spec => []WritesInOrder` |
| `GivesUp` | `Spec => []GivesUpAfterFailures` |
| **`KubeSourceProofs`** | |
| `KubeTypes` | `Spec => []KubeTypeOK` |
| `Tracked` | `Spec => []TasksTracked` |
| `Follows` | `Spec => []PodsFollowCluster` |
| `AskedOnce` | `Spec => TailOnce` |
| `NoStrayStreams` | `Spec => []StreamsAreOfRunningPods`: what is streamed is a pod that is known to run and not excluded, and that does run unless events about it wait or the watch missed its deletion |

None of the safety properties is inductive by itself; what makes them so is the
interesting part.

**Service actor.** `Inv` strengthens the properties of `Spec` with what ties the parts of
an actor together: which states go with which `todo`, that the kill deadline is
armed only while a stop is under way or the state cannot outlive it, that a child in
the states that run was spawned and not asked yet. A killed process can then only be
one that was asked, because the deadline that kills belongs to a stop that signalled
this very child. `PatientInv` adds what holds when nobody starts a service in backoff: no
process but the child, the timer if and only if the state is `Backoff`, and no child
left in the resting states. Lemmas say what a step that leaves an actor alone preserves
(`StepFrame`, `BecomeFrame`), and one lemma per handler shows what it establishes.
`Refinement` maps each step to the move of `ServiceLifecycle` it makes, or to a stutter,
under `PatientInv`.

**Supervisor.** `ActorsConform` carries the theorems about the actors over to the
composition. For `SnapshotsFollow`, `FollowInv` follows the announcements of an actor through
the outbox and the event channel: read in order, the last of them is the state, or there
is none and the snapshot is it.

The one way to two processes is a Start that meets a service in backoff. `Patience` says why
there is none: no configuration has the policy `restart` (`NoRetries`), or nobody but the
autostart starts services (`OnlyAutostarts`: clients only stop, signal and end, and no
check restarts). The second case has all the restart policies in it, and needs an
invariant of its own: `Once` follows the one Start a service gets from the decision through the
script and the mailbox, in one of these places at a time, and nowhere once the service
was born; a Start that is received is then of a service that never ran, which is not in
backoff. `OrderInv` has every service that was not started untouched, and every start
that is in a script or a mailbox behind the starts it depends on; a snapshot or an event
that says running is of a service that was born. `RanInv` is what `AutostartOrder` asks beyond
that: a service that was born and never active has no process and no retry coming, and is
`Starting` with its spawn still to do, or `Error` (`NeverActive`). The former cannot be
when another service takes its Start, which is the one command that the overlord awaits
(`OneLaunch`, from the two invariants below).

`ReplyInv` follows one reply through script, mailbox, handler and reply channel
(`DaemonInv`, `Protocol`), and needs no more than the types. It is the safety core of
`CommandsAnswered` and `ShutdownEnds`: nobody waits for a reply that nobody owes, so that what
is left to fairness is that each actor goes on. On top of it `AskInv` says at each point of
`stop_all` who is still to ask whom (`Restartless`, `TaskAsks`): whoever has not been asked
has its Stop on the way before the exit. A service in backoff has its retry called off
by the Stop that finds it there, so that what was asked stays asked (`Settled`).

`WakeInv` is why no deferred start is forgotten, whoever asks for what: who is on the list is
there for a dependency that the snapshots do not show running, so that the event that changes the
last of them finds it (`WakeOverlord`). With `SnapshotFollows` the dependency does not run,
or that event is still to be handled. It is the safety half of `AutostartProgress`, and has
no condition: a Start that a client sends, or a restart, makes the service begin as well.

**Plan and replan.** `Tabled` makes `ActorsFollowPlan` inductive: what a mailbox may have in
it depends on whether a name leads to the actor (`Named`, `MailOK`), so that a start, a stop or
another replan finds the Shutdown of a removed actor still the last command (`MailTaken`,
`MailSent`), and an actor that is not there yet is as it will begin, which is what a
name added again gets (`ApplyFacts`, `ApplyTabled`). `Seen` is `SnapshotOfTheActor` and
that an actor which is not there yet has sent nothing; `Agrees` picks the events of one actor
out of the channel, and `AgreesSent` and `AgreesTaken` say what one more and one less
make of it.

`Working` is what `CommandsOneByOne` and `NoOrphans` rest on. It ties each actor's mailbox to
its point of execution and to the command the overlord awaits (`InTouch`): a load begins when
the script is empty and no reply is awaited, so that the Shutdowns of the removed services go
to empty mailboxes, and an actor in its loop that no name leads to has just its Shutdown
to take. `ToldByState` says in which states and phases an actor has a process.
`Addressed` is the script's side: its commands are for names in the table, which a
replan that takes a name out of it cannot make untrue while the script runs. `NoOrphans` is the
safety half of `RemovedServicesStop`. The actors of `Replan` make the moves of `ServiceLifecycle`, so
that `ReplanLifecycle` only has to see that nothing else of `Replan` makes one.

`PlansAreMerges` is about a recursive function, whose value for any number of layers takes an
induction. `SetInduction` is that induction without an operator for a parameter: a
statement about all numbers is the set of those it is true of, and that set has no
smallest number outside it (`WFMin`, `NatLessThanWellFounded`). `RunExists` shows that
the recursion of `from_layers` defines a function. One more layer then changes what a reader
of all the layers would say of an entry (`OneMore`, `SayMore`) exactly as `merge_service`
does: not at all (`NotNamed`), altogether (`SaidAnew`) or field by field (`SaidToo`).
`MergeOfAll` is the result for any sequence of layers, and `Loaded` that the plan at work is
that of the files a replan has read (`LoadedPlan`), but for the services that a client
autostarted: the action sets `startup` in the plan itself (`AutostartFacts`). Of the constants
only `TextAssumption` is used: a text that does not mention a field that is not optional
says its default, as serde has it.

**Checks and alerts.** `OneActorInCharge` is inductive with the types: a step changes who is
in charge only if it is a replan, and that tells every actor it takes the place of
(`SameCharge`, `ReplanCharge`). For `StatusFollowsChecks` the reports in an outbox have to
be `Truthful`: they all name the status of their actor, and there are none while it
probes or before its first run has ended. The latest report in the channel, or the
status the alert sender has if there is none, is then `Followed` through every probe,
report and event. `Justified` ties the count of failures to the results, which is what makes
the verdict of the next probe follow from the last one's. `Acted` compares the sizes of
three sets, the downs in the channel, those in the outboxes and the actors that have
run, before and after every step: a report moves one down from the second to the first, an
event takes it to the tally (`ShiftedSet`), a probe adds to all of them at once.
`AlertsAlternate` needs `TurnsInv`: what an alert was told last is what the alert sender
knows, unless the loop has still to tell it (`UpToDate`, `Due`), and what the loop has to
tell is what is known (`SendingNews`). `Accounted` is `DeliveryAccounts` for one job, with
the phases in which there are attempts left. `AskInv` has the actors that a request still
awaits in the overlord's table, which no replan changes meanwhile; with `OneActorInCharge` none of
them is told to go. What `QueriesAnswered` leaves to fairness, and to room in the channel, is
that such an actor ends its probe and its reports.

**Log store.** `LogInv` joins the types with what each reader has in hand (`HandsInv`),
with the channel in order of time for each stream and before what is in hand
(`SentInv`), with what was pushed (`PushedInv`) and what is kept of it (`StoredInv`,
`KeptInv`), and with what each follower was given up to its position (`PushInv` by `Given`,
`ViewInv` by `Settled` and `LiveSent`).

**Reaper.** `StatusInv` joins the property with `Traced`, which is about every wait that
is not settled and whose identifier was not used twice: what is found under its identifier
is its own process or its own status, and that status is with the kernel, held by the
reaper, in the record, or dropped for its age (`late`).
`WithoutReaper` is the case of tokio alone. `ZombiesHeard` is inductive with the types: only an
exit makes a zombie, and signals it.

**Relay.** `HandsFull` has `line` be there exactly when the sink writes; `KeepsInv` is then
the place of each line, with `Unprinted` for those that stdout lost: there are none where the
sink is a connection. `OrderInv` orders everything that is ahead of a line (`Ahead`): what
was written, the pending line or the line in hand, the channel, what is still to be
read. `RetryInv`: between connections `failures` is the number of failures that
`outcomes` ends with.

**Kubernetes source.** `TableInv` ties slots to table entries in both directions, also in the
middle of a pass; `PermitsConserved` is counted over the live slots. `FollowInv`
says what the events that wait make of the table. `AskedOnce` rests on the order of the
events of one pod, whose creations a deletion separates (`OrderInv`): a pod loses its place in
`initialized` only at a deletion, behind which every event that waits is of a later creation
(`FreshInv`), and in the middle of a pass the place is as good as taken. `StrayInv` ties the
table of the tasks to that of the pods, and `Follows` that to the cluster.

**Only model-checked.** Everything under fairness and `ENABLED`, which the prover does not reach:
`StopCompletes`, `RetriesEnd`, `AutostartProgress`, `CommandsAnswered`,
`ShutdownEnds`, `QueriesAnswered`, `QueuesDrain`, `LinesArrive`, `RunningPodsStreamed`,
`ZombiesCollected`, `RemovedServicesStop`, and `RequiresCascade`. Every safety property
that a run checks is a theorem as well, and of some of these properties the safety half is
one: that what must happen next can still be found where the code looks for it
(`RepliesConserved`, `NoForgottenStart`, `NoOrphans`, `RequestsAnswerable`, `NoZombieMissed`).
`RequiresCascade` has no such half, as it forgives what the overlord did not see.

## 5. Plan

1. **Done:** `ServiceLifecycle`, `ServiceActor`, `Supervisor`, `LogStore`, `Reaper`, `Relay`,
   `KubeSource`, `Monitoring` and `Replan`, each with its proofs.
2. **Proofs** of the safety halves of `QueuesDrain`, `RetriesEnd` and `RunningPodsStreamed`.
3. **Liveness at larger instances,** in particular two pods that compete for permits.

## 6. Not modelled, and why

TLS, the HTTP servers, the command line clients, payload formatting and the YAML parser
are I/O and text. Metrics are written and never read. The identity store holds one lock
for the whole of each operation, so that no interleaving of it is to be told from a
sequence. Durations, `no_proxy`, command splitting and credentials are functions of
text and of the host's user database: modelled, they would be their own code over again.

Within the modelled parts: reuse of process identifiers across services (in
`ServiceActor`; `Reaper` has it), signals to a process group whose leader is gone, clock
time, panics of a task, the overlord's change log and listings, a tail over several
services, and a `max-queue-depth` of 0, with which `mpsc::channel` panics. In the relay:
proxies, TCP keepalive, and the liveness file, which is written by a ticker that does
not look at the source. Of the Kubernetes source what `stream_pod` does with each line: it drops
those whose time stamp is not above that of the last one, then those the filter
rejects, and those that find no room in the channel. The latter two are `ReadLine` of `Relay`;
nothing models the time stamps.

## 7. Running

    tlc -config ServiceActor.cfg ServiceActorMC
    tlc -config SupervisorSafety.cfg SupervisorMC
    tlapm ServiceActorProofs.tla

The other configurations go with the module whose name begins theirs.
