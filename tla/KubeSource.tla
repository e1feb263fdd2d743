----------------------------- MODULE KubeSource -----------------------------
(***************************************************************************)
(* The Kubernetes source of vigil-log-relay (source_k8s).  One loop reads  *)
(* the events of a watch on the pods of a namespace and, every             *)
(* --watch-interval, reconciles: it keeps a table of the pods that run and *)
(* one of the stream tasks it started, one task per container, and starts  *)
(* what is missing as far as --max-log-requests permits.  From Kubernetes  *)
(* 1.32 on a task spawns two more, for stdout and stderr; when either ends *)
(* it aborts the other.  The loop aborts the tasks of a pod that runs no   *)
(* more; an aborted task ends when the runtime gets to it, and the tasks   *)
(* it spawned are not told.                                                *)
(*                                                                         *)
(* The cluster and the watch are the environment: a watch that is          *)
(* interrupted may miss changes, and then lists the pods anew.             *)
(***************************************************************************)
EXTENDS Integers, Sequences, FiniteSets

CONSTANTS
  Pods,
  ExcludedPods,    \* the pods that --exclude-pod matches
  Containers,      \* the containers of each pod, in order
  Selector,        \* --container: which of them to stream
  DefaultKey,      \* the container Kubernetes picks
  Limits,          \* the values of --max-log-requests considered, 0 for none
  Versions,        \* the Kubernetes versions considered
  TailLines,       \* is --tail-lines given?
  Slots,           \* bound on the tasks there are at a time
  NoSlot, NoPod,
  MaxChanges,      \* bound on the changes of pods
  MaxGaps          \* bound on the interruptions of the watch

\* ContainerSelector::keys_for_pod.
keys_for_pod(p) ==
  CASE Selector.kind = "default" -> <<DefaultKey>>
    [] Selector.kind = "named"   -> Selector.names
    [] Selector.kind = "all"     -> Containers[p]

KeysOf(p) == {keys_for_pod(p)[i] : i \in DOMAIN keys_for_pod(p)}
Streams == UNION {{p} \X KeysOf(p) : p \in Pods}     \* the keys of `active'

ASSUME PodsAssumption ==
  /\ IsFiniteSet(Pods) /\ NoPod \notin Pods /\ ExcludedPods \subseteq Pods
  /\ NoSlot \notin Slots
ASSUME BoundsAssumption == Limits \subseteq Nat /\ MaxChanges \in Nat /\ MaxGaps \in Nat
ASSUME SlotsAssumption == Slots \subseteq Nat /\ IsFiniteSet(Slots)
ASSUME TailAssumption == TailLines \in BOOLEAN
ASSUME KeysAssumption == \A p \in Pods : keys_for_pod(p) \in Seq(KeysOf(p))
ASSUME VersionsAssumption == Versions \subseteq [major : Nat, minor : Nat]

VARIABLES
  phase,        \* cluster: what each pod is doing
  gen,          \* cluster: how often each pod was created
  changes,      \* how often a pod changed
  watching,     \* does the watch see the changes?
  gaps,         \* how often it was interrupted
  watch,        \* the events the watcher has not handed out yet
  limit,        \* --max-log-requests
  split,        \* use_stream_param
  running_pods, \* the pods known to run, with the creation they were seen in
  initialized,
  active,       \* the stream task of each container
  pass,         \* the handler in progress: the pods to go through
  permits,      \* those the semaphore has left
  task,         \* what each task streams
  outer,        \* the state of the task itself
  aborted,      \* was it aborted?
  open,         \* its log streams
  unseen,       \* history: the deletions that the watch missed
  tailed        \* history: the creation whose last lines were asked for, last

clusterVars == <<phase, gen, changes, watching, gaps, unseen>>
taskVars == <<task, outer, aborted, open, permits>>
tableVars == <<running_pods, initialized, active>>
fixed == <<limit, split>>
vars == <<clusterVars, watch, fixed, tableVars, pass, taskVars, tailed>>

-----------------------------------------------------------------------------
(* State.                                                                  *)

\* detect_stream_param_support.
supports_stream_param(v) == (v.major = 1 /\ v.minor >= 32) \/ v.major > 1

NotRunning == 0   \* in running_pods; creations are counted from 1

AtSelect == [pods |-> {}, pod |-> NoPod, keys |-> <<>>, tail |-> FALSE, started |-> FALSE]

Event(kind, p) == [kind |-> kind, pod |-> p, running |-> phase[p] = "running", gen |-> gen[p]]

NoTask == <<NoPod, NoPod>>

Init ==
  /\ phase \in [Pods -> {"absent", "running"}]
  /\ gen = [p \in Pods |-> IF phase[p] = "absent" THEN 0 ELSE 1]
  /\ changes = 0 /\ watching = FALSE /\ gaps = 0 /\ watch = <<>>
  /\ limit \in Limits
  /\ split \in {supports_stream_param(v) : v \in Versions}
  /\ running_pods = [p \in Pods |-> NotRunning]
  /\ initialized = {}
  /\ active = [k \in Streams |-> NoSlot]
  /\ pass = AtSelect
  /\ permits = limit
  /\ task = [s \in Slots |-> NoTask]
  /\ outer = [s \in Slots |-> "done"]
  /\ aborted = [s \in Slots |-> FALSE]
  /\ open = [s \in Slots |-> {}]
  /\ unseen = {}
  /\ tailed = [p \in Pods |-> 0]

-----------------------------------------------------------------------------
(* The cluster and the watch.                                              *)

\* A pod is created, stops or runs again, or is deleted.
PodChanges(p, to) ==
  /\ changes < MaxChanges
  /\ changes' = changes + 1
  /\ phase[p] # to
  /\ phase' = [phase EXCEPT ![p] = to]
  /\ gen' = [gen EXCEPT ![p] = IF phase[p] = "absent" THEN @ + 1 ELSE @]
  /\ watch' = IF watching
                THEN Append(watch, [kind |-> IF to = "absent" THEN "delete" ELSE "apply", pod |-> p,
                                    running |-> to = "running", gen |-> gen'[p]])
                ELSE watch
  /\ unseen' = IF to = "absent" /\ ~watching THEN unseen \cup {p} ELSE unseen \ {p}
  /\ UNCHANGED <<watching, gaps, fixed, tableVars, pass, taskVars, tailed>>

\* The watch ends with an error, and its place in the history of the cluster is
\* gone when it resumes.
WatchLost ==
  /\ watching /\ gaps < MaxGaps
  /\ watching' = FALSE
  /\ gaps' = gaps + 1
  /\ UNCHANGED <<phase, gen, changes, unseen, watch, fixed, tableVars, pass, taskVars, tailed>>

\* The watch begins, or begins again, with a list of the pods there are (Init,
\* InitApply, InitDone), in any order.
WatchLists ==
  /\ ~watching
  /\ watching' = TRUE
  /\ \E list \in [1 .. Cardinality({p \in Pods : phase[p] # "absent"}) ->
                    {p \in Pods : phase[p] # "absent"}] :
       /\ \A i, j \in DOMAIN list : list[i] = list[j] => i = j
       /\ watch' = watch \o [i \in DOMAIN list |-> Event("apply", list[i])]
  /\ UNCHANGED <<phase, gen, changes, gaps, unseen, fixed, tableVars, pass, taskVars, tailed>>

EnvironmentStep ==
  \/ \E p \in Pods, to \in {"absent", "running", "stopped"} : PodChanges(p, to)
  \/ WatchLost \/ WatchLists

-----------------------------------------------------------------------------
(* The loop: events of the watch.                                          *)

NextEvent(kind) ==
  /\ pass = AtSelect
  /\ watch # <<>> /\ Head(watch).kind = kind
  /\ watch' = Tail(watch)

\* handle.abort() and its removal from the table, for the tasks of a pod.
AbortStreams(p) ==
  /\ aborted' = [s \in Slots |->
                   aborted[s] \/ (\E k \in Streams : k[1] = p /\ active[k] = s /\ outer[s] # "done")]
  /\ active' = [k \in Streams |-> IF k[1] = p THEN NoSlot ELSE active[k]]
  /\ UNCHANGED <<task, outer, open, permits>>

OnRunning ==
  LET e == Head(watch)
  IN
  /\ NextEvent("apply") /\ e.running
  /\ IF e.pod \in ExcludedPods
       THEN UNCHANGED <<running_pods, pass>>
       ELSE /\ running_pods' = [running_pods EXCEPT ![e.pod] = e.gen]
            /\ pass' = [AtSelect EXCEPT !.pods = {e.pod}]
  /\ UNCHANGED <<clusterVars, fixed, initialized, active, taskVars, tailed>>

OnNotRunning ==
  LET p == Head(watch).pod
  IN
  /\ NextEvent("apply") /\ ~Head(watch).running
  /\ running_pods' = [running_pods EXCEPT ![p] = NotRunning]
  /\ IF running_pods[p] # NotRunning THEN AbortStreams(p) ELSE UNCHANGED <<active, taskVars>>
  /\ UNCHANGED <<clusterVars, fixed, initialized, pass, tailed>>

OnDelete_keeps_pod ==
  LET p == Head(watch).pod
  IN
  /\ NextEvent("delete")
  /\ initialized' = initialized \ {p}
  /\ AbortStreams(p)
  /\ UNCHANGED <<clusterVars, fixed, running_pods, pass, tailed>>

OnDelete ==
  LET p == Head(watch).pod
  IN
  /\ NextEvent("delete")
  /\ running_pods' = [running_pods EXCEPT ![p] = NotRunning]
  /\ initialized' = initialized \ {p}
  /\ AbortStreams(p)
  /\ UNCHANGED <<clusterVars, fixed, pass, tailed>>

-----------------------------------------------------------------------------
(* The loop: a pass over pods that run.                                    *)

Reconcile_keeps_finished ==
  /\ pass = AtSelect
  /\ pass' = [AtSelect EXCEPT !.pods = {p \in Pods : running_pods[p] # NotRunning}]
  /\ UNCHANGED <<clusterVars, watch, fixed, running_pods, initialized, active, taskVars, tailed>>

\* The tick: finished tasks leave the table, and every pod known to run is gone
\* through.
Reconcile ==
  /\ pass = AtSelect
  /\ active' = [k \in Streams |->
                  IF active[k] # NoSlot /\ outer[active[k]] = "done" THEN NoSlot ELSE active[k]]
  /\ pass' = [AtSelect EXCEPT !.pods = {p \in Pods : running_pods[p] # NotRunning}]
  /\ UNCHANGED <<clusterVars, watch, fixed, running_pods, initialized, taskVars, tailed>>

\* stream_params: the last lines the first time, those since a while later on.
asks_tail(p) == TailLines /\ p \notin initialized

BeginPod(p) ==
  /\ pass.pod = NoPod /\ p \in pass.pods
  /\ pass' = [pods |-> pass.pods \ {p}, pod |-> p, keys |-> keys_for_pod(p),
              tail |-> asks_tail(p), started |-> FALSE]
  /\ UNCHANGED <<clusterVars, watch, fixed, tableVars, taskVars, tailed>>

EndPod_forgets ==
  /\ pass.pod # NoPod /\ pass.keys = <<>>
  /\ pass' = [AtSelect EXCEPT !.pods = pass.pods]
  /\ UNCHANGED <<clusterVars, watch, fixed, tableVars, taskVars, tailed>>

EndPod ==
  /\ pass.pod # NoPod /\ pass.keys = <<>>
  /\ initialized' = IF pass.started THEN initialized \cup {pass.pod} ELSE initialized
  /\ pass' = [AtSelect EXCEPT !.pods = pass.pods]
  /\ UNCHANGED <<clusterVars, watch, fixed, running_pods, active, taskVars, tailed>>

\* A slot whose task is over and done with.
Free(s) == outer[s] = "done" /\ open[s] = {} /\ \A k \in Streams : active[k] # s

HasPermit == limit = 0 \/ permits > 0

\* Which slot a task gets means nothing: it is the least that is free.
StartTask(key, s) ==
  /\ Free(s) /\ \A r \in Slots : Free(r) => s <= r
  /\ task' = [task EXCEPT ![s] = key]
  /\ outer' = [outer EXCEPT ![s] = "new"]
  /\ aborted' = [aborted EXCEPT ![s] = FALSE]
  /\ open' = open
  /\ permits' = IF limit = 0 THEN permits ELSE permits - 1
  /\ active' = [active EXCEPT ![key] = s]
  /\ tailed' = IF pass.tail THEN [tailed EXCEPT ![pass.pod] = running_pods[pass.pod]] ELSE tailed

try_start_without_looking ==
  LET key == <<pass.pod, Head(pass.keys)>>
  IN
  /\ pass.pod # NoPod /\ pass.keys # <<>>
  /\ \/ /\ ~HasPermit
        /\ pass' = [pass EXCEPT !.keys = Tail(@)]
        /\ UNCHANGED <<active, taskVars, tailed>>
     \/ /\ HasPermit
        /\ \E s \in Slots : StartTask(key, s)
        /\ pass' = [pass EXCEPT !.keys = Tail(@), !.started = TRUE]
  /\ UNCHANGED <<clusterVars, watch, fixed, running_pods, initialized>>

\* Nothing to do, no permit left, or a new task.
try_start ==
  LET key == <<pass.pod, Head(pass.keys)>>
  IN
  /\ pass.pod # NoPod /\ pass.keys # <<>>
  /\ \/ /\ active[key] # NoSlot \/ ~HasPermit
        /\ pass' = [pass EXCEPT !.keys = Tail(@)]
        /\ UNCHANGED <<active, taskVars, tailed>>
     \/ /\ active[key] = NoSlot /\ HasPermit
        /\ \E s \in Slots : StartTask(key, s)
        /\ pass' = [pass EXCEPT !.keys = Tail(@), !.started = TRUE]
  /\ UNCHANGED <<clusterVars, watch, fixed, running_pods, initialized>>

LoopStep ==
  \/ OnRunning \/ OnNotRunning \/ OnDelete
  \/ Reconcile \/ try_start \/ EndPod
  \/ \E p \in Pods : BeginPod(p)

-----------------------------------------------------------------------------
(* The stream tasks.                                                       *)

Live(s) == outer[s] \in {"new", "run"}

Release == permits' = IF limit = 0 THEN permits ELSE permits + 1

\* The task's first steps: its log streams are opened, in tasks of their own
\* when stdout and stderr are separate.
TaskRuns(s) ==
  /\ outer[s] = "new" /\ ~aborted[s]
  /\ outer' = [outer EXCEPT ![s] = "run"]
  /\ open' = [open EXCEPT ![s] = IF split THEN {"stdout", "stderr"} ELSE {"output"}]
  /\ UNCHANGED <<clusterVars, watch, fixed, tableVars, pass, task, aborted, permits, tailed>>

\* The end of a log stream, or an error (what stream_pod does with the lines is left
\* out); a request that is refused ends like one.
StreamEnds(s, x) ==
  /\ x \in open[s]
  /\ open' = [open EXCEPT ![s] = @ \ {x}]
  /\ UNCHANGED <<clusterVars, watch, fixed, tableVars, pass, task, outer, aborted, permits, tailed>>

\* The task sees that one of its streams ended: it aborts the other and ends.  The
\* runtime drops the other somewhat later; it holds no permit and is in no table,
\* so that nothing the loop does depends on when, and here it goes at once.
TaskEnds(s) ==
  /\ outer[s] = "run" /\ ~aborted[s]
  /\ open[s] \notin {{"stdout", "stderr"}, {"output"}}
  /\ outer' = [outer EXCEPT ![s] = "done"]
  /\ open' = [open EXCEPT ![s] = {}]
  /\ Release
  /\ UNCHANGED <<clusterVars, watch, fixed, tableVars, pass, task, aborted, tailed>>

\* The runtime drops an aborted task, and with it the permit.  A stream that it
\* ran itself ends; those it spawned go on.
TaskCancelled(s) ==
  /\ Live(s) /\ aborted[s]
  /\ outer' = [outer EXCEPT ![s] = "done"]
  /\ open' = [open EXCEPT ![s] = IF split THEN @ ELSE {}]
  /\ Release
  /\ UNCHANGED <<clusterVars, watch, fixed, tableVars, pass, task, aborted, tailed>>

TaskStep(s) ==
  TaskRuns(s) \/ TaskEnds(s) \/ TaskCancelled(s)

-----------------------------------------------------------------------------
(* The specification.                                                      *)

StreamNames == {"stdout", "stderr", "output"}

Next ==
  \/ EnvironmentStep
  \/ LoopStep
  \/ \E s \in Slots : TaskStep(s)
  \/ \E s \in Slots, x \in StreamNames : StreamEnds(s, x)

\* The loop and the tasks run; the timer of the reconciliation fires between
\* events (select! takes its branches in a random order); kube's watcher
\* lists again after an error; the API server closes every log stream in the
\* end (README: "typically every ~5 minutes").
Fairness ==
  /\ SF_vars(OnRunning \/ OnNotRunning \/ OnDelete)
  /\ SF_vars(Reconcile)
  /\ WF_vars(try_start \/ EndPod \/ \E p \in Pods : BeginPod(p))
  /\ WF_vars(WatchLists)
  /\ \A s \in Slots :
       /\ WF_vars(TaskStep(s))
       /\ \A x \in StreamNames : WF_vars(StreamEnds(s, x))

Spec == Init /\ [][Next]_vars
FairSpec == Spec /\ Fairness

-----------------------------------------------------------------------------
(* Properties.                                                             *)

\* Every variable holds a value of its type.
KubeTypeOK ==
  /\ phase \in [Pods -> {"absent", "running", "stopped"}]
  /\ gen \in [Pods -> Nat] /\ changes \in 0 .. MaxChanges
  /\ watching \in BOOLEAN /\ gaps \in 0 .. MaxGaps
  /\ watch \in Seq([kind : {"apply", "delete"}, pod : Pods, running : BOOLEAN, gen : Nat])
  /\ limit \in Limits /\ split \in BOOLEAN
  /\ running_pods \in [Pods -> Nat] /\ initialized \subseteq Pods
  /\ active \in [Streams -> Slots \cup {NoSlot}]
  /\ pass \in [pods : SUBSET Pods, pod : Pods \cup {NoPod},
               keys : Seq(UNION {KeysOf(p) : p \in Pods}), tail : BOOLEAN, started : BOOLEAN]
  /\ permits \in Nat
  /\ task \in [Slots -> Streams \cup {NoTask}]
  /\ outer \in [Slots -> {"new", "run", "done"}]
  /\ aborted \in [Slots -> BOOLEAN]
  /\ open \in [Slots -> SUBSET StreamNames]
  /\ unseen \subseteq Pods /\ tailed \in [Pods -> Nat]

\* The table names, for a container, a task that streams it and was not aborted;
\* each live task that was not aborted is in the table; a log stream whose task
\* is over is the leftover of an aborted one.
TasksInTable ==
  /\ \A k \in Streams : active[k] # NoSlot => task[active[k]] = k /\ ~aborted[active[k]]
  /\ \A s \in Slots : Live(s) /\ ~aborted[s] => active[task[s]] = s
  /\ \A s \in Slots : open[s] # {} => outer[s] = "run" \/ aborted[s]

\* What the semaphore has left and what the live tasks hold is the limit.
PermitsConserved ==
  limit > 0 => permits + Cardinality({s \in Slots : Live(s)}) = limit

\* The loop accounts for its tasks: no container has two that were not aborted,
\* none runs that the loop does not know or has not aborted, and no permit is
\* lost or made up however a task ends (try_start, retain, abort and the drop
\* of the permit agree).
TasksTracked == TasksInTable /\ PermitsConserved

\* What the loop believes of the pods, once it has handled the events that wait:
\* what the last event about a pod says, or what the table says if there is none.
Believed(p) ==
  LET about == {i \in DOMAIN watch : watch[i].pod = p}
  IN  \/ about = {} /\ running_pods[p] # NotRunning
      \/ \E i \in about : watch[i].running /\ \A j \in about : j <= i

\* Through interruptions of the watch the table follows the cluster: it has all
\* the pods that run and no other, but for those whose deletion the watch did
\* not see (Init is ignored, so that a new list adds to the table only).
PodsFollowCluster ==
  watching =>
    \A p \in Pods \ ExcludedPods :
      Believed(p) = (phase[p] = "running") \/ (p \in unseen /\ Believed(p))

\* README.md:67 of the relay: "--tail-lines applies only on the very first connect
\* per pod".  A pass that asks for the last lines of a pod is the first that
\* streams it since it was created, whatever ends, is missed or is listed again.
\* (cli.rs:244 says "on (re)connect"; the code does what the README says.)
TailOnce ==
  [][(\E s \in Slots : Live(s)' /\ ~Live(s)) /\ pass.tail /\ ~pass.started
       => running_pods[pass.pod] > tailed[pass.pod]]_vars

\* A pod that runs for good is streamed again and again, however often the
\* watch and its streams break, when there is no limit on the requests.
RunningPodsStreamed ==
  \A k \in Streams :
    (<>[](phase[k[1]] = "running") /\ limit = 0 /\ k[1] \notin ExcludedPods)
      => []<>(\E s \in Slots : task[s] = k /\ open[s] # {})
=============================================================================
