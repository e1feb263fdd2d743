------------------------------- MODULE Replan -------------------------------
(***************************************************************************)
(* How the plan of vigild comes about and changes: the layer files, their  *)
(* merge into a plan (vigil-types/src/plan), and the replan in which the   *)
(* overlord loads them again and brings its service actors into line with  *)
(* the new plan (overlord/plan.rs, overlord/lifecycle.rs), while events of *)
(* the actors it had are still on their way.                               *)
(*                                                                         *)
(* The actors are those of ServiceLifecycle, which ServiceActor            *)
(* implements, behind a mailbox; a name that is removed and added again    *)
(* gets an actor of its own.  A client may autostart a service, which      *)
(* writes to the plan.  The event channel is never full here, no process   *)
(* ends by itself and no client starts or stops a service otherwise:       *)
(* Supervisor has all that.  The fields of a configuration stand for all   *)
(* that are merged in the same way, where a map is one optional field for  *)
(* each of its keys.                                                       *)
(***************************************************************************)
EXTENDS Integers, SequencesExt

CONSTANTS
  Names,        \* of services, checks and alerts
  Files,        \* the names of layer files, in their order
  Contents,     \* what may be written into one
  Text,         \* ... and what that says
  Missing, Broken,
  Directories,  \* the directories it may find
  Actors,       \* the actors that may be spawned: bounds the number of spawns
  NoActor, NoName, Unset,
  MaxEdits,     \* bound on the edits of layer files
  MaxRequests   \* bound on the requests

ASSUME FilesAssumption == Files \in Seq(Range(Files)) /\ IsInjective(Files)
ASSUME NamesAssumption ==
  /\ IsFiniteSet(Names)
  /\ NoActor \notin Actors /\ NoName \notin Names /\ {Missing, Broken} \cap Contents = {}
  /\ Directories \subseteq [Range(Files) -> Contents \cup {Missing}]
ASSUME BoundsAssumption == MaxEdits \in Nat /\ MaxRequests \in Nat

VARIABLES
  files,      \* the directory of layers
  booted,     \* has the overlord started its loop?
  reading,    \* the load in progress: the files still to read, the layers read
  plan,       \* Overlord.plan
  table,      \* Overlord.services: the actor of each name
  snap,       \* ... and its snapshot
  pending,    \* pending_autostart
  script,     \* the commands the running handler still has to send
  waiting,    \* the actor whose reply the overlord awaits
  events,     \* the service event channel
  st, alive,  \* the state each actor has, and whether its process lives
  phase,      \* where the task of each actor is
  mailbox,    \* its command channel
  owes,       \* is it to reply to a Start?
  configOf,   \* the name and the configuration it was spawned with
  edits, requests,
  changed,    \* history: names whose configuration in the plan changed under their actor
  mixed       \* history: names that have got an event of an earlier actor

overlordVars == <<plan, table, snap, pending, script, waiting>>
actorVars == <<st, alive, phase, mailbox, owes, configOf>>
vars == <<files, booted, reading, overlordVars, events, actorVars, edits, requests, changed, mixed>>

Life == INSTANCE ServiceLifecycle WITH Services <- Actors

-----------------------------------------------------------------------------
(* The merge.                                                              *)

\* opt!: an overlay that sets the field wins.
Given(base, overlay) == IF overlay = Unset THEN base ELSE overlay

merge_service_keeps_startup(base, overlay) ==
  [base EXCEPT !.command = Given(@, overlay.command),
               !.startup = IF overlay.startup = "enabled" THEN "enabled" ELSE @,
               !.requires = @ \cup overlay.requires]

merge_service(base, overlay) ==
  [base EXCEPT !.command = Given(@, overlay.command),
               !.startup = overlay.startup,
               !.requires = @ \cup overlay.requires]

\* Each kind of probe is a field of its own.
merge_check(base, overlay) ==
  [base EXCEPT !.startup = overlay.startup,
               !.http = Given(@, overlay.http),
               !.exec = Given(@, overlay.exec)]

merge_alert(base, overlay) ==
  [base EXCEPT !.url = Given(@, overlay.url),
               !.format = overlay.format,
               !.onCheck = @ \cup overlay.onCheck]

\* The entries of one kind: those of both tables are merged as `merged' says,
\* unless the later one replaces the other.
Merged(base, overlay, merged) ==
  [n \in DOMAIN base \cup DOMAIN overlay |->
     CASE n \notin DOMAIN overlay -> base[n]
       [] n \in DOMAIN overlay /\ (n \notin DOMAIN base \/ overlay[n].override_mode = "replace")
            -> overlay[n]
       [] OTHER -> merged[n]]

Both(base, overlay) == DOMAIN base \cap DOMAIN overlay

EmptyPlan == [services |-> <<>>, checks |-> <<>>, alerts |-> <<>>, queueDepth |-> Unset]

\* One more layer.
MergeLayer(p, l) ==
  [services |-> Merged(p.services, l.services,
                       [n \in Both(p.services, l.services) |->
                          merge_service(p.services[n], l.services[n])]),
   checks |-> Merged(p.checks, l.checks,
                     [n \in Both(p.checks, l.checks) |-> merge_check(p.checks[n], l.checks[n])]),
   alerts |-> Merged(p.alerts, l.alerts,
                     [n \in Both(p.alerts, l.alerts) |-> merge_alert(p.alerts[n], l.alerts[n])]),
   queueDepth |-> Given(p.queueDepth, l.queueDepth)]

from_layers(layers) ==
  LET merged[k \in 0 .. Len(layers)] ==
        IF k = 0 THEN EmptyPlan ELSE MergeLayer(merged[k - 1], layers[k])
  IN  merged[Len(layers)]

\* serde takes the keys it knows and leaves the others alone.  The key of
\* override_mode is override-mode, so that a key `override' is one of those.
parse(content) ==
  LET known(entries) ==
        [n \in DOMAIN entries |->
           [k \in DOMAIN entries[n] \ {"override"} |-> entries[n][k]]]
  IN  [content EXCEPT !.services = known(@)]

\* An entry has each of its fields, what the file leaves out as serde fills it in.
ASSUME TextAssumption ==
  \A c \in Contents :
    LET has(entries, fields) == \A n \in DOMAIN entries : fields \subseteq DOMAIN entries[n]
    IN
    /\ {"services", "checks", "alerts", "queueDepth"} \subseteq DOMAIN Text[c]
    /\ DOMAIN Text[c].services \subseteq Names
    /\ has(Text[c].services, {"command", "startup", "requires", "override_mode"})
    /\ has(Text[c].checks, {"http", "exec", "startup", "override_mode"})
    /\ has(Text[c].alerts, {"url", "format", "onCheck", "override_mode"})

-----------------------------------------------------------------------------
(* State.                                                                  *)

Idle == [busy |-> FALSE, todo |-> <<>>, got |-> <<>>, merged |-> FALSE]

\* The layer files that are there, in the order of their names: there is one such
\* sequence.
Place(f) == CHOOSE k \in DOMAIN Files : Files[k] = f

Listed(directory) ==
  {q \in BoundedSeq({f \in Range(Files) : directory[f] # Missing}, Len(Files)) :
     /\ \A f \in Range(Files) : directory[f] # Missing => f \in Range(q)
     /\ \A i, j \in DOMAIN q : i < j => Place(q[i]) < Place(q[j])}

Parsed == [c \in Contents |-> parse(Text[c])]

\* The plan of some layers; later some of its services may be autostarted.
Plan(contents) ==
  [layers |-> contents,
   autostarted |-> {},
   merged |-> from_layers([i \in DOMAIN contents |-> Parsed[contents[i]]])]

\* A layer that cannot be read keeps the daemon from starting.
Init ==
  /\ files \in Directories
  /\ booted = FALSE /\ reading = Idle
  /\ \E names \in Listed(files) : plan = Plan([i \in DOMAIN names |-> files[names[i]]])
  /\ table = [n \in Names |-> NoActor] /\ snap = [n \in Names |-> "Inactive"]
  /\ pending = {} /\ script = <<>> /\ waiting = NoActor /\ events = <<>>
  /\ Life!Init
  /\ phase = [i \in Actors |-> "unborn"]
  /\ mailbox = [i \in Actors |-> <<>>] /\ owes = [i \in Actors |-> FALSE]
  /\ configOf = [i \in Actors |-> <<NoName, Unset>>]
  /\ edits = 0 /\ requests = 0 /\ changed = {} /\ mixed = {}

is_running(state) == state \in {"Starting", "Active"}

Planned == DOMAIN plan.merged.services

\* The overlord is at its select!: no handler is in progress.
AtSelect == booted /\ ~reading.busy /\ script = <<>> /\ waiting = NoActor

\* A command to each name of S, in some order.
ToEach(cmd, S) ==
  {[i \in DOMAIN order |-> <<cmd, order[i]>>] : order \in SetToSeqs(S)}

\* Autostart enables a service in the plan itself.
Enabled(entries, n) ==
  [m \in DOMAIN entries |-> IF m = n THEN [entries[m] EXCEPT !.startup = "enabled"] ELSE entries[m]]

\* Do all that n requires run, by their snapshots?
after_deps_running(tb, sn, n) ==
  \A d \in plan.merged.services[n].requires :
    d \in Names /\ tb[d] # NoActor /\ is_running(sn[d])

-----------------------------------------------------------------------------
(* The layer files.                                                        *)

\* Somebody writes or removes a layer file during a load.
Edit(f, content) ==
  /\ reading.busy /\ reading.todo # <<>>
  /\ edits < MaxEdits /\ files[f] # content
  /\ files' = [files EXCEPT ![f] = content]
  /\ edits' = edits + 1
  /\ UNCHANGED <<booted, reading, overlordVars, events, actorVars, requests, changed,
                 mixed>>

\* load_plan lists the directory, whatever was made of it since the last time.
ReloadBegins(directory) ==
  /\ AtSelect
  /\ requests < MaxRequests
  /\ requests' = requests + 1
  /\ files' = directory
  /\ \E names \in Listed(directory) :
       reading' = [busy |-> TRUE, todo |-> names, got |-> <<>>, merged |-> FALSE]
  /\ UNCHANGED <<booted, overlordVars, events, actorVars, edits, changed, mixed>>

\* ... and reads one file after the other.
ReadsLayer ==
  LET f == Head(reading.todo) IN
  /\ reading.todo # <<>>
  /\ files[f] \notin {Missing, Broken}
  /\ reading' = [reading EXCEPT !.todo = Tail(@), !.got = Append(@, files[f])]
  /\ UNCHANGED <<files, booted, overlordVars, events, actorVars, edits, requests, changed, mixed>>

\* The first that cannot be read ends the replan, with an error.
LoadFails ==
  /\ reading.todo # <<>>
  /\ files[Head(reading.todo)] \in {Missing, Broken}
  /\ reading' = Idle
  /\ UNCHANGED <<files, booted, overlordVars, events, actorVars, edits, requests, changed, mixed>>

-----------------------------------------------------------------------------
(* sync_actors, the removals and autostart, for a new plan.                *)

Unborn == {i \in Actors : phase[i] = "unborn"}

\* An actor for each of the names.
Fresh(new) == CHOOSE f \in Injection(new, Unborn) : TRUE

Told_nobody(gone) == {}

\* The actors of removed names get a Shutdown.
Told(gone) == {table[n] : n \in gone}

Snapshots_kept(new, gone) == snap

\* A new entry has a snapshot of its own.
Snapshots(new, gone) ==
  [n \in Names |-> IF n \in new \cup gone THEN "Inactive" ELSE snap[n]]

Removed_never == {}

Removed == {n \in Names : table[n] # NoActor} \ Planned

Apply ==
  LET new == {n \in Planned : table[n] = NoActor}
      f == Fresh(new)
      named == AntiFunction(f)
      tb == [n \in Names |-> CASE n \in new -> f[n]
                              [] n \in Removed -> NoActor
                              [] OTHER -> table[n]]
      enabled == {n \in Planned : plan.merged.services[n].startup = "enabled"}
      ready == {n \in enabled : after_deps_running(tb, Snapshots(new, Removed), n)}
  IN
  /\ ExistsInjection(new, Unborn)
  /\ table' = tb /\ snap' = Snapshots(new, Removed)
  /\ pending' = enabled \ ready
  /\ script' \in ToEach("Start", ready)
  /\ phase' = [i \in Actors |-> IF i \in Range(f) THEN "run" ELSE phase[i]]
  /\ configOf' = [i \in Actors |->
                    IF i \in Range(f) THEN <<named[i], plan.merged.services[named[i]]>>
                                      ELSE configOf[i]]
  /\ mailbox' = [i \in Actors |-> IF i \in Told(Removed) THEN Append(mailbox[i], "Shutdown")
                                                         ELSE mailbox[i]]
  /\ mixed' = mixed \ (new \cup Removed)
  /\ reading' = Idle /\ booted' = TRUE
  /\ UNCHANGED <<files, plan, waiting, events, st, alive, owes, edits, requests, changed>>

\* run: the actors of the first plan, and autostart.
Boot == ~booted /\ Apply

\* All layers are read: reload_layers has a new plan.
ReloadMerges ==
  /\ reading.busy /\ reading.todo = <<>> /\ ~reading.merged
  /\ plan' = Plan(reading.got)
  /\ reading' = [reading EXCEPT !.merged = TRUE]
  /\ changed' = {n \in Planned \cap DOMAIN plan'.merged.services :
                   n \in changed \/ plan.merged.services[n] # plan'.merged.services[n]}
  /\ UNCHANGED <<files, booted, table, snap, pending, script, waiting, events, actorVars,
                 edits, requests, mixed>>

\* ... and applies it: a name that stays keeps its actor, and the actor what it
\* was spawned with.  Nobody waits for the actors that are told to shut down.
ReloadApplies == reading.merged /\ Apply

-----------------------------------------------------------------------------
(* Commands and events.                                                    *)

\* svc_cmd: to the actor the name has now.
SendNext ==
  LET cmd == Head(script)[1]
      i == table[Head(script)[2]]
  IN
  /\ script # <<>> /\ waiting = NoActor
  /\ script' = Tail(script)
  /\ waiting' = i
  /\ mailbox' = [mailbox EXCEPT ![i] = Append(@, cmd)]
  /\ UNCHANGED <<files, booted, reading, plan, table, snap, pending, events, st, alive, phase, owes,
                 configOf, edits, requests, changed, mixed>>

\* handle_svc_event: an event says which name it is about, not which actor.
OnStateChanged ==
  LET event == Head(events)
      n == configOf[event.by][1]
      known == table[n] # NoActor
      sn == IF known THEN [snap EXCEPT ![n] = event.state] ELSE snap
      ready == {x \in pending : /\ is_running(event.state)
                                /\ x \in Planned => after_deps_running(table, sn, x)}
      dependents == {x \in Planned : /\ event.state \in {"Inactive", "Error"}
                                           /\ n \in plan.merged.services[x].requires
                                           /\ table[x] # NoActor /\ is_running(sn[x])}
  IN
  /\ AtSelect /\ events # <<>>
  /\ events' = Tail(events)
  /\ snap' = sn
  /\ pending' = pending \ ready
  /\ \E starts \in ToEach("Start", ready), stops \in ToEach("Stop", dependents) :
       script' = starts \o stops
  /\ mixed' = IF known /\ table[n] # event.by THEN mixed \cup {n} ELSE mixed
  /\ UNCHANGED <<files, booted, reading, plan, table, waiting, actorVars, edits, requests, changed>>

\* handle_services_action for Autostart, of one service: it is enabled in the plan, which
\* then is no longer what the layers say, and started.
AutostartRequest(n) ==
  /\ AtSelect
  /\ requests < MaxRequests
  /\ requests' = requests + 1
  /\ plan' = [plan EXCEPT !.merged.services = Enabled(@, n), !.autostarted = @ \cup {n}]
  /\ script' = <<<<"Start", n>>>>
  /\ changed' = IF plan'.merged = plan.merged THEN changed ELSE changed \cup {n}
  /\ UNCHANGED <<files, booted, reading, table, snap, pending, waiting, events, actorVars, edits,
                 mixed>>

OverlordStep ==
  \/ Boot \/ ReadsLayer \/ LoadFails \/ ReloadMerges \/ ReloadApplies \/ SendNext \/ OnStateChanged

-----------------------------------------------------------------------------
(* The actors.                                                             *)

\* What the handlers of actor i leave to the overlord and the others.
Leaves(i) ==
  /\ events' = IF st'[i] # st[i] THEN Append(events, [by |-> i, state |-> st'[i]]) ELSE events
  /\ UNCHANGED <<files, booted, reading, plan, table, snap, pending, script, configOf, edits,
                 requests, changed, mixed>>

Answer(i) == waiting' = IF waiting = i THEN NoActor ELSE waiting

\* The first branch of the biased select!, when no do_start is in progress.
Takes(i, cmd) ==
  /\ phase[i] = "run" /\ st[i] # "Starting"
  /\ mailbox[i] # <<>> /\ Head(mailbox[i]) = cmd
  /\ mailbox' = [mailbox EXCEPT ![i] = Tail(@)]

TakesStart(i) ==
  /\ Takes(i, "Start")
  /\ \/ st[i] \in {"Active", "Stopping"} /\ Answer(i) /\ UNCHANGED <<st, alive, owes>>
     \/ Life!Launch(i) /\ owes' = [owes EXCEPT ![i] = TRUE] /\ UNCHANGED waiting
  /\ UNCHANGED phase /\ Leaves(i)

\* do_start returns.
Launched(i) ==
  /\ Life!Up(i) \/ Life!LaunchFails(i)
  /\ IF owes[i] THEN Answer(i) ELSE UNCHANGED waiting
  /\ owes' = [owes EXCEPT ![i] = FALSE]
  /\ Leaves(i) /\ UNCHANGED <<phase, mailbox>>

TakesStop(i) ==
  /\ Takes(i, "Stop") /\ Answer(i)
  /\ \/ st[i] \in {"Inactive", "Error", "Stopping"} /\ UNCHANGED <<st, alive>>
     \/ Life!AskToStop(i)
  /\ UNCHANGED <<phase, owes>> /\ Leaves(i)

TakesShutdown(i) ==
  /\ Takes(i, "Shutdown")
  /\ phase' = [phase EXCEPT ![i] = IF alive[i] THEN "cleanup" ELSE "gone"]
  /\ UNCHANGED <<waiting, st, alive, owes>> /\ Leaves(i)

\* The other branches, when the mailbox is found empty.
Reacts(i) ==
  /\ phase[i] = "run" /\ mailbox[i] = <<>>
  /\ Life!Stopped(i)
  /\ Leaves(i) /\ UNCHANGED <<waiting, phase, mailbox, owes>>

\* A process ends when it is asked to.
ProcessExits(i) ==
  /\ Life!Exit(i)
  /\ st[i] = "Stopping" \/ phase[i] = "cleanup"
  /\ UNCHANGED <<files, booted, reading, overlordVars, events, phase, mailbox, owes, configOf,
                 edits, requests, changed, mixed>>

\* cleanup: SIGKILL, and the wait.
CleanupEnds(i) ==
  /\ phase[i] = "cleanup"
  /\ phase' = [phase EXCEPT ![i] = "gone"]
  /\ alive' = [alive EXCEPT ![i] = FALSE]
  /\ UNCHANGED <<st, waiting, mailbox, owes>>
  /\ Leaves(i)

ActorStep(i) ==
  \/ TakesStart(i) \/ Launched(i) \/ TakesStop(i) \/ TakesShutdown(i)
  \/ Reacts(i) \/ CleanupEnds(i)

-----------------------------------------------------------------------------
(* The specification.                                                      *)

EnvironmentStep ==
  \/ \E f \in Range(Files), content \in Contents \cup {Missing, Broken} : Edit(f, content)
  \/ \E directory \in Directories : ReloadBegins(directory)
  \/ \E n \in Planned : AutostartRequest(n)

Next ==
  \/ EnvironmentStep \/ OverlordStep
  \/ \E i \in Actors : ActorStep(i) \/ ProcessExits(i)

\* The runtime runs every task that can proceed.
Spec == Init /\ [][Next]_vars
FairSpec ==
  Spec /\ WF_vars(OverlordStep) /\ \A i \in Actors : WF_vars(ActorStep(i))

-----------------------------------------------------------------------------
(* Properties.                                                             *)

\* Which layers say something of a name since it was last replaced.
Say(tables, n) ==
  LET named == {k \in DOMAIN tables : n \in DOMAIN tables[k]}
      resets == {k \in named : tables[k][n].override_mode = "replace"}
  IN  {k \in named : \A w \in resets : w <= k}

LastSet(tables, n, field) ==
  LET set == {k \in Say(tables, n) : tables[k][n][field] # Unset}
  IN  IF set = {} THEN Unset ELSE tables[Max(set)][n][field]

LastSaid(tables, n, field) == tables[Max(Say(tables, n))][n][field]

AllOf(tables, n, field) == UNION {tables[k][n][field] : k \in Say(tables, n)}

AllNames(tables) == UNION {DOMAIN tables[k] : k \in DOMAIN tables}

ServicesMerged(entries, tables, autostarted) ==
  /\ DOMAIN entries = AllNames(tables)
  /\ \A n \in DOMAIN entries :
       /\ entries[n].command = LastSet(tables, n, "command")
       /\ entries[n].startup = IF n \in autostarted THEN "enabled"
                                                   ELSE LastSaid(tables, n, "startup")
       /\ entries[n].requires = AllOf(tables, n, "requires")

ChecksMerged(entries, tables) ==
  /\ DOMAIN entries = AllNames(tables)
  /\ \A n \in DOMAIN entries :
       /\ entries[n].http = LastSet(tables, n, "http")
       /\ entries[n].exec = LastSet(tables, n, "exec")
       /\ entries[n].startup = LastSaid(tables, n, "startup")

AlertsMerged(entries, tables) ==
  /\ DOMAIN entries = AllNames(tables)
  /\ \A n \in DOMAIN entries :
       /\ entries[n].url = LastSet(tables, n, "url")
       /\ entries[n].format = LastSaid(tables, n, "format")
       /\ entries[n].onCheck = AllOf(tables, n, "onCheck")

LastDepth(layers) ==
  LET set == {k \in DOMAIN layers : layers[k].queueDepth # Unset}
  IN  IF set = {} THEN Unset ELSE layers[Max(set)].queueDepth

Tables(layers, kind) == [k \in DOMAIN layers |-> layers[k][kind]]

IsMergeOf(merged, layers, autostarted) ==
  /\ ServicesMerged(merged.services, Tables(layers, "services"), autostarted)
  /\ ChecksMerged(merged.checks, Tables(layers, "checks"))
  /\ AlertsMerged(merged.alerts, Tables(layers, "alerts"))
  /\ merged.queueDepth = LastDepth(layers)

\* What the plan says of each name, put layer by layer, is what a reader of all
\* the layers would say: an optional field has the last value that any gives
\* it, a list the values of all, both since the last layer that replaces the
\* entry; a field that is not optional is what the last layer that names the
\* entry makes it, by default if it does not mention it (Plan::from_layers).  What
\* is autostarted is enabled besides, until the next replan.
PlanIsMerge ==
  IsMergeOf(plan.merged, [k \in DOMAIN plan.layers |-> Parsed[plan.layers[k]]], plan.autostarted)

\* Whatever was removed, added and removed again while the actors were busy:
\* each name of the plan has one actor at work, and an actor no name leads to
\* has been told to shut down (sync_actors, and the removals of reload_layers).
ActorsInTable ==
  /\ booted /\ ~reading.merged => {n \in Names : table[n] # NoActor} = Planned
  /\ \A i \in Actors :
       LET inTable == table[configOf[i][1]] = i IN
       phase[i] = "run" => IF inTable THEN "Shutdown" \notin Range(mailbox[i])
                                      ELSE mailbox[i] # <<>> /\ Last(mailbox[i]) = "Shutdown"
  /\ \A n \in Names : table[n] # NoActor => phase[table[n]] = "run" /\ configOf[table[n]][1] = n

\* "Services removed from the plan are stopped" (docs/user-guide/cli-reference.md
\* on replan): the actor that was told to shut down ends, and its process.
RemovedServicesStop ==
  \A i \in Actors :
    (phase[i] # "unborn" /\ i \notin Range(table)) ~> (phase[i] = "gone" /\ ~alive[i])

\* A service runs with the configuration that the plan has for it, unless a
\* replan or an autostart changed that and kept the actor (sync_actors passes over
\* the names it has): then no restart brings the new one, only a replan without the
\* name and another with it.
ConfigOfThePlan ==
  \A n \in Planned :
    table[n] # NoActor =>
      configOf[table[n]] = <<n, plan.merged.services[n]>> \/ n \in changed

\* The actors at work are those of the plan, with the configurations of the plan.
ActorsFollowPlan == ActorsInTable /\ ConfigOfThePlan

\* The snapshot of a service is the state of its actor or the events that will
\* make it so are on their way, unless an event of the actor that had the name
\* before was taken for one of its own (Event names the service only).
SnapshotOfTheActor ==
  \A n \in Names :
    LET own == {k \in DOMAIN events : events[k].by = table[n]}
    IN
    table[n] # NoActor /\ n \notin mixed =>
      /\ own = {} => st[table[n]] = snap[n]
      /\ \A k \in own : (\A j \in own : j <= k) => st[table[n]] = events[k].state
=============================================================================
