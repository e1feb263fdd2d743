-------------------------- MODULE KubeSourceProofs --------------------------
(***************************************************************************)
(* What KubeSource promises for every set of pods and containers, every    *)
(* limit and every number of tasks: the loop's table, the tasks and the    *)
(* permits of the semaphore agree, the table of the pods follows the       *)
(* cluster, the last lines of a pod are asked for once, and nothing is     *)
(* streamed that was to be aborted.                                        *)
(***************************************************************************)
EXTENDS KubeSource, FiniteSetTheorems, SequenceTheorems, TLAPS

-----------------------------------------------------------------------------
(* The invariant.                                                          *)

EventSet == [kind : {"apply", "delete"}, pod : Pods, running : BOOLEAN, gen : Nat]

\* The containers a pass has yet to go through are those of its pod.
KeysOfThePod == pass.pod # NoPod => pass.keys \in Seq(KeysOf(pass.pod))

\* A task that lives streams some container.
LiveStreams == \A s \in Slots : Live(s) => task[s] \in Streams

TableInv == KubeTypeOK /\ KeysOfThePod /\ LiveStreams /\ TasksInTable

-----------------------------------------------------------------------------
(* The cluster.                                                            *)

\* The source starts with no task and every permit.
LEMMA InitTable == Init => TableInv
<1> SUFFICES ASSUME Init PROVE TableInv
  OBVIOUS
<1>1. KubeTypeOK
  <2>1. permits \in Nat /\ limit \in Limits /\ changes \in 0 .. MaxChanges /\ gaps \in 0 .. MaxGaps
    BY BoundsAssumption DEF Init
  <2>2. split \in BOOLEAN
    BY DEF Init, supports_stream_param
  <2>3. gen \in [Pods -> Nat] /\ phase \in [Pods -> {"absent", "running", "stopped"}]
    BY DEF Init
  <2>4. /\ watch \in Seq([kind : {"apply", "delete"}, pod : Pods, running : BOOLEAN, gen : Nat])
        /\ pass \in [pods : SUBSET Pods, pod : Pods \cup {NoPod},
                     keys : Seq(UNION {KeysOf(p) : p \in Pods}), tail : BOOLEAN, started : BOOLEAN]
    BY EmptySeq DEF Init, AtSelect
  <2>5. /\ running_pods \in [Pods -> Nat] /\ initialized \subseteq Pods
        /\ active \in [Streams -> Slots \cup {NoSlot}]
        /\ unseen \subseteq Pods /\ tailed \in [Pods -> Nat]
    BY DEF Init, NotRunning
  <2>6. /\ task \in [Slots -> Streams \cup {NoTask}]
        /\ outer \in [Slots -> {"new", "run", "done"}]
        /\ aborted \in [Slots -> BOOLEAN]
        /\ open \in [Slots -> SUBSET StreamNames]
    BY DEF Init
  <2> QED
    BY <2>1, <2>2, <2>3, <2>4, <2>5, <2>6 DEF Init, KubeTypeOK
<1>2. KeysOfThePod /\ LiveStreams /\ TasksInTable
  BY DEF Init, KeysOfThePod, AtSelect, LiveStreams, Live, TasksInTable
<1> QED
  BY <1>1, <1>2 DEF TableInv

\* The environment touches neither the loop's tables nor the tasks.
LEMMA EnvironmentTable ==
  ASSUME TableInv, EnvironmentStep
  PROVE  TableInv' /\ UNCHANGED <<fixed, tableVars, pass, taskVars>>
<1>0. /\ phase \in [Pods -> {"absent", "running", "stopped"}] /\ gen \in [Pods -> Nat]
      /\ changes \in 0 .. MaxChanges /\ watching \in BOOLEAN /\ gaps \in 0 .. MaxGaps
      /\ watch \in Seq(EventSet) /\ unseen \subseteq Pods
  BY DEF TableInv, KubeTypeOK, EventSet
<1>1. ASSUME NEW p \in Pods, NEW to \in {"absent", "running", "stopped"}, PodChanges(p, to)
      PROVE  /\ phase' \in [Pods -> {"absent", "running", "stopped"}] /\ gen' \in [Pods -> Nat]
             /\ changes' \in 0 .. MaxChanges /\ watching' \in BOOLEAN /\ gaps' \in 0 .. MaxGaps
             /\ watch' \in Seq(EventSet) /\ unseen' \subseteq Pods
             /\ UNCHANGED <<fixed, tableVars, pass, taskVars, tailed>>
  <2>1. gen' \in [Pods -> Nat] /\ phase' \in [Pods -> {"absent", "running", "stopped"}]
    BY <1>0, <1>1 DEF PodChanges
  <2>2. changes' \in 0 .. MaxChanges
    BY <1>0, <1>1, BoundsAssumption DEF PodChanges
  <2> DEFINE e == [kind |-> IF to = "absent" THEN "delete" ELSE "apply", pod |-> p,
                   running |-> to = "running", gen |-> gen'[p]]
  <2>3. (to = "running") \in BOOLEAN
    OBVIOUS
  <2>4. e \in EventSet
    BY <2>1, <2>3 DEF EventSet
  <2>5. watch' = IF watching THEN Append(watch, e) ELSE watch
    BY <1>1 DEF PodChanges
  <2> HIDE DEF e
  <2>6. watch' \in Seq(EventSet)
    BY <1>0, <2>4, <2>5, AppendProperties
  <2> QED
    BY <1>0, <1>1, <2>1, <2>2, <2>6 DEF PodChanges
<1>2. ASSUME WatchLost
      PROVE  gaps' \in 0 .. MaxGaps /\ watching' = FALSE
  BY <1>0, <1>2, BoundsAssumption DEF WatchLost
<1>3. ASSUME WatchLists
      PROVE  watch' \in Seq(EventSet) /\ watching' = TRUE
  <2> DEFINE there == {p \in Pods : phase[p] # "absent"}
             n == Cardinality(there)
  <2>1. n \in Nat
    <3>1. there \in SUBSET Pods
      OBVIOUS
    <3>2. IsFiniteSet(there)
      BY <3>1, PodsAssumption, FS_Subset
    <3> QED
      BY <3>2, FS_CardinalityType
  <2>2. PICK list \in [1 .. n -> there] : watch' = watch \o [i \in DOMAIN list |-> Event("apply", list[i])]
    BY <1>3 DEF WatchLists
  <2>3. ASSUME NEW i \in 1 .. n PROVE Event("apply", list[i]) \in EventSet
    <3>1. list[i] \in Pods
      BY <2>2
    <3>2. (phase[list[i]] = "running") \in BOOLEAN
      OBVIOUS
    <3> QED
      BY <1>0, <3>1, <3>2 DEF Event, EventSet
  <2> DEFINE listed == [i \in DOMAIN list |-> Event("apply", list[i])]
  <2>4. DOMAIN list = 1 .. n /\ listed \in [1 .. n -> EventSet]
    BY <2>2, <2>3
  <2>5. watch' = watch \o listed
    BY <2>2
  <2> HIDE DEF listed, n, there
  <2>6. listed \in Seq(EventSet)
    BY <2>1, <2>4, SeqDef
  <2>7. watch \o listed \in Seq(EventSet)
    BY <1>0, <2>6, ConcatProperties
  <2> QED
    BY <1>3, <2>5, <2>7 DEF WatchLists
<1>4. /\ phase' \in [Pods -> {"absent", "running", "stopped"}] /\ gen' \in [Pods -> Nat]
      /\ changes' \in 0 .. MaxChanges /\ watching' \in BOOLEAN /\ gaps' \in 0 .. MaxGaps
      /\ watch' \in Seq(EventSet) /\ unseen' \subseteq Pods
      /\ UNCHANGED <<fixed, tableVars, pass, taskVars, tailed>>
  <2>1. CASE WatchLists
    BY <1>0, <1>3, <2>1 DEF WatchLists
  <2>2. CASE WatchLost
    BY <1>0, <1>2, <2>2 DEF WatchLost
  <2> QED
    BY <1>1, <2>1, <2>2 DEF EnvironmentStep
<1> QED
  BY <1>4 DEF TableInv, KubeTypeOK, EventSet, KeysOfThePod, LiveStreams, Live, TasksInTable,
              fixed, tableVars, taskVars

-----------------------------------------------------------------------------
(* The loop.                                                               *)

\* The types of what the loop and the tasks keep.
LEMMA TableTypes ==
  ASSUME TableInv
  PROVE  /\ running_pods \in [Pods -> Nat] /\ initialized \subseteq Pods
         /\ active \in [Streams -> Slots \cup {NoSlot}]
         /\ pass \in [pods : SUBSET Pods, pod : Pods \cup {NoPod},
                      keys : Seq(UNION {KeysOf(p) : p \in Pods}), tail : BOOLEAN, started : BOOLEAN]
         /\ permits \in Nat /\ limit \in Nat
         /\ task \in [Slots -> Streams \cup {NoTask}]
         /\ outer \in [Slots -> {"new", "run", "done"}]
         /\ aborted \in [Slots -> BOOLEAN]
         /\ open \in [Slots -> SUBSET StreamNames]
         /\ watch \in Seq(EventSet) /\ tailed \in [Pods -> Nat] /\ split \in BOOLEAN
         /\ KeysOfThePod /\ LiveStreams /\ TasksInTable /\ NoSlot \notin Slots
BY BoundsAssumption, PodsAssumption DEF TableInv, KubeTypeOK, EventSet

\* A pass that has nothing in hand.
LEMMA SelectTypes ==
  ASSUME NEW P \in SUBSET Pods
  PROVE  /\ [AtSelect EXCEPT !.pods = P] \in
                 [pods : SUBSET Pods, pod : Pods \cup {NoPod},
                  keys : Seq(UNION {KeysOf(p) : p \in Pods}), tail : BOOLEAN, started : BOOLEAN]
         /\ [AtSelect EXCEPT !.pods = P].pod = NoPod
BY EmptySeq DEF AtSelect

\* The first event of the watch, and the rest.
LEMMA EventTypes ==
  ASSUME TableInv, NEW kind, NextEvent(kind)
  PROVE  /\ Head(watch) \in EventSet /\ Head(watch).pod \in Pods /\ Head(watch).gen \in Nat
         /\ watch' \in Seq(EventSet) /\ pass.pod = NoPod
<1>1. watch \in Seq(EventSet) /\ watch # <<>> /\ watch' = Tail(watch) /\ pass = AtSelect
  BY TableTypes DEF NextEvent
<1>2. Head(watch) \in EventSet /\ Tail(watch) \in Seq(EventSet)
  BY <1>1, HeadTailProperties
<1> QED
  BY <1>1, <1>2 DEF EventSet, AtSelect

\* The tasks of a pod leave the table, and those that live are aborted.
LEMMA AbortTable ==
  ASSUME TableInv, NEW p \in Pods, AbortStreams(p), UNCHANGED split
  PROVE  /\ active' \in [Streams -> Slots \cup {NoSlot}]
         /\ aborted' \in [Slots -> BOOLEAN]
         /\ LiveStreams' /\ TasksInTable'
<1>1. /\ \A s \in Slots : aborted'[s] = (aborted[s] \/ (\E k \in Streams : k[1] = p /\ active[k] = s /\ outer[s] # "done"))
      /\ \A k \in Streams : active'[k] = IF k[1] = p THEN NoSlot ELSE active[k]
      /\ UNCHANGED <<task, outer, open, permits>>
  BY DEF AbortStreams
<1>2. active' \in [Streams -> Slots \cup {NoSlot}]
  BY TableTypes DEF AbortStreams
<1>3. aborted' \in [Slots -> BOOLEAN]
  <2>1. \A s \in Slots : (aborted[s] \/ (\E k \in Streams : k[1] = p /\ active[k] = s /\ outer[s] # "done")) \in BOOLEAN
    BY TableTypes
  <2> QED
    BY <2>1 DEF AbortStreams
<1>4. LiveStreams'
  BY <1>1, TableTypes DEF LiveStreams, Live
<1>5. ASSUME NEW k \in Streams, active'[k] # NoSlot
      PROVE  task'[active'[k]] = k /\ ~aborted'[active'[k]]
  <2>1. k[1] # p /\ active'[k] = active[k] /\ active[k] \in Slots /\ task[active[k]] = k /\ ~aborted[active[k]]
    BY <1>1, <1>5, TableTypes DEF TasksInTable
  <2>2. \A j \in Streams : active[j] = active[k] => j = k
    BY <2>1, TableTypes DEF TasksInTable
  <2> QED
    BY <1>1, <2>1, <2>2
<1>6. ASSUME NEW s \in Slots, Live(s)', ~aborted'[s]
      PROVE  active'[task'[s]] = s
  <2>1. Live(s) /\ ~aborted[s] /\ outer[s] # "done"
    BY <1>1, <1>6 DEF Live
  <2>2. task[s] \in Streams /\ active[task[s]] = s
    BY <2>1, TableTypes DEF LiveStreams, TasksInTable
  <2>3. task[s][1] # p
    BY <1>1, <1>6, <2>1, <2>2
  <2> QED
    BY <1>1, <2>2, <2>3
<1>7. ASSUME NEW s \in Slots, open'[s] # {}
      PROVE  outer'[s] = "run" \/ aborted'[s]
  BY <1>1, <1>7, TableTypes DEF TasksInTable
<1> QED
  BY <1>2, <1>3, <1>4, <1>5, <1>6, <1>7 DEF TasksInTable

\* An event of the watch.
LEMMA EventTable ==
  ASSUME TableInv, OnRunning \/ OnNotRunning \/ OnDelete
  PROVE  TableInv'
<1>1. CASE OnRunning
  <2>1. /\ Head(watch).pod \in Pods /\ Head(watch).gen \in Nat /\ watch' \in Seq(EventSet)
        /\ pass.pod = NoPod
    BY <1>1, EventTypes DEF OnRunning
  <2>2. /\ running_pods' \in [Pods -> Nat]
        /\ pass' \in [pods : SUBSET Pods, pod : Pods \cup {NoPod},
                      keys : Seq(UNION {KeysOf(p) : p \in Pods}), tail : BOOLEAN, started : BOOLEAN]
        /\ pass'.pod = NoPod
    <3>1. CASE Head(watch).pod \in ExcludedPods
      BY <1>1, <2>1, <3>1, TableTypes DEF OnRunning
    <3>2. CASE Head(watch).pod \notin ExcludedPods
      <4>1. {Head(watch).pod} \in SUBSET Pods
        BY <2>1
      <4>2. /\ pass' = [AtSelect EXCEPT !.pods = {Head(watch).pod}]
            /\ running_pods' = [running_pods EXCEPT ![Head(watch).pod] = Head(watch).gen]
        BY <1>1, <3>2 DEF OnRunning
      <4>3. running_pods' \in [Pods -> Nat]
        BY <2>1, <4>2, TableTypes
      <4> QED
        BY <4>1, <4>2, <4>3, SelectTypes
    <3> QED
      BY <3>1, <3>2
  <2>3. UNCHANGED <<clusterVars, fixed, initialized, active, taskVars, tailed>>
    BY <1>1 DEF OnRunning
  <2> QED
    BY <2>1, <2>2, <2>3
    DEF TableInv, KubeTypeOK, EventSet, KeysOfThePod, LiveStreams, Live, TasksInTable,
        clusterVars, fixed, taskVars
<1>2. CASE OnNotRunning
  <2>1. Head(watch).pod \in Pods /\ watch' \in Seq(EventSet) /\ pass' = pass
    BY <1>2, EventTypes DEF OnNotRunning
  <2>2. running_pods' \in [Pods -> Nat]
    BY <1>2, <2>1, TableTypes DEF OnNotRunning, NotRunning
  <2>3. UNCHANGED <<clusterVars, fixed, initialized, tailed, task, outer, open, permits>>
    BY <1>2 DEF OnNotRunning, AbortStreams, taskVars
  <2>4. /\ active' \in [Streams -> Slots \cup {NoSlot}]
        /\ aborted' \in [Slots -> BOOLEAN]
        /\ LiveStreams' /\ TasksInTable'
    <3>1. CASE AbortStreams(Head(watch).pod)
      BY <2>1, <2>3, <3>1, AbortTable DEF fixed
    <3>2. CASE UNCHANGED <<active, taskVars>>
      BY <3>2, TableTypes DEF LiveStreams, Live, TasksInTable, taskVars
    <3> QED
      BY <1>2, <3>1, <3>2 DEF OnNotRunning
  <2> QED
    BY <2>1, <2>2, <2>3, <2>4
    DEF TableInv, KubeTypeOK, EventSet, KeysOfThePod, clusterVars, fixed
<1>3. CASE OnDelete
  <2>1. Head(watch).pod \in Pods /\ watch' \in Seq(EventSet) /\ pass' = pass
    BY <1>3, EventTypes DEF OnDelete
  <2>2. running_pods' \in [Pods -> Nat] /\ initialized' \subseteq Pods
    BY <1>3, <2>1, TableTypes DEF OnDelete, NotRunning
  <2>3. UNCHANGED <<clusterVars, fixed, tailed, task, outer, open, permits>>
    BY <1>3 DEF OnDelete, AbortStreams
  <2>4. /\ active' \in [Streams -> Slots \cup {NoSlot}]
        /\ aborted' \in [Slots -> BOOLEAN]
        /\ LiveStreams' /\ TasksInTable'
    BY <1>3, <2>1, <2>3, AbortTable DEF OnDelete, fixed
  <2> QED
    BY <2>1, <2>2, <2>3, <2>4
    DEF TableInv, KubeTypeOK, EventSet, KeysOfThePod, clusterVars, fixed
<1> QED
  BY <1>1, <1>2, <1>3

\* The reconciliation: finished tasks leave the table.
LEMMA ReconcileTable ==
  ASSUME TableInv, Reconcile
  PROVE  TableInv'
<1>1. /\ active' = [k \in Streams |->
                      IF active[k] # NoSlot /\ outer[active[k]] = "done" THEN NoSlot ELSE active[k]]
      /\ pass' = [AtSelect EXCEPT !.pods = {p \in Pods : running_pods[p] # NotRunning}]
      /\ UNCHANGED <<clusterVars, watch, fixed, running_pods, initialized, taskVars, tailed>>
  BY DEF Reconcile
<1>2. active' \in [Streams -> Slots \cup {NoSlot}]
  BY <1>1, TableTypes
<1>3. {p \in Pods : running_pods[p] # NotRunning} \in SUBSET Pods
  OBVIOUS
<1>4. /\ pass' \in [pods : SUBSET Pods, pod : Pods \cup {NoPod},
                    keys : Seq(UNION {KeysOf(p) : p \in Pods}), tail : BOOLEAN, started : BOOLEAN]
      /\ pass'.pod = NoPod
  BY <1>1, <1>3, SelectTypes
<1>5. TasksInTable'
  <2>1. UNCHANGED <<task, outer, aborted, open>>
    BY <1>1 DEF taskVars
  <2>2. ASSUME NEW k \in Streams, active'[k] # NoSlot
        PROVE  task'[active'[k]] = k /\ ~aborted'[active'[k]]
    BY <1>1, <2>1, <2>2, TableTypes DEF TasksInTable
  <2>3. ASSUME NEW s \in Slots, Live(s)', ~aborted'[s] PROVE active'[task'[s]] = s
    <3>1. Live(s) /\ task[s] \in Streams /\ active[task[s]] = s /\ outer[s] # "done"
      BY <2>1, <2>3, TableTypes DEF Live, LiveStreams, TasksInTable
    <3> QED
      BY <1>1, <2>1, <3>1
  <2>4. \A s \in Slots : open'[s] # {} => outer'[s] = "run" \/ aborted'[s]
    BY <2>1, TableTypes DEF TasksInTable
  <2> QED
    BY <2>2, <2>3, <2>4 DEF TasksInTable
<1>6. LiveStreams'
  BY <1>1, TableTypes DEF LiveStreams, Live, taskVars
<1> QED
  BY <1>1, <1>2, <1>4, <1>5, <1>6
  DEF TableInv, KubeTypeOK, KeysOfThePod, clusterVars, fixed, taskVars

\* A pod is taken in hand, or is done with.
LEMMA PodTable ==
  ASSUME TableInv, EndPod \/ \E p \in Pods : BeginPod(p)
  PROVE  TableInv'
<1>1. /\ UNCHANGED <<clusterVars, watch, fixed, running_pods, active, taskVars, tailed>>
      /\ initialized' \subseteq Pods
      /\ pass' \in [pods : SUBSET Pods, pod : Pods \cup {NoPod},
                    keys : Seq(UNION {KeysOf(p) : p \in Pods}), tail : BOOLEAN, started : BOOLEAN]
      /\ KeysOfThePod'
  <2>1. CASE EndPod
    <3>1. /\ initialized' \subseteq Pods /\ pass.pods \in SUBSET Pods
          /\ pass' = [AtSelect EXCEPT !.pods = pass.pods]
          /\ UNCHANGED <<clusterVars, watch, fixed, running_pods, active, taskVars, tailed>>
      BY <2>1, TableTypes DEF EndPod
    <3> QED
      BY <3>1, SelectTypes DEF KeysOfThePod
  <2>2. ASSUME NEW p \in Pods, BeginPod(p)
        PROVE  /\ UNCHANGED <<clusterVars, watch, fixed, running_pods, active, taskVars, tailed>>
               /\ initialized' \subseteq Pods
               /\ pass' \in [pods : SUBSET Pods, pod : Pods \cup {NoPod},
                             keys : Seq(UNION {KeysOf(q) : q \in Pods}), tail : BOOLEAN,
                             started : BOOLEAN]
               /\ KeysOfThePod'
    <3>1. keys_for_pod(p) \in Seq(KeysOf(p))
      BY KeysAssumption
    <3>2. KeysOf(p) \subseteq UNION {KeysOf(q) : q \in Pods}
      OBVIOUS
    <3> DEFINE keys == keys_for_pod(p)
               tail == asks_tail(p)
    <3>3. tail \in BOOLEAN
      BY TailAssumption DEF asks_tail
    <3>4. /\ pass' = [pods |-> pass.pods \ {p}, pod |-> p, keys |-> keys, tail |-> tail,
                      started |-> FALSE]
          /\ UNCHANGED <<clusterVars, watch, fixed, tableVars, taskVars, tailed>>
      BY <2>2 DEF BeginPod
    <3> HIDE DEF keys, tail
    <3>5. keys \in Seq(KeysOf(p))
      BY <3>1 DEF keys
    <3>6. keys \in Seq(UNION {KeysOf(q) : q \in Pods})
      BY <3>2, <3>5, SeqDef
    <3> QED
      BY <3>3, <3>4, <3>5, <3>6, TableTypes DEF tableVars, KeysOfThePod
  <2> QED
    BY <2>1, <2>2
<1>2. LiveStreams' /\ TasksInTable'
  BY <1>1, TableTypes DEF LiveStreams, Live, TasksInTable, taskVars
<1> QED
  BY <1>1, <1>2 DEF TableInv, KubeTypeOK, clusterVars, fixed, taskVars

\* The next container of a pod: a task of it is in the table, or there is no
\* permit, or a new task gets its place.
LEMMA StartTable ==
  ASSUME TableInv, try_start
  PROVE  TableInv'
<1> DEFINE key == <<pass.pod, Head(pass.keys)>>
<1>1. /\ pass.pod \in Pods /\ pass.keys \in Seq(KeysOf(pass.pod)) /\ pass.keys # <<>>
  BY TableTypes DEF try_start, KeysOfThePod
<1>2. /\ Head(pass.keys) \in KeysOf(pass.pod) /\ Tail(pass.keys) \in Seq(KeysOf(pass.pod))
      /\ Tail(pass.keys) \in Seq(UNION {KeysOf(p) : p \in Pods})
  <2>1. pass.keys \in Seq(UNION {KeysOf(p) : p \in Pods})
    BY TableTypes
  <2> QED
    BY <1>1, <2>1, HeadTailProperties
<1>3. key \in Streams
  BY <1>1, <1>2 DEF Streams
<1>4. /\ pass' = [pass EXCEPT !.keys = Tail(pass.keys), !.started = pass'.started]
      /\ pass'.started \in BOOLEAN
  <2>1. CASE pass' = [pass EXCEPT !.keys = Tail(@)]
    BY <2>1, TableTypes
  <2>2. CASE pass' = [pass EXCEPT !.keys = Tail(@), !.started = TRUE]
    BY <2>2, TableTypes
  <2> QED
    BY <2>1, <2>2 DEF try_start
<1>5. /\ pass' \in [pods : SUBSET Pods, pod : Pods \cup {NoPod},
                    keys : Seq(UNION {KeysOf(p) : p \in Pods}), tail : BOOLEAN, started : BOOLEAN]
      /\ KeysOfThePod'
  BY <1>1, <1>2, <1>4, TableTypes DEF KeysOfThePod
<1>6. UNCHANGED <<clusterVars, watch, fixed, running_pods, initialized>>
  BY DEF try_start
<1>7. CASE UNCHANGED <<active, taskVars, tailed>>
  <2>1. LiveStreams' /\ TasksInTable'
    BY <1>7, TableTypes DEF LiveStreams, Live, TasksInTable, taskVars
  <2> QED
    BY <1>5, <1>6, <1>7, <2>1 DEF TableInv, KubeTypeOK, clusterVars, fixed, taskVars
<1>8. CASE active[key] = NoSlot /\ HasPermit /\ \E s \in Slots : StartTask(key, s)
  <2>1. PICK s \in Slots : StartTask(key, s)
    BY <1>8
  <2> HIDE DEF key
  <2>2. /\ Free(s) /\ open' = open
        /\ task' = [task EXCEPT ![s] = key] /\ outer' = [outer EXCEPT ![s] = "new"]
        /\ aborted' = [aborted EXCEPT ![s] = FALSE] /\ active' = [active EXCEPT ![key] = s]
        /\ permits' = (IF limit = 0 THEN permits ELSE permits - 1)
    BY <2>1 DEF StartTask
  <2>3. permits' \in Nat
    BY <1>8, <2>2, TableTypes DEF HasPermit
  <2>4. tailed' \in [Pods -> Nat]
    BY <1>1, <2>1, TableTypes DEF StartTask
  <2>5. /\ task' \in [Slots -> Streams \cup {NoTask}] /\ outer' \in [Slots -> {"new", "run", "done"}]
        /\ aborted' \in [Slots -> BOOLEAN] /\ active' \in [Streams -> Slots \cup {NoSlot}]
    BY <1>3, <2>2, TableTypes
  <2>6. LiveStreams'
    BY <1>3, <2>2, TableTypes DEF LiveStreams, Live
  <2>7. TasksInTable'
    <3>1. ASSUME NEW k \in Streams, active'[k] # NoSlot
          PROVE  task'[active'[k]] = k /\ ~aborted'[active'[k]]
      <4>1. CASE k = key
        BY <1>3, <2>2, <4>1, TableTypes
      <4>2. CASE k # key
        <5>1. active'[k] = active[k] /\ active[k] # s
          BY <1>3, <2>2, <4>2, TableTypes DEF Free
        <5> QED
          BY <2>2, <3>1, <5>1, TableTypes DEF TasksInTable
      <4> QED
        BY <4>1, <4>2
    <3>2. ASSUME NEW r \in Slots, Live(r)', ~aborted'[r] PROVE active'[task'[r]] = r
      <4>1. CASE r = s
        BY <1>3, <2>2, <4>1, TableTypes
      <4>2. CASE r # s
        <5>1. Live(r) /\ ~aborted[r] /\ task'[r] = task[r]
          BY <2>2, <3>2, <4>2, TableTypes DEF Live
        <5>2. task[r] \in Streams /\ active[task[r]] = r
          BY <5>1, TableTypes DEF LiveStreams, TasksInTable
        <5>3. task[r] # key
          BY <1>8, <5>2, TableTypes
        <5> QED
          BY <2>2, <5>1, <5>2, <5>3
      <4> QED
        BY <4>1, <4>2
    <3>3. ASSUME NEW r \in Slots, open'[r] # {} PROVE outer'[r] = "run" \/ aborted'[r]
      <4>1. r # s
        BY <2>2, <3>3 DEF Free
      <4> QED
        BY <2>2, <3>3, <4>1, TableTypes DEF TasksInTable
    <3> QED
      BY <3>1, <3>2, <3>3 DEF TasksInTable
  <2> QED
    BY <1>5, <1>6, <2>2, <2>3, <2>4, <2>5, <2>6, <2>7 DEF TableInv, KubeTypeOK, clusterVars, fixed
<1> QED
  BY <1>7, <1>8 DEF try_start

-----------------------------------------------------------------------------
(* The tasks.                                                              *)

\* A task runs, ends or is dropped, or one of its streams ends.
LEMMA TaskTable ==
  ASSUME TableInv, NEW s \in Slots, TaskStep(s) \/ \E x \in StreamNames : StreamEnds(s, x)
  PROVE  TableInv'
<1>1. UNCHANGED <<clusterVars, watch, fixed, tableVars, pass, task, aborted, tailed>>
  BY DEF TaskStep, TaskRuns, TaskEnds, TaskCancelled, StreamEnds
<1>2. permits' \in Nat
  BY TableTypes DEF TaskStep, TaskRuns, TaskEnds, TaskCancelled, StreamEnds, Release
<1>3. /\ outer' \in [Slots -> {"new", "run", "done"}]
      /\ \A r \in Slots : Live(r)' => Live(r)
  BY TableTypes DEF TaskStep, TaskRuns, TaskEnds, TaskCancelled, StreamEnds, Live
<1>4. open' \in [Slots -> SUBSET StreamNames]
  <2>1. open \in [Slots -> SUBSET StreamNames]
    BY TableTypes
  <2>2. CASE TaskRuns(s)
    <3>1. {"stdout", "stderr"} \in SUBSET StreamNames /\ {"output"} \in SUBSET StreamNames
      BY DEF StreamNames
    <3> QED
      BY <2>1, <2>2, <3>1 DEF TaskRuns
  <2>3. CASE TaskEnds(s)
    BY <2>1, <2>3 DEF TaskEnds
  <2>4. CASE TaskCancelled(s)
    BY <2>1, <2>4 DEF TaskCancelled
  <2>5. ASSUME NEW x \in StreamNames, StreamEnds(s, x)
        PROVE  open' \in [Slots -> SUBSET StreamNames]
    <3>1. open[s] \ {x} \in SUBSET StreamNames
      BY <2>1
    <3> QED
      BY <2>1, <2>5, <3>1 DEF StreamEnds
  <2> QED
    BY <2>2, <2>3, <2>4, <2>5 DEF TaskStep
<1>5. LiveStreams'
  BY <1>1, <1>3, TableTypes DEF LiveStreams
<1>6. ASSUME NEW r \in Slots, open'[r] # {} PROVE outer'[r] = "run" \/ aborted'[r]
  <2>1. CASE r # s
    BY <1>1, <1>6, <2>1, TableTypes
    DEF TaskStep, TaskRuns, TaskEnds, TaskCancelled, StreamEnds, TasksInTable
  <2>2. CASE r = s
    BY <1>1, <1>6, <2>2, TableTypes
    DEF TaskStep, TaskRuns, TaskEnds, TaskCancelled, StreamEnds, TasksInTable
  <2> QED
    BY <2>1, <2>2
<1>7. TasksInTable'
  BY <1>1, <1>3, <1>6, TableTypes DEF TasksInTable, tableVars
<1> QED
  BY <1>1, <1>2, <1>3, <1>4, <1>5, <1>7
  DEF TableInv, KubeTypeOK, KeysOfThePod, clusterVars, fixed, tableVars

\* No step makes the table and the tasks disagree.
LEMMA NextTable == TableInv /\ [Next]_vars => TableInv'
<1> SUFFICES ASSUME TableInv, [Next]_vars PROVE TableInv'
  OBVIOUS
<1>1. CASE EnvironmentStep
  BY <1>1, EnvironmentTable
<1>2. CASE LoopStep
  BY <1>2, EventTable, ReconcileTable, StartTable, PodTable DEF LoopStep
<1>3. CASE \E s \in Slots : TaskStep(s) \/ \E x \in StreamNames : StreamEnds(s, x)
  BY <1>3, TaskTable
<1>4. CASE UNCHANGED vars
  BY <1>4 DEF TableInv, KubeTypeOK, KeysOfThePod, LiveStreams, Live, TasksInTable,
              vars, clusterVars, fixed, tableVars, taskVars
<1> QED
  BY <1>1, <1>2, <1>3, <1>4 DEF Next

-----------------------------------------------------------------------------
(* The permits.                                                            *)

LiveSlots == {s \in Slots : Live(s)}

\* They are finitely many, so that one more or less counts as one.
LEMMA CountLive ==
  /\ IsFiniteSet(LiveSlots) /\ Cardinality(LiveSlots) \in Nat
  /\ \A s : Cardinality(LiveSlots \cup {s}) =
              IF s \in LiveSlots THEN Cardinality(LiveSlots) ELSE Cardinality(LiveSlots) + 1
  /\ \A s : Cardinality(LiveSlots \ {s}) =
              IF s \in LiveSlots THEN Cardinality(LiveSlots) - 1 ELSE Cardinality(LiveSlots)
<1>1. LiveSlots \in SUBSET Slots
  BY DEF LiveSlots
<1>2. IsFiniteSet(LiveSlots)
  BY <1>1, SlotsAssumption, FS_Subset
<1> QED
  BY <1>2, FS_CardinalityType, FS_AddElement, FS_RemoveElement

\* A permit is taken with a new task, and comes back when it ends.
LEMMA NextPermits == TableInv /\ PermitsConserved /\ [Next]_vars => PermitsConserved'
<1> SUFFICES ASSUME TableInv, PermitsConserved, [Next]_vars PROVE PermitsConserved'
  OBVIOUS
<1> DEFINE n == Cardinality(LiveSlots)
<1>0. /\ n \in Nat /\ permits \in Nat /\ limit \in Nat /\ limit' = limit
      /\ limit > 0 => permits + n = limit
      /\ PermitsConserved' <=> (limit > 0 => permits' + Cardinality(LiveSlots') = limit)
  <2>1. limit' = limit
    BY DEF Next, EnvironmentStep, PodChanges, WatchLost, WatchLists, LoopStep, OnRunning, OnNotRunning,
           OnDelete, Reconcile, try_start, EndPod, BeginPod, TaskStep, TaskRuns, TaskEnds,
           TaskCancelled, StreamEnds, fixed, vars
  <2> QED
    BY <2>1, CountLive, TableTypes DEF PermitsConserved, LiveSlots
<1>1. ASSUME permits' = permits, LiveSlots' = LiveSlots PROVE PermitsConserved'
  BY <1>0, <1>1
<1>2. ASSUME UNCHANGED <<outer, permits>> PROVE PermitsConserved'
  BY <1>1, <1>2 DEF LiveSlots, Live
<1>3. CASE EnvironmentStep
  BY <1>2, <1>3, EnvironmentTable DEF taskVars
<1>4. CASE OnRunning \/ OnNotRunning \/ OnDelete \/ Reconcile \/ EndPod \/ \E p \in Pods : BeginPod(p)
  BY <1>2, <1>4
  DEF OnRunning, OnNotRunning, OnDelete, AbortStreams, Reconcile, EndPod, BeginPod, taskVars
<1>5. CASE try_start
  <2>1. CASE UNCHANGED taskVars
    BY <1>2, <2>1 DEF taskVars
  <2>2. ASSUME NEW s \in Slots, NEW key, HasPermit, StartTask(key, s)
        PROVE  PermitsConserved'
    <3>1. /\ outer[s] = "done" /\ outer' = [outer EXCEPT ![s] = "new"]
          /\ permits' = IF limit = 0 THEN permits ELSE permits - 1
          /\ limit > 0 => permits > 0
      BY <1>0, <2>2 DEF StartTask, Free, HasPermit
    <3>2. LiveSlots' = LiveSlots \cup {s} /\ s \notin LiveSlots
      BY <3>1, TableTypes DEF LiveSlots, Live
    <3>3. Cardinality(LiveSlots') = n + 1
      BY <3>2, CountLive
    <3> QED
      BY <1>0, <3>1, <3>3
  <2> QED
    BY <1>5, <2>1, <2>2 DEF try_start
<1>6. ASSUME NEW s \in Slots, TaskEnds(s) \/ TaskCancelled(s) PROVE PermitsConserved'
  <2>1. /\ outer[s] \in {"new", "run"} /\ outer' = [outer EXCEPT ![s] = "done"]
        /\ permits' = IF limit = 0 THEN permits ELSE permits + 1
    BY <1>6 DEF TaskEnds, TaskCancelled, Live, Release
  <2>2. LiveSlots' = LiveSlots \ {s} /\ s \in LiveSlots
    BY <2>1, TableTypes DEF LiveSlots, Live
  <2>3. Cardinality(LiveSlots') = n - 1
    BY <2>2, CountLive
  <2> QED
    BY <1>0, <2>1, <2>3
<1>7. ASSUME NEW s \in Slots, TaskRuns(s) PROVE PermitsConserved'
  <2>1. /\ outer[s] = "new" /\ outer' = [outer EXCEPT ![s] = "run"] /\ permits' = permits
    BY <1>7 DEF TaskRuns
  <2>2. LiveSlots' = LiveSlots
    BY <2>1, TableTypes DEF LiveSlots, Live
  <2> QED
    BY <1>1, <2>1, <2>2
<1>8. ASSUME NEW s \in Slots, NEW x, StreamEnds(s, x) PROVE PermitsConserved'
  BY <1>2, <1>8 DEF StreamEnds
<1>9. CASE UNCHANGED vars
  BY <1>2, <1>9 DEF vars, taskVars
<1> QED
  BY <1>3, <1>4, <1>5, <1>6, <1>7, <1>8, <1>9 DEF Next, LoopStep, TaskStep

-----------------------------------------------------------------------------
(* What the loop believes.                                                 *)

Last(w, i, p) == i \in DOMAIN w /\ w[i].pod = p /\ \A j \in DOMAIN w : w[j].pod = p => j <= i

\* Believed, for any events and any table.
BelievedIn(w, known, p) ==
  \/ known /\ \A i \in DOMAIN w : w[i].pod # p
  \/ \E i \in DOMAIN w : Last(w, i, p) /\ w[i].running

\* The two say the same.
LEMMA BelievedIsIn ==
  ASSUME NEW p
  PROVE  Believed(p) <=> BelievedIn(watch, running_pods[p] # NotRunning, p)
BY DEF Believed, BelievedIn, Last

\* One more event decides what is believed of its pod.
LEMMA BelievedAppend ==
  ASSUME NEW w \in Seq(EventSet), NEW e \in EventSet, NEW known, NEW p
  PROVE  /\ e.pod = p => (BelievedIn(Append(w, e), known, p) <=> e.running)
         /\ e.pod # p => (BelievedIn(Append(w, e), known, p) <=> BelievedIn(w, known, p))
<1> DEFINE v == Append(w, e)
<1>1. /\ DOMAIN w = 1 .. Len(w) /\ Len(w) \in Nat /\ DOMAIN v = 1 .. (Len(w) + 1)
      /\ \A i \in 1 .. Len(w) : v[i] = w[i]
      /\ v[Len(w) + 1] = e
  BY LenProperties, AppendProperties
<1> DEFINE n == Len(w) + 1
<1>2. /\ DOMAIN v = DOMAIN w \cup {n} /\ n \notin DOMAIN w
      /\ \A i \in DOMAIN w : v[i] = w[i] /\ i <= n /\ ~(n <= i)
      /\ v[n] = e /\ n <= n
  BY <1>1
<1> HIDE DEF v, n
<1>3. ASSUME e.pod = p PROVE BelievedIn(v, known, p) <=> e.running
  <2>1. Last(v, n, p)
    BY <1>2, <1>3 DEF Last
  <2>2. \A i \in DOMAIN v : Last(v, i, p) => i = n
    BY <1>2, <1>3 DEF Last
  <2>3. n \in DOMAIN v /\ v[n] = e /\ ~(\A i \in DOMAIN v : v[i].pod # p)
    BY <1>2, <1>3
  <2> QED
    BY <2>1, <2>2, <2>3 DEF BelievedIn
<1>4. ASSUME e.pod # p PROVE BelievedIn(v, known, p) <=> BelievedIn(w, known, p)
  <2>1. \A i \in DOMAIN w : Last(v, i, p) <=> Last(w, i, p)
    BY <1>2, <1>4 DEF Last
  <2>2. ~Last(v, n, p)
    BY <1>2, <1>4 DEF Last
  <2>3. (\A i \in DOMAIN v : v[i].pod # p) <=> (\A i \in DOMAIN w : w[i].pod # p)
    BY <1>2, <1>4
  <2>4. (\E i \in DOMAIN v : Last(v, i, p) /\ v[i].running) <=>
          (\E i \in DOMAIN w : Last(w, i, p) /\ w[i].running)
    BY <1>2, <2>1, <2>2
  <2> QED
    BY <2>3, <2>4 DEF BelievedIn
<1> QED
  BY <1>3, <1>4 DEF v

\* To handle the first event is to believe what it says, and changes nothing.
LEMMA BelievedTail ==
  ASSUME NEW w \in Seq(EventSet), w # <<>>, NEW known, NEW knows, NEW p,
         IF Head(w).pod = p THEN knows <=> Head(w).running ELSE knows <=> known
  PROVE  BelievedIn(Tail(w), knows, p) <=> BelievedIn(w, known, p)
<1> DEFINE t == Tail(w)
           n == Len(w)
<1>1. /\ DOMAIN w = 1 .. n /\ n \in Nat /\ n # 0
      /\ DOMAIN t = 1 .. (n - 1) /\ Head(w) = w[1]
      /\ \A i \in 1 .. (n - 1) : t[i] = w[i + 1]
  BY LenProperties, EmptySeq, HeadTailProperties
<1> HIDE DEF t, n
<1>2. /\ 1 \in DOMAIN w
      /\ \A i \in DOMAIN t : i + 1 \in DOMAIN w /\ t[i] = w[i + 1] /\ i + 1 # 1 /\ ~(i + 1 <= 1)
      /\ \A i \in DOMAIN w : i # 1 => \E j \in DOMAIN t : i = j + 1
      /\ \A i, j \in DOMAIN t : i <= j <=> i + 1 <= j + 1
      /\ \A i \in DOMAIN w : 1 <= i
  <2>1. \A i \in DOMAIN w : i # 1 => i - 1 \in DOMAIN t /\ i = (i - 1) + 1
    BY <1>1
  <2> QED
    BY <1>1, <2>1
<1>3. \A i \in DOMAIN t : Last(t, i, p) <=> Last(w, i + 1, p)
  BY <1>2 DEF Last
<1>4. Last(w, 1, p) <=> Head(w).pod = p /\ \A i \in DOMAIN t : t[i].pod # p
  <2>1. ASSUME Last(w, 1, p), NEW i \in DOMAIN t PROVE t[i].pod # p
    BY <1>2, <2>1 DEF Last
  <2>2. ASSUME Head(w).pod = p, \A i \in DOMAIN t : t[i].pod # p PROVE Last(w, 1, p)
    BY <1>1, <1>2, <2>2 DEF Last
  <2> QED
    BY <1>1, <2>1, <2>2 DEF Last
<1>5. (\A i \in DOMAIN w : w[i].pod # p) <=> Head(w).pod # p /\ \A i \in DOMAIN t : t[i].pod # p
  BY <1>1, <1>2
<1>6. (\E i \in DOMAIN w : Last(w, i, p) /\ w[i].running) <=>
        \/ Last(w, 1, p) /\ Head(w).running
        \/ \E i \in DOMAIN t : Last(t, i, p) /\ t[i].running
  <2>1. ASSUME NEW i \in DOMAIN w, Last(w, i, p), w[i].running
        PROVE  \/ Last(w, 1, p) /\ Head(w).running
               \/ \E j \in DOMAIN t : Last(t, j, p) /\ t[j].running
    <3>1. CASE i = 1
      BY <1>1, <2>1, <3>1
    <3>2. CASE i # 1
      <4>1. PICK j \in DOMAIN t : i = j + 1
        BY <1>2, <3>2
      <4>2. Last(t, j, p) /\ t[j] = w[i]
        BY <1>2, <1>3, <2>1, <4>1
      <4> QED
        BY <2>1, <4>2
    <3> QED
      BY <3>1, <3>2
  <2>2. ASSUME NEW i \in DOMAIN t, Last(t, i, p), t[i].running
        PROVE  \E j \in DOMAIN w : Last(w, j, p) /\ w[j].running
    <3>1. i + 1 \in DOMAIN w /\ Last(w, i + 1, p) /\ w[i + 1] = t[i]
      BY <1>2, <1>3, <2>2
    <3> QED
      BY <2>2, <3>1
  <2> QED
    BY <1>1, <1>2, <2>1, <2>2
<1>7. CASE Head(w).pod = p
  BY <1>4, <1>5, <1>6, <1>7 DEF BelievedIn, t
<1>8. CASE Head(w).pod # p
  BY <1>4, <1>5, <1>6, <1>8 DEF BelievedIn, t
<1> QED
  BY <1>7, <1>8

\* A list that names each pod once decides what is believed of those it names.
LEMMA BelievedList ==
  ASSUME NEW w \in Seq(EventSet), NEW l \in Seq(EventSet), NEW known, NEW p
  PROVE  /\ (\A i \in DOMAIN l : l[i].pod # p) =>
              (BelievedIn(w \o l, known, p) <=> BelievedIn(w, known, p))
         /\ \A i \in DOMAIN l : (\A j \in DOMAIN l : l[j].pod = p <=> j = i) =>
              (BelievedIn(w \o l, known, p) <=> l[i].running)
<1> DEFINE v == w \o l
           n == Len(w)
<1>1. /\ DOMAIN w = 1 .. n /\ n \in Nat /\ DOMAIN l = 1 .. Len(l) /\ Len(l) \in Nat
      /\ DOMAIN v = 1 .. (n + Len(l))
      /\ \A i \in DOMAIN v : v[i] = IF i <= n THEN w[i] ELSE l[i - n]
  BY LenProperties, ConcatProperties
<1> HIDE DEF v, n
<1>2. /\ \A i \in DOMAIN w : i \in DOMAIN v /\ v[i] = w[i]
      /\ \A i \in DOMAIN l : i + n \in DOMAIN v /\ v[i + n] = l[i]
      /\ \A i \in DOMAIN v : i \in DOMAIN w \/ \E j \in DOMAIN l : i = j + n
      /\ \A i \in DOMAIN w, j \in DOMAIN l : i <= j + n /\ ~(j + n <= i)
      /\ \A i \in DOMAIN l : i + n <= i + n
  <2>1. ASSUME NEW i \in DOMAIN l PROVE i + n \in DOMAIN v /\ v[i + n] = l[i]
    <3>1. i + n \in DOMAIN v /\ ~(i + n <= n) /\ (i + n) - n = i
      BY <1>1
    <3> QED
      BY <1>1, <3>1
  <2>2. ASSUME NEW i \in DOMAIN v PROVE i \in DOMAIN w \/ \E j \in DOMAIN l : i = j + n
    <3>1. CASE i <= n
      BY <1>1, <3>1
    <3>2. CASE ~(i <= n)
      <4>1. i - n \in DOMAIN l /\ i = (i - n) + n
        BY <1>1, <3>2
      <4> QED
        BY <4>1
    <3> QED
      BY <3>1, <3>2
  <2> QED
    BY <1>1, <2>1, <2>2
<1>3. ASSUME \A i \in DOMAIN l : l[i].pod # p
      PROVE  BelievedIn(v, known, p) <=> BelievedIn(w, known, p)
  <2>1. \A i \in DOMAIN v : v[i].pod = p => i \in DOMAIN w
    BY <1>2, <1>3
  <2>2. \A i \in DOMAIN w : Last(v, i, p) <=> Last(w, i, p)
    BY <1>2, <2>1 DEF Last
  <2>3. (\A i \in DOMAIN v : v[i].pod # p) <=> (\A i \in DOMAIN w : w[i].pod # p)
    BY <1>2, <2>1
  <2>4. (\E i \in DOMAIN v : Last(v, i, p) /\ v[i].running) <=>
          (\E i \in DOMAIN w : Last(w, i, p) /\ w[i].running)
    <3>1. \A i \in DOMAIN v : Last(v, i, p) => i \in DOMAIN w
      BY <2>1 DEF Last
    <3> QED
      BY <1>2, <2>2, <3>1
  <2> QED
    BY <2>3, <2>4 DEF BelievedIn
<1>4. ASSUME NEW i \in DOMAIN l, \A j \in DOMAIN l : l[j].pod = p <=> j = i
      PROVE  BelievedIn(v, known, p) <=> l[i].running
  <2> DEFINE k == i + n
  <2>1. k \in DOMAIN v /\ v[k] = l[i] /\ v[k].pod = p
    BY <1>2, <1>4
  <2>2. \A j \in DOMAIN v : v[j].pod = p => j <= k
    BY <1>2, <1>4
  <2>3. \A j \in DOMAIN v : Last(v, j, p) => j = k
    <3>1. ASSUME NEW j \in DOMAIN v, Last(v, j, p) PROVE j = k
      <4>1. k <= j /\ j <= k /\ j \in Nat /\ k \in Nat
        BY <1>1, <2>1, <2>2, <3>1 DEF Last
      <4> QED
        BY <4>1
    <3> QED
      BY <3>1
  <2> HIDE DEF k
  <2>4. Last(v, k, p)
    BY <2>1, <2>2 DEF Last
  <2> QED
    BY <2>1, <2>3, <2>4 DEF BelievedIn
<1> QED
  BY <1>3, <1>4 DEF v

\* What is needed of the events and the pods, and what is believed while nobody
\* watches: only a deletion can be missed for good.
FollowInv ==
  /\ \A i \in DOMAIN watch : /\ watch[i].running => watch[i].gen > 0
                             /\ watch[i].kind = "delete" => ~watch[i].running
  /\ \A p \in Pods : phase[p] # "absent" => gen[p] > 0
  /\ PodsFollowCluster
  /\ ~watching => \A p \in Pods \ ExcludedPods :
                    phase[p] = "absent" /\ Believed(p) => p \in unseen

\* A pod changes, seen or unseen.
LEMMA ChangeFollows ==
  ASSUME TableInv, FollowInv, NEW p \in Pods, NEW to \in {"absent", "running", "stopped"},
         PodChanges(p, to)
  PROVE  FollowInv'
<1>0. /\ phase \in [Pods -> {"absent", "running", "stopped"}] /\ gen \in [Pods -> Nat]
      /\ watch \in Seq(EventSet) /\ unseen \subseteq Pods
  BY DEF TableInv, KubeTypeOK, EventSet
<1> DEFINE e == [kind |-> IF to = "absent" THEN "delete" ELSE "apply", pod |-> p,
                 running |-> to = "running", gen |-> gen'[p]]
<1>1. /\ phase' = [phase EXCEPT ![p] = to]
      /\ gen' = [gen EXCEPT ![p] = IF phase[p] = "absent" THEN @ + 1 ELSE @]
      /\ watch' = IF watching THEN Append(watch, e) ELSE watch
      /\ unseen' = IF to = "absent" /\ ~watching THEN unseen \cup {p} ELSE unseen \ {p}
      /\ phase[p] # to /\ UNCHANGED <<watching, running_pods>>
  BY DEF PodChanges, tableVars
<1>2. /\ gen' \in [Pods -> Nat] /\ gen'[p] \in Nat
      /\ to # "absent" => gen'[p] > 0
      /\ \A q \in Pods : phase'[q] # "absent" => gen'[q] > 0
  BY <1>0, <1>1 DEF FollowInv
<1>3. (to = "running") \in BOOLEAN
  OBVIOUS
<1>4. /\ e \in EventSet /\ e.pod = p /\ (e.running <=> to = "running")
      /\ (e.kind = "delete" => to = "absent") /\ e.gen = gen'[p]
  BY <1>2, <1>3 DEF EventSet
<1> HIDE DEF e
<1>5. \A i \in DOMAIN watch' : /\ watch'[i].running => watch'[i].gen > 0
                               /\ watch'[i].kind = "delete" => ~watch'[i].running
  <2>1. CASE ~watching
    BY <1>1, <2>1 DEF FollowInv
  <2>2. CASE watching
    <3>1. /\ DOMAIN watch = 1 .. Len(watch) /\ Len(watch) \in Nat
          /\ DOMAIN watch' = 1 .. (Len(watch) + 1)
          /\ \A i \in 1 .. Len(watch) : watch'[i] = watch[i]
          /\ watch'[Len(watch) + 1] = e
      BY <1>0, <1>1, <1>4, <2>2, LenProperties, AppendProperties
    <3>2. \A i \in DOMAIN watch' : (i \in DOMAIN watch /\ watch'[i] = watch[i]) \/ watch'[i] = e
      BY <3>1
    <3>3. (e.running => e.gen > 0) /\ (e.kind = "delete" => ~e.running)
      BY <1>2, <1>4
    <3> QED
      BY <3>2, <3>3 DEF FollowInv
  <2> QED
    BY <2>1, <2>2
<1>6. CASE watching
  <2>1. ASSUME NEW q \in Pods
        PROVE  Believed(q)' <=> IF q = p THEN to = "running" ELSE Believed(q)
    <3>1. Believed(q)' <=> BelievedIn(Append(watch, e), running_pods[q] # NotRunning, q)
      BY <1>1, <1>6 DEF Believed, BelievedIn, Last
    <3> QED
      BY <1>0, <1>4, <3>1, BelievedIsIn, BelievedAppend
  <2>2. ASSUME NEW q \in Pods \ ExcludedPods
        PROVE  (Believed(q)' <=> phase'[q] = "running") \/ (q \in unseen' /\ Believed(q)')
    <3>1. CASE q = p
      BY <1>0, <1>1, <2>1, <3>1
    <3>2. CASE q # p
      <4>1. (Believed(q) <=> phase[q] = "running") \/ (q \in unseen /\ Believed(q))
        BY <1>6 DEF FollowInv, PodsFollowCluster
      <4> QED
        BY <1>0, <1>1, <2>1, <3>2, <4>1
    <3> QED
      BY <3>1, <3>2
  <2>3. \A q \in Pods : Believed(q)' \in BOOLEAN
    BY DEF Believed
  <2>4. PodsFollowCluster'
    BY <2>2, <2>3 DEF PodsFollowCluster
  <2> QED
    BY <1>1, <1>2, <1>5, <1>6, <2>4 DEF FollowInv
<1>7. CASE ~watching
  <2>1. \A q \in Pods : Believed(q)' <=> Believed(q)
    BY <1>1, <1>7 DEF Believed
  <2>2. ASSUME NEW q \in Pods \ ExcludedPods, phase'[q] = "absent", Believed(q)'
        PROVE  q \in unseen'
    <3>1. CASE q = p
      BY <1>0, <1>1, <1>7, <2>2, <3>1
    <3>2. CASE q # p
      BY <1>0, <1>1, <1>7, <2>1, <2>2, <3>2 DEF FollowInv
    <3> QED
      BY <3>1, <3>2
  <2> QED
    BY <1>1, <1>2, <1>5, <1>7, <2>2 DEF FollowInv, PodsFollowCluster
<1> QED
  BY <1>6, <1>7

\* The watch is lost: what it had brought is still handled.
LEMMA LostFollows ==
  ASSUME TableInv, FollowInv, WatchLost
  PROVE  FollowInv'
<1>1. /\ watching /\ ~watching'
      /\ UNCHANGED <<phase, gen, watch, running_pods, unseen>>
  BY DEF WatchLost, tableVars
<1>2. \A p \in Pods : Believed(p)' <=> Believed(p)
  BY <1>1 DEF Believed
<1>3. ASSUME NEW p \in Pods \ ExcludedPods, phase[p] = "absent", Believed(p)
      PROVE  p \in unseen
  BY <1>1, <1>3 DEF FollowInv, PodsFollowCluster
<1> QED
  BY <1>1, <1>2, <1>3 DEF FollowInv, PodsFollowCluster

\* The watch lists the pods there are, each once.
LEMMA ListFollows ==
  ASSUME TableInv, FollowInv, WatchLists
  PROVE  FollowInv'
<1> DEFINE there == {p \in Pods : phase[p] # "absent"}
           n == Cardinality(there)
<1>0. /\ phase \in [Pods -> {"absent", "running", "stopped"}] /\ gen \in [Pods -> Nat]
      /\ watch \in Seq(EventSet) /\ ~watching /\ watching'
      /\ UNCHANGED <<phase, gen, running_pods, unseen>>
  BY DEF TableInv, KubeTypeOK, EventSet, WatchLists, tableVars
<1>1. IsFiniteSet(there) /\ n \in Nat
  <2>1. there \in SUBSET Pods
    OBVIOUS
  <2>2. IsFiniteSet(there)
    BY <2>1, PodsAssumption, FS_Subset
  <2> QED
    BY <2>2, FS_CardinalityType
<1>2. PICK list \in [1 .. n -> there] :
        /\ \A i, j \in DOMAIN list : list[i] = list[j] => i = j
        /\ watch' = watch \o [i \in DOMAIN list |-> Event("apply", list[i])]
  BY DEF WatchLists
<1> DEFINE listed == [i \in DOMAIN list |-> Event("apply", list[i])]
<1>3. ASSUME NEW i \in 1 .. n
      PROVE  /\ Event("apply", list[i]) \in EventSet /\ list[i] \in there
             /\ Event("apply", list[i]).pod = list[i]
             /\ Event("apply", list[i]).running <=> phase[list[i]] = "running"
             /\ Event("apply", list[i]).gen = gen[list[i]] /\ gen[list[i]] > 0
             /\ Event("apply", list[i]).kind = "apply"
  <2>1. list[i] \in Pods /\ phase[list[i]] # "absent"
    BY <1>2
  <2>2. (phase[list[i]] = "running") \in BOOLEAN /\ gen[list[i]] > 0
    BY <2>1 DEF FollowInv
  <2> QED
    BY <1>0, <2>1, <2>2 DEF Event, EventSet
<1>4. \A p \in there : \E i \in 1 .. n : list[i] = p
  <2>1. IsFiniteSet(1 .. n) /\ Cardinality(1 .. n) = n
    BY <1>1, FS_Interval
  <2>2. list \in Injection(1 .. n, there)
    BY <1>2 DEF Injection, IsInjective
  <2> HIDE DEF n, there
  <2>3. Cardinality(1 .. n) = Cardinality(there)
    BY <2>1 DEF n
  <2>4. list \in Surjection(1 .. n, there)
    BY <1>1, <2>2, <2>3, FS_Injection
  <2> QED
    BY <2>4 DEF Surjection
<1>5. /\ DOMAIN list = 1 .. n /\ DOMAIN listed = 1 .. n /\ listed \in [1 .. n -> EventSet]
      /\ \A i \in 1 .. n : listed[i] = Event("apply", list[i])
      /\ watch' = watch \o listed
  BY <1>2, <1>3
<1> HIDE DEF listed, n
<1>6. listed \in Seq(EventSet)
  BY <1>1, <1>5, SeqDef
<1>7. \A i \in DOMAIN watch' : /\ watch'[i].running => watch'[i].gen > 0
                               /\ watch'[i].kind = "delete" => ~watch'[i].running
  <2>1. /\ DOMAIN watch = 1 .. Len(watch) /\ Len(watch) \in Nat
        /\ DOMAIN watch' = 1 .. (Len(watch) + Len(listed)) /\ Len(listed) \in Nat
        /\ DOMAIN listed = 1 .. Len(listed)
        /\ \A i \in DOMAIN watch' :
             watch'[i] = IF i <= Len(watch) THEN watch[i] ELSE listed[i - Len(watch)]
    BY <1>0, <1>5, <1>6, LenProperties, ConcatProperties
  <2>2. ASSUME NEW i \in DOMAIN watch'
        PROVE  \/ i \in DOMAIN watch /\ watch'[i] = watch[i]
               \/ \E j \in DOMAIN listed : watch'[i] = listed[j]
    <3>1. CASE i <= Len(watch)
      BY <2>1, <3>1
    <3>2. CASE ~(i <= Len(watch))
      <4>1. i - Len(watch) \in DOMAIN listed
        BY <2>1, <3>2
      <4> QED
        BY <2>1, <3>2, <4>1
    <3> QED
      BY <3>1, <3>2
  <2>3. \A j \in DOMAIN listed : listed[j].gen > 0 /\ listed[j].kind = "apply"
    BY <1>3, <1>5
  <2>4. \A i \in DOMAIN watch : /\ watch[i].running => watch[i].gen > 0
                                /\ watch[i].kind = "delete" => ~watch[i].running
    BY DEF FollowInv
  <2> QED
    BY <2>2, <2>3, <2>4
<1>8. ASSUME NEW p \in Pods
      PROVE  Believed(p)' <=> IF phase[p] = "absent" THEN Believed(p) ELSE phase[p] = "running"
  <2>1. Believed(p)' <=> BelievedIn(watch \o listed, running_pods[p] # NotRunning, p)
    BY <1>0, <1>5 DEF Believed, BelievedIn, Last
  <2>2. CASE phase[p] = "absent"
    <3>1. \A i \in DOMAIN listed : listed[i].pod # p
      BY <1>3, <1>5, <2>2
    <3> QED
      BY <1>0, <1>6, <2>1, <2>2, <3>1, BelievedIsIn, BelievedList
  <2>3. CASE phase[p] # "absent"
    <3>1. PICK i \in 1 .. n : list[i] = p
      BY <1>4, <2>3
    <3>2. \A j \in DOMAIN listed : listed[j].pod = p <=> j = i
      BY <1>2, <1>3, <1>5, <3>1
    <3>3. BelievedIn(watch \o listed, running_pods[p] # NotRunning, p) <=> listed[i].running
      <4> DEFINE known == running_pods[p] # NotRunning
      <4>1. i \in DOMAIN listed
        BY <1>5, <3>1
      <4> HIDE DEF known
      <4>2. \A j \in DOMAIN listed : (\A k \in DOMAIN listed : listed[k].pod = p <=> k = j) =>
              (BelievedIn(watch \o listed, known, p) <=> listed[j].running)
        BY <1>0, <1>6, BelievedList
      <4>3. BelievedIn(watch \o listed, known, p) <=> listed[i].running
        BY <3>2, <4>1, <4>2, Zenon
      <4> QED
        BY <4>3 DEF known
    <3>4. listed[i].running <=> phase[p] = "running"
      BY <1>3, <1>5, <3>1
    <3> QED
      BY <2>1, <2>3, <3>3, <3>4
  <2> QED
    BY <2>2, <2>3
<1>9. PodsFollowCluster'
  <2>1. ASSUME NEW p \in Pods \ ExcludedPods
        PROVE  (Believed(p)' <=> phase[p] = "running") \/ (p \in unseen /\ Believed(p)')
    BY <1>0, <1>8 DEF FollowInv
  <2>2. \A p \in Pods : Believed(p)' \in BOOLEAN
    BY DEF Believed
  <2> QED
    BY <1>0, <2>1, <2>2 DEF PodsFollowCluster
<1> QED
  BY <1>0, <1>7, <1>9 DEF FollowInv

\* An event is handled: what is believed does not change.
LEMMA EventFollows ==
  ASSUME TableInv, FollowInv, OnRunning \/ OnNotRunning \/ OnDelete
  PROVE  FollowInv'
<1> DEFINE e == Head(watch)
<1>1. /\ watch \in Seq(EventSet) /\ watch # <<>> /\ watch' = Tail(watch) /\ e.pod \in Pods
      /\ running_pods \in [Pods -> Nat] /\ e.gen \in Nat
      /\ UNCHANGED <<phase, gen, watching, unseen>>
  BY TableTypes, EventTypes DEF OnRunning, OnNotRunning, OnDelete, NextEvent, clusterVars
<1>2. \A i \in DOMAIN watch : /\ watch[i].running => watch[i].gen > 0
                              /\ watch[i].kind = "delete" => ~watch[i].running
  BY DEF FollowInv
<1>3. /\ e = watch[1] /\ 1 \in DOMAIN watch
      /\ \A i \in DOMAIN watch' : \E j \in DOMAIN watch : watch'[i] = watch[j]
  <2>1. /\ DOMAIN watch = 1 .. Len(watch) /\ Len(watch) \in Nat /\ Len(watch) # 0
        /\ DOMAIN watch' = 1 .. (Len(watch) - 1) /\ e = watch[1]
        /\ \A i \in 1 .. (Len(watch) - 1) : watch'[i] = watch[i + 1]
    BY <1>1, LenProperties, EmptySeq, HeadTailProperties
  <2>2. \A i \in DOMAIN watch' : i + 1 \in DOMAIN watch
    BY <2>1
  <2> QED
    BY <2>1, <2>2
<1> HIDE DEF e
<1>4. ASSUME e.pod \notin ExcludedPods
      PROVE  /\ running_pods'[e.pod] # NotRunning <=> e.running
             /\ \A p \in Pods \ {e.pod} : running_pods'[p] = running_pods[p]
  <2>1. CASE OnRunning
    <3>1. running_pods' = [running_pods EXCEPT ![e.pod] = e.gen] /\ e.running
      BY <1>4, <2>1 DEF OnRunning, e
    <3>2. e.gen # NotRunning
      BY <1>1, <1>2, <1>3, <3>1 DEF NotRunning
    <3> QED
      BY <1>1, <3>1, <3>2
  <2>2. CASE OnNotRunning
    <3>1. running_pods' = [running_pods EXCEPT ![e.pod] = NotRunning] /\ ~e.running
      BY <2>2 DEF OnNotRunning, e
    <3> QED
      BY <1>1, <3>1
  <2>3. CASE OnDelete
    <3>1. running_pods' = [running_pods EXCEPT ![e.pod] = NotRunning] /\ e.kind = "delete"
      BY <2>3 DEF OnDelete, NextEvent, e
    <3>2. ~e.running
      BY <1>2, <1>3, <3>1
    <3> QED
      BY <1>1, <3>1, <3>2
  <2> QED
    BY <2>1, <2>2, <2>3
<1>5. ASSUME e.pod \in ExcludedPods, NEW p \in Pods \ {e.pod}
      PROVE  running_pods'[p] = running_pods[p]
  BY <1>1, <1>5 DEF OnRunning, OnNotRunning, OnDelete, e
<1>6. ASSUME NEW p \in Pods \ ExcludedPods
      PROVE  Believed(p)' <=> Believed(p)
  <2>1. Believed(p)' <=> BelievedIn(Tail(watch), running_pods'[p] # NotRunning, p)
    BY <1>1 DEF Believed, BelievedIn, Last
  <2>2. IF e.pod = p THEN running_pods'[p] # NotRunning <=> e.running
                     ELSE running_pods'[p] # NotRunning <=> running_pods[p] # NotRunning
    BY <1>4, <1>5, <1>6
  <2>3. BelievedIn(Tail(watch), running_pods'[p] # NotRunning, p) <=>
          BelievedIn(watch, running_pods[p] # NotRunning, p)
    <3>1. IF Head(watch).pod = p
            THEN running_pods'[p] # NotRunning <=> Head(watch).running
            ELSE running_pods'[p] # NotRunning <=> running_pods[p] # NotRunning
      BY <2>2 DEF e
    <3> QED
      BY <1>1, <3>1, BelievedTail
  <2> QED
    BY <2>1, <2>3, BelievedIsIn
<1>7. \A i \in DOMAIN watch' : /\ watch'[i].running => watch'[i].gen > 0
                               /\ watch'[i].kind = "delete" => ~watch'[i].running
  BY <1>2, <1>3
<1>8. PodsFollowCluster'
  <2>1. \A p \in Pods : Believed(p) \in BOOLEAN /\ Believed(p)' \in BOOLEAN
    BY DEF Believed
  <2> QED
    BY <1>1, <1>6, <2>1 DEF FollowInv, PodsFollowCluster
<1> QED
  BY <1>1, <1>6, <1>7, <1>8 DEF FollowInv

\* No step makes the table lose the cluster.
LEMMA NextFollows == TableInv /\ FollowInv /\ [Next]_vars => FollowInv'
<1> SUFFICES ASSUME TableInv, FollowInv, [Next]_vars PROVE FollowInv'
  OBVIOUS
<1>1. ASSUME UNCHANGED <<clusterVars, watch, running_pods>> PROVE FollowInv'
  <2>1. UNCHANGED <<phase, gen, watching, unseen, watch, running_pods>>
    BY <1>1 DEF clusterVars
  <2>2. \A p \in Pods : /\ Believed(p)' <=> Believed(p)
                        /\ Believed(p)' \in BOOLEAN /\ Believed(p) \in BOOLEAN
    BY <2>1 DEF Believed
  <2>3. PodsFollowCluster'
    BY <2>1, <2>2 DEF FollowInv, PodsFollowCluster
  <2> QED
    BY <2>1, <2>2, <2>3 DEF FollowInv
<1>2. CASE EnvironmentStep
  BY <1>2, ChangeFollows, LostFollows, ListFollows DEF EnvironmentStep
<1>3. CASE LoopStep
  BY <1>1, <1>3, EventFollows DEF LoopStep, Reconcile, try_start, EndPod, BeginPod, tableVars
<1>4. CASE \E s \in Slots : TaskStep(s) \/ \E x \in StreamNames : StreamEnds(s, x)
  BY <1>1, <1>4 DEF TaskStep, TaskRuns, TaskEnds, TaskCancelled, StreamEnds, tableVars
<1>5. CASE UNCHANGED vars
  BY <1>1, <1>5 DEF vars, tableVars
<1> QED
  BY <1>2, <1>3, <1>4, <1>5 DEF Next

\* There is nothing to follow at first.
LEMMA InitFollows == Init => FollowInv
<1> SUFFICES ASSUME Init PROVE FollowInv
  OBVIOUS
<1>1. \A p \in Pods : ~Believed(p)
  BY DEF Init, Believed, NotRunning
<1>2. \A p \in Pods : phase[p] # "absent" => gen[p] > 0
  BY DEF Init
<1>3. watch = <<>> /\ ~watching
  BY DEF Init
<1> QED
  BY <1>1, <1>2, <1>3 DEF FollowInv, PodsFollowCluster

-----------------------------------------------------------------------------
(* The last lines of a pod.                                                *)

\* The events of a pod are in the order of its creations, which a deletion ends,
\* and what the loop knows and did is not ahead of those that wait.
OrderInv ==
  /\ \A i, j \in DOMAIN watch :
       i < j /\ watch[i].pod = watch[j].pod =>
         /\ watch[i].gen <= watch[j].gen
         /\ watch[i].kind = "delete" /\ watch[j].running => watch[i].gen < watch[j].gen
  /\ \A i \in DOMAIN watch :
       /\ running_pods[watch[i].pod] <= watch[i].gen /\ tailed[watch[i].pod] <= watch[i].gen
       /\ watch[i].gen <= gen[watch[i].pod]
       /\ watch[i].kind = "delete" /\ phase[watch[i].pod] # "absent" =>
            watch[i].gen < gen[watch[i].pod]
  /\ \A p \in Pods : running_pods[p] <= gen[p] /\ tailed[p] <= gen[p]

\* Nobody has asked for the last lines of the creation of p that the loop knows,
\* that an event says runs, or that there is.
Fresh(p) ==
  /\ running_pods[p] # NotRunning => tailed[p] < running_pods[p]
  /\ \A i \in DOMAIN watch : watch[i].pod = p /\ watch[i].running => tailed[p] < watch[i].gen
  /\ phase[p] # "absent" => tailed[p] < gen[p]

\* So it is with every pod that may be asked, unless a pass is at it and has begun.
FreshInv ==
  \A p \in Pods : p \notin initialized /\ ~(pass.pod = p /\ pass.started) => Fresh(p)

\* A pass is over pods known to run, and asks for the last lines of those only that may
\* be asked.
PassInv ==
  /\ \A p \in pass.pods : running_pods[p] # NotRunning
  /\ pass.pod # NoPod =>
       running_pods[pass.pod] # NotRunning /\ (pass.tail => pass.pod \notin initialized)

\* Events are added to those that wait.
LEMMA GrowthOrders ==
  ASSUME TableInv, OrderInv, FreshInv, PassInv, NEW n \in Nat, DOMAIN watch = 1 .. n,
         watch' \in Seq(EventSet), gen' \in [Pods -> Nat],
         \A k \in DOMAIN watch' : k \in Nat /\ (k <= n => k \in DOMAIN watch /\ watch'[k] = watch[k]),
         \A k \in DOMAIN watch' : n < k =>
           /\ watch'[k].gen = gen'[watch'[k].pod]
           /\ watch'[k].kind = "delete" => phase'[watch'[k].pod] = "absent"
           /\ watch'[k].running => phase'[watch'[k].pod] # "absent",
         \A i, j \in DOMAIN watch' : n < i /\ i < j => watch'[i].pod # watch'[j].pod,
         \A p \in Pods : gen[p] <= gen'[p],
         \A p \in Pods : phase'[p] # "absent" =>
           gen[p] < gen'[p] \/ (phase[p] # "absent" /\ gen'[p] = gen[p]),
         UNCHANGED <<running_pods, initialized, tailed, pass>>
  PROVE  OrderInv' /\ FreshInv' /\ PassInv'
<1>1. /\ gen \in [Pods -> Nat] /\ running_pods \in [Pods -> Nat] /\ tailed \in [Pods -> Nat]
      /\ watch \in Seq(EventSet)
  BY TableTypes DEF TableInv, KubeTypeOK
<1>2. /\ \A k \in DOMAIN watch : watch[k].pod \in Pods /\ watch[k].gen \in Nat
      /\ \A k \in DOMAIN watch' : watch'[k].pod \in Pods /\ watch'[k].gen \in Nat
  <2>1. watch \in [1 .. Len(watch) -> EventSet] /\ watch' \in [1 .. Len(watch') -> EventSet]
    BY <1>1, LenProperties
  <2> QED
    BY <2>1 DEF EventSet
<1>3. \A p \in Pods : running_pods[p] <= gen[p] /\ tailed[p] <= gen[p]
  BY DEF OrderInv
<1>4. ASSUME NEW k \in DOMAIN watch'
      PROVE  LET p == watch'[k].pod IN
             /\ running_pods[p] <= watch'[k].gen /\ tailed[p] <= watch'[k].gen
             /\ watch'[k].gen <= gen'[p]
             /\ watch'[k].kind = "delete" /\ phase'[p] # "absent" => watch'[k].gen < gen'[p]
  <2> DEFINE p == watch'[k].pod
             g == watch'[k].gen
  <2>1. p \in Pods /\ g \in Nat /\ gen[p] \in Nat /\ gen'[p] \in Nat /\ gen[p] <= gen'[p]
        /\ running_pods[p] \in Nat /\ tailed[p] \in Nat
    BY <1>1, <1>2
  <2>2. CASE k <= n
    <3>1. /\ running_pods[p] <= g /\ tailed[p] <= g /\ g <= gen[p]
          /\ watch'[k].kind = "delete" /\ phase[p] # "absent" => g < gen[p]
      BY <2>2 DEF OrderInv
    <3>2. phase'[p] # "absent" => gen[p] < gen'[p] \/ (phase[p] # "absent" /\ gen'[p] = gen[p])
      BY <2>1
    <3> HIDE DEF p, g
    <3>3. /\ running_pods[p] <= g /\ tailed[p] <= g /\ g <= gen'[p]
          /\ watch'[k].kind = "delete" /\ phase'[p] # "absent" => g < gen'[p]
      BY <2>1, <3>1, <3>2
    <3> QED
      BY <3>3 DEF p, g
  <2>3. CASE n < k
    <3>1. /\ g = gen'[p] /\ (watch'[k].kind = "delete" => phase'[p] = "absent")
      BY <2>3
    <3>2. running_pods[p] <= gen[p] /\ tailed[p] <= gen[p]
      BY <1>3, <2>1
    <3> HIDE DEF p, g
    <3>3. /\ running_pods[p] <= g /\ tailed[p] <= g /\ g <= gen'[p]
          /\ watch'[k].kind = "delete" /\ phase'[p] # "absent" => g < gen'[p]
      BY <2>1, <3>1, <3>2
    <3> QED
      BY <3>3 DEF p, g
  <2>4. k \in Nat
    OBVIOUS
  <2> QED
    BY <2>2, <2>3, <2>4
<1>5. ASSUME NEW i \in DOMAIN watch', NEW j \in DOMAIN watch', i < j,
             watch'[i].pod = watch'[j].pod
      PROVE  /\ watch'[i].gen <= watch'[j].gen
             /\ watch'[i].kind = "delete" /\ watch'[j].running => watch'[i].gen < watch'[j].gen
  <2>1. i \in Nat /\ j \in Nat
    OBVIOUS
  <2>2. CASE j <= n
    <3>1. i <= n
      BY <1>5, <2>1, <2>2
    <3> QED
      BY <1>5, <2>2, <3>1 DEF OrderInv
  <2>3. CASE n < j
    <3>1. watch'[j].gen = gen'[watch'[j].pod]
          /\ (watch'[j].running => phase'[watch'[j].pod] # "absent")
      BY <2>3
    <3> QED
      BY <1>4, <1>5, <3>1
  <2> QED
    BY <2>1, <2>2, <2>3
<1>6. OrderInv'
  <2>1. \A p \in Pods : running_pods'[p] <= gen'[p] /\ tailed'[p] <= gen'[p]
    BY <1>1, <1>3
  <2> QED
    BY <1>4, <1>5, <2>1 DEF OrderInv
<1>7. ASSUME NEW p \in Pods, Fresh(p) PROVE Fresh(p)'
  <2>1. running_pods'[p] # NotRunning => tailed'[p] < running_pods'[p]
    BY <1>7 DEF Fresh
  <2>2. phase'[p] # "absent" => tailed[p] < gen'[p]
    <3>1. /\ gen[p] \in Nat /\ gen'[p] \in Nat /\ tailed[p] \in Nat /\ tailed[p] <= gen[p]
          /\ phase'[p] # "absent" =>
               gen[p] < gen'[p] \/ (phase[p] # "absent" /\ gen'[p] = gen[p])
          /\ phase[p] # "absent" => tailed[p] < gen[p]
      BY <1>1, <1>3, <1>7 DEF Fresh
    <3> QED
      BY <3>1
  <2>3. ASSUME NEW k \in DOMAIN watch', watch'[k].pod = p, watch'[k].running
        PROVE  tailed[p] < watch'[k].gen
    <3>1. CASE k <= n
      BY <1>7, <2>3, <3>1 DEF Fresh
    <3>2. CASE n < k
      BY <2>2, <2>3, <3>2
    <3> QED
      BY <3>1, <3>2
  <2> QED
    BY <2>1, <2>2, <2>3 DEF Fresh
<1>8. FreshInv' /\ PassInv'
  BY <1>7 DEF FreshInv, PassInv
<1> QED
  BY <1>6, <1>8

\* The cluster and the watch.
LEMMA EnvironmentOrders ==
  ASSUME TableInv, OrderInv, FreshInv, PassInv, EnvironmentStep
  PROVE  OrderInv' /\ FreshInv' /\ PassInv'
<1>1. /\ phase \in [Pods -> {"absent", "running", "stopped"}] /\ gen \in [Pods -> Nat]
      /\ watch \in Seq(EventSet)
  BY TableTypes DEF TableInv, KubeTypeOK
<1> DEFINE n == Len(watch)
<1>2. n \in Nat /\ DOMAIN watch = 1 .. n
  BY <1>1, LenProperties
<1> HIDE DEF n
<1>3. CASE WatchLost
  <2>1. UNCHANGED <<phase, gen, watch, running_pods, initialized, tailed, pass>>
    BY <1>3 DEF WatchLost, tableVars
  <2>2. \A p \in Pods : Fresh(p)' = Fresh(p)
    BY <2>1 DEF Fresh
  <2> QED
    BY <2>1, <2>2 DEF OrderInv, FreshInv, PassInv
<1>4. ASSUME NEW p \in Pods, NEW to \in {"absent", "running", "stopped"}, PodChanges(p, to)
      PROVE  OrderInv' /\ FreshInv' /\ PassInv'
  <2> DEFINE e == [kind |-> IF to = "absent" THEN "delete" ELSE "apply", pod |-> p,
                   running |-> to = "running", gen |-> gen'[p]]
  <2>1. /\ phase' = [phase EXCEPT ![p] = to] /\ phase[p] # to
        /\ gen' = [gen EXCEPT ![p] = IF phase[p] = "absent" THEN @ + 1 ELSE @]
        /\ watch' = IF watching THEN Append(watch, e) ELSE watch
        /\ UNCHANGED <<running_pods, initialized, tailed, pass>>
    BY <1>4 DEF PodChanges, tableVars
  <2>2. gen' \in [Pods -> Nat] /\ \A q \in Pods : gen[q] <= gen'[q]
    BY <1>1, <2>1
  <2>3. \A q \in Pods : phase'[q] # "absent" =>
          gen[q] < gen'[q] \/ (phase[q] # "absent" /\ gen'[q] = gen[q])
    BY <1>1, <2>1
  <2>4. (to = "running") \in BOOLEAN
    OBVIOUS
  <2>5. /\ e \in EventSet /\ e.pod = p /\ e.gen = gen'[p]
        /\ (e.kind = "delete" => to = "absent") /\ (e.running => to # "absent")
    BY <2>2, <2>4 DEF EventSet
  <2>6. phase'[p] = to
    BY <1>1, <2>1
  <2> HIDE DEF e
  <2>7. CASE ~ watching
    <3>1. watch' = watch
      BY <2>1, <2>7
    <3>2. \A k \in DOMAIN watch' :
            k \in Nat /\ (k <= n => k \in DOMAIN watch /\ watch'[k] = watch[k]) /\ ~ (n < k)
      BY <1>2, <3>1
    <3> QED
      BY <1>1, <1>2, <2>1, <2>2, <2>3, <3>1, <3>2, GrowthOrders
  <2>8. CASE watching
    <3>1. /\ watch' \in Seq(EventSet) /\ Len(watch') = n + 1 /\ watch'[n + 1] = e
          /\ \A k \in 1 .. n : watch'[k] = watch[k]
      BY <1>1, <2>1, <2>5, <2>8, AppendProperties DEF n
    <3>2. DOMAIN watch' = 1 .. n + 1
      BY <3>1, LenProperties
    <3>3. \A k \in 1 .. n + 1 : k \in Nat /\ (k <= n => k \in 1 .. n) /\ (n < k => k = n + 1)
      BY <1>2
    <3>4. \A k \in DOMAIN watch' :
            k \in Nat /\ (k <= n => k \in DOMAIN watch /\ watch'[k] = watch[k])
      BY <1>2, <3>1, <3>2, <3>3
    <3>5. \A k \in DOMAIN watch' : n < k =>
            /\ watch'[k].gen = gen'[watch'[k].pod]
            /\ watch'[k].kind = "delete" => phase'[watch'[k].pod] = "absent"
            /\ watch'[k].running => phase'[watch'[k].pod] # "absent"
      BY <2>5, <2>6, <3>1, <3>2, <3>3
    <3>6. \A i, j \in DOMAIN watch' : n < i /\ i < j => watch'[i].pod # watch'[j].pod
      <4>1. \A i, j \in 1 .. n + 1 : ~ (n < i /\ i < j)
        BY <1>2
      <4> QED
        BY <3>2, <4>1
    <3> QED
      BY <1>2, <2>1, <2>2, <2>3, <3>1, <3>4, <3>5, <3>6, GrowthOrders
  <2> QED
    BY <2>7, <2>8
<1>5. CASE WatchLists
  <2> DEFINE there == {p \in Pods : phase[p] # "absent"}
             m == Cardinality(there)
  <2>1. PICK list \in [1 .. m -> there] :
          /\ \A i, j \in DOMAIN list : list[i] = list[j] => i = j
          /\ watch' = watch \o [i \in DOMAIN list |-> Event("apply", list[i])]
    BY <1>5 DEF WatchLists
  <2>2. UNCHANGED <<phase, gen, running_pods, initialized, tailed, pass>>
    BY <1>5 DEF WatchLists, tableVars
  <2>3. m \in Nat
    BY PodsAssumption, FS_Subset, FS_CardinalityType
  <2>4. \A p \in there : p \in Pods /\ phase[p] # "absent"
    OBVIOUS
  <2> HIDE DEF m, there
  <2> DEFINE l == [i \in DOMAIN list |-> Event("apply", list[i])]
  <2>5. ASSUME NEW i \in 1 .. m
        PROVE  /\ l[i] \in EventSet /\ l[i].pod = list[i] /\ l[i].gen = gen[list[i]]
               /\ l[i].kind = "apply" /\ phase[list[i]] # "absent" /\ list[i] \in Pods
    <3>1. list[i] \in Pods /\ phase[list[i]] # "absent" /\ gen[list[i]] \in Nat
      BY <1>1, <2>4
    <3>2. (phase[list[i]] = "running") \in BOOLEAN
      OBVIOUS
    <3>3. l[i] = [kind |-> "apply", pod |-> list[i], running |-> phase[list[i]] = "running",
                  gen |-> gen[list[i]]]
      BY DEF Event
    <3> HIDE DEF l
    <3> QED
      BY <3>1, <3>2, <3>3 DEF EventSet
  <2>6. l \in Seq(EventSet) /\ Len(l) = m
    <3>1. l \in [1 .. m -> EventSet]
      BY <2>5
    <3>2. l \in Seq(EventSet)
      BY <2>3, <3>1, SeqDef
    <3>3. DOMAIN l = 1 .. m /\ DOMAIN l = 1 .. Len(l) /\ Len(l) \in Nat
      BY <3>1, <3>2, LenProperties
    <3> QED
      BY <2>3, <3>2, <3>3
  <2> HIDE DEF l
  <2>7. /\ watch' \in Seq(EventSet) /\ Len(watch') = n + m
        /\ \A k \in 1 .. n + m : watch'[k] = IF k <= n THEN watch[k] ELSE l[k - n]
    BY <1>1, <2>1, <2>6, ConcatProperties DEF n, l
  <2>8. DOMAIN watch' = 1 .. n + m
    BY <2>7, LenProperties
  <2>9. \A k \in 1 .. n + m :
          k \in Nat /\ (k <= n => k \in 1 .. n) /\ (n < k => k - n \in 1 .. m /\ ~ (k <= n))
    BY <1>2, <2>3
  <2>10. \A k \in DOMAIN watch' :
           k \in Nat /\ (k <= n => k \in DOMAIN watch /\ watch'[k] = watch[k])
    BY <1>2, <2>7, <2>8, <2>9
  <2>11. \A k \in DOMAIN watch' : n < k => watch'[k] = l[k - n] /\ k - n \in 1 .. m
    BY <2>7, <2>8, <2>9
  <2>12. \A k \in DOMAIN watch' : n < k =>
           /\ watch'[k].gen = gen'[watch'[k].pod]
           /\ watch'[k].kind = "delete" => phase'[watch'[k].pod] = "absent"
           /\ watch'[k].running => phase'[watch'[k].pod] # "absent"
    BY <2>2, <2>5, <2>11
  <2>13. ASSUME NEW i \in DOMAIN watch', NEW j \in DOMAIN watch', n < i, i < j
         PROVE  watch'[i].pod # watch'[j].pod
    <3>1. n < j /\ i - n # j - n
      BY <1>2, <2>3, <2>8, <2>13
    <3>2. watch'[i].pod = list[i - n] /\ watch'[j].pod = list[j - n]
      BY <2>5, <2>11, <2>13, <3>1
    <3>3. i - n \in DOMAIN list /\ j - n \in DOMAIN list
      BY <2>11, <2>13, <3>1
    <3> QED
      BY <2>1, <3>1, <3>2, <3>3
  <2>14. \A p \in Pods : gen[p] <= gen'[p]
    BY <1>1, <2>2
  <2>15. \A p \in Pods : phase'[p] # "absent" =>
           gen[p] < gen'[p] \/ (phase[p] # "absent" /\ gen'[p] = gen[p])
    BY <2>2
  <2>16. gen' \in [Pods -> Nat]
    BY <1>1, <2>2
  <2> QED
    BY <1>2, <2>2, <2>7, <2>10, <2>12, <2>13, <2>14, <2>15, <2>16, GrowthOrders
<1> QED
  BY <1>3, <1>4, <1>5 DEF EnvironmentStep

\* An event is taken: those that wait are the rest of them.
LEMMA TakenOrders ==
  ASSUME TableInv, OrderInv, NEW kind, NextEvent(kind)
  PROVE  LET e == Head(watch) IN
         /\ e \in EventSet /\ e = watch[1] /\ 1 \in DOMAIN watch /\ e.kind = kind
         /\ \A k \in DOMAIN watch' : k \in Nat /\ k + 1 \in DOMAIN watch /\ watch'[k] = watch[k + 1]
         /\ \A k \in DOMAIN watch' : watch'[k].pod \in Pods /\ watch'[k].gen \in Nat
         /\ \A k \in DOMAIN watch' : watch'[k].pod = e.pod =>
              e.gen <= watch'[k].gen /\ (e.kind = "delete" /\ watch'[k].running => e.gen < watch'[k].gen)
         /\ \A i, j \in DOMAIN watch' :
              i < j /\ watch'[i].pod = watch'[j].pod =>
                /\ watch'[i].gen <= watch'[j].gen
                /\ watch'[i].kind = "delete" /\ watch'[j].running => watch'[i].gen < watch'[j].gen
<1> DEFINE e == Head(watch)
           n == Len(watch) - 1
<1>1. /\ watch \in Seq(EventSet) /\ watch # <<>> /\ watch' = Tail(watch) /\ e.kind = kind
  BY TableTypes DEF NextEvent
<1>2. /\ e \in EventSet /\ e = watch[1] /\ watch' \in Seq(EventSet)
      /\ Len(watch') = n /\ Len(watch) \in Nat /\ Len(watch) # 0
      /\ \A k \in 1 .. Len(watch') : watch'[k] = watch[k + 1]
  BY <1>1, HeadTailProperties, LenProperties, EmptySeq
<1>3. DOMAIN watch = 1 .. Len(watch) /\ DOMAIN watch' = 1 .. n /\ Len(watch) = n + 1 /\ n \in Nat
  BY <1>1, <1>2, LenProperties
<1> HIDE DEF e, n
<1>4. \A k \in 1 .. n : k \in Nat /\ k + 1 \in 1 .. n + 1 /\ 1 < k + 1
  BY <1>3
<1>5. \A k \in DOMAIN watch' : k \in Nat /\ k + 1 \in DOMAIN watch /\ watch'[k] = watch[k + 1]
  BY <1>2, <1>3, <1>4
<1>6. 1 \in DOMAIN watch
  BY <1>3
<1>7. \A k \in DOMAIN watch' : watch'[k].pod \in Pods /\ watch'[k].gen \in Nat
  <2>1. watch' \in [1 .. n -> EventSet]
    BY <1>2, <1>3, LenProperties
  <2> QED
    BY <1>3, <2>1 DEF EventSet
<1>8. \A k \in DOMAIN watch' : watch'[k].pod = e.pod =>
        e.gen <= watch'[k].gen /\ (e.kind = "delete" /\ watch'[k].running => e.gen < watch'[k].gen)
  BY <1>2, <1>3, <1>4, <1>5, <1>6 DEF OrderInv
<1>9. ASSUME NEW i \in DOMAIN watch', NEW j \in DOMAIN watch', i < j,
             watch'[i].pod = watch'[j].pod
      PROVE  /\ watch'[i].gen <= watch'[j].gen
             /\ watch'[i].kind = "delete" /\ watch'[j].running => watch'[i].gen < watch'[j].gen
  <2>1. i + 1 < j + 1
    BY <1>5, <1>9
  <2> QED
    BY <1>5, <1>9, <2>1 DEF OrderInv
<1> QED
  BY <1>1, <1>2, <1>5, <1>6, <1>7, <1>8, <1>9 DEF e

\* What the loop comes to know of a pod is that it does not run, or the creation that
\* the event is about.
LEMMA KnownOrders ==
  ASSUME TableInv, OrderInv, NEW kind, NextEvent(kind),
         UNCHANGED <<phase, gen, tailed>>,
         running_pods' \in [Pods -> Nat],
         \A p \in Pods : \/ running_pods'[p] \in {running_pods[p], NotRunning}
                         \/ p = Head(watch).pod /\ running_pods'[p] = Head(watch).gen
  PROVE  OrderInv'
<1> DEFINE e == Head(watch)
<1>1. /\ e \in EventSet /\ e = watch[1] /\ 1 \in DOMAIN watch
      /\ \A k \in DOMAIN watch' : k \in Nat /\ k + 1 \in DOMAIN watch /\ watch'[k] = watch[k + 1]
      /\ \A k \in DOMAIN watch' : watch'[k].pod \in Pods /\ watch'[k].gen \in Nat
      /\ \A k \in DOMAIN watch' : watch'[k].pod = e.pod => e.gen <= watch'[k].gen
  BY TakenOrders
<1>2. \A i, j \in DOMAIN watch' :
              i < j /\ watch'[i].pod = watch'[j].pod =>
                /\ watch'[i].gen <= watch'[j].gen
                /\ watch'[i].kind = "delete" /\ watch'[j].running => watch'[i].gen < watch'[j].gen
  BY TakenOrders
<1>3. gen \in [Pods -> Nat] /\ running_pods \in [Pods -> Nat] /\ tailed \in [Pods -> Nat]
  BY TableTypes DEF TableInv, KubeTypeOK
<1>4. e.pod \in Pods /\ e.gen <= gen[e.pod]
  BY <1>1 DEF OrderInv, EventSet
<1> HIDE DEF e
<1>5. \A p \in Pods : running_pods'[p] <= gen[p]
  BY <1>3, <1>4 DEF OrderInv, NotRunning, e
<1>6. ASSUME NEW k \in DOMAIN watch' PROVE running_pods'[watch'[k].pod] <= watch'[k].gen
  <2> DEFINE p == watch'[k].pod
             g == watch'[k].gen
  <2>1. /\ p \in Pods /\ g \in Nat /\ running_pods[p] <= g /\ (p = e.pod => e.gen <= g)
    BY <1>1 DEF OrderInv
  <2>2. \/ running_pods'[p] \in {running_pods[p], NotRunning}
        \/ p = e.pod /\ running_pods'[p] = e.gen
    BY <2>1 DEF e
  <2> HIDE DEF p, g
  <2>3. running_pods'[p] <= g
    BY <2>1, <2>2 DEF NotRunning
  <2> QED
    BY <2>3 DEF p, g
<1>7. \A k \in DOMAIN watch' :
       /\ tailed[watch'[k].pod] <= watch'[k].gen
       /\ watch'[k].gen <= gen[watch'[k].pod]
       /\ watch'[k].kind = "delete" /\ phase[watch'[k].pod] # "absent" =>
            watch'[k].gen < gen[watch'[k].pod]
  BY <1>1 DEF OrderInv
<1> QED
  BY <1>2, <1>5, <1>6, <1>7 DEF OrderInv

\* The loop takes an event.
LEMMA EventOrders ==
  ASSUME TableInv, FollowInv, OrderInv, FreshInv, PassInv, OnRunning \/ OnNotRunning \/ OnDelete
  PROVE  OrderInv' /\ FreshInv' /\ PassInv'
<1> DEFINE e == Head(watch)
<1>1. PICK kind : NextEvent(kind)
  BY DEF OnRunning, OnNotRunning, OnDelete
<1>2. /\ e \in EventSet /\ e = watch[1] /\ 1 \in DOMAIN watch /\ e.pod \in Pods /\ e.gen \in Nat
      /\ pass = AtSelect
      /\ \A k \in DOMAIN watch' : k + 1 \in DOMAIN watch /\ watch'[k] = watch[k + 1]
      /\ \A k \in DOMAIN watch' : watch'[k].pod = e.pod /\ e.kind = "delete" /\ watch'[k].running =>
           e.gen < watch'[k].gen /\ watch'[k].gen \in Nat
  BY <1>1, TakenOrders DEF EventSet, NextEvent
<1>3. /\ gen \in [Pods -> Nat] /\ running_pods \in [Pods -> Nat] /\ tailed \in [Pods -> Nat]
      /\ (e.running => e.gen > 0)
  BY <1>2, TableTypes DEF TableInv, KubeTypeOK, FollowInv
<1>4. UNCHANGED <<phase, gen, tailed>>
  BY DEF OnRunning, OnNotRunning, OnDelete, clusterVars
<1>5. pass.pod = NoPod /\ pass.pods = {} /\ ~ pass.started
  BY <1>2 DEF AtSelect
<1>6. /\ tailed[e.pod] <= e.gen
      /\ e.kind = "delete" /\ phase[e.pod] # "absent" => e.gen < gen[e.pod]
  BY <1>2 DEF OrderInv
<1> HIDE DEF e
<1>7. ASSUME NEW p \in Pods, Fresh(p),
             running_pods'[p] # NotRunning => tailed[p] < running_pods'[p]
      PROVE  Fresh(p)'
  BY <1>2, <1>4, <1>7 DEF Fresh
<1>8. NoPod \notin Pods
  BY PodsAssumption
<1>9. CASE OnRunning
  <2>1. e.running /\ UNCHANGED initialized
    BY <1>9 DEF OnRunning, e
  <2>2. CASE e.pod \in ExcludedPods
    <3>1. UNCHANGED <<running_pods, pass>>
      BY <1>9, <2>2 DEF OnRunning, e
    <3>2. OrderInv'
      BY <1>1, <1>3, <1>4, <3>1, KnownOrders
    <3>3. \A p \in Pods : Fresh(p) => Fresh(p)'
      BY <1>7, <3>1 DEF Fresh
    <3> QED
      BY <2>1, <3>1, <3>2, <3>3 DEF FreshInv, PassInv
  <2>3. CASE e.pod \notin ExcludedPods
    <3>1. /\ running_pods' = [running_pods EXCEPT ![e.pod] = e.gen]
          /\ pass' = [AtSelect EXCEPT !.pods = {e.pod}]
      BY <1>9, <2>3 DEF OnRunning, e
    <3>2. OrderInv'
      BY <1>1, <1>2, <1>3, <1>4, <3>1, KnownOrders DEF e
    <3>3. ASSUME NEW p \in Pods, Fresh(p) PROVE Fresh(p)'
      <4>1. p = e.pod => tailed[p] < e.gen
        BY <1>2, <2>1, <3>3 DEF Fresh
      <4>2. running_pods'[p] # NotRunning => tailed[p] < running_pods'[p]
        BY <1>3, <3>1, <3>3, <4>1 DEF Fresh
      <4> QED
        BY <1>7, <3>3, <4>2
    <3>4. FreshInv'
      BY <1>5, <2>1, <3>3 DEF FreshInv
    <3>5. pass'.pod = NoPod /\ pass'.pods = {e.pod} /\ running_pods'[e.pod] # NotRunning
      BY <1>2, <1>3, <2>1, <3>1 DEF AtSelect, NotRunning
    <3> QED
      BY <3>2, <3>4, <3>5 DEF PassInv
  <2> QED
    BY <2>2, <2>3
<1>10. CASE OnNotRunning
  <2>1. /\ running_pods' = [running_pods EXCEPT ![e.pod] = NotRunning]
        /\ UNCHANGED <<initialized, pass>>
    BY <1>10 DEF OnNotRunning, e
  <2>2. OrderInv'
    BY <1>1, <1>2, <1>3, <1>4, <2>1, KnownOrders DEF e, NotRunning
  <2>3. ASSUME NEW p \in Pods, Fresh(p) PROVE Fresh(p)'
    <3>1. running_pods'[p] # NotRunning => tailed[p] < running_pods'[p]
      BY <1>3, <2>1, <2>3 DEF Fresh
    <3> QED
      BY <1>7, <2>3, <3>1
  <2> QED
    BY <1>5, <2>1, <2>2, <2>3 DEF FreshInv, PassInv
<1>11. CASE OnDelete
  <2>1. /\ running_pods' = [running_pods EXCEPT ![e.pod] = NotRunning]
        /\ initialized' = initialized \ {e.pod} /\ UNCHANGED pass
        /\ e.kind = "delete"
    BY <1>11 DEF OnDelete, NextEvent, e
  <2>2. OrderInv'
    BY <1>1, <1>2, <1>3, <1>4, <2>1, KnownOrders DEF e, NotRunning
  <2>3. ASSUME NEW p \in Pods, p = e.pod PROVE Fresh(p)'
    <3>1. running_pods'[p] = NotRunning
      BY <1>3, <2>1, <2>3
    <3>2. \A k \in DOMAIN watch' : watch'[k].pod = p /\ watch'[k].running =>
            tailed[p] < watch'[k].gen
      BY <1>2, <1>3, <1>6, <2>1, <2>3
    <3>3. phase[p] # "absent" => tailed[p] < gen[p]
      BY <1>2, <1>3, <1>6, <2>1, <2>3
    <3> QED
      BY <1>4, <3>1, <3>2, <3>3 DEF Fresh
  <2>4. ASSUME NEW p \in Pods, p # e.pod, Fresh(p) PROVE Fresh(p)'
    <3>1. running_pods'[p] # NotRunning => tailed[p] < running_pods'[p]
      BY <1>3, <2>1, <2>4 DEF Fresh
    <3> QED
      BY <1>7, <2>4, <3>1
  <2> QED
    BY <1>5, <2>1, <2>2, <2>3, <2>4 DEF FreshInv, PassInv
<1> QED
  BY <1>9, <1>10, <1>11

\* A pass begins, goes through the containers of a pod, and goes on.
LEMMA PassOrders ==
  ASSUME TableInv, OrderInv, FreshInv, PassInv, Reconcile \/ try_start \/ EndPod \/ \E p \in Pods : BeginPod(p)
  PROVE  OrderInv' /\ FreshInv' /\ PassInv'
<1>1. UNCHANGED <<phase, gen, watch, running_pods>>
  BY DEF Reconcile, try_start, EndPod, BeginPod, clusterVars, tableVars
<1>2. /\ pass \in [pods : SUBSET Pods, pod : Pods \cup {NoPod},
                   keys : Seq(UNION {KeysOf(p) : p \in Pods}), tail : BOOLEAN, started : BOOLEAN]
      /\ tailed \in [Pods -> Nat] /\ running_pods \in [Pods -> Nat] /\ NoPod \notin Pods
  BY TableTypes, PodsAssumption
<1>3. ASSUME UNCHANGED tailed PROVE OrderInv' /\ \A p \in Pods : Fresh(p)' = Fresh(p)
  BY <1>1, <1>3 DEF OrderInv, Fresh
<1>4. CASE Reconcile
  <2>1. /\ pass = AtSelect /\ UNCHANGED <<initialized, tailed>>
        /\ pass' = [AtSelect EXCEPT !.pods = {p \in Pods : running_pods[p] # NotRunning}]
    BY <1>4 DEF Reconcile
  <2>2. /\ pass'.pod = NoPod /\ pass.pod = NoPod
        /\ pass'.pods = {p \in Pods : running_pods[p] # NotRunning}
    BY <2>1 DEF AtSelect
  <2> QED
    BY <1>1, <1>2, <1>3, <2>1, <2>2 DEF FreshInv, PassInv
<1>5. ASSUME NEW p \in Pods, BeginPod(p) PROVE OrderInv' /\ FreshInv' /\ PassInv'
  <2>1. /\ pass.pod = NoPod /\ p \in pass.pods /\ UNCHANGED <<initialized, tailed>>
        /\ pass' = [pods |-> pass.pods \ {p}, pod |-> p, keys |-> keys_for_pod(p),
                    tail |-> asks_tail(p), started |-> FALSE]
    BY <1>5 DEF BeginPod, tableVars
  <2>2. /\ pass'.pod = p /\ pass'.started = FALSE /\ pass'.pods = pass.pods \ {p}
        /\ pass'.tail => p \notin initialized
    BY <2>1 DEF asks_tail
  <2>3. running_pods[p] # NotRunning
    BY <2>1 DEF PassInv
  <2>4. PassInv'
    BY <1>1, <2>1, <2>2, <2>3 DEF PassInv
  <2>5. FreshInv'
    BY <1>2, <1>3, <2>1 DEF FreshInv
  <2> QED
    BY <1>3, <2>1, <2>4, <2>5
<1>6. CASE EndPod
  <2>1. /\ pass.pod # NoPod /\ pass' = [AtSelect EXCEPT !.pods = pass.pods] /\ UNCHANGED tailed
        /\ initialized' = IF pass.started THEN initialized \cup {pass.pod} ELSE initialized
    BY <1>6 DEF EndPod
  <2>2. pass'.pod = NoPod /\ pass'.pods = pass.pods
    BY <2>1 DEF AtSelect
  <2>3. FreshInv'
    BY <1>2, <1>3, <2>1 DEF FreshInv
  <2> QED
    BY <1>1, <1>3, <2>1, <2>2, <2>3 DEF PassInv
<1>7. CASE try_start
  <2>1. /\ pass.pod # NoPod /\ UNCHANGED initialized
        /\ \/ pass' = [pass EXCEPT !.keys = Tail(@)] /\ UNCHANGED tailed
           \/ /\ pass' = [pass EXCEPT !.keys = Tail(@), !.started = TRUE]
              /\ tailed' = IF pass.tail THEN [tailed EXCEPT ![pass.pod] = running_pods[pass.pod]]
                                        ELSE tailed
    BY <1>7 DEF try_start, StartTask
  <2>2. /\ pass'.pod = pass.pod /\ pass'.pods = pass.pods /\ pass'.tail = pass.tail
        /\ pass'.started = pass.started \/ pass'.started = TRUE
    BY <1>2, <2>1
  <2>3. PassInv'
    BY <1>1, <2>1, <2>2 DEF PassInv
  <2>4. ASSUME NEW p \in Pods PROVE tailed'[p] \in {tailed[p], running_pods[p]}
    BY <1>2, <2>1
  <2>5. ASSUME NEW p \in Pods, tailed'[p] # tailed[p] PROVE pass'.pod = p /\ pass'.started
    BY <1>2, <2>1, <2>2, <2>5
  <2>6. OrderInv'
    <3>1. \A i \in DOMAIN watch : watch[i].pod \in Pods
      <4>1. watch \in [1 .. Len(watch) -> EventSet]
        BY TableTypes, LenProperties
      <4> QED
        BY <4>1 DEF EventSet
    <3>2. \A i \in DOMAIN watch : tailed'[watch[i].pod] <= watch[i].gen
      BY <2>4, <3>1 DEF OrderInv
    <3>3. \A p \in Pods : tailed'[p] <= gen[p]
      BY <2>4 DEF OrderInv
    <3> QED
      BY <1>1, <3>2, <3>3 DEF OrderInv
  <2>7. ASSUME NEW p \in Pods, p \notin initialized, ~(pass'.pod = p /\ pass'.started)
        PROVE  Fresh(p)'
    <3>1. tailed'[p] = tailed[p]
      BY <2>5, <2>7
    <3>2. Fresh(p)
      BY <2>2, <2>7 DEF FreshInv
    <3> QED
      BY <1>1, <3>1, <3>2 DEF Fresh
  <2>8. FreshInv'
    BY <2>1, <2>7 DEF FreshInv
  <2> QED
    BY <2>3, <2>6, <2>8
<1> QED
  BY <1>4, <1>5, <1>6, <1>7

\* No step makes a pod be asked twice.
LEMMA NextOrders ==
  TableInv /\ FollowInv /\ OrderInv /\ FreshInv /\ PassInv /\ [Next]_vars
    => OrderInv' /\ FreshInv' /\ PassInv'
<1> SUFFICES ASSUME TableInv, FollowInv, OrderInv, FreshInv, PassInv, [Next]_vars
             PROVE  OrderInv' /\ FreshInv' /\ PassInv'
  OBVIOUS
<1>1. ASSUME UNCHANGED <<phase, gen, watch, running_pods, initialized, pass, tailed>>
      PROVE  OrderInv' /\ FreshInv' /\ PassInv'
  <2>1. \A p \in Pods : Fresh(p)' = Fresh(p)
    BY <1>1 DEF Fresh
  <2> QED
    BY <1>1, <2>1 DEF OrderInv, FreshInv, PassInv
<1>2. CASE EnvironmentStep
  BY <1>2, EnvironmentOrders
<1>3. CASE LoopStep
  BY <1>3, EventOrders, PassOrders DEF LoopStep
<1>4. CASE \E s \in Slots : TaskStep(s) \/ \E x \in StreamNames : StreamEnds(s, x)
  BY <1>1, <1>4 DEF TaskStep, TaskRuns, TaskEnds, TaskCancelled, StreamEnds, clusterVars, tableVars
<1>5. CASE UNCHANGED vars
  BY <1>1, <1>5 DEF vars, clusterVars, tableVars
<1> QED
  BY <1>2, <1>3, <1>4, <1>5 DEF Next

\* A step that asks for the last lines of a pod.
AsksOnce ==
  (\E s \in Slots : Live(s)' /\ ~Live(s)) /\ pass.tail /\ ~pass.started
    => running_pods[pass.pod] > tailed[pass.pod]

LEMMA StepAsksOnce == TableInv /\ FreshInv /\ PassInv /\ [Next]_vars => [AsksOnce]_vars
<1> SUFFICES ASSUME TableInv, FreshInv, PassInv, Next, NEW s \in Slots, Live(s)', ~Live(s),
                    pass.tail, ~pass.started
             PROVE  running_pods[pass.pod] > tailed[pass.pod]
  BY DEF AsksOnce
<1>1. try_start
  <2>1. outer' # outer
    BY DEF Live
  <2>2. ~ EnvironmentStep
    BY <2>1, EnvironmentTable DEF taskVars
  <2>3. ~ (OnRunning \/ OnNotRunning \/ OnDelete \/ Reconcile \/ EndPod \/ \E p \in Pods : BeginPod(p))
    BY <2>1 DEF OnRunning, OnNotRunning, OnDelete, Reconcile, EndPod, BeginPod, AbortStreams, taskVars
  <2>4. \A r \in Slots : ~ TaskStep(r) /\ \A x \in StreamNames : ~ StreamEnds(r, x)
    BY TableTypes DEF TaskStep, TaskRuns, TaskEnds, TaskCancelled, StreamEnds, Live
  <2> QED
    BY <2>2, <2>3, <2>4 DEF Next, LoopStep
<1>2. pass.pod \in Pods /\ pass.pod \notin initialized /\ running_pods[pass.pod] # NotRunning
  BY <1>1, TableTypes DEF try_start, PassInv
<1>3. Fresh(pass.pod)
  BY <1>2 DEF FreshInv
<1> QED
  BY <1>2, <1>3, TableTypes DEF Fresh

-----------------------------------------------------------------------------
(* What is streamed.                                                       *)

\* The table of the pods has no excluded pod, and the table of the tasks none of a pod
\* that the first does not have.
StrayInv ==
  /\ \A p \in Pods : running_pods[p] # NotRunning => p \notin ExcludedPods
  /\ \A k \in Streams : active[k] # NoSlot => running_pods[k[1]] # NotRunning

\* The events change both tables at once.
LEMMA EventStrays ==
  ASSUME TableInv, FollowInv, StrayInv, OnRunning \/ OnNotRunning \/ OnDelete
  PROVE  StrayInv'
<1> DEFINE q == Head(watch).pod
<1>1. /\ q \in Pods /\ Head(watch) = watch[1] /\ 1 \in DOMAIN watch
      /\ running_pods \in [Pods -> Nat]
  <2>1. watch \in Seq(EventSet) /\ watch # <<>>
    BY EventTypes, TableTypes DEF OnRunning, OnNotRunning, OnDelete, NextEvent
  <2>2. Head(watch) \in EventSet /\ Head(watch) = watch[1] /\ 1 \in DOMAIN watch
    BY <2>1
  <2> QED
    BY <2>2, TableTypes DEF EventSet
<1>2. \A k \in Streams : k[1] \in Pods
  BY DEF Streams
<1>3. CASE OnRunning
  <2>1. active' = active
    BY <1>3 DEF OnRunning
  <2>2. CASE q \in ExcludedPods
    BY <1>3, <2>1, <2>2 DEF OnRunning, StrayInv
  <2>3. CASE q \notin ExcludedPods
    <3>1. running_pods' = [running_pods EXCEPT ![q] = Head(watch).gen] /\ Head(watch).running
      BY <1>3, <2>3 DEF OnRunning
    <3>2. Head(watch).gen > 0
      BY <1>1, <3>1 DEF FollowInv
    <3>3. running_pods'[q] # NotRunning /\ \A p \in Pods \ {q} : running_pods'[p] = running_pods[p]
      BY <1>1, <3>1, <3>2 DEF NotRunning
    <3> QED
      BY <1>2, <2>1, <2>3, <3>3 DEF StrayInv
  <2> QED
    BY <2>2, <2>3
<1>4. CASE OnNotRunning \/ OnDelete
  <2>1. /\ running_pods'[q] = NotRunning
        /\ \A p \in Pods \ {q} : running_pods'[p] = running_pods[p]
    BY <1>1, <1>4 DEF OnNotRunning, OnDelete
  <2>2. \A k \in Streams : active'[k] # NoSlot => active[k] # NoSlot /\ k[1] # q
    <3>1. CASE AbortStreams(q)
      BY <3>1 DEF AbortStreams
    <3>2. CASE active' = active /\ running_pods[q] = NotRunning
      BY <3>2 DEF StrayInv
    <3> QED
      BY <1>4, <3>1, <3>2 DEF OnNotRunning, OnDelete
  <2> QED
    BY <1>2, <2>1, <2>2 DEF StrayInv
<1> QED
  BY <1>3, <1>4

LEMMA NextStrays ==
  TableInv /\ FollowInv /\ PassInv /\ StrayInv /\ [Next]_vars => StrayInv'
<1> SUFFICES ASSUME TableInv, FollowInv, PassInv, StrayInv, [Next]_vars PROVE StrayInv'
  OBVIOUS
<1>1. ASSUME running_pods' = running_pods,
             \A k \in Streams : active'[k] # NoSlot =>
               active[k] # NoSlot \/ running_pods[k[1]] # NotRunning
      PROVE  StrayInv'
  BY <1>1 DEF StrayInv
<1>2. CASE EnvironmentStep
  BY <1>1, <1>2, EnvironmentTable DEF tableVars
<1>3. CASE \E s \in Slots : TaskStep(s) \/ \E x \in StreamNames : StreamEnds(s, x)
  BY <1>1, <1>3 DEF TaskStep, TaskRuns, TaskEnds, TaskCancelled, StreamEnds, tableVars
<1>4. CASE Reconcile
  BY <1>1, <1>4 DEF Reconcile
<1>5. CASE try_start
  <2> DEFINE key == <<pass.pod, Head(pass.keys)>>
  <2>1. key[1] = pass.pod /\ running_pods[pass.pod] # NotRunning /\ running_pods' = running_pods
    BY <1>5 DEF try_start, PassInv
  <2>2. active' = active \/ \E s \in Slots : active' = [active EXCEPT ![key] = s]
    BY <1>5 DEF try_start, StartTask
  <2> HIDE DEF key
  <2>3. \A k \in Streams : k # key => active'[k] = active[k]
    BY <2>2, TableTypes
  <2> QED
    BY <1>1, <2>1, <2>3
<1>6. CASE EndPod \/ \E p \in Pods : BeginPod(p)
  BY <1>1, <1>6 DEF EndPod, BeginPod, tableVars
<1>7. CASE UNCHANGED vars
  BY <1>1, <1>7 DEF vars, tableVars
<1> QED
  BY <1>2, <1>3, <1>4, <1>5, <1>6, <1>7, EventStrays DEF Next, LoopStep

\* A task that streams and was not aborted streams a pod that was not excluded and that
\* the loop knows to run; once the events about it are handled, it is one that runs,
\* or one whose deletion the watch missed.
StreamsAreOfRunningPods ==
  \A s \in Slots : Live(s) /\ ~aborted[s] =>
    LET p == task[s][1]
    IN  /\ p \in Pods \ ExcludedPods
        /\ running_pods[p] # NotRunning
        /\ watching /\ (\A i \in DOMAIN watch : watch[i].pod # p) =>
             phase[p] = "running" \/ p \in unseen

-----------------------------------------------------------------------------
(* The theorems.                                                           *)

\* The table and the permits, together, are an invariant.
LEMMA TableAndPermits == Spec => [](TableInv /\ PermitsConserved)
<1>1. Init => PermitsConserved
  <2> SUFFICES ASSUME Init PROVE PermitsConserved
    OBVIOUS
  <2>1. LiveSlots = {}
    BY DEF Init, Live, LiveSlots
  <2>2. Cardinality(LiveSlots) = 0 /\ permits = limit /\ limit \in Nat
    BY <2>1, FS_EmptySet, BoundsAssumption DEF Init
  <2>3. PermitsConserved <=> (limit > 0 => permits + Cardinality(LiveSlots) = limit)
    BY DEF PermitsConserved, LiveSlots
  <2> QED
    BY <2>2, <2>3
<1> QED
  BY <1>1, InitTable, NextTable, NextPermits, PTL DEF Spec

\* Type correctness.
THEOREM KubeTypes == Spec => []KubeTypeOK
<1>1. TableInv /\ PermitsConserved => KubeTypeOK
  BY DEF TableInv
<1> QED
  BY <1>1, TableAndPermits, PTL

\* The loop's table, its tasks and the semaphore agree whatever ends, is aborted
\* or is started (source_k8s::run), for every limit and number of containers.
THEOREM Tracked == Spec => []TasksTracked
<1>1. TableInv /\ PermitsConserved => TasksTracked
  BY DEF TableInv, TasksTracked
<1> QED
  BY <1>1, TableAndPermits, PTL

\* Through any changes and interruptions of the watch the table of the pods
\* follows the cluster, but for deletions nobody saw (source_k8s::run).
THEOREM Follows == Spec => []PodsFollowCluster
<1>1. FollowInv => PodsFollowCluster
  BY DEF FollowInv
<1> QED
  BY <1>1, InitFollows, InitTable, NextTable, NextFollows, PTL DEF Spec

\* The last lines of a pod are asked for once: nothing that happens to the watch, to the
\* streams or in between two containers brings them a second time, unless the pod
\* was created again (stream_params, initialized).
THEOREM AskedOnce == Spec => TailOnce
<1>1. Init => OrderInv /\ FreshInv /\ PassInv
  <2> SUFFICES ASSUME Init PROVE OrderInv /\ FreshInv /\ PassInv
    OBVIOUS
  <2>1. /\ DOMAIN watch = {} /\ pass.pod = NoPod /\ pass.pods = {}
        /\ \A p \in Pods : /\ running_pods[p] = 0 /\ tailed[p] = 0 /\ gen[p] \in {0, 1}
                           /\ phase[p] # "absent" => gen[p] = 1
    BY DEF Init, AtSelect, NotRunning
  <2> QED
    BY <2>1 DEF OrderInv, FreshInv, Fresh, PassInv, NotRunning
<1>2. Spec => [][AsksOnce]_vars
  BY <1>1, InitTable, InitFollows, NextTable, NextFollows, NextOrders, StepAsksOnce, PTL DEF Spec
<1> QED
  BY <1>2 DEF TailOnce, AsksOnce

\* No stream outlives what it is for: whatever happens between the events, the passes and
\* the tasks, what is streamed is a pod that runs, or one that the next events about
\* it will abort (source_k8s::run, try_start and the abort of the handles).
THEOREM NoStrayStreams == Spec => []StreamsAreOfRunningPods
<1>1. Init => OrderInv /\ FreshInv /\ PassInv /\ StrayInv
  <2> SUFFICES ASSUME Init PROVE OrderInv /\ FreshInv /\ PassInv /\ StrayInv
    OBVIOUS
  <2>1. /\ DOMAIN watch = {} /\ pass.pod = NoPod /\ pass.pods = {}
        /\ \A p \in Pods : /\ running_pods[p] = 0 /\ tailed[p] = 0 /\ gen[p] \in {0, 1}
                           /\ phase[p] # "absent" => gen[p] = 1
    BY DEF Init, AtSelect, NotRunning
  <2>2. \A k \in Streams : active[k] = NoSlot
    BY DEF Init
  <2> QED
    BY <2>1, <2>2 DEF OrderInv, FreshInv, Fresh, PassInv, StrayInv, NotRunning
<1>2. TableInv /\ FollowInv /\ StrayInv => StreamsAreOfRunningPods
  <2> SUFFICES ASSUME TableInv, FollowInv, StrayInv, NEW s \in Slots, Live(s), ~aborted[s]
               PROVE  LET p == task[s][1]
                      IN  /\ p \in Pods \ ExcludedPods
                          /\ running_pods[p] # NotRunning
                          /\ watching /\ (\A i \in DOMAIN watch : watch[i].pod # p) =>
                               phase[p] = "running" \/ p \in unseen
    BY DEF StreamsAreOfRunningPods
  <2> DEFINE k == task[s]
             p == k[1]
  <2>1. k \in Streams /\ active[k] = s /\ s # NoSlot
    BY PodsAssumption, TableTypes DEF TableInv, LiveStreams, TasksInTable
  <2>2. p \in Pods
    BY <2>1 DEF Streams
  <2> HIDE DEF k
  <2>3. running_pods[p] # NotRunning /\ p \notin ExcludedPods
    BY <2>1, <2>2 DEF StrayInv
  <2>4. ASSUME watching, \A i \in DOMAIN watch : watch[i].pod # p
        PROVE  phase[p] = "running" \/ p \in unseen
    <3>1. Believed(p)
      BY <2>3, <2>4 DEF Believed
    <3> QED
      BY <2>2, <2>3, <2>4, <3>1 DEF FollowInv, PodsFollowCluster
  <2> QED
    BY <2>2, <2>3, <2>4 DEF k
<1>3. TableInv /\ FollowInv /\ OrderInv /\ FreshInv /\ PassInv /\ [Next]_vars
        => OrderInv' /\ FreshInv' /\ PassInv'
  BY NextOrders
<1> QED
  BY <1>1, <1>2, <1>3, InitTable, InitFollows, NextTable, NextFollows, NextStrays, PTL DEF Spec
=============================================================================
