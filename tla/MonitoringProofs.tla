-------------------------- MODULE MonitoringProofs --------------------------
(***************************************************************************)
(* What Monitoring promises for any checks, plans, capacities and number   *)
(* of replans: one actor in charge of a check, the verdict its probes      *)
(* justify, an alert sender that follows it, one action per outage, alerts *)
(* by turns, deliveries that stay within their attempts, and requests for  *)
(* the status that await only actors that can answer.                      *)
(***************************************************************************)
EXTENDS Monitoring, FiniteSetTheorems, SequenceTheorems, TLAPS

-----------------------------------------------------------------------------
(* Sequences of checks, and the actors that are spawned for them.          *)

\* The checks of a set in the order of the plan: each once, and no other.
LEMMA InOrderSeq ==
  ASSUME NEW S \in SUBSET Checks, NEW q \in InPlanOrder(S)
  PROVE  /\ q \in Seq(S) /\ Len(q) \in Nat /\ DOMAIN q = 1 .. Len(q)
         /\ \A c \in S : \E i \in DOMAIN q : q[i] = c
         /\ \A i, j \in DOMAIN q : q[i] = q[j] => i = j
<1>1. PICK m \in 0 .. Len(CheckOrder) : q \in [1 .. m -> S]
  BY DEF InPlanOrder, BoundedSeq, SeqOf
<1>2. Len(CheckOrder) \in Nat /\ DOMAIN CheckOrder = 1 .. Len(CheckOrder)
  BY CheckOrderAssumption, LenProperties
<1>3. q \in Seq(S)
  BY <1>1, <1>2, SeqDef
<1>4. Len(q) \in Nat /\ DOMAIN q = 1 .. Len(q)
  BY <1>3, LenProperties
<1>5. \A c \in S : \E i \in DOMAIN q : q[i] = c
  BY DEF InPlanOrder
<1>6. \A i, j \in DOMAIN q : i < j => Place(q[i]) < Place(q[j])
  BY DEF InPlanOrder
<1>7. \A c \in Checks : Place(c) \in Nat
  BY <1>2, CheckOrderAssumption DEF Place
<1>8. \A i \in DOMAIN q : q[i] \in Checks
  BY <1>1
<1>9. \A i, j \in DOMAIN q : q[i] = q[j] => i = j
  <2> SUFFICES ASSUME NEW i \in DOMAIN q, NEW j \in DOMAIN q, q[i] = q[j], i # j PROVE FALSE
    OBVIOUS
  <2>1. i < j \/ j < i
    BY <1>4
  <2>2. Place(q[i]) \in Nat /\ Place(q[j]) = Place(q[i])
    BY <1>7, <1>8
  <2>3. Place(q[i]) < Place(q[j]) \/ Place(q[j]) < Place(q[i])
    BY <1>6, <2>1
  <2> QED
    BY <2>2, <2>3
<1> QED
  BY <1>3, <1>4, <1>5, <1>9

\* Every plan that may be loaded has its type.
LEMMA PlanTypes ==
  ASSUME NEW p \in Plans
  PROVE  /\ DOMAIN p.checks \subseteq Checks
         /\ \A c \in DOMAIN p.checks : p.checks[c] \in CheckConfig
         /\ p.alerts \in Seq(AlertConfig)
         /\ \A i, j \in DOMAIN p.alerts : p.alerts[i].name = p.alerts[j].name => i = j
         /\ p.depth \in Nat \ {0}
BY PlansAssumption

\* A new actor has its type.
LEMMA NewActorType ==
  ASSUME NEW c \in Checks, NEW config \in CheckConfig, NEW initial \in Status
  PROVE  NewActor(c, config, initial) \in CheckActor
<1>1. <<>> \in Seq(Status) /\ <<>> \in Seq(BOOLEAN)
  BY EmptySeq
<1> QED
  BY <1>1 DEF NewActor, CheckActor

\* What is known of a new actor.
IsNew(act, c) ==
  /\ act.check = c /\ act.phase = "delay" /\ act.failures = 0 /\ act.status = act.initial
  /\ act.firstRun /\ ~ act.told /\ act.outbox = <<>> /\ act.results = <<>>

LEMMA NewIsNew ==
  ASSUME NEW c, NEW config, NEW initial
  PROVE  IsNew(NewActor(c, config, initial), c)
BY DEF NewActor, IsNew

LEMMA InitialType ==
  ASSUME NEW c \in Checks, NEW seen \in [Checks -> Status \cup {"unknown"}]
  PROVE  initial_status(c, seen) \in Status
BY DEF initial_status, Status

\* One new actor per name, in order.
LEMMA SpawnedTypes ==
  ASSUME NEW p \in Plans, NEW names \in Seq(DOMAIN p.checks),
         NEW seen \in [Checks -> Status \cup {"unknown"}]
  PROVE  /\ Spawned(p, names, seen) \in Seq(CheckActor)
         /\ Len(Spawned(p, names, seen)) = Len(names)
         /\ \A i \in 1 .. Len(names) : IsNew(Spawned(p, names, seen)[i], names[i])
<1> DEFINE new == Spawned(p, names, seen)
           Fresh(i) == NewActor(names[i], p.checks[names[i]], initial_status(names[i], seen))
<1>1. Len(names) \in Nat /\ DOMAIN names = 1 .. Len(names)
  BY LenProperties
<1>2. \A i \in 1 .. Len(names) : Fresh(i) \in CheckActor
  <2> SUFFICES ASSUME NEW i \in 1 .. Len(names) PROVE Fresh(i) \in CheckActor
    OBVIOUS
  <2>1. names[i] \in DOMAIN p.checks
    BY ElementOfSeq
  <2>2. names[i] \in Checks /\ p.checks[names[i]] \in CheckConfig
    BY <2>1, PlanTypes
  <2> QED
    BY <2>2, InitialType, NewActorType
<1>3. new = [i \in 1 .. Len(names) |-> Fresh(i)]
  BY <1>1 DEF Spawned
<1> HIDE DEF Fresh
<1>4. new \in [1 .. Len(names) -> CheckActor]
  BY <1>2, <1>3
<1>5. new \in Seq(CheckActor)
  BY <1>1, <1>4, SeqDef
<1>6. Len(new) \in Nat /\ DOMAIN new = 1 .. Len(new)
  BY <1>5, LenProperties
<1>7. Len(new) = Len(names)
  BY <1>1, <1>4, <1>6
<1>8. \A i \in 1 .. Len(names) : new[i] = Fresh(i)
  BY <1>3
<1>9. \A i \in 1 .. Len(names) : IsNew(Fresh(i), names[i])
  BY NewIsNew DEF Fresh
<1> QED
  BY <1>5, <1>7, <1>8, <1>9

-----------------------------------------------------------------------------
(* Steps that change one actor or one job.                                 *)

\* What the type of a variable says of its domain and its elements.
LEMMA ActorsTypes ==
  ASSUME actors \in Seq(CheckActor)
  PROVE  /\ Len(actors) \in Nat /\ Actors = 1 .. Len(actors)
         /\ \A a \in Actors : actors[a] \in CheckActor
<1>1. Len(actors) \in Nat /\ Actors = 1 .. Len(actors)
  BY LenProperties DEF Actors
<1> QED
  BY <1>1, ElementOfSeq

\* One actor becomes another, and nothing else is touched.
Becomes(a, act) == actors' = [actors EXCEPT ![a] = act]

LEMMA ActorBecomes ==
  ASSUME actors \in Seq(CheckActor), NEW a \in Actors, NEW act \in CheckActor, Becomes(a, act)
  PROVE  /\ actors' \in Seq(CheckActor) /\ Actors' = Actors /\ Len(actors') = Len(actors)
         /\ actors'[a] = act
         /\ \A b \in Actors \ {a} : actors'[b] = actors[b]
<1>1. Len(actors) \in Nat /\ Actors = 1 .. Len(actors) /\ DOMAIN actors = 1 .. Len(actors)
  BY LenProperties DEF Actors
<1>2. /\ actors' \in Seq(CheckActor) /\ Len(actors') = Len(actors)
      /\ \A b \in 1 .. Len(actors) : actors'[b] = IF b = a THEN act ELSE actors[b]
  BY <1>1, ExceptSeq DEF Becomes
<1>3. Actors' = 1 .. Len(actors')
  BY <1>2, LenProperties DEF Actors
<1> QED
  BY <1>1, <1>2, <1>3

LEMMA JobsTypes ==
  ASSUME jobs \in Seq(DeliveryJob)
  PROVE  /\ Len(jobs) \in Nat /\ Jobs = 1 .. Len(jobs)
         /\ \A n \in Jobs : jobs[n] \in DeliveryJob
<1>1. Len(jobs) \in Nat /\ Jobs = 1 .. Len(jobs)
  BY LenProperties DEF Jobs
<1> QED
  BY <1>1, ElementOfSeq

\* One job becomes another.
LEMMA JobBecomes ==
  ASSUME jobs \in Seq(DeliveryJob), NEW n \in Jobs, NEW job \in DeliveryJob,
         jobs' = [jobs EXCEPT ![n] = job]
  PROVE  /\ jobs' \in Seq(DeliveryJob) /\ Jobs' = Jobs /\ Len(jobs') = Len(jobs)
         /\ jobs'[n] = job
         /\ \A m \in Jobs \ {n} : jobs'[m] = jobs[m]
<1>1. Len(jobs) \in Nat /\ Jobs = 1 .. Len(jobs) /\ DOMAIN jobs = 1 .. Len(jobs)
  BY LenProperties DEF Jobs
<1>2. /\ jobs' \in Seq(DeliveryJob) /\ Len(jobs') = Len(jobs)
      /\ \A m \in 1 .. Len(jobs) : jobs'[m] = IF m = n THEN job ELSE jobs[m]
  BY <1>1, ExceptSeq
<1>3. Jobs' = 1 .. Len(jobs')
  BY <1>2, LenProperties DEF Jobs
<1> QED
  BY <1>1, <1>2, <1>3

\* One job more.
LEMMA JobAppended ==
  ASSUME jobs \in Seq(DeliveryJob), NEW job \in DeliveryJob, jobs' = Append(jobs, job)
  PROVE  /\ jobs' \in Seq(DeliveryJob) /\ Len(jobs') = Len(jobs) + 1
         /\ Jobs' = Jobs \cup {Len(jobs) + 1} /\ Len(jobs) + 1 \notin Jobs
         /\ jobs'[Len(jobs) + 1] = job
         /\ \A n \in Jobs : jobs'[n] = jobs[n]
<1>1. Len(jobs) \in Nat /\ Jobs = 1 .. Len(jobs)
  BY LenProperties DEF Jobs
<1>2. /\ jobs' \in Seq(DeliveryJob) /\ Len(jobs') = Len(jobs) + 1
      /\ \A i \in 1 .. Len(jobs) : jobs'[i] = jobs[i]
      /\ jobs'[Len(jobs) + 1] = job
  BY AppendProperties
<1>3. Jobs' = 1 .. Len(jobs')
  BY <1>2, LenProperties DEF Jobs
<1> QED
  BY <1>1, <1>2, <1>3

-----------------------------------------------------------------------------
(* A replan.                                                               *)

\* The actors that a replan to plan p tells to shut down.
Superseded(p) ==
  {checks[c] : c \in ToSpawn(p, checks, actors)} \cup {checks[c] : c \in Checks \ DOMAIN p.checks}

\* What a replan makes of the actors and of the table.
Synced(p, names) ==
  /\ Len(actors') = Len(actors) + Len(names)
  /\ \A a \in Actors :
       actors'[a] = [actors[a] EXCEPT !.told = actors[a].told \/ a \in Superseded(p)]
  /\ \A i \in 1 .. Len(names) :
       IsNew(actors'[Len(actors) + i], names[i]) /\ checks'[names[i]] = Len(actors) + i
  /\ \A c \in Checks \ ToSpawn(p, checks, actors) :
       checks'[c] = IF c \in DOMAIN p.checks THEN checks[c] ELSE NoActor

LEMMA SyncFacts ==
  ASSUME MonTypeOK, NEW p \in Plans, SyncChecks(p)
  PROVE  /\ actors' \in Seq(CheckActor)
         /\ checks' = [c \in Checks |-> checks'[c]]
         /\ \E names \in Seq(ToSpawn(p, checks, actors)) :
              /\ Len(names) \in Nat
              /\ \A c \in ToSpawn(p, checks, actors) : \E i \in 1 .. Len(names) : names[i] = c
              /\ \A i, j \in 1 .. Len(names) : names[i] = names[j] => i = j
              /\ \A i \in 1 .. Len(names) : names[i] \in ToSpawn(p, checks, actors)
              /\ Synced(p, names)
<1> DEFINE new == ToSpawn(p, checks, actors)
           kept == [a \in Actors |-> [actors[a] EXCEPT !.told = @ \/ a \in Superseded(p)]]
<1>1. /\ actors \in Seq(CheckActor) /\ state \in [Checks -> Status \cup {"unknown"}]
      /\ checks \in [Checks -> {NoActor} \cup Actors]
  BY DEF MonTypeOK
<1>2. /\ Len(actors) \in Nat /\ Actors = 1 .. Len(actors)
      /\ \A a \in Actors : actors[a] \in CheckActor
  BY <1>1, ActorsTypes
<1>3. new \subseteq DOMAIN p.checks /\ DOMAIN p.checks \subseteq Checks
  BY PlanTypes DEF ToSpawn
<1>4. PICK names \in InPlanOrder(new) :
        /\ actors' = kept \o Spawned(p, names, state)
        /\ checks' = [c \in Checks |->
                        IF c \notin DOMAIN p.checks THEN NoActor
                        ELSE IF c \notin new THEN checks[c]
                        ELSE Len(actors) + CHOOSE i \in DOMAIN names : names[i] = c]
  BY DEF SyncChecks, Superseded
<1>5. /\ names \in Seq(new) /\ Len(names) \in Nat /\ DOMAIN names = 1 .. Len(names)
      /\ \A c \in new : \E i \in DOMAIN names : names[i] = c
      /\ \A i, j \in DOMAIN names : names[i] = names[j] => i = j
  BY <1>3, <1>4, InOrderSeq
<1>6. names \in Seq(DOMAIN p.checks)
  BY <1>3, <1>5, SeqMonotonic
<1>7. \A i \in 1 .. Len(names) : names[i] \in new
  BY <1>5, ElementOfSeq
<1>8. \A a \in Actors : kept[a] \in CheckActor
  BY <1>2 DEF CheckActor
<1>9. kept \in Seq(CheckActor) /\ Len(kept) = Len(actors)
  <2>1. kept \in [1 .. Len(actors) -> CheckActor]
    BY <1>2, <1>8
  <2>2. kept \in Seq(CheckActor)
    BY <1>2, <2>1, SeqDef
  <2>3. Len(kept) \in Nat /\ DOMAIN kept = 1 .. Len(kept)
    BY <2>2, LenProperties
  <2> QED
    BY <1>2, <2>1, <2>2, <2>3
<1>10. /\ Spawned(p, names, state) \in Seq(CheckActor)
       /\ Len(Spawned(p, names, state)) = Len(names)
       /\ \A i \in 1 .. Len(names) : IsNew(Spawned(p, names, state)[i], names[i])
  BY <1>1, <1>6, SpawnedTypes
<1>11. /\ actors' \in Seq(CheckActor) /\ Len(actors') = Len(actors) + Len(names)
       /\ \A i \in 1 .. Len(actors) + Len(names) :
            actors'[i] = IF i <= Len(actors) THEN kept[i]
                         ELSE Spawned(p, names, state)[i - Len(actors)]
  <2> DEFINE fresh == Spawned(p, names, state)
  <2>1. kept \in Seq(CheckActor) /\ fresh \in Seq(CheckActor)
    BY ZenonT(40), <1>9, <1>10
  <2>2. Len(kept) = Len(actors) /\ Len(fresh) = Len(names) /\ actors' = kept \o fresh
    BY <1>4, <1>9, <1>10
  <2> HIDE DEF kept, fresh
  <2>3. /\ kept \o fresh \in Seq(CheckActor)
        /\ Len(kept \o fresh) = Len(kept) + Len(fresh)
        /\ \A i \in 1 .. Len(kept) + Len(fresh) :
             (kept \o fresh)[i] = IF i <= Len(kept) THEN kept[i] ELSE fresh[i - Len(kept)]
    BY <2>1, ConcatProperties
  <2> QED
    BY <2>2, <2>3 DEF fresh
<1>12. \A a \in Actors :
         actors'[a] = [actors[a] EXCEPT !.told = actors[a].told \/ a \in Superseded(p)]
  <2> SUFFICES ASSUME NEW a \in Actors
               PROVE  actors'[a] = [actors[a] EXCEPT !.told = actors[a].told \/ a \in Superseded(p)]
    OBVIOUS
  <2>1. actors'[a] = kept[a]
    BY <1>2, <1>5, <1>11
  <2> QED
    BY <2>1
<1>13. \A i \in 1 .. Len(names) : IsNew(actors'[Len(actors) + i], names[i])
  <2> SUFFICES ASSUME NEW i \in 1 .. Len(names)
               PROVE  actors'[Len(actors) + i] = Spawned(p, names, state)[i]
    BY <1>10
  <2>1. /\ Len(actors) + i \in 1 .. Len(actors) + Len(names)
        /\ ~(Len(actors) + i <= Len(actors)) /\ Len(actors) + i - Len(actors) = i
    BY <1>2, <1>5
  <2> HIDE DEF kept
  <2> QED
    BY <1>11, <2>1
<1>14. \A i \in 1 .. Len(names) : checks'[names[i]] = Len(actors) + i
  <2> SUFFICES ASSUME NEW i \in 1 .. Len(names) PROVE checks'[names[i]] = Len(actors) + i
    OBVIOUS
  <2>1. names[i] \in new /\ names[i] \in Checks /\ names[i] \in DOMAIN p.checks
    BY <1>3, <1>7
  <2>2. (CHOOSE j \in DOMAIN names : names[j] = names[i]) = i
    BY <1>5
  <2> QED
    BY <1>4, <2>1, <2>2
<1>15. \A c \in Checks \ new : checks'[c] = IF c \in DOMAIN p.checks THEN checks[c] ELSE NoActor
  BY <1>4
<1>16. checks' = [c \in Checks |-> checks'[c]]
  BY <1>4
<1>17. Synced(p, names)
  BY <1>11, <1>12, <1>13, <1>14, <1>15 DEF Synced
<1> QED
  BY <1>5, <1>7, <1>11, <1>16, <1>17

-----------------------------------------------------------------------------
(* Types.                                                                  *)

\* What a check actor makes of a probe has its type.
LEMMA ProbeType ==
  ASSUME NEW act \in CheckActor, NEW ok \in BOOLEAN
  PROVE  AfterProbe(act, ok) \in CheckActor
<1>1. /\ act.failures \in Nat /\ act.status \in Status /\ act.results \in Seq(BOOLEAN)
      /\ act.config \in CheckConfig /\ act.firstRun \in BOOLEAN
  BY DEF CheckActor
<1>2. FailureCount(act, ok) \in Nat
  BY <1>1 DEF FailureCount
<1>3. StatusAfter(act, ok) \in Status
  BY <1>1 DEF StatusAfter, Status
<1>4. Reports(act, StatusAfter(act, ok)) \in Seq(Status)
  <2> DEFINE s == StatusAfter(act, ok)
  <2>1. s \in Status
    BY <1>3
  <2> HIDE DEF s
  <2>2. <<>> \in Seq(Status) /\ <<s>> \in Seq(Status)
    BY <2>1
  <2>3. /\ (IF s # act.status THEN <<s>> ELSE <<>>) \in Seq(Status)
        /\ (IF act.firstRun THEN <<s>> ELSE <<>>) \in Seq(Status)
    BY <2>2
  <2>4. Reports(act, s) \in Seq(Status)
    BY <2>3, ConcatProperties DEF Reports
  <2> QED
    BY <2>4 DEF s
<1>5. Append(act.results, ok) \in Seq(BOOLEAN)
  BY <1>1, AppendProperties
<1> HIDE DEF CheckActor
<1> DEFINE n == FailureCount(act, ok)
           s == StatusAfter(act, ok)
           r == Reports(act, StatusAfter(act, ok))
           q == Append(act.results, ok)
<1>6. n \in Nat /\ s \in Status /\ r \in Seq(Status) /\ q \in Seq(BOOLEAN)
  BY <1>2, <1>3, <1>4, <1>5
<1>7. AfterProbe(act, ok)
        = [act EXCEPT !.phase = "idle", !.failures = n, !.status = s, !.outbox = r,
                      !.firstRun = FALSE, !.results = q]
  BY DEF AfterProbe
<1> HIDE DEF n, s, r, q
<1> QED
  BY <1>6, <1>7 DEF CheckActor

\* The overlord finds its types unless it does something itself.
LEMMA ActorOnly ==
  ASSUME MonTypeOK, NEW a \in Actors, NEW act \in CheckActor, Becomes(a, act),
         UNCHANGED <<overlordVars, checkEvents, jobs>>
  PROVE  MonTypeOK'
<1>1. actors' \in Seq(CheckActor) /\ Actors' = Actors
  BY ActorBecomes DEF MonTypeOK
<1> QED
  BY <1>1 DEF MonTypeOK, overlordVars

\* A probe that ends.
LEMMA ProbeTypes ==
  ASSUME MonTypeOK, NEW a \in Actors, NEW ok \in BOOLEAN, ProbeEnds(a, ok)
  PROVE  /\ MonTypeOK' /\ Becomes(a, AfterProbe(actors[a], ok))
         /\ AfterProbe(actors[a], ok) \in CheckActor
<1>1. actors[a] \in CheckActor
  BY ActorsTypes DEF MonTypeOK
<1>2. AfterProbe(actors[a], ok) \in CheckActor
  BY <1>1, ProbeType
<1>3. Becomes(a, AfterProbe(actors[a], ok))
  BY DEF ProbeEnds, Becomes
<1>4. actors' \in Seq(CheckActor) /\ Actors' = Actors
  BY <1>2, <1>3, ActorBecomes DEF MonTypeOK
<1>5. tally' \in [Checks -> [downs : Nat, acted : Nat]]
  <2> DEFINE n == IF actors[a].status = "up" /\ AfterProbe(actors[a], ok).status = "down"
                    THEN tally[actors[a].check].downs + 1 ELSE tally[actors[a].check].downs
  <2>1. tally \in [Checks -> [downs : Nat, acted : Nat]] /\ actors[a].check \in Checks
    BY <1>1 DEF MonTypeOK, CheckActor
  <2>2. n \in Nat
    BY <2>1
  <2>3. tally' = [tally EXCEPT ![actors[a].check].downs = n]
    BY DEF ProbeEnds
  <2> HIDE DEF n
  <2> QED
    BY <2>1, <2>2, <2>3
<1>6. MonTypeOK'
  BY <1>4, <1>5 DEF MonTypeOK, ProbeEnds
<1> QED
  BY <1>2, <1>3, <1>6

\* A report that is sent.
LEMMA ReportTypes ==
  ASSUME MonTypeOK, NEW a \in Actors, Report(a)
  PROVE  /\ MonTypeOK' /\ Becomes(a, [actors[a] EXCEPT !.outbox = Tail(actors[a].outbox)])
         /\ [actors[a] EXCEPT !.outbox = Tail(actors[a].outbox)] \in CheckActor
         /\ Head(actors[a].outbox) \in Status
<1>1. actors[a] \in CheckActor
  BY ActorsTypes DEF MonTypeOK
<1>2. actors[a].outbox \in Seq(Status) /\ actors[a].outbox # <<>> /\ actors[a].check \in Checks
  BY <1>1 DEF CheckActor, Report
<1>3. Head(actors[a].outbox) \in Status /\ Tail(actors[a].outbox) \in Seq(Status)
  BY <1>2, HeadTailProperties
<1> DEFINE act == [actors[a] EXCEPT !.outbox = Tail(actors[a].outbox)]
           event == [check |-> actors[a].check, status |-> Head(actors[a].outbox), from |-> a]
<1>4. act \in CheckActor
  BY <1>1, <1>3 DEF CheckActor
<1>5. Becomes(a, act)
  BY DEF Report, Becomes
<1>6. actors' \in Seq(CheckActor) /\ Actors' = Actors
  BY <1>4, <1>5, ActorBecomes DEF MonTypeOK
<1>7. event \in [check : Checks, status : Status, from : Actors]
  BY <1>2, <1>3
<1>8. /\ checkEvents \in Seq([check : Checks, status : Status, from : Actors])
      /\ Len(checkEvents) < EventCap /\ checkEvents' = Append(checkEvents, event)
  BY DEF MonTypeOK, Report
<1>9. EventCap \in Nat
  BY BoundAssumption
<1>10. Len(checkEvents) \in Nat
  BY <1>8, LenProperties
<1>11. /\ checkEvents' \in Seq([check : Checks, status : Status, from : Actors])
       /\ Len(checkEvents') = Len(checkEvents) + 1
  <2> HIDE DEF event
  <2> QED
    BY <1>7, <1>8, AppendProperties
<1>12. /\ checkEvents' \in Seq([check : Checks, status : Status, from : Actors'])
       /\ Len(checkEvents') <= EventCap
  BY <1>6, <1>8, <1>9, <1>10, <1>11
<1>13. MonTypeOK'
  BY <1>6, <1>12 DEF MonTypeOK, Report, overlordVars
<1> QED
  BY <1>3, <1>4, <1>5, <1>13

\* The other steps of a check actor change its phase, or nothing of it.
LEMMA PhaseTypes ==
  ASSUME MonTypeOK, NEW a \in Actors, DelayOver(a) \/ Tick(a) \/ ReceiveShutdown(a)
  PROVE  /\ MonTypeOK' /\ UNCHANGED <<overlordVars, checkEvents, jobs>>
         /\ \E phase \in {"idle", "probing", "gone"} :
              /\ Becomes(a, [actors[a] EXCEPT !.phase = phase])
              /\ [actors[a] EXCEPT !.phase = phase] \in CheckActor
              /\ phase = "gone" => actors[a].told
              /\ phase = "probing" => actors[a].outbox = <<>>
<1>1. actors[a] \in CheckActor
  BY ActorsTypes DEF MonTypeOK
<1>2. \A phase \in {"idle", "probing", "gone"} :
        [actors[a] EXCEPT !.phase = phase] \in CheckActor
  BY <1>1 DEF CheckActor
<1>3. PICK phase \in {"idle", "probing", "gone"} :
        /\ Becomes(a, [actors[a] EXCEPT !.phase = phase])
        /\ phase = "gone" => actors[a].told
        /\ phase = "probing" => actors[a].outbox = <<>>
  BY DEF DelayOver, Tick, ReceiveShutdown, Becomes, AtTimer
<1>4. UNCHANGED <<overlordVars, checkEvents, jobs>>
  BY DEF DelayOver, Tick, ReceiveShutdown
<1>5. MonTypeOK'
  BY <1>2, <1>3, <1>4, ActorOnly
<1> QED
  BY <1>2, <1>3, <1>4, <1>5

\* Requests for the status of checks.
LEMMA QueryTypes ==
  ASSUME MonTypeOK,
         \/ \E a \in Actors : Answer(a)
         \/ \E S \in SUBSET Checks \ {{}} : QueryChecks(S)
         \/ Ask
  PROVE  /\ MonTypeOK'
         /\ UNCHANGED <<plan, actors, checks, checkEvents, state, sending, channel, jobs, reporter,
                        dropped, tally>>
<1>1. UNCHANGED <<plan, actors, checks, checkEvents, state, sending, channel, jobs, reporter,
                  dropped, tally, replans>>
  BY DEF Answer, QueryChecks, Ask
<1>2. query' \in Seq(Nat) /\ asked' \in Nat /\ queries' \in Nat
  <2>1. query \in Seq(Nat) /\ asked \in Nat /\ queries \in Nat
    BY DEF MonTypeOK
  <2>2. CASE \E a \in Actors : Answer(a)
    BY <2>1, <2>2 DEF Answer, NoActor
  <2>3. CASE Ask
    <3>1. query # <<>> /\ asked' = Head(query) /\ query' = Tail(query) /\ queries' = queries
      BY <2>3 DEF Ask
    <3> QED
      BY <2>1, <3>1, HeadTailProperties
  <2>4. ASSUME NEW S \in SUBSET Checks \ {{}}, QueryChecks(S)
        PROVE  query' \in Seq(Nat) /\ asked' \in Nat /\ queries' \in Nat
    <3> DEFINE H == {checks[c] : c \in S} \ {NoActor}
    <3>1. Actors \subseteq Nat
      BY ActorsTypes DEF MonTypeOK
    <3>2. H \subseteq Nat
      BY ZenonT(40), <3>1 DEF MonTypeOK, NoActor
    <3>3. query' \in BoundedSeq(H, Cardinality(H))
      BY <2>4 DEF QueryChecks, InSpawnOrder
    <3> HIDE DEF H
    <3>4. PICK m \in 0 .. Cardinality(H) : query' \in [1 .. m -> H]
      BY <3>3 DEF BoundedSeq, SeqOf
    <3>5. m \in Nat
      BY <3>4
    <3>6. query' \in [1 .. m -> Nat]
      BY <3>2, <3>4
    <3>7. query' \in Seq(Nat)
      BY <3>5, <3>6, SeqDef
    <3> QED
      BY <2>1, <2>4, <3>7 DEF QueryChecks
  <2> QED
    BY <2>2, <2>3, <2>4
<1>3. Actors' = Actors
  BY <1>1 DEF Actors
<1> QED
  BY <1>1, <1>2, <1>3 DEF MonTypeOK

\* The events that are left when the first is taken.
LEMMA EventTaken ==
  ASSUME MonTypeOK, checkEvents # <<>>, checkEvents' = Tail(checkEvents), Actors' = Actors
  PROVE  /\ Head(checkEvents) = checkEvents[1]
         /\ Head(checkEvents) \in [check : Checks, status : Status, from : Actors]
         /\ Len(checkEvents) \in Nat \ {0} /\ DOMAIN checkEvents = 1 .. Len(checkEvents)
         /\ checkEvents' \in Seq([check : Checks, status : Status, from : Actors])
         /\ Len(checkEvents') = Len(checkEvents) - 1
         /\ DOMAIN checkEvents' = 1 .. (Len(checkEvents) - 1)
         /\ \A i \in DOMAIN checkEvents' : checkEvents'[i] = checkEvents[i + 1]
         /\ Len(checkEvents') <= EventCap
<1> DEFINE Event == [check : Checks, status : Status, from : Actors]
<1>1. checkEvents \in Seq(Event) /\ Len(checkEvents) <= EventCap
  BY DEF MonTypeOK
<1> HIDE DEF Event
<1>2. /\ Len(checkEvents) \in Nat /\ DOMAIN checkEvents = 1 .. Len(checkEvents)
      /\ Len(checkEvents) # 0
  BY <1>1, LenProperties, EmptySeq
<1>3. /\ Head(checkEvents) \in Event /\ checkEvents' \in Seq(Event)
      /\ Len(checkEvents') = Len(checkEvents) - 1
      /\ \A i \in 1 .. Len(checkEvents') : checkEvents'[i] = checkEvents[i + 1]
  BY <1>1, HeadTailProperties
<1>4. Head(checkEvents) = checkEvents[1]
  BY <1>1
<1>5. DOMAIN checkEvents' = 1 .. Len(checkEvents')
  BY <1>3, LenProperties
<1>6. EventCap \in Nat
  BY BoundAssumption
<1>7. Len(checkEvents') <= EventCap
  BY <1>1, <1>2, <1>3, <1>6
<1> QED
  BY <1>2, <1>3, <1>4, <1>5, <1>7 DEF Event

\* The alerts that the loop goes through.
LEMMA SendingType ==
  ASSUME NEW p \in Plans, NEW body \in Body
  PROVE  /\ [i \in DOMAIN p.alerts |-> [alert |-> p.alerts[i], body |-> body]]
              \in Seq([alert : AlertConfig, body : Body])
         /\ DOMAIN p.alerts = 1 .. Len(p.alerts) /\ Len(p.alerts) \in Nat
<1>1. Len(p.alerts) \in Nat /\ DOMAIN p.alerts = 1 .. Len(p.alerts)
  BY PlanTypes, LenProperties
<1>2. \A i \in 1 .. Len(p.alerts) : p.alerts[i] \in AlertConfig
  BY PlanTypes, ElementOfSeq
<1>3. [i \in DOMAIN p.alerts |-> [alert |-> p.alerts[i], body |-> body]]
        \in [1 .. Len(p.alerts) -> [alert : AlertConfig, body : Body]]
  BY <1>1, <1>2
<1> QED
  BY <1>1, <1>3, SeqDef

\* An event that is handled.
LEMMA EventTypes ==
  ASSUME MonTypeOK, HandleCheckEvent
  PROVE  MonTypeOK'
<1> DEFINE event == Head(checkEvents)
           c == event.check
<1>1. /\ checkEvents # <<>> /\ checkEvents' = Tail(checkEvents)
      /\ UNCHANGED <<plan, checks, query, asked, channel, replans, queries, dropped, actors, jobs>>
  BY DEF HandleCheckEvent
<1>2. Actors' = Actors
  BY <1>1 DEF Actors
<1>3. /\ event \in [check : Checks, status : Status, from : Actors]
      /\ checkEvents' \in Seq([check : Checks, status : Status, from : Actors])
      /\ Len(checkEvents') <= EventCap
  BY <1>1, <1>2, EventTaken
<1>4. c \in Checks /\ event.status \in Status /\ event.from \in Actors
  BY <1>3
<1>5. /\ sending' = IF Fires(c, event.status)
                      THEN [i \in DOMAIN plan.alerts |->
                              [alert |-> plan.alerts[i], body |-> format_payload(c, event.status)]]
                      ELSE <<>>
      /\ state' = [state EXCEPT ![c] = event.status]
      /\ reporter' = [reporter EXCEPT ![c] = event.from]
      /\ tally' = [tally EXCEPT ![c].acted = IF event.status = "down" THEN @ + 1 ELSE @]
  BY DEF HandleCheckEvent
<1> HIDE DEF c, event
<1>6. format_payload(c, event.status) \in Body
  BY <1>4 DEF format_payload, Body
<1>7. sending' \in Seq([alert : AlertConfig, body : Body])
  BY <1>5, <1>6, SendingType, EmptySeq DEF MonTypeOK
<1>8. state' \in [Checks -> Status \cup {"unknown"}] /\ reporter' \in [Checks -> {NoActor} \cup Actors]
  BY <1>4, <1>5 DEF MonTypeOK
<1>9. tally' \in [Checks -> [downs : Nat, acted : Nat]]
  <2> DEFINE n == IF event.status = "down" THEN tally[c].acted + 1 ELSE tally[c].acted
  <2>1. tally \in [Checks -> [downs : Nat, acted : Nat]]
    BY DEF MonTypeOK
  <2>2. n \in Nat
    BY <1>4, <2>1
  <2>3. tally' = [tally EXCEPT ![c].acted = n]
    BY <1>5
  <2> HIDE DEF n
  <2> QED
    BY <1>4, <2>1, <2>2, <2>3
<1> QED
  BY <1>1, <1>2, <1>3, <1>7, <1>8, <1>9 DEF MonTypeOK

\* A new job has its type.
LEMMA NewJobType ==
  ASSUME NEW alert \in AlertConfig, NEW body \in Body, NEW number \in Nat \ {0}
  PROVE  NewJob(alert, body, number) \in DeliveryJob
BY DEF NewJob, DeliveryJob, AlertConfig

\* One round of the loop over the alerts.
LEMMA SendTypes ==
  ASSUME MonTypeOK, SendAlert
  PROVE  /\ MonTypeOK' /\ Len(sending) \in Nat \ {0} /\ DOMAIN sending = 1 .. Len(sending)
         /\ Head(sending) = sending[1] /\ Head(sending) \in [alert : AlertConfig, body : Body]
         /\ DOMAIN sending' = 1 .. (Len(sending) - 1)
         /\ \A i \in DOMAIN sending' : sending'[i] = sending[i + 1]
         /\ NewJob(Head(sending).alert, Head(sending).body, channel.number) \in DeliveryJob
<1> DEFINE Item == [alert : AlertConfig, body : Body]
<1>1. sending \in Seq(Item) /\ sending # <<>> /\ sending' = Tail(sending)
  BY DEF MonTypeOK, SendAlert
<1> HIDE DEF Item
<1>2. Len(sending) \in Nat /\ DOMAIN sending = 1 .. Len(sending) /\ Len(sending) # 0
  BY <1>1, LenProperties, EmptySeq
<1>3. /\ Head(sending) \in Item /\ sending' \in Seq(Item) /\ Len(sending') = Len(sending) - 1
      /\ \A i \in 1 .. Len(sending') : sending'[i] = sending[i + 1]
  BY <1>1, HeadTailProperties
<1>4. Head(sending) = sending[1]
  BY <1>1
<1>5. DOMAIN sending' = 1 .. Len(sending')
  BY <1>3, LenProperties
<1> USE DEF Item
<1>6. Head(sending).alert \in AlertConfig /\ Head(sending).body \in Body
  BY <1>3
<1>7. channel.number \in Nat \ {0}
  BY DEF MonTypeOK
<1>8. NewJob(Head(sending).alert, Head(sending).body, channel.number) \in DeliveryJob
  BY <1>6, <1>7, NewJobType
<1> DEFINE job == NewJob(Head(sending).alert, Head(sending).body, channel.number)
<1>9. jobs' = jobs \/ jobs' = Append(jobs, job)
  BY DEF SendAlert
<1>10. jobs' \in Seq(DeliveryJob)
  <2>1. jobs \in Seq(DeliveryJob)
    BY DEF MonTypeOK
  <2>2. job \in DeliveryJob
    BY <1>8
  <2> HIDE DEF job
  <2> QED
    BY <2>1, <2>2, <1>9, AppendProperties
<1>11. dropped' \subseteq STRING \X Checks
  <2>1. Head(sending).alert.name \in STRING /\ Head(sending).body.check \in Checks
    BY <1>6 DEF AlertConfig, Body
  <2>2. dropped' = dropped \/ dropped' = dropped \cup {<<Head(sending).alert.name, Head(sending).body.check>>}
    BY DEF SendAlert
  <2> QED
    BY <2>1, <2>2 DEF MonTypeOK
<1>12. /\ UNCHANGED <<plan, checks, query, asked, state, channel, replans, queries, reporter, tally,
                     actors, checkEvents>>
       /\ Actors' = Actors
  BY DEF SendAlert, Actors
<1>13. MonTypeOK'
  BY <1>3, <1>10, <1>11, <1>12 DEF MonTypeOK
<1> QED
  BY <1>2, <1>3, <1>4, <1>5, <1>8, <1>13

\* A replan.
LEMMA ReplanTypes ==
  ASSUME MonTypeOK, Replan
  PROVE  MonTypeOK'
<1>1. PICK p \in Plans : plan' = p /\ channel' = update_queue_limits(p.depth) /\ SyncChecks(p)
  BY DEF Replan
<1> DEFINE new == ToSpawn(p, checks, actors)
<1>2. PICK names \in Seq(new) :
        /\ Len(names) \in Nat
        /\ \A c \in new : \E i \in 1 .. Len(names) : names[i] = c
        /\ Synced(p, names)
  BY <1>1, SyncFacts
<1>3. actors' \in Seq(CheckActor) /\ checks' = [c \in Checks |-> checks'[c]]
  BY <1>1, SyncFacts
<1>4. Len(actors) \in Nat /\ Actors = 1 .. Len(actors)
  BY ActorsTypes DEF MonTypeOK
<1>5. Actors' = 1 .. Len(actors') /\ Len(actors') = Len(actors) + Len(names)
  BY <1>2, <1>3, LenProperties DEF Actors, Synced
<1>6. Actors \subseteq Actors'
  BY <1>2, <1>4, <1>5
<1>7. \A c \in Checks : checks'[c] \in {NoActor} \cup Actors'
  <2> SUFFICES ASSUME NEW c \in Checks PROVE checks'[c] \in {NoActor} \cup Actors'
    OBVIOUS
  <2>1. CASE c \in new
    <3>1. PICK i \in 1 .. Len(names) : names[i] = c
      BY <1>2, <2>1
    <3>2. checks'[c] = Len(actors) + i
      BY <1>2, <3>1 DEF Synced
    <3> QED
      BY <1>2, <1>4, <1>5, <3>2
  <2>2. CASE c \notin new
    <3>1. checks'[c] \in {checks[c], NoActor}
      BY <1>2, <2>2 DEF Synced
    <3> QED
      BY <1>6, <3>1 DEF MonTypeOK
  <2> QED
    BY <2>1, <2>2
<1>8. checks' \in [Checks -> {NoActor} \cup Actors']
  BY <1>3, <1>7
<1>9. channel' \in [depth : Nat \ {0}, number : Nat \ {0}]
  <2>1. p.depth \in Nat \ {0} /\ channel \in [depth : Nat \ {0}, number : Nat \ {0}]
    BY PlanTypes DEF MonTypeOK
  <2> QED
    BY <1>1, <2>1 DEF update_queue_limits
<1>10. /\ UNCHANGED <<query, asked, state, sending, queries, reporter, tally, dropped, checkEvents, jobs>>
       /\ replans' = replans + 1
  BY DEF Replan
<1>11. /\ checkEvents' \in Seq([check : Checks, status : Status, from : Actors'])
       /\ reporter' \in [Checks -> {NoActor} \cup Actors']
  <2>1. [check : Checks, status : Status, from : Actors]
          \subseteq [check : Checks, status : Status, from : Actors']
    BY <1>6
  <2>2. checkEvents \in Seq([check : Checks, status : Status, from : Actors'])
    BY <2>1, SeqMonotonic DEF MonTypeOK
  <2> QED
    BY <1>6, <1>10, <2>2 DEF MonTypeOK
<1> QED
  BY <1>1, <1>3, <1>8, <1>9, <1>10, <1>11 DEF MonTypeOK

\* A post that ends is delivered if the endpoint took it and was heard, and goes
\* on only while there are attempts left.
LEMMA PostIs ==
  ASSUME NEW n, Post(n)
  PROVE  \E fate \in {"delivered", "failed", "posting"}, took, heard \in BOOLEAN :
           /\ Posted(n, fate, took, heard)
           /\ fate = "delivered" <=> took /\ heard
           /\ fate = "posting" => jobs[n].posts + 1 < max_attempts(jobs[n])
<1>1. CASE PostSucceeds(n)
  BY <1>1 DEF PostSucceeds
<1>2. CASE PostRefused(n)
  BY <1>2 DEF PostRefused
<1>3. CASE PostFails(n)
  BY <1>3 DEF PostFails, AfterFailure
<1>4. CASE PostUnheard(n)
  BY <1>4 DEF PostUnheard, AfterFailure
<1> QED
  BY <1>1, <1>2, <1>3, <1>4 DEF Post

\* There is always one attempt.
LEMMA AttemptsType ==
  ASSUME NEW job \in DeliveryJob
  PROVE  max_attempts(job) \in Nat /\ 0 < max_attempts(job)
<1>1. job.attempts \in Nat
  BY DEF DeliveryJob
<1> QED
  BY <1>1 DEF max_attempts

\* The accounts of a job add up.
Accounted(job) ==
  /\ job.posts <= max_attempts(job)
  /\ job.phase \in {"queued", "expired", "no url"} => job.posts = 0
  /\ job.phase = "posting" => job.posts < max_attempts(job)
  /\ job.phase = "delivered" => job.accepted = job.unheard + 1
  /\ job.phase # "delivered" => job.accepted = job.unheard

\* What a step of a delivery makes of its job.
LEMMA DeliveryFacts ==
  ASSUME MonTypeOK, NEW n \in Jobs, Dispatch(n) \/ Post(n)
  PROVE  /\ MonTypeOK' /\ UNCHANGED <<overlordVars, actors, checkEvents>>
         /\ \E job \in DeliveryJob :
              /\ jobs' = [jobs EXCEPT ![n] = job]
              /\ job.alert = jobs[n].alert /\ job.body = jobs[n].body
              /\ Accounted(jobs[n]) => Accounted(job)
<1>1. jobs \in Seq(DeliveryJob) /\ jobs[n] \in DeliveryJob
  BY JobsTypes DEF MonTypeOK
<1>2. UNCHANGED <<overlordVars, actors, checkEvents>>
  <2>1. CASE Dispatch(n)
    BY <2>1 DEF Dispatch, DeliveryFrame
  <2>2. CASE Post(n)
    BY <2>2, PostIs DEF Posted, DeliveryFrame
  <2> QED
    BY <2>1, <2>2
<1>3. \E job \in DeliveryJob :
         /\ jobs' = [jobs EXCEPT ![n] = job]
         /\ job.alert = jobs[n].alert /\ job.body = jobs[n].body
         /\ Accounted(jobs[n]) => Accounted(job)
  <2>1. CASE Dispatch(n)
    <3>1. PICK fate \in {"expired", "posting", "no url"} : jobs' = [jobs EXCEPT ![n].phase = fate]
      BY <2>1 DEF Dispatch
    <3>2. jobs[n].phase = "queued"
      BY <2>1 DEF Dispatch, NextInQueue
    <3> DEFINE job == [jobs[n] EXCEPT !.phase = fate]
    <3>3. job \in DeliveryJob
      BY <1>1 DEF DeliveryJob
    <3>4. jobs' = [jobs EXCEPT ![n] = job]
      BY <3>1
    <3>5. job.alert = jobs[n].alert /\ job.body = jobs[n].body
      BY <1>1 DEF DeliveryJob
    <3>6. Accounted(jobs[n]) => Accounted(job)
      <4>1. /\ jobs[n].posts \in Nat /\ jobs[n].attempts \in Nat
            /\ job.posts = jobs[n].posts /\ job.attempts = jobs[n].attempts /\ job.phase = fate
            /\ job.accepted = jobs[n].accepted /\ job.unheard = jobs[n].unheard
        BY <1>1 DEF DeliveryJob
      <4> HIDE DEF job
      <4>2. max_attempts(job) = max_attempts(jobs[n])
        BY <4>1 DEF max_attempts
      <4>4. max_attempts(jobs[n]) \in Nat /\ 0 < max_attempts(jobs[n])
        BY <1>1, AttemptsType
      <4>3. fate # "delivered" /\ jobs[n].phase # "delivered"
        BY <3>1, <3>2
      <4> QED
        BY <3>2, <4>1, <4>2, <4>3, <4>4 DEF Accounted
    <3> HIDE DEF job
    <3> QED
      BY <3>3, <3>4, <3>5, <3>6
  <2>2. CASE Post(n)
    <3>1. PICK fate \in {"delivered", "failed", "posting"}, took \in BOOLEAN, heard \in BOOLEAN :
            /\ Posted(n, fate, took, heard)
            /\ fate = "delivered" <=> took /\ heard
            /\ fate = "posting" => jobs[n].posts + 1 < max_attempts(jobs[n])
      BY <2>2, PostIs
    <3> DEFINE posts == jobs[n].posts + 1
               accepted == IF took THEN jobs[n].accepted + 1 ELSE jobs[n].accepted
               unheard == IF took /\ ~ heard THEN jobs[n].unheard + 1 ELSE jobs[n].unheard
    <3>2. posts \in Nat /\ accepted \in Nat /\ unheard \in Nat
      <4>1. jobs[n].posts \in Nat /\ jobs[n].accepted \in Nat /\ jobs[n].unheard \in Nat
        BY <1>1 DEF DeliveryJob
      <4> QED
        BY <4>1
    <3>3. jobs' = [jobs EXCEPT ![n].phase = fate, ![n].posts = posts, ![n].accepted = accepted,
                               ![n].unheard = unheard]
      BY <3>1 DEF Posted
    <3>4. jobs[n].phase = "posting"
      BY <3>1 DEF Posted
    <3>5. Accounted(jobs[n]) =>
            /\ posts <= max_attempts(jobs[n])
            /\ fate = "posting" => posts < max_attempts(jobs[n])
            /\ fate = "delivered" => accepted = unheard + 1
            /\ fate # "delivered" => accepted = unheard
      <4>1. /\ jobs[n].posts \in Nat /\ jobs[n].accepted \in Nat /\ jobs[n].unheard \in Nat
            /\ jobs[n].attempts \in Nat
        BY <1>1 DEF DeliveryJob
      <4>2. max_attempts(jobs[n]) \in Nat
        BY <4>1 DEF max_attempts
      <4>3. Accounted(jobs[n]) =>
              jobs[n].posts < max_attempts(jobs[n]) /\ jobs[n].accepted = jobs[n].unheard
        BY <3>4 DEF Accounted
      <4> HIDE DEF Accounted
      <4> QED
        BY <3>1, <4>1, <4>2, <4>3
    <3> HIDE DEF posts, accepted, unheard
    <3> DEFINE job == [jobs[n] EXCEPT !.phase = fate, !.posts = posts, !.accepted = accepted,
                                      !.unheard = unheard]
    <3>6. jobs' = [jobs EXCEPT ![n] = job]
      BY <3>3
    <3>7. /\ job \in DeliveryJob /\ job.alert = jobs[n].alert /\ job.body = jobs[n].body
          /\ job.phase = fate /\ job.posts = posts /\ job.accepted = accepted
          /\ job.unheard = unheard /\ job.attempts = jobs[n].attempts
      BY <1>1, <3>2 DEF DeliveryJob
    <3> HIDE DEF job
    <3>8. max_attempts(job) = max_attempts(jobs[n])
      BY <3>7 DEF max_attempts
    <3>9. fate \notin {"queued", "expired", "no url"}
      BY <3>1
    <3>10. Accounted(jobs[n]) => Accounted(job)
      BY <3>5, <3>7, <3>8, <3>9 DEF Accounted
    <3> QED
      BY <3>6, <3>7, <3>10
  <2> QED
    BY <2>1, <2>2
<1>4. jobs' \in Seq(DeliveryJob)
  BY <1>1, <1>3, JobBecomes
<1>5. MonTypeOK'
  BY <1>2, <1>4 DEF MonTypeOK, overlordVars, Actors
<1> QED
  BY <1>2, <1>3, <1>5

\* The first actors.
LEMMA InitTypes ==
  ASSUME MonInit
  PROVE  /\ MonTypeOK
         /\ \E names \in Seq(Checks) :
              /\ Len(names) \in Nat /\ Actors = 1 .. Len(names)
              /\ \A i \in Actors :
                   /\ names[i] \in Checks
                   /\ IsNew(actors[i], names[i])
                   /\ checks[names[i]] = i
              /\ \A c \in Checks : checks[c] # NoActor =>
                   checks[c] \in Actors /\ names[checks[c]] = c
<1> DEFINE new == ToSpawn(plan, [c \in Checks |-> NoActor], <<>>)
<1>1. plan \in Plans /\ state = [c \in Checks |-> "unknown"]
  BY DEF MonInit
<1>2. state \in [Checks -> Status \cup {"unknown"}]
  BY <1>1
<1>3. new \subseteq DOMAIN plan.checks /\ DOMAIN plan.checks \subseteq Checks
  BY <1>1, PlanTypes DEF ToSpawn
<1>4. PICK names \in InPlanOrder(new) :
        /\ actors = Spawned(plan, names, state)
        /\ checks = [c \in Checks |-> IF \E i \in DOMAIN names : names[i] = c
                                        THEN CHOOSE i \in DOMAIN names : names[i] = c
                                        ELSE NoActor]
  BY DEF MonInit
<1>5. /\ names \in Seq(new) /\ Len(names) \in Nat /\ DOMAIN names = 1 .. Len(names)
      /\ \A i, j \in DOMAIN names : names[i] = names[j] => i = j
  BY <1>3, <1>4, InOrderSeq
<1>6. names \in Seq(DOMAIN plan.checks) /\ names \in Seq(Checks)
  BY <1>3, <1>5, SeqMonotonic
<1>7. /\ actors \in Seq(CheckActor) /\ Len(actors) = Len(names)
      /\ \A i \in 1 .. Len(names) : IsNew(actors[i], names[i])
  BY <1>1, <1>2, <1>4, <1>6, SpawnedTypes
<1>8. Actors = 1 .. Len(names) /\ Actors = DOMAIN names
  BY <1>5, <1>7, ActorsTypes
<1>9. \A i \in Actors : names[i] \in Checks
  BY <1>6, <1>8, ElementOfSeq
<1>10. \A i \in Actors : checks[names[i]] = i
  <2> SUFFICES ASSUME NEW i \in Actors PROVE checks[names[i]] = i
    OBVIOUS
  <2>1. (CHOOSE j \in DOMAIN names : names[j] = names[i]) = i
    BY <1>5, <1>8
  <2> QED
    BY <1>4, <1>8, <1>9, <2>1
<1>11. \A c \in Checks : \/ checks[c] = NoActor
                         \/ checks[c] \in Actors /\ names[checks[c]] = c
  BY <1>4, <1>8
<1>12. checks \in [Checks -> {NoActor} \cup Actors]
  <2>1. checks = [c \in Checks |-> checks[c]]
    BY <1>4
  <2> QED
    BY <1>11, <2>1
<1>13. /\ checkEvents = <<>> /\ query = <<>> /\ asked = NoActor /\ sending = <<>>
       /\ channel = [depth |-> plan.depth, number |-> 1] /\ jobs = <<>>
       /\ replans = 0 /\ queries = 0 /\ reporter = [c \in Checks |-> NoActor]
       /\ dropped = {} /\ tally = [c \in Checks |-> [downs |-> 0, acted |-> 0]]
  BY DEF MonInit
<1>14. plan.depth \in Nat \ {0}
  BY <1>1, PlanTypes
<1>15. Len(checkEvents) <= EventCap
  BY <1>13, BoundAssumption, EmptySeq
<1>16. /\ checkEvents \in Seq([check : Checks, status : Status, from : Actors])
       /\ query \in Seq(Nat) /\ sending \in Seq([alert : AlertConfig, body : Body])
       /\ jobs \in Seq(DeliveryJob)
  BY <1>13, EmptySeq
<1>17. MonTypeOK
  BY <1>1, <1>2, <1>7, <1>12, <1>13, <1>14, <1>15, <1>16 DEF MonTypeOK, NoActor
<1> QED
  BY ZenonT(40), <1>5, <1>6, <1>7, <1>8, <1>9, <1>10, <1>11, <1>17

\* A step changes the phase of an actor, ends a probe, sends a report, is about a
\* request for the status, handles an event, sends an alert, replans or delivers.
Quiet(a) == DelayOver(a) \/ Tick(a) \/ ReceiveShutdown(a)

Asking ==
  \/ \E a \in Actors : Answer(a)
  \/ \E S \in SUBSET Checks \ {{}} : QueryChecks(S)
  \/ Ask

LEMMA Steps ==
  ASSUME [MonNext]_monVars
  PROVE  \/ \E a \in Actors : Quiet(a)
         \/ \E a \in Actors, ok \in BOOLEAN : ProbeEnds(a, ok)
         \/ \E a \in Actors : Report(a)
         \/ Asking \/ HandleCheckEvent \/ SendAlert \/ Replan
         \/ \E n \in Jobs : Dispatch(n) \/ Post(n)
         \/ UNCHANGED monVars
<1>1. ASSUME NEW a \in Actors, CheckStep(a)
      PROVE  Quiet(a) \/ (\E ok \in BOOLEAN : ProbeEnds(a, ok)) \/ Report(a) \/ Answer(a)
  <2>1. ProbeAnswers(a) => \E ok \in BOOLEAN : ProbeEnds(a, ok)
    BY DEF ProbeAnswers, perform
  <2>2. ProbeTimesOut(a) => \E ok \in BOOLEAN : ProbeEnds(a, ok)
    BY DEF ProbeTimesOut
  <2> QED
    BY <1>1, <2>1, <2>2 DEF CheckStep, Quiet
<1> QED
  BY <1>1 DEF MonNext, Asking

\* Every variable keeps its type through every behaviour of check actors, overlord
\* and delivery workers, and the channel of check events never holds more than its
\* capacity.
THEOREM MonTypes == MonSpec => []MonTypeOK
<1>1. MonInit => MonTypeOK
  BY InitTypes
<1>2. MonTypeOK /\ [MonNext]_monVars => MonTypeOK'
  <2> SUFFICES ASSUME MonTypeOK, [MonNext]_monVars PROVE MonTypeOK'
    OBVIOUS
  <2>1. CASE \E a \in Actors : Quiet(a)
    BY <2>1, PhaseTypes DEF Quiet
  <2>2. CASE \E a \in Actors, ok \in BOOLEAN : ProbeEnds(a, ok)
    BY <2>2, ProbeTypes
  <2>3. CASE \E a \in Actors : Report(a)
    BY <2>3, ReportTypes
  <2>4. CASE Asking
    BY <2>4, QueryTypes DEF Asking
  <2>5. CASE HandleCheckEvent
    BY <2>5, EventTypes
  <2>6. CASE SendAlert
    BY <2>6, SendTypes
  <2>7. CASE Replan
    BY <2>7, ReplanTypes
  <2>8. CASE \E n \in Jobs : Dispatch(n) \/ Post(n)
    BY <2>8, DeliveryFacts
  <2>9. CASE UNCHANGED monVars
    BY <2>9 DEF MonTypeOK, monVars, overlordVars, Actors
  <2> QED
    BY <2>1, <2>2, <2>3, <2>4, <2>5, <2>6, <2>7, <2>8, <2>9, Steps
<1> QED
  BY <1>1, <1>2, PTL DEF MonSpec

-----------------------------------------------------------------------------
(* One actor in charge.                                                    *)

\* Nothing changes in who is in charge of what, and no actor goes untold.
SameCharge ==
  /\ checks' = checks /\ Actors' = Actors
  /\ \A a \in Actors :
       /\ actors'[a].check = actors[a].check /\ actors'[a].told = actors[a].told
       /\ actors'[a].phase = "gone" => actors[a].phase = "gone" \/ actors[a].told

\* An actor that becomes another of the same check, told as before.
LEMMA ChargeKept ==
  ASSUME MonTypeOK, NEW a \in Actors, NEW act \in CheckActor, Becomes(a, act),
         act.check = actors[a].check, act.told = actors[a].told,
         act.phase = "gone" => actors[a].told, checks' = checks
  PROVE  SameCharge
<1>1. /\ Actors' = Actors /\ actors'[a] = act
      /\ \A b \in Actors \ {a} : actors'[b] = actors[b]
  BY ActorBecomes DEF MonTypeOK
<1> QED
  BY <1>1 DEF SameCharge

LEMMA QuietCharge ==
  ASSUME MonTypeOK, NEW a \in Actors, Quiet(a)
  PROVE  SameCharge
<1>1. PICK phase \in {"idle", "probing", "gone"} :
        /\ Becomes(a, [actors[a] EXCEPT !.phase = phase])
        /\ [actors[a] EXCEPT !.phase = phase] \in CheckActor
        /\ phase = "gone" => actors[a].told
  BY PhaseTypes DEF Quiet
<1>2. checks' = checks
  BY PhaseTypes DEF Quiet, overlordVars
<1>3. actors[a] \in CheckActor
  BY ActorsTypes DEF MonTypeOK
<1> DEFINE act == [actors[a] EXCEPT !.phase = phase]
<1>4. act.check = actors[a].check /\ act.told = actors[a].told /\ act.phase = phase
  BY <1>3 DEF CheckActor
<1> HIDE DEF act
<1> QED
  BY <1>1, <1>2, <1>4, ChargeKept DEF act

\* What AfterProbe leaves alone, and what it sets.
LEMMA AfterProbeFields ==
  ASSUME NEW act \in CheckActor, NEW ok \in BOOLEAN
  PROVE  /\ AfterProbe(act, ok).check = act.check /\ AfterProbe(act, ok).told = act.told
         /\ AfterProbe(act, ok).config = act.config /\ AfterProbe(act, ok).initial = act.initial
         /\ AfterProbe(act, ok).phase = "idle" /\ AfterProbe(act, ok).firstRun = FALSE
         /\ AfterProbe(act, ok).failures = FailureCount(act, ok)
         /\ AfterProbe(act, ok).status = StatusAfter(act, ok)
         /\ AfterProbe(act, ok).outbox = Reports(act, StatusAfter(act, ok))
         /\ AfterProbe(act, ok).results = Append(act.results, ok)
BY DEF AfterProbe, CheckActor

LEMMA ProbeCharge ==
  ASSUME MonTypeOK, NEW a \in Actors, NEW ok \in BOOLEAN, ProbeEnds(a, ok)
  PROVE  SameCharge
<1>1. actors[a] \in CheckActor
  BY ActorsTypes DEF MonTypeOK
<1>2. Becomes(a, AfterProbe(actors[a], ok)) /\ AfterProbe(actors[a], ok) \in CheckActor
  BY ProbeTypes
<1>3. checks' = checks
  BY DEF ProbeEnds
<1> QED
  BY <1>1, <1>2, <1>3, AfterProbeFields, ChargeKept

LEMMA ReportCharge ==
  ASSUME MonTypeOK, NEW a \in Actors, Report(a)
  PROVE  SameCharge
<1> DEFINE act == [actors[a] EXCEPT !.outbox = Tail(actors[a].outbox)]
<1>1. actors[a] \in CheckActor
  BY ActorsTypes DEF MonTypeOK
<1>2. Becomes(a, act) /\ act \in CheckActor
  BY ReportTypes
<1>3. checks' = checks
  BY DEF Report, overlordVars
<1>4. act.check = actors[a].check /\ act.told = actors[a].told /\ act.phase = actors[a].phase
  BY <1>1 DEF CheckActor
<1> HIDE DEF act
<1>5. actors'[a] = act /\ Actors' = Actors /\ \A b \in Actors \ {a} : actors'[b] = actors[b]
  BY <1>2, ActorBecomes DEF MonTypeOK
<1> QED
  BY <1>3, <1>4, <1>5 DEF SameCharge

\* Who is in charge is not touched by a step other than a replan.
LEMMA OtherCharge ==
  ASSUME MonTypeOK,
         \/ \E a \in Actors : Quiet(a)
         \/ \E a \in Actors, ok \in BOOLEAN : ProbeEnds(a, ok)
         \/ \E a \in Actors : Report(a)
         \/ Asking \/ HandleCheckEvent \/ SendAlert
         \/ \E n \in Jobs : Dispatch(n) \/ Post(n)
         \/ UNCHANGED monVars
  PROVE  SameCharge
<1>1. ASSUME UNCHANGED <<actors, checks>> PROVE SameCharge
  BY <1>1 DEF SameCharge, Actors
<1>2. Asking => UNCHANGED <<actors, checks>>
  BY QueryTypes DEF Asking
<1>3. HandleCheckEvent \/ SendAlert => UNCHANGED <<actors, checks>>
  BY DEF HandleCheckEvent, SendAlert
<1>4. (\E n \in Jobs : Dispatch(n) \/ Post(n)) => UNCHANGED <<actors, checks>>
  BY DeliveryFacts DEF overlordVars
<1>5. UNCHANGED monVars => UNCHANGED <<actors, checks>>
  BY DEF monVars, overlordVars
<1> QED
  BY <1>1, <1>2, <1>3, <1>4, <1>5, QuietCharge, ProbeCharge, ReportCharge

LEMMA ReplanCharge ==
  ASSUME MonTypeOK, OneActorInCharge, Replan
  PROVE  OneActorInCharge'
<1>1. PICK p \in Plans : SyncChecks(p)
  BY DEF Replan
<1> DEFINE new == ToSpawn(p, checks, actors)
<1>2. PICK names \in Seq(new) :
        /\ Len(names) \in Nat
        /\ \A c \in new : \E i \in 1 .. Len(names) : names[i] = c
        /\ \A i \in 1 .. Len(names) : names[i] \in new
        /\ Synced(p, names)
  BY <1>1, SyncFacts
<1>3. actors' \in Seq(CheckActor)
  BY <1>1, SyncFacts
<1>4. /\ Len(actors) \in Nat /\ Actors = 1 .. Len(actors)
      /\ \A a \in Actors : actors[a] \in CheckActor
  BY ActorsTypes DEF MonTypeOK
<1>5. Actors' = 1 .. Len(actors) + Len(names)
  BY <1>2, <1>3, LenProperties DEF Actors, Synced
<1>6. \A a \in Actors : /\ actors'[a].check = actors[a].check /\ actors'[a].phase = actors[a].phase
                        /\ actors'[a].told = (actors[a].told \/ a \in Superseded(p))
  <2> SUFFICES ASSUME NEW a \in Actors
               PROVE  /\ actors'[a].check = actors[a].check /\ actors'[a].phase = actors[a].phase
                      /\ actors'[a].told = (actors[a].told \/ a \in Superseded(p))
    OBVIOUS
  <2>1. actors'[a] = [actors[a] EXCEPT !.told = actors[a].told \/ a \in Superseded(p)]
    BY <1>2 DEF Synced
  <2> QED
    BY <1>4, <2>1 DEF CheckActor
<1>7. \A i \in 1 .. Len(names) : /\ actors'[Len(actors) + i].check = names[i]
                                 /\ ~ actors'[Len(actors) + i].told
                                 /\ actors'[Len(actors) + i].phase = "delay"
                                 /\ checks'[names[i]] = Len(actors) + i
  BY <1>2 DEF Synced, IsNew
<1>8. \A c \in Checks \ new : checks'[c] = IF c \in DOMAIN p.checks THEN checks[c] ELSE NoActor
  BY <1>2 DEF Synced
<1>9. new \subseteq Checks
  BY PlanTypes DEF ToSpawn
<1>10. \A c \in Checks : checks[c] \in {NoActor} \cup Actors
  BY DEF MonTypeOK
<1>11. ASSUME NEW a \in Actors', ~ actors'[a].told PROVE checks'[actors'[a].check] = a
  <2>1. CASE a \in Actors
    <3>1. ~ actors[a].told /\ a \notin Superseded(p) /\ actors'[a].check = actors[a].check
      BY <1>6, <1>11, <2>1
    <3>2. checks[actors[a].check] = a /\ actors[a].check \in Checks
      BY <1>4, <2>1, <3>1 DEF OneActorInCharge, CheckActor
    <3>3. actors[a].check \notin new /\ actors[a].check \in DOMAIN p.checks
      BY <3>1, <3>2 DEF Superseded
    <3> QED
      BY <1>8, <3>1, <3>2, <3>3
  <2>2. CASE a \notin Actors
    <3>1. PICK i \in 1 .. Len(names) : a = Len(actors) + i
      <4>1. a - Len(actors) \in 1 .. Len(names)
        BY <1>2, <1>4, <1>5, <2>2
      <4> QED
        BY SMTT(30), <1>4, <1>5, <4>1
    <3> QED
      BY <1>7, <3>1
  <2> QED
    BY <2>1, <2>2
<1>12. ASSUME NEW c \in Checks, checks'[c] # NoActor
       PROVE  /\ actors'[checks'[c]].check = c /\ ~ actors'[checks'[c]].told
              /\ actors'[checks'[c]].phase # "gone"
  <2>1. CASE c \in new
    <3>1. PICK i \in 1 .. Len(names) : names[i] = c
      BY <1>2, <2>1
    <3> QED
      BY <1>7, <3>1
  <2>2. CASE c \notin new
    <3>1. c \in DOMAIN p.checks /\ checks'[c] = checks[c] /\ checks[c] \in Actors
      BY <1>8, <1>10, <1>12, <2>2
    <3>2. actors[checks[c]].check = c /\ ~ actors[checks[c]].told /\ actors[checks[c]].phase # "gone"
      BY <1>12, <3>1 DEF OneActorInCharge
    <3>3. checks[c] \notin Superseded(p)
      <4> SUFFICES ASSUME NEW d \in Checks, checks[d] = checks[c], d \in new \/ d \notin DOMAIN p.checks
                   PROVE  FALSE
        BY <1>9 DEF Superseded
      <4>1. actors[checks[d]].check = d
        BY <1>12, <3>1 DEF OneActorInCharge
      <4>2. d = c
        BY <3>2, <4>1
      <4> QED
        BY <2>2, <3>1, <4>2
    <3> QED
      BY <1>6, <3>1, <3>2, <3>3
  <2> QED
    BY <2>1, <2>2
<1> QED
  BY <1>11, <1>12 DEF OneActorInCharge

\* A replan of check actors leaves exactly one in charge of each check: every actor
\* that was not told to shut down is the one in the overlord's table, and the table
\* names none that has gone.
THEOREM InCharge == MonSpec => []OneActorInCharge
<1>1. MonInit => OneActorInCharge
  <2> SUFFICES ASSUME MonInit PROVE OneActorInCharge
    OBVIOUS
  <2>1. PICK names \in Seq(Checks) :
          /\ \A i \in Actors :
               /\ IsNew(actors[i], names[i])
               /\ checks[names[i]] = i
          /\ \A c \in Checks : checks[c] # NoActor => checks[c] \in Actors /\ names[checks[c]] = c
    BY InitTypes
  <2>2. \A i \in Actors : /\ actors[i].check = names[i] /\ ~ actors[i].told
                          /\ actors[i].phase = "delay"
    BY <2>1 DEF IsNew
  <2> QED
    BY <2>1, <2>2 DEF OneActorInCharge
<1>2. MonTypeOK /\ OneActorInCharge /\ [MonNext]_monVars => OneActorInCharge'
  <2> SUFFICES ASSUME MonTypeOK, OneActorInCharge, [MonNext]_monVars PROVE OneActorInCharge'
    OBVIOUS
  <2>1. ASSUME SameCharge PROVE OneActorInCharge'
    <3>1. \A c \in Checks : checks[c] # NoActor => checks[c] \in Actors
      BY DEF MonTypeOK
    <3> QED
      BY <2>1, <3>1 DEF SameCharge, OneActorInCharge
  <2> QED
    BY <2>1, Steps, OtherCharge, ReplanCharge
<1> QED
  BY <1>1, <1>2, MonTypes, PTL DEF MonSpec

-----------------------------------------------------------------------------
(* The reports of the actors.                                              *)

\* What a replan does to the actors that are there, and to those it adds.
LEMMA ReplanFacts ==
  ASSUME MonTypeOK, Replan
  PROVE  /\ Len(actors) \in Nat /\ Actors = 1 .. Len(actors) /\ Actors \subseteq Actors'
         /\ \A a \in Actors :
              /\ actors[a].told => actors'[a].told
              /\ actors'[a].check = actors[a].check /\ actors'[a].status = actors[a].status
              /\ actors'[a].failures = actors[a].failures /\ actors'[a].config = actors[a].config
              /\ actors'[a].initial = actors[a].initial /\ actors'[a].phase = actors[a].phase
              /\ actors'[a].firstRun = actors[a].firstRun /\ actors'[a].outbox = actors[a].outbox
              /\ actors'[a].results = actors[a].results
         /\ \A a \in Actors' \ Actors : IsNew(actors'[a], actors'[a].check)
         /\ \A c \in Checks : checks'[c] \in {NoActor, checks[c]} \cup (Actors' \ Actors)
         /\ UNCHANGED <<query, asked, state, sending, queries, reporter, tally, dropped,
                        checkEvents, jobs>>
<1>1. PICK p \in Plans : SyncChecks(p)
  BY DEF Replan
<1> DEFINE new == ToSpawn(p, checks, actors)
<1>2. PICK names \in Seq(new) :
        /\ Len(names) \in Nat
        /\ \A c \in new : \E i \in 1 .. Len(names) : names[i] = c
        /\ Synced(p, names)
  BY <1>1, SyncFacts
<1>3. actors' \in Seq(CheckActor)
  BY <1>1, SyncFacts
<1>4. /\ Len(actors) \in Nat /\ Actors = 1 .. Len(actors)
      /\ \A a \in Actors : actors[a] \in CheckActor
  BY ActorsTypes DEF MonTypeOK
<1>5. Actors' = 1 .. Len(actors) + Len(names)
  BY <1>2, <1>3, LenProperties DEF Actors, Synced
<1>6. ASSUME NEW a \in Actors
      PROVE  /\ actors[a].told => actors'[a].told
             /\ actors'[a].check = actors[a].check /\ actors'[a].status = actors[a].status
             /\ actors'[a].failures = actors[a].failures /\ actors'[a].config = actors[a].config
             /\ actors'[a].initial = actors[a].initial /\ actors'[a].phase = actors[a].phase
             /\ actors'[a].firstRun = actors[a].firstRun /\ actors'[a].outbox = actors[a].outbox
             /\ actors'[a].results = actors[a].results
  <2>1. actors'[a] = [actors[a] EXCEPT !.told = actors[a].told \/ a \in Superseded(p)]
    BY <1>2, <1>6 DEF Synced
  <2>2. actors[a] \in CheckActor
    BY <1>4, <1>6
  <2> QED
    BY <2>1, <2>2 DEF CheckActor
<1>7. ASSUME NEW a \in Actors' \ Actors PROVE IsNew(actors'[a], actors'[a].check)
  <2>1. a - Len(actors) \in 1 .. Len(names) /\ a = Len(actors) + (a - Len(actors))
    BY <1>2, <1>4, <1>5, <1>7
  <2>2. IsNew(actors'[a], names[a - Len(actors)])
    BY <1>2, <2>1 DEF Synced
  <2> QED
    BY <2>2 DEF IsNew
<1>8. ASSUME NEW c \in Checks PROVE checks'[c] \in {NoActor, checks[c]} \cup (Actors' \ Actors)
  <2>1. CASE c \in new
    <3>1. PICK i \in 1 .. Len(names) : names[i] = c
      BY <1>2, <2>1
    <3>2. checks'[c] = Len(actors) + i
      BY <1>2, <3>1 DEF Synced
    <3> QED
      BY <1>2, <1>4, <1>5, <3>2
  <2>2. CASE c \notin new
    BY <1>2, <2>2 DEF Synced
  <2> QED
    BY <2>1, <2>2
<1>9. UNCHANGED <<query, asked, state, sending, queries, reporter, tally, dropped, checkEvents, jobs>>
  BY DEF Replan
<1>10. Actors \subseteq Actors'
  BY <1>2, <1>4, <1>5
<1> QED
  BY <1>4, <1>6, <1>7, <1>8, <1>9, <1>10

\* What a run reports: nothing, or once or twice the status it ends with.
LEMMA ReportsFacts ==
  ASSUME NEW act \in CheckActor, NEW s \in Status
  PROVE  /\ Reports(act, s) \in Seq(Status)
         /\ Len(Reports(act, s)) = (IF s # act.status THEN 1 ELSE 0) + (IF act.firstRun THEN 1 ELSE 0)
         /\ \A i \in 1 .. Len(Reports(act, s)) : Reports(act, s)[i] = s
<1> DEFINE x == IF s # act.status THEN <<s>> ELSE <<>>
           y == IF act.firstRun THEN <<s>> ELSE <<>>
<1>1. /\ x \in Seq(Status) /\ Len(x) = IF s # act.status THEN 1 ELSE 0
      /\ \A i \in 1 .. Len(x) : x[i] = s
  <2>1. CASE s # act.status
    BY <2>1
  <2>2. CASE s = act.status
    BY <2>2
  <2> QED
    BY <2>1, <2>2
<1>2. /\ y \in Seq(Status) /\ Len(y) = IF act.firstRun THEN 1 ELSE 0
      /\ \A i \in 1 .. Len(y) : y[i] = s
  <2>1. CASE act.firstRun
    BY <2>1
  <2>2. CASE ~ act.firstRun
    BY <2>2
  <2> QED
    BY <2>1, <2>2
<1>3. Reports(act, s) = x \o y
  BY DEF Reports
<1> HIDE DEF x, y
<1>4. /\ x \o y \in Seq(Status) /\ Len(x \o y) = Len(x) + Len(y)
      /\ \A i \in 1 .. Len(x) + Len(y) : (x \o y)[i] = IF i <= Len(x) THEN x[i] ELSE y[i - Len(x)]
  BY <1>1, <1>2, ConcatProperties
<1>5. Len(x) \in Nat /\ Len(y) \in Nat
  BY <1>1, <1>2, LenProperties
<1>6. \A i \in 1 .. Len(x \o y) : (x \o y)[i] = s
  BY <1>1, <1>2, <1>4, <1>5
<1> QED
  BY <1>1, <1>2, <1>3, <1>4, <1>6

\* The reports that an actor has still to send all name its status, and there are
\* none while it probes or before its first run has ended.
TrueReports(act) ==
  /\ act.phase = "probing" \/ act.firstRun => act.outbox = <<>>
  /\ Len(act.outbox) <= 2
  /\ \A i \in 1 .. Len(act.outbox) : act.outbox[i] = act.status

Truthful == \A a \in Actors : TrueReports(actors[a])

LEMMA QuietTruth ==
  ASSUME MonTypeOK, Truthful, NEW a \in Actors, Quiet(a)
  PROVE  Truthful'
<1>1. PICK phase \in {"idle", "probing", "gone"} :
        /\ Becomes(a, [actors[a] EXCEPT !.phase = phase])
        /\ [actors[a] EXCEPT !.phase = phase] \in CheckActor
        /\ phase = "probing" => actors[a].outbox = <<>>
  BY PhaseTypes DEF Quiet
<1>2. actors[a] \in CheckActor /\ TrueReports(actors[a])
  BY ActorsTypes DEF MonTypeOK, Truthful
<1> DEFINE act == [actors[a] EXCEPT !.phase = phase]
<1>3. /\ act.phase = phase /\ act.outbox = actors[a].outbox /\ act.status = actors[a].status
      /\ act.firstRun = actors[a].firstRun
  BY <1>2 DEF CheckActor
<1> HIDE DEF act
<1>4. TrueReports(act)
  BY <1>1, <1>2, <1>3 DEF TrueReports
<1>5. /\ Actors' = Actors /\ actors'[a] = act
      /\ \A b \in Actors \ {a} : actors'[b] = actors[b]
  BY <1>1, ActorBecomes DEF MonTypeOK, act
<1> QED
  BY <1>4, <1>5 DEF Truthful

LEMMA ProbeTruth ==
  ASSUME MonTypeOK, Truthful, NEW a \in Actors, NEW ok \in BOOLEAN, ProbeEnds(a, ok)
  PROVE  Truthful'
<1> DEFINE act == AfterProbe(actors[a], ok)
           s == StatusAfter(actors[a], ok)
<1>1. actors[a] \in CheckActor
  BY ActorsTypes DEF MonTypeOK
<1>2. Becomes(a, act) /\ act \in CheckActor
  BY ProbeTypes
<1>3. act.phase = "idle" /\ act.firstRun = FALSE /\ act.status = s /\ act.outbox = Reports(actors[a], s)
  BY <1>1, AfterProbeFields
<1>4. s \in Status
  BY <1>2, <1>3 DEF CheckActor
<1> HIDE DEF act, s
<1>5. Len(act.outbox) <= 2 /\ \A i \in 1 .. Len(act.outbox) : act.outbox[i] = act.status
  <2> DEFINE r == Reports(actors[a], s)
  <2>1. /\ Len(r) = (IF s # actors[a].status THEN 1 ELSE 0) + (IF actors[a].firstRun THEN 1 ELSE 0)
        /\ \A i \in 1 .. Len(r) : r[i] = s
    BY <1>1, <1>4, ReportsFacts
  <2> HIDE DEF r
  <2>2. Len(r) <= 2
    BY <2>1
  <2> QED
    BY <1>3, <2>1, <2>2 DEF r
<1>6. TrueReports(act)
  BY <1>3, <1>5 DEF TrueReports
<1>7. /\ Actors' = Actors /\ actors'[a] = act
      /\ \A b \in Actors \ {a} : actors'[b] = actors[b]
  BY <1>2, ActorBecomes DEF MonTypeOK
<1> QED
  BY <1>6, <1>7 DEF Truthful

\* What a report takes from the outbox.
LEMMA ReportFacts ==
  ASSUME MonTypeOK, Truthful, NEW a \in Actors, Report(a)
  PROVE  /\ Actors' = Actors /\ \A b \in Actors \ {a} : actors'[b] = actors[b]
         /\ actors'[a].check = actors[a].check /\ actors'[a].status = actors[a].status
         /\ actors'[a].firstRun = actors[a].firstRun /\ actors'[a].told = actors[a].told
         /\ actors'[a].phase = actors[a].phase
         /\ actors[a].outbox \in Seq(Status) /\ actors[a].outbox # <<>>
         /\ Len(actors[a].outbox) \in 1 .. 2
         /\ Len(actors'[a].outbox) = Len(actors[a].outbox) - 1
         /\ \A i \in 1 .. Len(actors'[a].outbox) : actors'[a].outbox[i] = actors[a].outbox[i + 1]
         /\ Head(actors[a].outbox) = actors[a].status
         /\ checkEvents' = Append(checkEvents, [check |-> actors[a].check,
                                                status |-> actors[a].status, from |-> a])
<1> DEFINE act == [actors[a] EXCEPT !.outbox = Tail(actors[a].outbox)]
           q == actors[a].outbox
<1>1. actors[a] \in CheckActor /\ TrueReports(actors[a])
  BY ActorsTypes DEF MonTypeOK, Truthful
<1>2. Becomes(a, act) /\ act \in CheckActor
  BY ReportTypes
<1>3. /\ Actors' = Actors /\ actors'[a] = act
      /\ \A b \in Actors \ {a} : actors'[b] = actors[b]
  BY <1>2, ActorBecomes DEF MonTypeOK
<1>4. /\ act.check = actors[a].check /\ act.status = actors[a].status
      /\ act.firstRun = actors[a].firstRun /\ act.told = actors[a].told
      /\ act.phase = actors[a].phase /\ act.outbox = Tail(q)
  BY <1>1 DEF CheckActor
<1>5. q \in Seq(Status) /\ q # <<>>
  BY <1>1 DEF CheckActor, Report
<1>6. Len(q) \in Nat /\ Len(q) # 0 /\ Len(q) <= 2
  BY <1>1, <1>5, LenProperties, EmptySeq DEF TrueReports
<1>7. Head(q) = q[1] /\ q[1] = actors[a].status
  BY <1>1, <1>5, <1>6 DEF TrueReports
<1>8. Len(Tail(q)) = Len(q) - 1 /\ \A i \in 1 .. Len(Tail(q)) : Tail(q)[i] = q[i + 1]
  BY <1>5, HeadTailProperties
<1>9. checkEvents' = Append(checkEvents, [check |-> actors[a].check, status |-> Head(q), from |-> a])
  BY DEF Report
<1> HIDE DEF act, q
<1>10. Len(q) \in 1 .. 2
  <2>1. Len(q) \in Nat /\ Len(q) # 0 /\ Len(q) <= 2
    BY <1>6
  <2> DEFINE k == Len(q)
  <2> HIDE DEF k
  <2>2. k \in Nat /\ k # 0 /\ k <= 2
    BY <2>1 DEF k
  <2>3. k \in 1 .. 2
    BY <2>2
  <2> QED
    BY <2>3 DEF k
<1> QED
  BY <1>3, <1>4, <1>5, <1>7, <1>8, <1>9, <1>10 DEF q

LEMMA ReportTruth ==
  ASSUME MonTypeOK, Truthful, NEW a \in Actors, Report(a)
  PROVE  Truthful'
<1>1. TrueReports(actors[a])
  BY DEF Truthful
<1>2. /\ Actors' = Actors /\ \A b \in Actors \ {a} : actors'[b] = actors[b]
      /\ actors'[a].status = actors[a].status /\ actors'[a].phase = actors[a].phase
      /\ actors'[a].firstRun = actors[a].firstRun /\ actors[a].outbox # <<>>
      /\ Len(actors[a].outbox) \in 1 .. 2 /\ Len(actors'[a].outbox) = Len(actors[a].outbox) - 1
      /\ \A i \in 1 .. Len(actors'[a].outbox) : actors'[a].outbox[i] = actors[a].outbox[i + 1]
  BY ReportFacts
<1>3. ~(actors[a].phase = "probing" \/ actors[a].firstRun)
  BY <1>1, <1>2 DEF TrueReports
<1>4. \A i \in 1 .. Len(actors'[a].outbox) : actors'[a].outbox[i] = actors'[a].status
  BY <1>1, <1>2 DEF TrueReports
<1>5. TrueReports(actors'[a])
  BY <1>2, <1>3, <1>4 DEF TrueReports
<1> QED
  BY <1>2, <1>5 DEF Truthful

LEMMA ReplanTruth ==
  ASSUME MonTypeOK, Truthful, Replan
  PROVE  Truthful'
<1>1. ASSUME NEW a \in Actors PROVE TrueReports(actors'[a])
  BY <1>1, ReplanFacts DEF Truthful, TrueReports
<1>2. ASSUME NEW a \in Actors' \ Actors PROVE TrueReports(actors'[a])
  <2>1. actors'[a].outbox = <<>>
    BY <1>2, ReplanFacts DEF IsNew
  <2> QED
    BY <2>1, EmptySeq DEF TrueReports
<1> QED
  BY <1>1, <1>2 DEF Truthful

\* Steps that leave the actors alone.
LEMMA ActorsAlone ==
  ASSUME MonTypeOK,
         \/ Asking \/ HandleCheckEvent \/ SendAlert
         \/ \E n \in Jobs : Dispatch(n) \/ Post(n)
         \/ UNCHANGED monVars
  PROVE  UNCHANGED <<actors, checks>> /\ Actors' = Actors
<1>1. Asking => UNCHANGED <<actors, checks>>
  BY QueryTypes DEF Asking
<1>2. HandleCheckEvent \/ SendAlert => UNCHANGED <<actors, checks>>
  BY DEF HandleCheckEvent, SendAlert
<1>3. (\E n \in Jobs : Dispatch(n) \/ Post(n)) => UNCHANGED <<actors, checks>>
  BY DeliveryFacts DEF overlordVars
<1>4. UNCHANGED monVars => UNCHANGED <<actors, checks>>
  BY DEF monVars, overlordVars
<1> QED
  BY <1>1, <1>2, <1>3, <1>4 DEF Actors

LEMMA AlwaysTruthful == MonSpec => []Truthful
<1>1. MonInit => Truthful
  <2> SUFFICES ASSUME MonInit PROVE Truthful
    OBVIOUS
  <2>1. \A a \in Actors : actors[a].outbox = <<>>
    BY InitTypes DEF IsNew
  <2> QED
    BY <2>1, EmptySeq DEF Truthful, TrueReports
<1>2. MonTypeOK /\ Truthful /\ [MonNext]_monVars => Truthful'
  <2> SUFFICES ASSUME MonTypeOK, Truthful, [MonNext]_monVars PROVE Truthful'
    OBVIOUS
  <2>1. ASSUME UNCHANGED <<actors, checks>>, Actors' = Actors PROVE Truthful'
    BY <2>1 DEF Truthful
  <2> QED
    BY <2>1, Steps, ActorsAlone, QuietTruth, ProbeTruth, ReportTruth, ReplanTruth
<1> QED
  BY <1>1, <1>2, MonTypes, PTL DEF MonSpec

-----------------------------------------------------------------------------
(* The alert sender follows the checks.                                    *)

\* The actor in charge of a check has reported.
HasReported(c) ==
  checks[c] # NoActor /\ ~ actors[checks[c]].firstRun /\ actors[checks[c]].outbox = <<>>

\* StatusFollowsChecks, for one check.
Followed(c) ==
  HasReported(c) =>
    /\ \A i \in About(c) : Latest(i, About(c)) =>
         OwnOrStale(checks[c], checkEvents[i].status, checkEvents[i].from)
    /\ About(c) = {} => OwnOrStale(checks[c], state[c], reporter[c])

LEMMA FollowedAll == StatusFollowsChecks <=> \A c \in Checks : Followed(c)
BY DEF StatusFollowsChecks, Followed, HasReported

\* A report stays what it is while the status of the actor in charge does, since
\* no actor that was told to go is untold.
LEMMA StillOwnOrStale ==
  ASSUME NEW a, NEW status, NEW from, OwnOrStale(a, status, from),
         Actors \subseteq Actors', actors'[a].status = actors[a].status,
         \A b \in Actors : actors[b].told => actors'[b].told
  PROVE  OwnOrStale(a, status, from)'
BY DEF OwnOrStale

LEMMA FollowKept ==
  ASSUME NEW c \in Checks, Followed(c), UNCHANGED <<checkEvents, state, reporter>>,
         Actors \subseteq Actors', \A b \in Actors : actors[b].told => actors'[b].told,
         HasReported(c)' => /\ HasReported(c) /\ checks'[c] = checks[c]
                            /\ actors'[checks[c]].status = actors[checks[c]].status
  PROVE  Followed(c)'
<1> SUFFICES ASSUME HasReported(c)' PROVE Followed(c)'
  BY DEF Followed
<1>1. /\ HasReported(c) /\ checks'[c] = checks[c]
      /\ actors'[checks[c]].status = actors[checks[c]].status
  OBVIOUS
<1>2. About(c)' = About(c)
  BY DEF About
<1>3. ASSUME NEW i \in About(c)', Latest(i, About(c)')
      PROVE  OwnOrStale(checks[c], checkEvents[i].status, checkEvents[i].from)'
  <2>1. OwnOrStale(checks[c], checkEvents[i].status, checkEvents[i].from)
    BY <1>1, <1>2, <1>3 DEF Followed
  <2> QED
    BY <1>1, <2>1 DEF OwnOrStale
<1>4. ASSUME About(c)' = {} PROVE OwnOrStale(checks[c], state[c], reporter[c])'
  <2>1. OwnOrStale(checks[c], state[c], reporter[c])
    BY <1>1, <1>2, <1>4 DEF Followed
  <2> QED
    BY <1>1, <2>1 DEF OwnOrStale
<1> QED
  BY <1>3, <1>4 DEF Followed, Latest

LEMMA QuietFollow ==
  ASSUME MonTypeOK, NEW c \in Checks, Followed(c), NEW a \in Actors, Quiet(a)
  PROVE  Followed(c)'
<1>1. PICK phase \in {"idle", "probing", "gone"} :
        /\ Becomes(a, [actors[a] EXCEPT !.phase = phase])
        /\ [actors[a] EXCEPT !.phase = phase] \in CheckActor
  BY PhaseTypes DEF Quiet
<1>2. UNCHANGED <<checkEvents, state, reporter, checks>>
  BY PhaseTypes DEF Quiet, overlordVars
<1> DEFINE act == [actors[a] EXCEPT !.phase = phase]
<1>3. actors[a] \in CheckActor /\ \A b \in Checks : checks[b] \in {NoActor} \cup Actors
  BY ActorsTypes DEF MonTypeOK
<1>4. /\ act.outbox = actors[a].outbox /\ act.status = actors[a].status
      /\ act.firstRun = actors[a].firstRun /\ act.told = actors[a].told
  BY <1>3 DEF CheckActor
<1>5. /\ Actors' = Actors /\ actors'[a] = act
      /\ \A b \in Actors \ {a} : actors'[b] = actors[b]
  BY <1>1, ActorBecomes DEF MonTypeOK
<1> HIDE DEF act
<1>6. \A b \in Actors : /\ actors[b].told => actors'[b].told
                        /\ actors'[b].outbox = actors[b].outbox
                        /\ actors'[b].status = actors[b].status
                        /\ actors'[b].firstRun = actors[b].firstRun
  BY <1>4, <1>5
<1>7. HasReported(c)' => /\ HasReported(c) /\ checks'[c] = checks[c]
                         /\ actors'[checks[c]].status = actors[checks[c]].status
  BY <1>2, <1>3, <1>6 DEF HasReported
<1> QED
  BY <1>2, <1>5, <1>6, <1>7, FollowKept

LEMMA ProbeFollow ==
  ASSUME MonTypeOK, Truthful, NEW c \in Checks, Followed(c), NEW a \in Actors, NEW ok \in BOOLEAN,
         ProbeEnds(a, ok)
  PROVE  Followed(c)'
<1> DEFINE act == AfterProbe(actors[a], ok)
           s == StatusAfter(actors[a], ok)
           r == Reports(actors[a], s)
<1>1. UNCHANGED <<checkEvents, state, reporter, checks>> /\ actors[a].phase = "probing"
  BY DEF ProbeEnds
<1>2. /\ actors[a] \in CheckActor /\ \A b \in Checks : checks[b] \in {NoActor} \cup Actors
      /\ TrueReports(actors[a])
  BY ActorsTypes DEF MonTypeOK, Truthful
<1>3. Becomes(a, act) /\ act \in CheckActor
  BY ProbeTypes
<1>4. act.told = actors[a].told /\ act.status = s /\ act.outbox = r
  BY <1>2, AfterProbeFields
<1>5. s \in Status
  BY <1>3, <1>4 DEF CheckActor
<1> HIDE DEF act, s
<1>6. Len(r) = (IF s # actors[a].status THEN 1 ELSE 0) + (IF actors[a].firstRun THEN 1 ELSE 0)
  BY <1>2, <1>5, ReportsFacts
<1> HIDE DEF r
<1>7. r = <<>> => s = actors[a].status /\ ~ actors[a].firstRun
  <2> SUFFICES ASSUME r = <<>> PROVE s = actors[a].status /\ ~ actors[a].firstRun
    OBVIOUS
  <2>1. Len(r) = 0
    BY EmptySeq
  <2> QED
    BY <1>6, <2>1
<1>8. actors[a].outbox = <<>>
  BY <1>1, <1>2 DEF TrueReports
<1>9. /\ Actors' = Actors /\ actors'[a] = act
      /\ \A b \in Actors \ {a} : actors'[b] = actors[b]
  BY <1>3, ActorBecomes DEF MonTypeOK
<1>10. \A b \in Actors : actors[b].told => actors'[b].told
  BY <1>4, <1>9
<1>11. HasReported(c)' => /\ HasReported(c) /\ checks'[c] = checks[c]
                          /\ actors'[checks[c]].status = actors[checks[c]].status
  BY <1>1, <1>2, <1>4, <1>7, <1>8, <1>9 DEF HasReported
<1> QED
  BY <1>1, <1>9, <1>10, <1>11, FollowKept

LEMMA ReplanFollow ==
  ASSUME MonTypeOK, NEW c \in Checks, Followed(c), Replan
  PROVE  Followed(c)'
<1>1. /\ Actors \subseteq Actors' /\ UNCHANGED <<checkEvents, state, reporter>>
      /\ \A b \in Actors : /\ actors[b].told => actors'[b].told
                           /\ actors'[b].outbox = actors[b].outbox
                           /\ actors'[b].status = actors[b].status
                           /\ actors'[b].firstRun = actors[b].firstRun
      /\ checks'[c] \in {NoActor, checks[c]} \cup (Actors' \ Actors)
      /\ \A b \in Actors' \ Actors : actors'[b].firstRun
  BY ReplanFacts DEF IsNew
<1>2. checks[c] \in {NoActor} \cup Actors
  BY DEF MonTypeOK
<1>3. HasReported(c)' => /\ HasReported(c) /\ checks'[c] = checks[c]
                         /\ actors'[checks[c]].status = actors[checks[c]].status
  BY <1>1, <1>2 DEF HasReported
<1> QED
  BY <1>1, <1>3, FollowKept

LEMMA AloneFollow ==
  ASSUME MonTypeOK, NEW c \in Checks, Followed(c), UNCHANGED <<actors, checks>>, Actors' = Actors,
         UNCHANGED <<checkEvents, state, reporter>>
  PROVE  Followed(c)'
BY DEF Followed, HasReported, About, Latest, OwnOrStale

\* A report of the actor in charge is the last of its check, and one of another
\* actor is of one that was told to go.
LEMMA ReportFollow ==
  ASSUME MonTypeOK, OneActorInCharge, Truthful, NEW c \in Checks, Followed(c),
         NEW a \in Actors, Report(a)
  PROVE  Followed(c)'
<1> DEFINE event == [check |-> actors[a].check, status |-> actors[a].status, from |-> a]
<1>1. /\ Actors' = Actors /\ \A b \in Actors \ {a} : actors'[b] = actors[b]
      /\ actors'[a].check = actors[a].check /\ actors'[a].status = actors[a].status
      /\ actors'[a].firstRun = actors[a].firstRun /\ actors'[a].told = actors[a].told
      /\ checkEvents' = Append(checkEvents, event)
  BY ReportFacts
<1>2. UNCHANGED <<state, reporter, checks>>
  BY DEF Report, overlordVars
<1>3. /\ actors[a] \in CheckActor /\ \A b \in Checks : checks[b] \in {NoActor} \cup Actors
      /\ checkEvents \in Seq([check : Checks, status : Status, from : Actors])
  BY ActorsTypes DEF MonTypeOK
<1>4. event \in [check : Checks, status : Status, from : Actors]
  BY <1>3 DEF CheckActor
<1>5. event.check = actors[a].check /\ event.status = actors[a].status /\ event.from = a
  OBVIOUS
<1> DEFINE n == Len(checkEvents)
<1> HIDE DEF event
<1>6. /\ n \in Nat /\ DOMAIN checkEvents = 1 .. n /\ DOMAIN checkEvents' = 1 .. n + 1
      /\ checkEvents'[n + 1] = event /\ \A i \in 1 .. n : checkEvents'[i] = checkEvents[i]
  <2>1. n \in Nat /\ DOMAIN checkEvents = 1 .. n
    BY <1>3, LenProperties
  <2>2. /\ checkEvents' \in Seq([check : Checks, status : Status, from : Actors])
        /\ Len(checkEvents') = n + 1
        /\ checkEvents'[n + 1] = event /\ \A i \in 1 .. n : checkEvents'[i] = checkEvents[i]
    BY <1>1, <1>3, <1>4, AppendProperties
  <2>3. DOMAIN checkEvents' = 1 .. n + 1
    BY <2>2, LenProperties
  <2> QED
    BY <2>1, <2>2, <2>3
<1> HIDE DEF n
<1>7. \A b \in Actors : actors'[b].status = actors[b].status /\ actors'[b].told = actors[b].told
  BY <1>1
<1>8. \A b \in Actors, status \in Status, from \in Actors :
        OwnOrStale(b, status, from)' <=> OwnOrStale(b, status, from)
  BY <1>1, <1>7 DEF OwnOrStale
<1> SUFFICES ASSUME HasReported(c)' PROVE Followed(c)'
  BY DEF Followed
<1>9. checks'[c] = checks[c] /\ checks[c] \in Actors /\ checks[c] # NoActor
  BY <1>2, <1>3 DEF HasReported
<1>10. CASE actors[a].check = c
  <2>1. About(c)' = About(c) \cup {n + 1} /\ About(c) \subseteq 1 .. n
    BY <1>5, <1>6, <1>10 DEF About
  <2>2. OwnOrStale(checks[c], actors[a].status, a)'
    <3>1. CASE a = checks[c]
      BY <1>1, <1>9, <3>1 DEF OwnOrStale
    <3>2. CASE a # checks[c]
      <4>1. actors[a].told
        BY <1>10, <3>2 DEF OneActorInCharge
      <4> QED
        BY <1>1, <1>9, <3>2, <4>1 DEF OwnOrStale
    <3> QED
      BY <3>1, <3>2
  <2>3. ASSUME NEW i \in About(c)', Latest(i, About(c)')
        PROVE  OwnOrStale(checks[c], checkEvents[i].status, checkEvents[i].from)'
    <3>1. \A j \in About(c)' : j <= i
      BY <2>3 DEF Latest
    <3>2. n + 1 <= i /\ i \in 1 .. n \cup {n + 1} /\ n \in Nat
      BY <1>6, <2>1, <3>1
    <3>3. i = n + 1
      BY <3>2
    <3>4. checkEvents'[i].status = actors[a].status /\ checkEvents'[i].from = a
      BY <1>5, <1>6, <3>3
    <3> QED
      BY <1>1, <2>2, <1>9, <3>4 DEF OwnOrStale
  <2> QED
    BY <2>1, <2>3 DEF Followed, Latest
<1>11. CASE actors[a].check # c
  <2>1. About(c)' = About(c) /\ About(c) \subseteq 1 .. n
    BY <1>5, <1>6, <1>11 DEF About
  <2>2. checks[c] # a
    BY <1>9, <1>11 DEF OneActorInCharge
  <2>3. HasReported(c)
    BY <1>1, <1>2, <1>9, <2>2 DEF HasReported
  <2>4. ASSUME NEW i \in About(c)', Latest(i, About(c)')
        PROVE  OwnOrStale(checks[c], checkEvents[i].status, checkEvents[i].from)'
    <3>1. OwnOrStale(checks[c], checkEvents[i].status, checkEvents[i].from)
      BY <2>1, <2>3, <2>4 DEF Followed
    <3>2. checkEvents'[i] = checkEvents[i]
      BY <1>6, <2>1, <2>4
    <3> QED
      BY <1>1, <1>7, <1>9, <3>1, <3>2 DEF OwnOrStale
  <2>5. ASSUME About(c)' = {} PROVE OwnOrStale(checks[c], state[c], reporter[c])'
    <3>1. OwnOrStale(checks[c], state[c], reporter[c])
      BY <2>1, <2>3, <2>5 DEF Followed
    <3> QED
      BY <1>1, <1>2, <1>7, <1>9, <3>1 DEF OwnOrStale
  <2> QED
    BY <2>4, <2>5 DEF Followed, Latest
<1> QED
  BY <1>10, <1>11

\* The first event of the channel becomes the status the alert sender knows.
LEMMA EventFollow ==
  ASSUME MonTypeOK, NEW c \in Checks, Followed(c), HandleCheckEvent
  PROVE  Followed(c)'
<1> DEFINE event == Head(checkEvents)
           n == Len(checkEvents)
<1>1. UNCHANGED <<actors, checks>> /\ Actors' = Actors
  BY DEF HandleCheckEvent, Actors
<1>2. checkEvents # <<>> /\ checkEvents' = Tail(checkEvents)
  BY DEF HandleCheckEvent
<1>3. /\ event = checkEvents[1] /\ event \in [check : Checks, status : Status, from : Actors]
      /\ n \in Nat \ {0} /\ DOMAIN checkEvents = 1 .. n /\ DOMAIN checkEvents' = 1 .. (n - 1)
      /\ \A i \in DOMAIN checkEvents' : checkEvents'[i] = checkEvents[i + 1]
  BY <1>1, <1>2, EventTaken
<1>4. /\ state' = [state EXCEPT ![event.check] = event.status]
      /\ reporter' = [reporter EXCEPT ![event.check] = event.from]
  BY DEF HandleCheckEvent
<1> HIDE DEF event, n
<1>5. state \in [Checks -> Status \cup {"unknown"}] /\ reporter \in [Checks -> {NoActor} \cup Actors]
  BY DEF MonTypeOK
<1> SUFFICES ASSUME HasReported(c)' PROVE Followed(c)'
  BY DEF Followed
<1>6. HasReported(c)
  BY <1>1 DEF HasReported
<1>7. ASSUME NEW i \in About(c)', Latest(i, About(c)')
      PROVE  OwnOrStale(checks[c], checkEvents[i].status, checkEvents[i].from)'
  <2>1. i \in 1 .. (n - 1) /\ checkEvents'[i] = checkEvents[i + 1] /\ checkEvents'[i].check = c
    BY <1>3, <1>7 DEF About
  <2>2. i + 1 \in About(c)
    BY <1>3, <2>1 DEF About
  <2>3. \A j \in About(c) : j <= i + 1
    <3> SUFFICES ASSUME NEW j \in About(c) PROVE j <= i + 1
      OBVIOUS
    <3>1. j \in 1 .. n /\ checkEvents[j].check = c
      BY <1>3 DEF About
    <3>2. CASE j = 1
      BY <2>1, <3>2
    <3>3. CASE j # 1
      <4>1. j - 1 \in 1 .. (n - 1) /\ (j - 1) + 1 = j
        BY <1>3, <3>1, <3>3
      <4>2. checkEvents'[j - 1].check = c
        BY <1>3, <3>1, <4>1
      <4>3. j - 1 \in About(c)'
        BY <1>3, <4>1, <4>2 DEF About
      <4>4. j - 1 <= i
        BY <1>7, <4>3 DEF Latest
      <4> QED
        BY <2>1, <3>1, <4>4
    <3> QED
      BY <3>2, <3>3
  <2>4. Latest(i + 1, About(c))
    BY <2>2, <2>3 DEF Latest
  <2>5. OwnOrStale(checks[c], checkEvents[i + 1].status, checkEvents[i + 1].from)
    BY <1>6, <2>2, <2>4 DEF Followed
  <2> QED
    BY <1>1, <2>1, <2>5 DEF OwnOrStale
<1>8. ASSUME About(c)' = {} PROVE OwnOrStale(checks[c], state[c], reporter[c])'
  <2>1. \A j \in About(c) : j = 1
    <3> SUFFICES ASSUME NEW j \in About(c), j # 1 PROVE FALSE
      OBVIOUS
    <3>1. j \in 1 .. n /\ checkEvents[j].check = c
      BY <1>3 DEF About
    <3>2. j - 1 \in 1 .. (n - 1) /\ (j - 1) + 1 = j
      BY <1>3, <3>1
    <3>3. checkEvents'[j - 1].check = c
      BY <1>3, <3>1, <3>2
    <3>4. j - 1 \in About(c)'
      BY <1>3, <3>2, <3>3 DEF About
    <3> QED
      BY <1>8, <3>4
  <2>2. CASE event.check = c
    <3>1. 1 \in About(c)
      BY <1>3, <2>2 DEF About
    <3>2. Latest(1, About(c))
      BY <2>1, <3>1 DEF Latest
    <3>3. OwnOrStale(checks[c], event.status, event.from)
      BY <1>3, <1>6, <3>1, <3>2 DEF Followed
    <3>4. state'[c] = event.status /\ reporter'[c] = event.from
      BY <1>4, <1>5, <2>2
    <3> QED
      BY <1>1, <3>3, <3>4 DEF OwnOrStale
  <2>3. CASE event.check # c
    <3>1. About(c) = {}
      BY <1>3, <2>1, <2>3 DEF About
    <3>2. OwnOrStale(checks[c], state[c], reporter[c])
      BY <1>6, <3>1 DEF Followed
    <3>3. state'[c] = state[c] /\ reporter'[c] = reporter[c]
      BY <1>4, <1>5, <2>3
    <3> QED
      BY <1>1, <3>2, <3>3 DEF OwnOrStale
  <2> QED
    BY <2>2, <2>3
<1> QED
  BY <1>7, <1>8 DEF Followed, Latest

\* Once the actor in charge of a check has reported, what the alert sender knows of
\* the check, or will when the channel is empty, is the status of that actor, unless
\* a replaced actor, still in its last probe, reported after it.
THEOREM Follows == MonSpec => []StatusFollowsChecks
<1>1. MonInit => StatusFollowsChecks
  <2> SUFFICES ASSUME MonInit PROVE StatusFollowsChecks
    OBVIOUS
  <2>1. \A a \in Actors : actors[a].firstRun
    BY InitTypes DEF IsNew
  <2>2. \A c \in Checks : checks[c] \in {NoActor} \cup Actors
    BY InitTypes DEF MonTypeOK
  <2> QED
    BY <2>1, <2>2, FollowedAll DEF Followed, HasReported
<1>2. MonTypeOK /\ OneActorInCharge /\ Truthful /\ StatusFollowsChecks /\ [MonNext]_monVars
        => StatusFollowsChecks'
  <2> SUFFICES ASSUME MonTypeOK, OneActorInCharge, Truthful, \A c \in Checks : Followed(c),
                      [MonNext]_monVars, NEW c \in Checks
               PROVE  Followed(c)'
    BY FollowedAll DEF StatusFollowsChecks, Followed, HasReported
  <2>1. Followed(c)
    OBVIOUS
  <2>2. ASSUME Asking \/ SendAlert \/ (\E n \in Jobs : Dispatch(n) \/ Post(n)) \/ UNCHANGED monVars
        PROVE  Followed(c)'
    <3>1. UNCHANGED <<actors, checks>> /\ Actors' = Actors
      BY <2>2, ActorsAlone
    <3>2. Asking => UNCHANGED <<checkEvents, state, reporter>>
      BY QueryTypes DEF Asking
    <3>3. SendAlert => UNCHANGED <<checkEvents, state, reporter>>
      BY DEF SendAlert
    <3>4. (\E n \in Jobs : Dispatch(n) \/ Post(n)) => UNCHANGED <<checkEvents, state, reporter>>
      BY DeliveryFacts DEF overlordVars
    <3>5. UNCHANGED monVars => UNCHANGED <<checkEvents, state, reporter>>
      BY DEF monVars, overlordVars
    <3> QED
      BY <2>1, <2>2, <3>1, <3>2, <3>3, <3>4, <3>5, AloneFollow
  <2> QED
    BY <2>1, <2>2, Steps, QuietFollow, ProbeFollow, ReportFollow, EventFollow, ReplanFollow
<1> QED
  BY <1>1, <1>2, MonTypes, InCharge, AlwaysTruthful, PTL DEF MonSpec

-----------------------------------------------------------------------------
(* Verdicts.                                                               *)

\* A success leaves no failures behind it; a failure is one more.
LEMMA TrailingAppend ==
  ASSUME NEW results \in Seq(BOOLEAN), NEW ok \in BOOLEAN
  PROVE  /\ TrailingFailures(results) \in Nat
         /\ Len(Append(results, ok)) = Len(results) + 1 /\ Len(results) \in Nat
         /\ TrailingFailures(Append(results, ok)) = IF ok THEN 0 ELSE TrailingFailures(results) + 1
<1> DEFINE n == Len(results)
           longer == Append(results, ok)
           F == {i \in DOMAIN results : \A j \in i .. Len(results) : ~ results[j]}
           G == {i \in DOMAIN longer : \A j \in i .. Len(longer) : ~ longer[j]}
<1>1. n \in Nat /\ DOMAIN results = 1 .. n
  BY LenProperties
<1>2. /\ longer \in Seq(BOOLEAN) /\ Len(longer) = n + 1 /\ longer[n + 1] = ok
      /\ \A i \in 1 .. n : longer[i] = results[i]
  BY AppendProperties
<1>3. DOMAIN longer = 1 .. n + 1
  BY <1>2, LenProperties
<1>4. F = {i \in 1 .. n : \A j \in i .. n : ~ results[j]}
  BY <1>1
<1>5. G = {i \in 1 .. n + 1 : \A j \in i .. n + 1 : ~ longer[j]}
  BY <1>2, <1>3
<1>6. TrailingFailures(results) = Cardinality(F) /\ TrailingFailures(longer) = Cardinality(G)
  BY DEF TrailingFailures
<1> HIDE DEF n, longer, F, G
<1>7. IsFiniteSet(F) /\ Cardinality(F) \in Nat
  <2>1. IsFiniteSet(1 .. n) /\ F \in SUBSET (1 .. n)
    BY <1>1, <1>4, FS_Interval
  <2>2. IsFiniteSet(F)
    BY <2>1, FS_Subset
  <2> QED
    BY <2>2, FS_CardinalityType
<1>8. ok => G = {}
  <2> SUFFICES ASSUME ok, NEW i \in G PROVE FALSE
    OBVIOUS
  <2>1. n + 1 \in i .. n + 1
    BY <1>1, <1>5
  <2> QED
    BY <1>2, <1>5, <2>1
<1>9. ~ ok => G = F \cup {n + 1} /\ n + 1 \notin F
  <2> SUFFICES ASSUME ~ ok PROVE G = F \cup {n + 1} /\ n + 1 \notin F
    OBVIOUS
  <2>1. n + 1 \notin F
    BY <1>1, <1>4
  <2>2. n + 1 \in G
    BY <1>1, <1>2, <1>5
  <2>3. ASSUME NEW i \in 1 .. n PROVE i \in G <=> i \in F
    <3>1. ASSUME i \in G PROVE i \in F
      <4>1. \A j \in i .. n : j \in i .. n + 1 /\ j \in 1 .. n
        BY <1>1
      <4> QED
        BY <1>2, <1>4, <1>5, <3>1, <4>1
    <3>2. ASSUME i \in F PROVE i \in G
      <4>1. \A j \in i .. n + 1 : j = n + 1 \/ (j \in i .. n /\ j \in 1 .. n)
        BY <1>1
      <4>2. \A j \in i .. n + 1 : ~ longer[j]
        BY <1>2, <1>4, <3>2, <4>1
      <4>3. i \in 1 .. n + 1
        BY <1>1
      <4> QED
        BY <1>5, <4>2, <4>3
    <3> QED
      BY <3>1, <3>2
  <2>4. G \subseteq 1 .. n \cup {n + 1} /\ F \subseteq 1 .. n
    BY <1>1, <1>4, <1>5
  <2> QED
    BY <2>1, <2>2, <2>3, <2>4
<1>10. Cardinality(G) = IF ok THEN 0 ELSE Cardinality(F) + 1
  <2>1. CASE ok
    BY <1>8, <2>1, FS_EmptySet
  <2>2. CASE ~ ok
    BY <1>7, <1>9, <2>2, FS_AddElement
  <2> QED
    BY <2>1, <2>2
<1> QED
  BY <1>1, <1>2, <1>6, <1>7, <1>10 DEF n, longer

LEMMA NoTrailing == TrailingFailures(<<>>) = 0
<1>1. {i \in DOMAIN <<>> : \A j \in i .. Len(<<>>) : ~ <<>>[j]} = {}
  BY EmptySeq
<1> QED
  BY <1>1, FS_EmptySet DEF TrailingFailures

\* The count of an actor is that of the failures its results end with, and its
\* status the verdict.
Justified(act) ==
  act.failures = TrailingFailures(act.results) /\ act.status = Verdict(act)

AllJustified == \A a \in Actors : Justified(actors[a])

\* Justified is about five fields.
LEMMA SameJustified ==
  ASSUME NEW act, NEW other, Justified(act),
         other.failures = act.failures, other.results = act.results, other.status = act.status,
         other.config = act.config, other.initial = act.initial
  PROVE  Justified(other)
BY DEF Justified, Verdict

LEMMA ProbeVerdict ==
  ASSUME NEW act \in CheckActor, NEW ok \in BOOLEAN, Justified(act)
  PROVE  Justified(AfterProbe(act, ok))
<1> DEFINE new == AfterProbe(act, ok)
           n == Len(act.results)
           t == TrailingFailures(act.results)
           m == act.config.threshold
<1>1. /\ act.results \in Seq(BOOLEAN) /\ act.failures \in Nat /\ act.initial \in Status
      /\ act.status \in Status /\ m \in Nat
  BY DEF CheckActor, CheckConfig
<1>2. /\ t \in Nat /\ n \in Nat /\ Len(Append(act.results, ok)) = n + 1
      /\ TrailingFailures(Append(act.results, ok)) = IF ok THEN 0 ELSE t + 1
  BY <1>1, TrailingAppend
<1>3. /\ new.failures = FailureCount(act, ok) /\ new.status = StatusAfter(act, ok)
      /\ new.results = Append(act.results, ok) /\ new.config = act.config
      /\ new.initial = act.initial
  BY AfterProbeFields
<1>4. act.failures = t
  BY DEF Justified
<1>5. act.status = IF (t > 0 /\ t >= m) \/ (act.initial = "down" /\ t = n) THEN "down" ELSE "up"
  BY DEF Justified, Verdict
<1>6. TrailingFailures(new.results) = (IF ok THEN 0 ELSE t + 1) /\ Len(new.results) = n + 1
  BY <1>2, <1>3
<1>7. new.failures = IF ok THEN 0 ELSE t + 1
  BY <1>3, <1>4 DEF FailureCount
<1>8. Verdict(new)
        = IF ok THEN "up"
          ELSE IF t + 1 >= m \/ (act.initial = "down" /\ t + 1 = n + 1) THEN "down" ELSE "up"
  <2> DEFINE k == IF ok THEN 0 ELSE t + 1
  <2>1. Verdict(new) = IF (k > 0 /\ k >= m) \/ (act.initial = "down" /\ k = n + 1)
                         THEN "down" ELSE "up"
    BY <1>3, <1>6 DEF Verdict
  <2>2. CASE ok
    <3>1. k = 0 /\ ~(0 > 0) /\ 0 # n + 1
      BY <1>2, <2>2
    <3> HIDE DEF k
    <3> QED
      BY <2>1, <2>2, <3>1
  <2>3. CASE ~ ok
    <3>1. k = t + 1 /\ t + 1 > 0
      BY <1>2, <2>3
    <3> HIDE DEF k
    <3> QED
      BY <2>1, <2>3, <3>1
  <2> QED
    BY <2>2, <2>3
<1>9. new.status = IF ok THEN "up" ELSE IF t + 1 >= m THEN "down" ELSE act.status
  BY <1>3, <1>4 DEF StatusAfter, FailureCount
<1> HIDE DEF new, n, t, m
<1>10. new.status = Verdict(new)
  <2>1. CASE ok
    BY <1>8, <1>9, <2>1
  <2>2. CASE ~ ok /\ t + 1 >= m
    BY <1>8, <1>9, <2>2
  <2>3. CASE ~ ok /\ ~(t + 1 >= m)
    <3>1. ~(t > 0 /\ t >= m) /\ (t + 1 = n + 1 <=> t = n)
      BY <1>1, <1>2, <2>3 DEF m
    <3> QED
      BY <1>5, <1>8, <1>9, <2>3, <3>1
  <2> QED
    BY <2>1, <2>2, <2>3
<1>11. new.failures = TrailingFailures(new.results)
  BY <1>6, <1>7
<1> QED
  BY <1>10, <1>11 DEF Justified, new

\* After any sequence of probes the status of a check actor is the one the
\* documentation of `threshold' gives: down when the last `threshold' probes or more
\* failed, or when it was down at the start and no probe has passed.
THEOREM Verdicts == MonSpec => []StatusIsVerdict
<1>1. MonInit => AllJustified
  <2> SUFFICES ASSUME MonInit, NEW a \in Actors PROVE Justified(actors[a])
    BY DEF AllJustified
  <2>1. actors[a].failures = 0 /\ actors[a].results = <<>> /\ actors[a].status = actors[a].initial
    BY InitTypes DEF IsNew
  <2>2. actors[a].initial \in Status
    BY InitTypes, ActorsTypes DEF MonTypeOK, CheckActor
  <2> QED
    BY <2>1, <2>2, NoTrailing, EmptySeq DEF Justified, Verdict, Status
<1>2. MonTypeOK /\ AllJustified /\ [MonNext]_monVars => AllJustified'
  <2> SUFFICES ASSUME MonTypeOK, AllJustified, [MonNext]_monVars PROVE AllJustified'
    OBVIOUS
  <2>1. ASSUME NEW a \in Actors, NEW act \in CheckActor, Becomes(a, act), Justified(act)
        PROVE  AllJustified'
    <3>1. /\ Actors' = Actors /\ actors'[a] = act
          /\ \A b \in Actors \ {a} : actors'[b] = actors[b]
      BY <2>1, ActorBecomes DEF MonTypeOK
    <3> QED
      BY <2>1, <3>1 DEF AllJustified
  <2>2. ASSUME NEW a \in Actors, Quiet(a) PROVE AllJustified'
    <3>1. PICK phase \in {"idle", "probing", "gone"} :
            /\ Becomes(a, [actors[a] EXCEPT !.phase = phase])
            /\ [actors[a] EXCEPT !.phase = phase] \in CheckActor
      BY <2>2, PhaseTypes DEF Quiet
    <3> DEFINE act == [actors[a] EXCEPT !.phase = phase]
    <3>2. actors[a] \in CheckActor /\ Justified(actors[a])
      BY ActorsTypes DEF MonTypeOK, AllJustified
    <3>3. /\ act.failures = actors[a].failures /\ act.results = actors[a].results
          /\ act.status = actors[a].status /\ act.config = actors[a].config
          /\ act.initial = actors[a].initial
      BY <3>2 DEF CheckActor
    <3> HIDE DEF act
    <3>4. Justified(act)
      BY <3>2, <3>3, SameJustified
    <3> QED
      BY <2>1, <3>1, <3>4 DEF act
  <2>3. ASSUME NEW a \in Actors, NEW ok \in BOOLEAN, ProbeEnds(a, ok) PROVE AllJustified'
    <3>1. Becomes(a, AfterProbe(actors[a], ok)) /\ AfterProbe(actors[a], ok) \in CheckActor
      BY <2>3, ProbeTypes
    <3>2. actors[a] \in CheckActor /\ Justified(actors[a])
      BY ActorsTypes DEF MonTypeOK, AllJustified
    <3> QED
      BY <2>1, <3>1, <3>2, ProbeVerdict
  <2>4. ASSUME NEW a \in Actors, Report(a) PROVE AllJustified'
    <3> DEFINE act == [actors[a] EXCEPT !.outbox = Tail(actors[a].outbox)]
    <3>1. Becomes(a, act) /\ act \in CheckActor
      BY <2>4, ReportTypes
    <3>2. actors[a] \in CheckActor /\ Justified(actors[a])
      BY ActorsTypes DEF MonTypeOK, AllJustified
    <3>3. /\ act.failures = actors[a].failures /\ act.results = actors[a].results
          /\ act.status = actors[a].status /\ act.config = actors[a].config
          /\ act.initial = actors[a].initial
      BY <3>2 DEF CheckActor
    <3> HIDE DEF act
    <3>4. Justified(act)
      BY <3>2, <3>3, SameJustified
    <3> QED
      BY <2>1, <3>1, <3>4
  <2>5. ASSUME UNCHANGED <<actors, checks>>, Actors' = Actors PROVE AllJustified'
    BY <2>5 DEF AllJustified
  <2>6. ASSUME Replan PROVE AllJustified'
    <3>1. ASSUME NEW a \in Actors PROVE Justified(actors'[a])
      <4>1. /\ actors'[a].failures = actors[a].failures /\ actors'[a].results = actors[a].results
            /\ actors'[a].status = actors[a].status /\ actors'[a].config = actors[a].config
            /\ actors'[a].initial = actors[a].initial
        BY <2>6, ReplanFacts
      <4>2. Justified(actors[a])
        BY DEF AllJustified
      <4> QED
        BY <4>1, <4>2 DEF Justified, Verdict
    <3>2. ASSUME NEW a \in Actors' \ Actors PROVE Justified(actors'[a])
      <4>1. /\ actors'[a].failures = 0 /\ actors'[a].results = <<>>
            /\ actors'[a].status = actors'[a].initial
        BY <2>6, ReplanFacts DEF IsNew
      <4>2. actors' \in Seq(CheckActor) /\ Actors' = DOMAIN actors'
        BY <2>6, ReplanTypes DEF MonTypeOK, Actors
      <4>3. DOMAIN actors' = 1 .. Len(actors')
        BY <4>2, LenProperties
      <4>4. actors'[a] \in CheckActor
        BY <4>2, <4>3, ElementOfSeq
      <4>5. actors'[a].initial \in Status
        BY <4>4 DEF CheckActor
      <4> QED
        BY <4>1, <4>5, NoTrailing, EmptySeq DEF Justified, Verdict, Status
    <3> QED
      BY <3>1, <3>2 DEF AllJustified
  <2> QED
    BY <2>2, <2>3, <2>4, <2>5, <2>6, Steps, ActorsAlone
<1>3. AllJustified => StatusIsVerdict
  BY DEF AllJustified, Justified, StatusIsVerdict
<1> QED
  BY <1>1, <1>2, <1>3, MonTypes, PTL DEF MonSpec

-----------------------------------------------------------------------------
(* Deliveries.                                                             *)

AllAccounted == \A n \in Jobs : Accounted(jobs[n])

\* A new job has no attempts behind it.
LEMMA NewJobFacts ==
  ASSUME NEW alert \in AlertConfig, NEW body \in Body, NEW number \in Nat \ {0}
  PROVE  /\ NewJob(alert, body, number).alert = alert.name
         /\ NewJob(alert, body, number).body = body
         /\ Accounted(NewJob(alert, body, number))
<1> DEFINE job == NewJob(alert, body, number)
<1>1. job \in DeliveryJob
  BY NewJobType
<1>2. /\ job.alert = alert.name /\ job.body = body /\ job.phase = "queued" /\ job.posts = 0
      /\ job.accepted = 0 /\ job.unheard = 0
  BY DEF NewJob
<1>3. max_attempts(job) \in Nat /\ 0 < max_attempts(job)
  BY <1>1, AttemptsType
<1> HIDE DEF job
<1> QED
  BY <1>2, <1>3 DEF Accounted, job

\* What the loop over the alerts adds to the jobs.
LEMMA SendFacts ==
  ASSUME MonTypeOK, SendAlert, jobs' # jobs
  PROVE  /\ Head(sending).body.check \in Head(sending).alert.onCheck
         /\ Jobs' = Jobs \cup {Len(jobs) + 1} /\ Len(jobs) \in Nat /\ Jobs = 1 .. Len(jobs)
         /\ \A n \in Jobs : jobs'[n] = jobs[n]
         /\ jobs'[Len(jobs) + 1].alert = Head(sending).alert.name
         /\ jobs'[Len(jobs) + 1].body = Head(sending).body
         /\ Accounted(jobs'[Len(jobs) + 1])
<1> DEFINE job == NewJob(Head(sending).alert, Head(sending).body, channel.number)
<1>1. jobs' = Append(jobs, job) /\ Head(sending).body.check \in Head(sending).alert.onCheck
  BY DEF SendAlert
<1>2. job \in DeliveryJob /\ Head(sending) \in [alert : AlertConfig, body : Body]
  BY SendTypes
<1>3. channel.number \in Nat \ {0} /\ jobs \in Seq(DeliveryJob)
  BY DEF MonTypeOK
<1>4. job.alert = Head(sending).alert.name /\ job.body = Head(sending).body /\ Accounted(job)
  BY <1>2, <1>3, NewJobFacts
<1> HIDE DEF job
<1>5. /\ Jobs' = Jobs \cup {Len(jobs) + 1} /\ jobs'[Len(jobs) + 1] = job
      /\ \A n \in Jobs : jobs'[n] = jobs[n]
  BY <1>1, <1>2, <1>3, JobAppended
<1>6. Len(jobs) \in Nat /\ Jobs = 1 .. Len(jobs)
  BY <1>3, JobsTypes
<1> QED
  BY <1>1, <1>4, <1>5, <1>6

\* Steps that leave the jobs alone.
LEMMA JobsAlone ==
  ASSUME MonTypeOK,
         \/ \E a \in Actors : Quiet(a)
         \/ \E a \in Actors, ok \in BOOLEAN : ProbeEnds(a, ok)
         \/ \E a \in Actors : Report(a)
         \/ Asking \/ Replan
         \/ UNCHANGED monVars
  PROVE  UNCHANGED <<jobs, sending, state, dropped>>
<1>1. (\E a \in Actors : Quiet(a)) => UNCHANGED <<jobs, sending, state, dropped>>
  BY PhaseTypes DEF Quiet, overlordVars
<1>2. (\E a \in Actors, ok \in BOOLEAN : ProbeEnds(a, ok)) => UNCHANGED <<jobs, sending, state, dropped>>
  BY DEF ProbeEnds
<1>3. (\E a \in Actors : Report(a)) => UNCHANGED <<jobs, sending, state, dropped>>
  BY DEF Report, overlordVars
<1>4. Asking => UNCHANGED <<jobs, sending, state, dropped>>
  BY QueryTypes DEF Asking
<1>5. Replan => UNCHANGED <<jobs, sending, state, dropped>>
  BY DEF Replan
<1>6. UNCHANGED monVars => UNCHANGED <<jobs, sending, state, dropped>>
  BY DEF monVars, overlordVars
<1> QED
  BY <1>1, <1>2, <1>3, <1>4, <1>5, <1>6

\* An alert is posted at most retry_attempts times, is taken for delivered only if
\* its endpoint took it, and reaches it twice only if an answer was lost.
THEOREM Accounts == MonSpec => []DeliveryAccounts
<1>1. MonInit => AllAccounted
  <2> SUFFICES ASSUME MonInit PROVE AllAccounted
    OBVIOUS
  <2>1. jobs = <<>>
    BY DEF MonInit
  <2>2. Jobs = {}
    BY <2>1, EmptySeq DEF Jobs
  <2> QED
    BY <2>2 DEF AllAccounted
<1>2. MonTypeOK /\ AllAccounted /\ [MonNext]_monVars => AllAccounted'
  <2> SUFFICES ASSUME MonTypeOK, AllAccounted, [MonNext]_monVars PROVE AllAccounted'
    OBVIOUS
  <2>1. ASSUME jobs' = jobs PROVE AllAccounted'
    BY <2>1 DEF AllAccounted, Jobs
  <2>2. ASSUME SendAlert PROVE AllAccounted'
    BY <2>1, <2>2, SendFacts DEF AllAccounted
  <2>3. ASSUME HandleCheckEvent PROVE AllAccounted'
    BY <2>1, <2>3 DEF HandleCheckEvent
  <2>4. ASSUME NEW n \in Jobs, Dispatch(n) \/ Post(n) PROVE AllAccounted'
    <3>1. PICK job \in DeliveryJob : /\ jobs' = [jobs EXCEPT ![n] = job]
                                     /\ Accounted(jobs[n]) => Accounted(job)
      BY <2>4, DeliveryFacts
    <3>2. /\ Jobs' = Jobs /\ jobs'[n] = job
          /\ \A m \in Jobs \ {n} : jobs'[m] = jobs[m]
      BY <3>1, JobBecomes DEF MonTypeOK
    <3> QED
      BY <3>1, <3>2 DEF AllAccounted
  <2> QED
    BY <2>1, <2>2, <2>3, <2>4, Steps, JobsAlone
<1>3. AllAccounted => DeliveryAccounts
  BY DEF AllAccounted, Accounted, DeliveryAccounts
<1> QED
  BY <1>1, <1>2, <1>3, MonTypes, PTL DEF MonSpec

-----------------------------------------------------------------------------
(* Alerts by turns.                                                        *)

\* What the loop has still to send tells of the status the alert sender knows, and
\* has each alert once.
SendingNews ==
  /\ \A i \in DOMAIN sending : sending[i].body.status = state[sending[i].body.check]
  /\ \A i, j \in DOMAIN sending : sending[i].alert.name = sending[j].alert.name => i = j

\* The loop has still to tell an alert of a change of check c.
Due(name, c) ==
  \E i \in DOMAIN sending :
    /\ sending[i].alert.name = name /\ c \in sending[i].alert.onCheck
    /\ sending[i].body.check = c

\* Each job tells of another status than the one before, and the first of a failure.
ByTurns(name, c) ==
  \A n \in ToldOf(name, c) :
    LET earlier == {m \in ToldOf(name, c) : m < n}
    IN  /\ earlier = {} => jobs[n].body.status = "down"
        /\ \A m \in earlier : Latest(m, earlier) => jobs[n].body.status # jobs[m].body.status

\* The last thing an alert was told is the status the alert sender knows, or the
\* other one if it is still to be told.
UpToDate(name, c) ==
  LET told == ToldOf(name, c)
  IN  IF Due(name, c)
        THEN /\ told = {} => state[c] = "down"
             /\ \A m \in told : Latest(m, told) => jobs[m].body.status # state[c]
        ELSE /\ told = {} => state[c] # "down"
             /\ \A m \in told : Latest(m, told) => jobs[m].body.status = state[c]

TurnsInv ==
  SendingNews /\ \A pair \in AlwaysSubscribed \ dropped :
                   ByTurns(pair[1], pair[2]) /\ UpToDate(pair[1], pair[2])

LEMMA SubscribedTypes ==
  ASSUME NEW pair \in AlwaysSubscribed
  PROVE  /\ pair[2] \in Checks /\ pair = <<pair[1], pair[2]>>
         /\ \A p \in Plans : \E i \in DOMAIN p.alerts :
              p.alerts[i].name = pair[1] /\ pair[2] \in p.alerts[i].onCheck
BY DEF AlwaysSubscribed, ToSet

\* Jobs that keep their alert and their body keep the turns.
LEMMA TurnsKept ==
  ASSUME NEW name, NEW c, ByTurns(name, c), UpToDate(name, c),
         Jobs' = Jobs,
         \A n \in Jobs : jobs'[n].alert = jobs[n].alert /\ jobs'[n].body = jobs[n].body,
         Due(name, c)' <=> Due(name, c), state'[c] = state[c]
  PROVE  ByTurns(name, c)' /\ UpToDate(name, c)'
<1> DEFINE told == ToldOf(name, c)
<1>1. ToldOf(name, c)' = told /\ told \subseteq Jobs
  BY DEF ToldOf
<1>2. \A n \in told : jobs'[n].body.status = jobs[n].body.status
  BY <1>1
<1>3. ByTurns(name, c)'
  <2> SUFFICES ASSUME NEW n \in told
               PROVE  LET earlier == {m \in told : m < n}
                      IN  /\ earlier = {} => jobs'[n].body.status = "down"
                          /\ \A m \in earlier : Latest(m, earlier) =>
                               jobs'[n].body.status # jobs'[m].body.status
    BY <1>1 DEF ByTurns, Latest
  <2> DEFINE earlier == {m \in told : m < n}
  <2>1. /\ earlier = {} => jobs[n].body.status = "down"
        /\ \A m \in earlier : Latest(m, earlier) => jobs[n].body.status # jobs[m].body.status
    BY DEF ByTurns
  <2>2. earlier \subseteq told
    OBVIOUS
  <2> HIDE DEF told, earlier
  <2>3. /\ earlier = {} => jobs'[n].body.status = "down"
        /\ \A m \in earlier : Latest(m, earlier) => jobs'[n].body.status # jobs'[m].body.status
    BY <1>2, <2>1, <2>2
  <2> QED
    BY <2>3 DEF earlier
<1>4. UpToDate(name, c)'
  BY <1>1, <1>2 DEF UpToDate, Latest
<1> QED
  BY <1>3, <1>4

LEMMA DeliveryTurns ==
  ASSUME MonTypeOK, TurnsInv, NEW n \in Jobs, Dispatch(n) \/ Post(n)
  PROVE  TurnsInv'
<1>1. PICK job \in DeliveryJob : /\ jobs' = [jobs EXCEPT ![n] = job]
                                 /\ job.alert = jobs[n].alert /\ job.body = jobs[n].body
  BY DeliveryFacts
<1>2. UNCHANGED <<sending, state, dropped>>
  BY DeliveryFacts DEF overlordVars
<1>3. /\ Jobs' = Jobs /\ jobs'[n] = job
      /\ \A m \in Jobs \ {n} : jobs'[m] = jobs[m]
  BY <1>1, JobBecomes DEF MonTypeOK
<1>4. \A m \in Jobs : jobs'[m].alert = jobs[m].alert /\ jobs'[m].body = jobs[m].body
  BY <1>1, <1>3
<1>5. SendingNews'
  BY <1>2 DEF SendingNews, TurnsInv
<1>6. ASSUME NEW pair \in AlwaysSubscribed \ dropped'
      PROVE  ByTurns(pair[1], pair[2])' /\ UpToDate(pair[1], pair[2])'
  <2>1. ByTurns(pair[1], pair[2]) /\ UpToDate(pair[1], pair[2])
    BY <1>2 DEF TurnsInv
  <2>2. Due(pair[1], pair[2])' <=> Due(pair[1], pair[2])
    BY <1>2 DEF Due
  <2> QED
    BY <1>2, <1>3, <1>4, <2>1, <2>2, TurnsKept
<1> QED
  BY <1>5, <1>6 DEF TurnsInv, AlwaysSubscribed

\* The loop begins: every alert that subscribes to the check is due if the status is
\* news, and the last it was told is the old one.
LEMMA EventTurns ==
  ASSUME MonTypeOK, TurnsInv, HandleCheckEvent
  PROVE  TurnsInv'
<1> DEFINE event == Head(checkEvents)
           d == event.check
<1>1. /\ checkEvents # <<>> /\ checkEvents' = Tail(checkEvents) /\ sending = <<>>
      /\ UNCHANGED <<plan, dropped, actors, jobs>>
  BY DEF HandleCheckEvent, OverlordIdle
<1>2. Actors' = Actors /\ Jobs' = Jobs
  BY <1>1 DEF Actors, Jobs
<1>3. event \in [check : Checks, status : Status, from : Actors]
  BY <1>1, <1>2, EventTaken
<1>4. d \in Checks /\ event.status \in Status
  BY <1>3
<1>5. /\ sending' = IF Fires(d, event.status)
                      THEN [i \in DOMAIN plan.alerts |->
                              [alert |-> plan.alerts[i], body |-> format_payload(d, event.status)]]
                      ELSE <<>>
      /\ state' = [state EXCEPT ![d] = event.status]
  BY DEF HandleCheckEvent
<1> DEFINE s == event.status
<1> HIDE DEF d, event, s
<1>6. state \in [Checks -> Status \cup {"unknown"}] /\ plan \in Plans /\ jobs \in Seq(DeliveryJob)
  BY DEF MonTypeOK
<1>7. s \in Status /\ state'[d] = s /\ \A c \in Checks \ {d} : state'[c] = state[c]
  BY <1>4, <1>5, <1>6 DEF s
<1>8. Fires(d, s) =>
        /\ DOMAIN sending' = DOMAIN plan.alerts
        /\ \A i \in DOMAIN plan.alerts : /\ sending'[i].alert = plan.alerts[i]
                                         /\ sending'[i].body.check = d
                                         /\ sending'[i].body.status = s
  BY <1>5 DEF format_payload, s
<1>9. ~ Fires(d, s) => DOMAIN sending' = {}
  BY <1>5, EmptySeq DEF s
<1>10. \A name, c : ~ Due(name, c)
  BY <1>1, EmptySeq DEF Due
<1>11. SendingNews'
  <2>1. CASE Fires(d, s)
    <3>1. \A i, j \in DOMAIN plan.alerts : plan.alerts[i].name = plan.alerts[j].name => i = j
      BY <1>6, PlanTypes
    <3> QED
      BY <1>7, <1>8, <2>1, <3>1 DEF SendingNews
  <2>2. CASE ~ Fires(d, s)
    BY <1>9, <2>2 DEF SendingNews
  <2> QED
    BY <2>1, <2>2
<1>12. ASSUME NEW pair \in AlwaysSubscribed \ dropped
       PROVE  ByTurns(pair[1], pair[2])' /\ UpToDate(pair[1], pair[2])'
  <2> DEFINE name == pair[1]
             c == pair[2]
             told == ToldOf(name, c)
  <2>1. c \in Checks /\ ByTurns(name, c) /\ UpToDate(name, c)
    BY SubscribedTypes DEF TurnsInv
  <2>2. told' = told /\ told \subseteq Jobs
    BY <1>1, <1>2 DEF ToldOf
  <2>3. \A m \in told : jobs[m].body.status \in Status
    BY <1>6, <2>2, JobsTypes DEF DeliveryJob, Body
  <2>4. /\ told = {} => state[c] # "down"
        /\ \A m \in told : Latest(m, told) => jobs[m].body.status = state[c]
    BY <1>10, <2>1 DEF UpToDate
  <2>5. ByTurns(name, c)'
    BY <1>1, <2>1, <2>2 DEF ByTurns, ToldOf, Latest, Jobs
  <2>6. CASE c # d
    <3>1. ~ Due(name, c)'
      BY <1>8, <1>9, <2>6 DEF Due
    <3>2. state'[c] = state[c]
      BY <1>7, <2>1, <2>6
    <3> HIDE DEF name, c
    <3>3. UpToDate(name, c)'
      BY <1>1, <2>2, <2>4, <3>1, <3>2 DEF UpToDate, Latest
    <3> QED
      BY <2>5, <3>3 DEF name, c
  <2>7. CASE c = d /\ Fires(d, s)
    <3>1. Due(name, c)'
      <4>1. PICK i \in DOMAIN plan.alerts : plan.alerts[i].name = name /\ c \in plan.alerts[i].onCheck
        BY <1>6, SubscribedTypes
      <4> QED
        BY <1>8, <2>7, <4>1 DEF Due
    <3>2. state'[c] = s /\ state[c] # s /\ ~(s = "up" /\ state[c] = "unknown")
      BY <1>7, <2>7 DEF Fires
    <3>3. state[c] \in Status \cup {"unknown"}
      BY <1>6, <2>1
    <3> HIDE DEF name, c
    <3>4. told = {} => s = "down"
      BY <1>7, <2>4, <3>2, <3>3 DEF Status
    <3>5. \A m \in told : Latest(m, told) => jobs[m].body.status # s
      BY <2>4, <3>2
    <3>6. UpToDate(name, c)'
      BY <1>1, <2>2, <3>1, <3>2, <3>4, <3>5 DEF UpToDate, Latest
    <3> QED
      BY <2>5, <3>6 DEF name, c
  <2>8. CASE c = d /\ ~ Fires(d, s)
    <3>1. ~ Due(name, c)'
      BY <1>9, <2>8 DEF Due
    <3>2. state'[c] = s /\ (state[c] = s \/ (s = "up" /\ state[c] = "unknown"))
      BY <1>7, <2>8 DEF Fires
    <3> HIDE DEF name, c
    <3>3. told = {} => s # "down"
      BY <2>4, <3>2
    <3>4. \A m \in told : Latest(m, told) => jobs[m].body.status = s
      BY <2>3, <2>4, <3>2 DEF Status
    <3>5. UpToDate(name, c)'
      BY <1>1, <2>2, <3>1, <3>2, <3>3, <3>4 DEF UpToDate, Latest
    <3> QED
      BY <2>5, <3>5 DEF name, c
  <2> QED
    BY <2>6, <2>7, <2>8
<1> QED
  BY <1>1, <1>11, <1>12 DEF TurnsInv, AlwaysSubscribed

\* One round: an alert that is not subscribed is not due; one that is gets its job,
\* which is the next in its turn, or is set aside with the dropped ones.
LEMMA SendTurns ==
  ASSUME MonTypeOK, TurnsInv, SendAlert
  PROVE  TurnsInv'
<1> DEFINE next == sending[1]
           d == next.body.check
           k == Len(sending)
<1>1. /\ k \in Nat \ {0} /\ DOMAIN sending = 1 .. k /\ DOMAIN sending' = 1 .. (k - 1)
      /\ \A i \in DOMAIN sending' : sending'[i] = sending[i + 1]
      /\ Head(sending) = next /\ next \in [alert : AlertConfig, body : Body]
  BY SendTypes
<1>2. state' = state
  BY DEF SendAlert
<1>3. \/ d \notin next.alert.onCheck /\ UNCHANGED <<jobs, dropped>>
      \/ d \in next.alert.onCheck /\ jobs' # jobs /\ UNCHANGED dropped
      \/ dropped' = dropped \cup {<<next.alert.name, d>>} /\ UNCHANGED jobs
  <2>1. jobs \in Seq(DeliveryJob)
    BY DEF MonTypeOK
  <2>2. Append(jobs, NewJob(next.alert, next.body, channel.number)) # jobs
    <3> DEFINE job == NewJob(next.alert, next.body, channel.number)
    <3>1. job \in DeliveryJob
      BY <1>1, SendTypes
    <3> HIDE DEF job
    <3>2. Len(Append(jobs, job)) = Len(jobs) + 1 /\ Len(jobs) \in Nat
      BY <2>1, <3>1, AppendProperties, LenProperties
    <3>3. Len(Append(jobs, job)) # Len(jobs)
      BY <3>2
    <3> QED
      BY <3>3 DEF job
  <2> QED
    BY <1>1, <2>2 DEF SendAlert
<1> HIDE DEF next, d, k
<1>4. /\ \A i \in 1 .. k : sending[i].body.status = state[sending[i].body.check]
      /\ \A i, j \in 1 .. k : sending[i].alert.name = sending[j].alert.name => i = j
  BY <1>1 DEF TurnsInv, SendingNews
<1>5. \A i \in 1 .. (k - 1) : i + 1 \in 1 .. k /\ sending'[i] = sending[i + 1]
  BY <1>1
<1>6. SendingNews'
  <2>1. \A i \in 1 .. (k - 1) : sending'[i].body.status = state'[sending'[i].body.check]
    BY <1>2, <1>4, <1>5
  <2>2. \A i, j \in 1 .. (k - 1) : sending'[i].alert.name = sending'[j].alert.name => i = j
    <3> SUFFICES ASSUME NEW i \in 1 .. (k - 1), NEW j \in 1 .. (k - 1),
                        sending'[i].alert.name = sending'[j].alert.name
                 PROVE  i = j
      OBVIOUS
    <3>1. i + 1 = j + 1
      BY <1>4, <1>5
    <3> QED
      BY <1>1, <3>1
  <2> QED
    BY <1>1, <2>1, <2>2 DEF SendingNews
\* What is due beside the alert of this round is due as before, and that one no more.
<1>7. ASSUME NEW name, NEW c, ~(name = next.alert.name /\ c = d /\ d \in next.alert.onCheck)
      PROVE  Due(name, c)' <=> Due(name, c)
  <2>1. ASSUME Due(name, c) PROVE Due(name, c)'
    <3>1. PICK i \in 1 .. k : /\ sending[i].alert.name = name /\ c \in sending[i].alert.onCheck
                              /\ sending[i].body.check = c
      BY <1>1, <2>1 DEF Due
    <3>2. i # 1
      BY <1>7, <3>1 DEF next, d
    <3>3. i - 1 \in 1 .. (k - 1) /\ (i - 1) + 1 = i
      BY <1>1, <3>2
    <3>4. sending'[i - 1] = sending[i]
      BY <1>5, <3>3
    <3> QED
      BY <1>1, <3>1, <3>3, <3>4 DEF Due
  <2>2. ASSUME Due(name, c)' PROVE Due(name, c)
    <3>1. PICK i \in 1 .. (k - 1) : /\ sending'[i].alert.name = name /\ c \in sending'[i].alert.onCheck
                                    /\ sending'[i].body.check = c
      BY <1>1, <2>2 DEF Due
    <3> QED
      BY <1>1, <1>5, <3>1 DEF Due
  <2> QED
    BY <2>1, <2>2
<1>8. ASSUME NEW name, NEW c, name = next.alert.name PROVE ~ Due(name, c)'
  <2> SUFFICES ASSUME NEW i \in 1 .. (k - 1), sending'[i].alert.name = name PROVE FALSE
    BY <1>1 DEF Due
  <2>1. i + 1 = 1
    BY <1>1, <1>4, <1>5, <1>8 DEF next
  <2> QED
    BY <1>1, <2>1
<1>9. ASSUME NEW pair \in AlwaysSubscribed \ dropped'
      PROVE  ByTurns(pair[1], pair[2])' /\ UpToDate(pair[1], pair[2])'
  <2> DEFINE name == pair[1]
             c == pair[2]
             told == ToldOf(name, c)
  <2>1. pair \in AlwaysSubscribed \ dropped /\ ByTurns(name, c) /\ UpToDate(name, c)
    BY <1>3, <1>9 DEF TurnsInv
  <2>2. pair = <<name, c>> /\ c \in Checks
    BY SubscribedTypes
  <2> HIDE DEF name, c
  <2>3. CASE jobs' = jobs
    <3>1. ~(name = next.alert.name /\ c = d /\ d \in next.alert.onCheck)
      BY <1>3, <1>9, <2>2, <2>3
    <3>2. Due(name, c)' <=> Due(name, c)
      BY <1>7, <3>1
    <3>3. Jobs' = Jobs
      BY <2>3 DEF Jobs
    <3> QED
      BY <1>2, <2>1, <2>3, <3>2, <3>3, TurnsKept DEF name, c
  <2>4. CASE jobs' # jobs
    <3> DEFINE new == Len(jobs) + 1
    <3>1. /\ d \in next.alert.onCheck
          /\ Jobs' = Jobs \cup {new} /\ Len(jobs) \in Nat /\ Jobs = 1 .. Len(jobs)
          /\ \A n \in Jobs : jobs'[n] = jobs[n]
          /\ jobs'[new].alert = next.alert.name /\ jobs'[new].body = next.body
      BY <1>1, <2>4, SendFacts DEF d, next
    <3>2. new \in Nat /\ \A n \in Jobs : n < new /\ n \in Nat
      BY <3>1
    <3> HIDE DEF new
    <3>3. told \subseteq Jobs
      BY DEF ToldOf
    <3>4. CASE name = next.alert.name /\ c = d
      <4>1. told' = told \cup {new} /\ ToldOf(name, c)' = told \cup {new}
        BY <3>1, <3>2, <3>4 DEF ToldOf, d
      <4>2. Due(name, c)
        BY <1>1, <3>1, <3>4 DEF Due, d, next
      <4>3. next.body.status = state[c]
        BY <1>1, <1>4, <3>4 DEF next, d
      <4>4. /\ told = {} => state[c] = "down"
            /\ \A m \in told : Latest(m, told) => jobs[m].body.status # state[c]
        BY <2>1, <4>2 DEF UpToDate, name, c
      <4>5. jobs'[new].body.status = state[c]
        BY <3>1, <4>3
      <4>6. ASSUME NEW n \in told \cup {new}
            PROVE  LET earlier == {m \in told \cup {new} : m < n}
                   IN  /\ earlier = {} => jobs'[n].body.status = "down"
                       /\ \A m \in earlier : Latest(m, earlier) =>
                            jobs'[n].body.status # jobs'[m].body.status
        <5> DEFINE earlier == {m \in told \cup {new} : m < n}
        <5>1. CASE n = new
          <6>1. earlier = told
            BY <3>2, <3>3, <5>1
          <6> HIDE DEF earlier, told
          <6>2. /\ earlier = {} => jobs'[n].body.status = "down"
                /\ \A m \in earlier : Latest(m, earlier) =>
                     jobs'[n].body.status # jobs'[m].body.status
            BY <3>1, <3>3, <4>4, <4>5, <5>1, <6>1
          <6> QED
            BY <6>2 DEF earlier
        <5>2. CASE n # new
          <6>1. n \in told /\ n \in Jobs
            BY <3>3, <4>6, <5>2
          <6>2. earlier = {m \in told : m < n}
            BY <3>2, <6>1
          <6>3. /\ earlier = {} => jobs[n].body.status = "down"
                /\ \A m \in earlier : Latest(m, earlier) => jobs[n].body.status # jobs[m].body.status
            BY <2>1, <6>1, <6>2 DEF ByTurns, name, c
          <6>4. earlier \subseteq Jobs
            BY <3>3, <6>2
          <6> HIDE DEF earlier, told
          <6>5. /\ earlier = {} => jobs'[n].body.status = "down"
                /\ \A m \in earlier : Latest(m, earlier) =>
                     jobs'[n].body.status # jobs'[m].body.status
            BY <3>1, <6>1, <6>3, <6>4
          <6> QED
            BY <6>5 DEF earlier
        <5> QED
          BY <5>1, <5>2
      <4>7. ByTurns(name, c)'
        BY <4>1, <4>6 DEF ByTurns, Latest
      <4>8. \A m \in told \cup {new} : Latest(m, told \cup {new}) => m = new
        <5> SUFFICES ASSUME NEW m \in told \cup {new}, Latest(m, told \cup {new}) PROVE m = new
          OBVIOUS
        <5>1. new <= m
          BY DEF Latest
        <5> QED
          BY <3>2, <3>3, <5>1
      <4>9. ~ Due(name, c)'
        BY <1>8, <3>4
      <4>10. UpToDate(name, c)'
        BY <1>2, <4>1, <4>5, <4>8, <4>9 DEF UpToDate, Latest
      <4> QED
        BY <4>7, <4>10 DEF name, c
    <3>5. CASE ~(name = next.alert.name /\ c = d)
      <4>1. ToldOf(name, c)' = told
        BY <3>1, <3>2, <3>5 DEF ToldOf, d
      <4>2. Due(name, c)' <=> Due(name, c)
        BY <1>7, <3>5
      <4>3. \A m \in told : jobs'[m] = jobs[m]
        BY <3>1, <3>3
      <4>4. ASSUME NEW n \in told
            PROVE  LET earlier == {m \in told : m < n}
                   IN  /\ earlier = {} => jobs'[n].body.status = "down"
                       /\ \A m \in earlier : Latest(m, earlier) =>
                            jobs'[n].body.status # jobs'[m].body.status
        <5> DEFINE earlier == {m \in told : m < n}
        <5>1. /\ earlier = {} => jobs[n].body.status = "down"
              /\ \A m \in earlier : Latest(m, earlier) => jobs[n].body.status # jobs[m].body.status
          BY <2>1 DEF ByTurns, name, c
        <5>2. earlier \subseteq told
          OBVIOUS
        <5> HIDE DEF earlier, told
        <5>3. /\ earlier = {} => jobs'[n].body.status = "down"
              /\ \A m \in earlier : Latest(m, earlier) => jobs'[n].body.status # jobs'[m].body.status
          BY <4>3, <4>4, <5>1, <5>2
        <5> QED
          BY <5>3 DEF earlier
      <4>5. ByTurns(name, c)'
        BY <4>1, <4>4 DEF ByTurns, Latest
      <4>6. UpToDate(name, c)
        BY <2>1 DEF name, c
      <4>7. UpToDate(name, c)'
        BY <1>2, <4>1, <4>2, <4>3, <4>6 DEF UpToDate, Latest
      <4> QED
        BY <4>5, <4>7 DEF name, c
    <3> QED
      BY <3>4, <3>5
  <2> QED
    BY <2>3, <2>4
<1> QED
  BY <1>6, <1>9 DEF TurnsInv, AlwaysSubscribed

\* An alert that every plan subscribes to a check is told of its changes by turns,
\* beginning with a failure, through replans, replaced actors and repeated reports,
\* as long as the queue has had room for its jobs.
THEOREM Alternate == MonSpec => []AlertsAlternate
<1>1. MonInit => TurnsInv
  <2> SUFFICES ASSUME MonInit PROVE TurnsInv
    OBVIOUS
  <2>1. jobs = <<>> /\ sending = <<>> /\ state = [c \in Checks |-> "unknown"]
    BY DEF MonInit
  <2>2. DOMAIN sending = {} /\ Jobs = {}
    BY <2>1, EmptySeq DEF Jobs
  <2>3. ASSUME NEW pair \in AlwaysSubscribed
        PROVE  ByTurns(pair[1], pair[2]) /\ UpToDate(pair[1], pair[2])
    <3>1. ToldOf(pair[1], pair[2]) = {} /\ ~ Due(pair[1], pair[2])
      BY <2>2 DEF ToldOf, Due
    <3>2. state[pair[2]] # "down"
      BY <2>1, SubscribedTypes
    <3> QED
      BY <3>1, <3>2 DEF ByTurns, UpToDate
  <2> QED
    BY <2>2, <2>3 DEF TurnsInv, SendingNews
<1>2. MonTypeOK /\ TurnsInv /\ [MonNext]_monVars => TurnsInv'
  <2> SUFFICES ASSUME MonTypeOK, TurnsInv, [MonNext]_monVars PROVE TurnsInv'
    OBVIOUS
  <2>1. ASSUME UNCHANGED <<jobs, sending, state, dropped>> PROVE TurnsInv'
    <3>1. Jobs' = Jobs
      BY <2>1 DEF Jobs
    <3>2. SendingNews'
      BY <2>1 DEF TurnsInv, SendingNews
    <3>3. ASSUME NEW pair \in AlwaysSubscribed \ dropped
          PROVE  ByTurns(pair[1], pair[2])' /\ UpToDate(pair[1], pair[2])'
      <4>1. ByTurns(pair[1], pair[2]) /\ UpToDate(pair[1], pair[2])
        BY DEF TurnsInv
      <4>2. Due(pair[1], pair[2])' <=> Due(pair[1], pair[2])
        BY <2>1 DEF Due
      <4> QED
        BY <2>1, <3>1, <4>1, <4>2, TurnsKept
    <3> QED
      BY <2>1, <3>2, <3>3 DEF TurnsInv, AlwaysSubscribed
  <2> QED
    BY <2>1, Steps, JobsAlone, SendTurns, EventTurns, DeliveryTurns
<1>3. TurnsInv => AlertsAlternate
  BY DEF TurnsInv, ByTurns, AlertsAlternate
<1> QED
  BY <1>1, <1>2, <1>3, MonTypes, PTL DEF MonSpec

-----------------------------------------------------------------------------
(* Every outage is acted upon.                                             *)

\* The three sets whose sizes the property compares with the tallies: downs in
\* the channel, downs in the outboxes, and actors that have run.
EventDowns(c) ==
  {i \in DOMAIN checkEvents : checkEvents[i].check = c /\ checkEvents[i].status = "down"}

DownsIn(all, c) ==
  {pos \in (DOMAIN all) \X (1 .. 2) :
     all[pos[1]].check = c /\ pos[2] \in DOMAIN all[pos[1]].outbox
     /\ all[pos[1]].outbox[pos[2]] = "down"}

Ran(all, c) == {a \in DOMAIN all : all[a].check = c /\ ~ all[a].firstRun}

\* The property, for one check and in terms of those sizes.
Balance(downs, acted, events, outs, ran) ==
  downs <= acted + (events + outs) /\ acted + (events + outs) <= downs + ran

Bounded(c) ==
  Balance(tally[c].downs, tally[c].acted, Cardinality(EventDowns(c)),
          Cardinality(DownsIn(actors, c)), Cardinality(Ran(actors, c)))

AllBounded == \A c \in Checks : Bounded(c)

LEMMA BoundedAll == AllBounded <=> OutagesActedUpon
<1>1. \A c \in Checks : PendingDowns(c)
        = Cardinality(EventDowns(c)) + Cardinality(DownsIn(actors, c))
  BY DEF PendingDowns, EventDowns, DownsIn, Actors
<1> QED
  BY <1>1 DEF AllBounded, Bounded, Balance, OutagesActedUpon, Ran, Actors

\* The sets are finite, and the numbers are numbers.
LEMMA CountTypes ==
  ASSUME MonTypeOK, NEW c \in Checks
  PROVE  /\ IsFiniteSet(EventDowns(c)) /\ Cardinality(EventDowns(c)) \in Nat
         /\ IsFiniteSet(DownsIn(actors, c)) /\ Cardinality(DownsIn(actors, c)) \in Nat
         /\ IsFiniteSet(Ran(actors, c)) /\ Cardinality(Ran(actors, c)) \in Nat
         /\ tally[c].downs \in Nat /\ tally[c].acted \in Nat
<1>1. Len(actors) \in Nat /\ Actors = 1 .. Len(actors)
  BY ActorsTypes DEF MonTypeOK
<1>2. Len(checkEvents) \in Nat /\ DOMAIN checkEvents = 1 .. Len(checkEvents)
  BY LenProperties DEF MonTypeOK
<1>3. IsFiniteSet(Actors) /\ IsFiniteSet(DOMAIN checkEvents) /\ IsFiniteSet(1 .. 2)
  <2>1. \A n \in Nat : IsFiniteSet(1 .. n)
    BY FS_Interval
  <2> QED
    BY <1>1, <1>2, <2>1
<1>4. IsFiniteSet(Actors \X (1 .. 2))
  BY <1>3, FS_Product
<1>5. /\ EventDowns(c) \in SUBSET DOMAIN checkEvents
      /\ DownsIn(actors, c) \in SUBSET (Actors \X (1 .. 2))
      /\ Ran(actors, c) \in SUBSET Actors
  BY DEF EventDowns, DownsIn, Ran, Actors
<1>6. IsFiniteSet(EventDowns(c)) /\ IsFiniteSet(DownsIn(actors, c)) /\ IsFiniteSet(Ran(actors, c))
  BY <1>3, <1>4, <1>5, FS_Subset
<1>7. tally[c] \in [downs : Nat, acted : Nat]
  BY DEF MonTypeOK
<1> QED
  BY <1>6, <1>7, FS_CardinalityType

\* In truthful outboxes, the downs are those of the actors that are down.
LEMMA DownsAre ==
  ASSUME NEW all \in Seq(CheckActor), \A a \in DOMAIN all : TrueReports(all[a]), NEW c,
         NEW a \in DOMAIN all, NEW i \in 1 .. 2
  PROVE  <<a, i>> \in DownsIn(all, c)
           <=> all[a].check = c /\ all[a].status = "down" /\ i <= Len(all[a].outbox)
<1>1. all[a] \in CheckActor
  BY ElementOfSeq
<1>2. all[a].outbox \in Seq(Status)
  BY <1>1 DEF CheckActor
<1>3. Len(all[a].outbox) \in Nat /\ DOMAIN all[a].outbox = 1 .. Len(all[a].outbox)
  BY <1>2, LenProperties
<1>4. i <= Len(all[a].outbox) => all[a].outbox[i] = all[a].status
  BY <1>3 DEF TrueReports
<1>5. <<a, i>> \in DownsIn(all, c)
        <=> all[a].check = c /\ i \in DOMAIN all[a].outbox /\ all[a].outbox[i] = "down"
  BY DEF DownsIn
<1> QED
  BY <1>3, <1>4, <1>5

\* A set of positions that gains or loses those of one actor.
LEMMA SamePositions ==
  ASSUME NEW all, NEW c, NEW S,
         S \subseteq (DOMAIN all) \X (1 .. 2),
         \A a \in DOMAIN all, i \in 1 .. 2 : <<a, i>> \in DownsIn(all, c) <=> <<a, i>> \in S
  PROVE  DownsIn(all, c) = S
<1>1. DownsIn(all, c) \subseteq (DOMAIN all) \X (1 .. 2)
  BY DEF DownsIn
<1> HIDE DEF DownsIn
<1>2. ASSUME NEW pos \in (DOMAIN all) \X (1 .. 2) PROVE pos \in DownsIn(all, c) <=> pos \in S
  <2>1. pos = <<pos[1], pos[2]>> /\ pos[1] \in DOMAIN all /\ pos[2] \in 1 .. 2
    BY <1>2
  <2>2. <<pos[1], pos[2]>> \in DownsIn(all, c) <=> <<pos[1], pos[2]>> \in S
    BY <2>1
  <2> QED
    BY <2>1, <2>2
<1> QED
  BY <1>1, <1>2

\* Steps that change none of the sets and no tally.
LEMMA SameBounded ==
  ASSUME NEW c \in Checks, Bounded(c), EventDowns(c)' = EventDowns(c),
         DownsIn(actors, c)' = DownsIn(actors, c), Ran(actors, c)' = Ran(actors, c),
         tally'[c] = tally[c]
  PROVE  Bounded(c)'
BY DEF Bounded

LEMMA QuietBounded ==
  ASSUME MonTypeOK, NEW c \in Checks, Bounded(c), NEW a \in Actors, Quiet(a)
  PROVE  Bounded(c)'
<1>1. PICK phase \in {"idle", "probing", "gone"} :
        /\ Becomes(a, [actors[a] EXCEPT !.phase = phase])
        /\ [actors[a] EXCEPT !.phase = phase] \in CheckActor
  BY PhaseTypes DEF Quiet
<1>2. checkEvents' = checkEvents /\ tally' = tally
  BY PhaseTypes DEF Quiet, overlordVars
<1>3. actors[a] \in CheckActor
  BY ActorsTypes DEF MonTypeOK
<1> DEFINE act == [actors[a] EXCEPT !.phase = phase]
<1>4. /\ act.check = actors[a].check /\ act.outbox = actors[a].outbox
      /\ act.firstRun = actors[a].firstRun
  BY <1>3 DEF CheckActor
<1> HIDE DEF act
<1>5. /\ Actors' = Actors /\ actors'[a] = act
      /\ \A b \in Actors \ {a} : actors'[b] = actors[b]
  BY <1>1, ActorBecomes DEF MonTypeOK, act
<1>6. \A b \in Actors : /\ actors'[b].check = actors[b].check
                        /\ actors'[b].outbox = actors[b].outbox
                        /\ actors'[b].firstRun = actors[b].firstRun
  BY <1>4, <1>5
<1>7. DownsIn(actors, c)' = DownsIn(actors, c)
  BY <1>5, <1>6 DEF DownsIn, Actors
<1>8. Ran(actors, c)' = Ran(actors, c)
  BY <1>5, <1>6 DEF Ran, Actors
<1>9. EventDowns(c)' = EventDowns(c)
  BY <1>2 DEF EventDowns
<1> QED
  BY <1>2, <1>7, <1>8, <1>9, SameBounded

LEMMA ReplanBounded ==
  ASSUME MonTypeOK, NEW c \in Checks, Bounded(c), Replan
  PROVE  Bounded(c)'
<1>1. /\ Actors \subseteq Actors'
      /\ \A b \in Actors : /\ actors'[b].check = actors[b].check
                           /\ actors'[b].outbox = actors[b].outbox
                           /\ actors'[b].firstRun = actors[b].firstRun
      /\ \A b \in Actors' \ Actors : actors'[b].outbox = <<>> /\ actors'[b].firstRun
      /\ checkEvents' = checkEvents /\ tally' = tally
  BY ReplanFacts DEF IsNew
<1>2. DownsIn(actors, c)' = DownsIn(actors, c)
  <2>1. \A pos \in Actors' \X (1 .. 2) : pos[1] \notin Actors => pos[2] \notin DOMAIN actors'[pos[1]].outbox
    BY <1>1, EmptySeq
  <2> QED
    BY <1>1, <2>1 DEF DownsIn, Actors
<1>3. Ran(actors, c)' = Ran(actors, c)
  BY <1>1 DEF Ran, Actors
<1>4. EventDowns(c)' = EventDowns(c)
  BY <1>1 DEF EventDowns
<1> QED
  BY <1>1, <1>2, <1>3, <1>4, SameBounded

\* Requests, alerts and deliveries touch neither events nor tallies.
LEMMA AloneBounded ==
  ASSUME MonTypeOK, NEW c \in Checks, Bounded(c),
         \/ Asking \/ SendAlert
         \/ \E n \in Jobs : Dispatch(n) \/ Post(n)
         \/ UNCHANGED monVars
  PROVE  Bounded(c)'
<1>1. Asking => UNCHANGED <<checkEvents, tally>>
  BY DEF Asking, Answer, QueryChecks, Ask
<1>2. SendAlert => UNCHANGED <<checkEvents, tally>>
  BY DEF SendAlert
<1>3. (\E n \in Jobs : Dispatch(n) \/ Post(n)) => UNCHANGED <<checkEvents, tally>>
  BY DeliveryFacts DEF overlordVars
<1>4. UNCHANGED monVars => UNCHANGED <<checkEvents, tally>>
  BY DEF monVars, overlordVars
<1>5. UNCHANGED <<checkEvents, tally, actors>>
  BY <1>1, <1>2, <1>3, <1>4, ActorsAlone
<1> QED
  BY <1>5 DEF Bounded, EventDowns

\* What a run adds to the outbox of its actor, whether it changes the status, and
\* whether it is the first.
LEMMA ProbeFacts ==
  ASSUME MonTypeOK, Truthful, NEW a \in Actors, NEW ok \in BOOLEAN, ProbeEnds(a, ok)
  PROVE  /\ actors \in Seq(CheckActor) /\ actors' \in Seq(CheckActor) /\ Actors' = Actors
         /\ \A b \in Actors \ {a} : actors'[b] = actors[b]
         /\ actors'[a].check = actors[a].check /\ actors'[a].firstRun = FALSE
         /\ actors[a].check \in Checks /\ actors[a].firstRun \in BOOLEAN
         /\ actors[a].status \in {"up", "down"} /\ actors'[a].status \in {"up", "down"}
         /\ actors[a].outbox = <<>>
         /\ Len(actors'[a].outbox) = (IF actors'[a].status # actors[a].status THEN 1 ELSE 0)
                                       + (IF actors[a].firstRun THEN 1 ELSE 0)
         /\ UNCHANGED checkEvents
         /\ tally' = [tally EXCEPT ![actors[a].check].downs =
                        IF actors[a].status = "up" /\ actors'[a].status = "down" THEN @ + 1 ELSE @]
<1> DEFINE act == AfterProbe(actors[a], ok)
<1>1. actors \in Seq(CheckActor) /\ actors[a] \in CheckActor /\ TrueReports(actors[a])
  BY ActorsTypes DEF MonTypeOK, Truthful
<1>2. Becomes(a, act) /\ act \in CheckActor
  BY ProbeTypes
<1>3. /\ actors' \in Seq(CheckActor) /\ Actors' = Actors /\ actors'[a] = act
      /\ \A b \in Actors \ {a} : actors'[b] = actors[b]
  BY <1>2, ActorBecomes DEF MonTypeOK
<1>4. /\ act.check = actors[a].check /\ act.firstRun = FALSE
      /\ act.status = StatusAfter(actors[a], ok)
      /\ act.outbox = Reports(actors[a], StatusAfter(actors[a], ok))
  BY <1>1, AfterProbeFields
<1>5. actors[a].phase = "probing"
  BY DEF ProbeEnds
<1>6. actors[a].outbox = <<>>
  BY <1>1, <1>5 DEF TrueReports
<1>7. /\ UNCHANGED checkEvents
      /\ tally' = [tally EXCEPT ![actors[a].check].downs =
                     IF actors[a].status = "up" /\ act.status = "down" THEN @ + 1 ELSE @]
  BY DEF ProbeEnds
<1>8. /\ actors[a].check \in Checks /\ actors[a].firstRun \in BOOLEAN
      /\ actors[a].status \in {"up", "down"} /\ act.status \in {"up", "down"}
  BY <1>1, <1>2 DEF CheckActor, Status
<1>9. Len(act.outbox) = (IF act.status # actors[a].status THEN 1 ELSE 0)
                          + (IF actors[a].firstRun THEN 1 ELSE 0)
  <2> DEFINE s == StatusAfter(actors[a], ok)
  <2>1. s \in Status /\ act.status = s /\ act.outbox = Reports(actors[a], s)
    BY <1>4, <1>8 DEF Status
  <2> HIDE DEF act, s
  <2>2. Len(Reports(actors[a], s)) = (IF s # actors[a].status THEN 1 ELSE 0)
                                       + (IF actors[a].firstRun THEN 1 ELSE 0)
    BY <1>1, <2>1, ReportsFacts
  <2> QED
    BY <2>1, <2>2
<1> HIDE DEF act
<1> QED
  BY <1>1, <1>3, <1>4, <1>6, <1>7, <1>8, <1>9

LEMMA ProbeBounded ==
  ASSUME MonTypeOK, Truthful, NEW c \in Checks, Bounded(c),
         NEW a \in Actors, NEW ok \in BOOLEAN, ProbeEnds(a, ok)
  PROVE  Bounded(c)'
<1>1. /\ actors \in Seq(CheckActor) /\ actors' \in Seq(CheckActor) /\ Actors' = Actors
      /\ \A b \in Actors \ {a} : actors'[b] = actors[b]
      /\ actors'[a].check = actors[a].check /\ actors'[a].firstRun = FALSE
      /\ actors[a].check \in Checks /\ actors[a].firstRun \in BOOLEAN
      /\ actors[a].status \in {"up", "down"} /\ actors'[a].status \in {"up", "down"}
      /\ actors[a].outbox = <<>>
      /\ Len(actors'[a].outbox) = (IF actors'[a].status # actors[a].status THEN 1 ELSE 0)
                                    + (IF actors[a].firstRun THEN 1 ELSE 0)
      /\ UNCHANGED checkEvents
  BY ProbeFacts
<1>2. tally' = [tally EXCEPT ![actors[a].check].downs =
                  IF actors[a].status = "up" /\ actors'[a].status = "down" THEN @ + 1 ELSE @]
  BY ProbeFacts
<1>3. /\ IsFiniteSet(DownsIn(actors, c)) /\ Cardinality(DownsIn(actors, c)) \in Nat
      /\ IsFiniteSet(Ran(actors, c)) /\ Cardinality(Ran(actors, c)) \in Nat
      /\ Cardinality(EventDowns(c)) \in Nat
      /\ tally[c].downs \in Nat /\ tally[c].acted \in Nat
  BY CountTypes
<1>4. EventDowns(c)' = EventDowns(c)
  BY <1>1 DEF EventDowns
<1>5. Truthful'
  BY ProbeTruth
<1>6. ASSUME NEW b \in Actors, NEW i \in 1 .. 2
      PROVE  <<b, i>> \in DownsIn(actors, c)'
               <=> \/ <<b, i>> \in DownsIn(actors, c)
                   \/ b = a /\ actors[a].check = c /\ actors'[a].status = "down"
                        /\ i <= Len(actors'[a].outbox)
  <2>1. <<b, i>> \in DownsIn(actors', c)
          <=> actors'[b].check = c /\ actors'[b].status = "down" /\ i <= Len(actors'[b].outbox)
    BY <1>1, <1>5, DownsAre DEF Truthful, Actors
  <2>2. <<b, i>> \in DownsIn(actors, c)
          <=> actors[b].check = c /\ actors[b].status = "down" /\ i <= Len(actors[b].outbox)
    BY <1>1, DownsAre DEF Truthful, Actors
  <2>3. ~ (i <= Len(actors[a].outbox))
    BY <1>1, EmptySeq
  <2> QED
    BY <1>1, <2>1, <2>2, <2>3
<1>7. DownsIn(actors, c) \subseteq Actors \X (1 .. 2)
  BY DEF DownsIn, Actors
<1>8. CASE actors[a].check # c
  <2>1. DownsIn(actors, c)' = DownsIn(actors, c)
    BY <1>1, <1>6, <1>7, <1>8, SamePositions DEF Actors
  <2>2. Ran(actors, c)' = Ran(actors, c)
    BY <1>1, <1>8 DEF Ran, Actors
  <2>3. tally'[c] = tally[c]
    BY <1>2, <1>8 DEF MonTypeOK
  <2> QED
    BY <1>4, <2>1, <2>2, <2>3, SameBounded
<1>9. CASE actors[a].check = c
  <2> DEFINE ran == IF actors[a].firstRun THEN 1 ELSE 0
             fell == IF actors[a].status = "up" /\ actors'[a].status = "down" THEN 1 ELSE 0
             more == IF actors'[a].status = "down" THEN Len(actors'[a].outbox) ELSE 0
  <2>1. ran \in {0, 1} /\ fell \in {0, 1} /\ more \in {0, fell + ran} /\ fell <= more
    BY <1>1
  <2>2. Cardinality(Ran(actors, c)') = Cardinality(Ran(actors, c)) + ran
    <3>1. Ran(actors, c)' = Ran(actors, c) \cup {a}
      BY <1>1, <1>9 DEF Ran, Actors
    <3>2. a \in Ran(actors, c) <=> ~ actors[a].firstRun
      BY <1>9 DEF Ran, Actors
    <3>3. Cardinality(Ran(actors, c) \cup {a})
            = IF a \in Ran(actors, c) THEN Cardinality(Ran(actors, c)) ELSE Cardinality(Ran(actors, c)) + 1
      BY <1>3, FS_AddElement
    <3>4. Cardinality(Ran(actors, c)) \in Nat
      BY <1>3
    <3>5. CASE actors[a].firstRun
      BY <3>1, <3>2, <3>3, <3>5
    <3>6. CASE ~ actors[a].firstRun
      BY <3>1, <3>2, <3>3, <3>4, <3>6
    <3> QED
      BY <3>5, <3>6
  <2>3. tally'[c].downs = tally[c].downs + fell /\ tally'[c].acted = tally[c].acted
    BY SMTT(30), <1>2, <1>3, <1>9 DEF MonTypeOK
  <2>4. Cardinality(DownsIn(actors, c)') = Cardinality(DownsIn(actors, c)) + more
    <3> DEFINE old == DownsIn(actors, c)
    <3>1. ~ (<<a, 1>> \in old) /\ ~ (<<a, 2>> \in old)
      <4>1. \A i \in 1 .. 2 : <<a, i>> \in old => i \in DOMAIN actors[a].outbox
        BY DEF DownsIn
      <4> QED
        BY <1>1, <4>1, EmptySeq
    <3>2. more \in 0 .. 2 /\ \A b \in Actors, i \in 1 .. 2 :
            <<b, i>> \in DownsIn(actors', c) <=> <<b, i>> \in old \/ (b = a /\ i <= more)
      BY <1>1, <1>6, <1>9, <2>1
    <3> HIDE DEF more, old
    <3>3. old \subseteq Actors \X (1 .. 2) /\ IsFiniteSet(old) /\ Cardinality(old) \in Nat
      BY <1>3, <1>7 DEF old
    <3>4. DOMAIN actors' = Actors /\ a \in Actors
      BY <1>1 DEF Actors
    <3>5. CASE more = 0
      <4>1. DownsIn(actors', c) = old
        <5>1. \A b \in DOMAIN actors', i \in 1 .. 2 : <<b, i>> \in DownsIn(actors', c) <=> <<b, i>> \in old
          <6>1. \A i \in 1 .. 2 : ~ (i <= 0)
            OBVIOUS
          <6> QED
            BY <3>2, <3>5, <3>4, <6>1
        <5> QED
          BY <3>3, <3>4, <5>1, SamePositions
      <4> QED
        BY <3>3, <3>5, <4>1 DEF old
    <3>6. CASE more = 1
      <4>1. DownsIn(actors', c) = old \cup {<<a, 1>>}
        <5>1. \A b \in Actors, i \in 1 .. 2 : <<b, i>> = <<a, 1>> <=> b = a /\ i <= 1
          OBVIOUS
        <5>2. \A b \in DOMAIN actors', i \in 1 .. 2 :
                <<b, i>> \in DownsIn(actors', c) <=> <<b, i>> \in old \cup {<<a, 1>>}
          BY <3>2, <3>6, <3>4, <5>1
        <5>3. old \cup {<<a, 1>>} \subseteq (DOMAIN actors') \X (1 .. 2)
          BY <3>3, <3>4
        <5> QED
          BY <5>2, <5>3, SamePositions
      <4> QED
        BY <3>1, <3>3, <3>6, <4>1, FS_AddElement DEF old
    <3>7. CASE more = 2
      <4>1. DownsIn(actors', c) = (old \cup {<<a, 1>>}) \cup {<<a, 2>>}
        <5>1. \A b \in Actors, i \in 1 .. 2 : <<b, i>> \in {<<a, 1>>, <<a, 2>>} <=> b = a /\ i <= 2
          OBVIOUS
        <5>2. \A b \in DOMAIN actors', i \in 1 .. 2 :
                <<b, i>> \in DownsIn(actors', c) <=> <<b, i>> \in (old \cup {<<a, 1>>}) \cup {<<a, 2>>}
          BY <3>2, <3>7, <3>4, <5>1
        <5>3. (old \cup {<<a, 1>>}) \cup {<<a, 2>>} \subseteq (DOMAIN actors') \X (1 .. 2)
          BY <3>3, <3>4
        <5> DEFINE S == (old \cup {<<a, 1>>}) \cup {<<a, 2>>}
        <5>4. /\ \A b \in DOMAIN actors', i \in 1 .. 2 :
                   <<b, i>> \in DownsIn(actors', c) <=> <<b, i>> \in S
              /\ S \subseteq (DOMAIN actors') \X (1 .. 2)
          BY <5>2, <5>3
        <5> HIDE DEF S
        <5>5. DownsIn(actors', c) = S
          BY <5>4, SamePositions
        <5> QED
          BY <5>5 DEF S
      <4>2. /\ IsFiniteSet(old \cup {<<a, 1>>})
            /\ Cardinality(old \cup {<<a, 1>>}) = Cardinality(old) + 1
        BY <3>1, <3>3, FS_AddElement
      <4>3. <<a, 2>> \notin old \cup {<<a, 1>>}
        BY <3>1
      <4>4. Cardinality(DownsIn(actors', c)) = Cardinality(old) + 1 + 1
        BY SMTT(30), <4>1, <4>2, <4>3, FS_AddElement
      <4> QED
        BY <3>3, <3>7, <4>4 DEF old
    <3> QED
      BY <3>2, <3>5, <3>6, <3>7
  <2> HIDE DEF ran, fell, more
  <2>5. Balance(tally[c].downs + fell, tally[c].acted, Cardinality(EventDowns(c)),
                Cardinality(DownsIn(actors, c)) + more, Cardinality(Ran(actors, c)) + ran)
    BY <1>3, <2>1 DEF Bounded, Balance
  <2> QED
    BY <1>4, <2>2, <2>3, <2>4, <2>5 DEF Bounded
<1> QED
  BY <1>8, <1>9

\* A down that is reported moves from an outbox to the channel.
LEMMA ReportBounded ==
  ASSUME MonTypeOK, Truthful, NEW c \in Checks, Bounded(c), NEW a \in Actors, Report(a)
  PROVE  Bounded(c)'
<1> DEFINE n == Len(checkEvents)
           k == Len(actors[a].outbox)
           old == DownsIn(actors, c)
           goes == actors[a].check = c /\ actors[a].status = "down"
<1>1. /\ Actors' = Actors /\ \A b \in Actors \ {a} : actors'[b] = actors[b]
      /\ actors'[a].check = actors[a].check /\ actors'[a].status = actors[a].status
      /\ actors'[a].firstRun = actors[a].firstRun
      /\ k \in 1 .. 2 /\ Len(actors'[a].outbox) = k - 1
      /\ checkEvents' = Append(checkEvents, [check |-> actors[a].check,
                                             status |-> actors[a].status, from |-> a])
  BY ReportFacts
<1>2. /\ actors \in Seq(CheckActor) /\ actors' \in Seq(CheckActor) /\ tally' = tally
      /\ DOMAIN actors' = Actors /\ DOMAIN actors = Actors
  BY <1>1, ReportTypes DEF MonTypeOK, Report, overlordVars, Actors
<1>3. /\ IsFiniteSet(DownsIn(actors, c)) /\ Cardinality(DownsIn(actors, c)) \in Nat
      /\ IsFiniteSet(EventDowns(c)) /\ Cardinality(EventDowns(c)) \in Nat
      /\ tally[c].downs \in Nat /\ tally[c].acted \in Nat
      /\ Cardinality(Ran(actors, c)) \in Nat
  BY CountTypes
<1>4. Truthful'
  BY ReportTruth
<1>5. Ran(actors, c)' = Ran(actors, c)
  BY <1>1, <1>2 DEF Ran
<1>6. /\ n \in Nat /\ DOMAIN checkEvents = 1 .. n /\ DOMAIN checkEvents' = 1 .. n + 1
      /\ \A i \in 1 .. n : checkEvents'[i] = checkEvents[i]
      /\ checkEvents'[n + 1].check = actors[a].check
      /\ checkEvents'[n + 1].status = actors[a].status
  <2> DEFINE Event == [check : Checks, status : Status, from : Actors]
             event == [check |-> actors[a].check, status |-> actors[a].status, from |-> a]
  <2>1. checkEvents \in Seq(Event)
    BY DEF MonTypeOK
  <2>2. event \in Event
    <3>1. actors[a] \in CheckActor
      BY ActorsTypes DEF MonTypeOK
    <3> QED
      BY <3>1 DEF CheckActor
  <2>3. event.check = actors[a].check /\ event.status = actors[a].status
    OBVIOUS
  <2>4. checkEvents' = Append(checkEvents, event)
    BY <1>1
  <2> HIDE DEF Event, event
  <2>5. /\ checkEvents' \in Seq(Event) /\ Len(checkEvents') = n + 1
        /\ \A i \in 1 .. n : checkEvents'[i] = checkEvents[i]
        /\ checkEvents'[n + 1] = event
    BY <2>1, <2>2, <2>4, AppendProperties
  <2>6. n \in Nat /\ DOMAIN checkEvents = 1 .. n /\ DOMAIN checkEvents' = 1 .. n + 1
    BY <2>1, <2>5, LenProperties
  <2> QED
    BY <2>3, <2>5, <2>6
<1>7. \A b \in Actors, i \in 1 .. 2 :
        <<b, i>> \in DownsIn(actors', c)
          <=> /\ actors'[b].check = c /\ actors'[b].status = "down"
              /\ i <= Len(actors'[b].outbox)
  BY <1>2, <1>4, DownsAre DEF Truthful, Actors
<1>8. \A b \in Actors, i \in 1 .. 2 :
        <<b, i>> \in old
          <=> /\ actors[b].check = c /\ actors[b].status = "down"
              /\ i <= Len(actors[b].outbox)
  BY <1>2, DownsAre DEF Truthful
<1>9. old \subseteq Actors \X (1 .. 2)
  BY <1>2 DEF DownsIn
<1> HIDE DEF n, k, old
<1>10. CASE ~ goes
  <2>1. EventDowns(c)' = EventDowns(c)
    <3>1. n + 1 \notin EventDowns(c)'
      BY <1>6, <1>10 DEF EventDowns
    <3>2. \A i \in 1 .. n : i \in EventDowns(c)' <=> i \in EventDowns(c)
      BY <1>6 DEF EventDowns
    <3>3. EventDowns(c)' \subseteq 1 .. n + 1 /\ EventDowns(c) \subseteq 1 .. n
      BY <1>6 DEF EventDowns
    <3>4. \A i \in 1 .. n + 1 : i \in 1 .. n \/ i = n + 1
      BY <1>6
    <3> QED
      BY <3>1, <3>2, <3>3, <3>4
  <2>2. DownsIn(actors', c) = old
    <3>1. \A b \in DOMAIN actors', i \in 1 .. 2 : <<b, i>> \in DownsIn(actors', c) <=> <<b, i>> \in old
      BY <1>1, <1>2, <1>7, <1>8, <1>10
    <3> QED
      BY <1>2, <1>9, <3>1, SamePositions
  <2> QED
    BY <1>2, <1>5, <2>1, <2>2, SameBounded DEF old
<1>11. CASE goes
  <2>1. Cardinality(EventDowns(c)') = Cardinality(EventDowns(c)) + 1
    <3>1. n + 1 \in EventDowns(c)' /\ n + 1 \notin EventDowns(c)
      BY <1>6, <1>11 DEF EventDowns
    <3>2. \A i \in 1 .. n : i \in EventDowns(c)' <=> i \in EventDowns(c)
      BY <1>6 DEF EventDowns
    <3>3. EventDowns(c)' \subseteq 1 .. n + 1 /\ EventDowns(c) \subseteq 1 .. n
      BY <1>6 DEF EventDowns
    <3>4. \A i \in 1 .. n + 1 : i \in 1 .. n \/ i = n + 1
      BY <1>6
    <3>5. EventDowns(c)' = EventDowns(c) \cup {n + 1}
      BY <3>1, <3>2, <3>3, <3>4
    <3> QED
      BY <1>3, <3>1, <3>5, FS_AddElement
  <2>2. Cardinality(DownsIn(actors', c)) = Cardinality(old) - 1
    <3>1. <<a, k>> \in old
      <4>1. k \in 1 .. 2 /\ k <= k
        BY <1>1
      <4>2. k = Len(actors[a].outbox)
        BY DEF k
      <4>3. <<a, k>> \in old
              <=> actors[a].check = c /\ actors[a].status = "down" /\ k <= Len(actors[a].outbox)
        BY <1>8, <4>1
      <4>4. k <= Len(actors[a].outbox)
        BY <4>1, <4>2
      <4> QED
        BY <1>11, <4>3, <4>4
    <3>2. \A b \in Actors, i \in 1 .. 2 :
            <<b, i>> \in DownsIn(actors', c) <=> <<b, i>> \in old \ {<<a, k>>}
      <4> SUFFICES ASSUME NEW b \in Actors, NEW i \in 1 .. 2
                   PROVE  <<b, i>> \in DownsIn(actors', c) <=> <<b, i>> \in old \ {<<a, k>>}
        OBVIOUS
      <4>1. CASE b # a
        BY <1>1, <1>7, <1>8, <4>1
      <4>2. CASE b = a
        <5>1. <<a, i>> \in DownsIn(actors', c) <=> i <= k - 1
          BY <1>1, <1>7, <1>11
        <5>2. <<a, i>> \in old <=> i <= k
          BY <1>8, <1>11 DEF k
        <5>3. i <= k - 1 <=> i <= k /\ i # k
          BY <1>1
        <5> QED
          BY <4>2, <5>1, <5>2, <5>3
      <4> QED
        BY <4>1, <4>2
    <3> DEFINE S == old \ {<<a, k>>}
    <3>3. /\ \A b \in DOMAIN actors', i \in 1 .. 2 : <<b, i>> \in DownsIn(actors', c) <=> <<b, i>> \in S
          /\ S \subseteq (DOMAIN actors') \X (1 .. 2)
      BY <1>2, <1>9, <3>2
    <3> HIDE DEF S
    <3>4. DownsIn(actors', c) = S
      BY <3>3, SamePositions
    <3> QED
      BY <1>3, <3>1, <3>4, FS_RemoveElement DEF old, S
  <2>3. Balance(tally[c].downs, tally[c].acted, Cardinality(EventDowns(c)) + 1,
                Cardinality(old) - 1, Cardinality(Ran(actors, c)))
    BY <1>3 DEF Bounded, Balance, old
  <2> QED
    BY <1>2, <1>5, <2>1, <2>2, <2>3 DEF Bounded
<1> QED
  BY <1>10, <1>11

\* The set of a channel whose first event is taken has as many as were left.
LEMMA ShiftedSet ==
  ASSUME NEW n \in Nat, NEW S \in SUBSET (2 .. n + 1), NEW T \in SUBSET (1 .. n),
         \A i \in 1 .. n : i \in T <=> i + 1 \in S
  PROVE  IsFiniteSet(T) /\ Cardinality(T) = Cardinality(S)
<1> DEFINE f == [i \in T |-> i + 1]
<1>1. f \in [T -> S]
  OBVIOUS
<1>2. \A i, j \in T : f[i] = f[j] => i = j
  OBVIOUS
<1>3. \A j \in S : \E i \in T : f[i] = j
  <2> SUFFICES ASSUME NEW j \in S PROVE \E i \in T : f[i] = j
    OBVIOUS
  <2>1. j - 1 \in 1 .. n /\ (j - 1) + 1 = j
    OBVIOUS
  <2>2. j - 1 \in T
    BY <2>1
  <2> QED
    BY <2>1, <2>2
<1> HIDE DEF f
<1>4. f \in Bijection(T, S)
  BY <1>1, <1>2, <1>3 DEF Bijection, Injection, Surjection, IsInjective
<1>5. IsFiniteSet(T)
  <2>1. IsFiniteSet(1 .. n)
    BY FS_Interval
  <2> QED
    BY <2>1, FS_Subset
<1> QED
  BY <1>4, <1>5, FS_Bijection DEF ExistsBijection

LEMMA EventBounded ==
  ASSUME MonTypeOK, NEW c \in Checks, Bounded(c), HandleCheckEvent
  PROVE  Bounded(c)'
<1> DEFINE event == Head(checkEvents)
           n == Len(checkEvents) - 1
           counts == event.check = c /\ event.status = "down"
<1>1. /\ checkEvents # <<>> /\ checkEvents' = Tail(checkEvents) /\ actors' = actors
      /\ tally' = [tally EXCEPT ![event.check].acted = IF event.status = "down" THEN @ + 1 ELSE @]
  BY DEF HandleCheckEvent
<1>2. Actors' = Actors
  BY <1>1 DEF Actors
<1>3. /\ event = checkEvents[1]
      /\ event \in [check : Checks, status : Status, from : Actors]
      /\ Len(checkEvents) \in Nat \ {0} /\ DOMAIN checkEvents = 1 .. Len(checkEvents)
      /\ DOMAIN checkEvents' = 1 .. n
      /\ \A i \in 1 .. n : checkEvents'[i] = checkEvents[i + 1]
  BY <1>1, <1>2, EventTaken
<1>4. n \in Nat /\ DOMAIN checkEvents = 1 .. n + 1
  BY <1>3
<1>5. /\ IsFiniteSet(EventDowns(c)) /\ Cardinality(EventDowns(c)) \in Nat
      /\ Cardinality(DownsIn(actors, c)) \in Nat /\ Cardinality(Ran(actors, c)) \in Nat
      /\ tally[c].downs \in Nat /\ tally[c].acted \in Nat
  BY CountTypes
<1>6. event.check \in Checks
  BY <1>3
<1> HIDE DEF event, n
<1>7. Cardinality(EventDowns(c)') = Cardinality(EventDowns(c) \ {1})
  <2> DEFINE S == EventDowns(c) \ {1}
             T == EventDowns(c)'
  <2>1. S \in SUBSET (2 .. n + 1) /\ T \in SUBSET (1 .. n)
    BY <1>3, <1>4 DEF EventDowns
  <2>2. \A i \in 1 .. n : i \in T <=> i + 1 \in S
    <3> SUFFICES ASSUME NEW i \in 1 .. n PROVE i \in T <=> i + 1 \in S
      OBVIOUS
    <3>1. i + 1 \in 1 .. n + 1 /\ i + 1 # 1
      BY <1>4
    <3> QED
      BY <1>3, <1>4, <3>1 DEF EventDowns
  <2> HIDE DEF S, T
  <2>3. Cardinality(T) = Cardinality(S)
    BY <1>4, <2>1, <2>2, ShiftedSet
  <2> QED
    BY <2>3 DEF S, T
<1>8. 1 \in EventDowns(c) <=> counts
  BY <1>3, <1>4 DEF EventDowns
<1>9. Cardinality(EventDowns(c) \ {1})
        = IF 1 \in EventDowns(c) THEN Cardinality(EventDowns(c)) - 1 ELSE Cardinality(EventDowns(c))
  BY <1>5, FS_RemoveElement
<1>10. tally'[c].downs = tally[c].downs
  BY <1>1, <1>6 DEF MonTypeOK
<1>11. CASE counts
  <2>1. tally'[c].acted = tally[c].acted + 1
    BY <1>1, <1>6, <1>11 DEF MonTypeOK
  <2>2. Cardinality(EventDowns(c)') = Cardinality(EventDowns(c)) - 1
    BY <1>7, <1>8, <1>9, <1>11
  <2>3. Balance(tally[c].downs, tally[c].acted + 1, Cardinality(EventDowns(c)) - 1,
                Cardinality(DownsIn(actors, c)), Cardinality(Ran(actors, c)))
    BY <1>5 DEF Bounded, Balance
  <2> QED
    BY <1>1, <1>10, <2>1, <2>2, <2>3 DEF Bounded
<1>12. CASE ~ counts
  <2>1. tally'[c].acted = tally[c].acted
    BY <1>1, <1>6, <1>12 DEF MonTypeOK
  <2>2. Cardinality(EventDowns(c)') = Cardinality(EventDowns(c))
    BY <1>7, <1>8, <1>9, <1>12
  <2> QED
    BY <1>1, <1>10, <2>1, <2>2 DEF Bounded
<1> QED
  BY <1>11, <1>12

\* The policies of on-check-failure run at least once for every time a check goes
\* down, and at most once more per actor, for its first run: no event is lost or
\* counted twice between the actors, their channel and the overlord.
THEOREM Acted == MonSpec => []OutagesActedUpon
<1>1. MonInit => AllBounded
  <2> SUFFICES ASSUME MonInit, NEW c \in Checks PROVE Bounded(c)
    BY DEF AllBounded
  <2>1. MonTypeOK /\ \A a \in Actors : actors[a].outbox = <<>>
    BY InitTypes DEF IsNew
  <2>2. checkEvents = <<>> /\ tally[c].downs = 0 /\ tally[c].acted = 0
    BY DEF MonInit
  <2>3. EventDowns(c) = {} /\ DownsIn(actors, c) = {}
    BY <2>1, <2>2, EmptySeq DEF EventDowns, DownsIn, Actors
  <2>4. Cardinality(Ran(actors, c)) \in Nat
    BY <2>1, CountTypes
  <2> QED
    BY <2>2, <2>3, <2>4, FS_EmptySet DEF Bounded, Balance
<1>2. MonTypeOK /\ Truthful /\ AllBounded /\ [MonNext]_monVars => AllBounded'
  <2> SUFFICES ASSUME MonTypeOK, Truthful, AllBounded, [MonNext]_monVars, NEW c \in Checks
               PROVE  Bounded(c)'
    BY DEF AllBounded
  <2>1. Bounded(c)
    BY DEF AllBounded
  <2> QED
    BY <2>1, Steps, QuietBounded, ProbeBounded, ReportBounded, EventBounded, ReplanBounded,
       AloneBounded
<1> QED
  BY <1>1, <1>2, MonTypes, AlwaysTruthful, BoundedAll, PTL DEF MonSpec

-----------------------------------------------------------------------------
(* Requests for the status of checks.                                      *)

\* The actors a request still awaits: the one that was asked, and those to be asked.
ToAnswer == ({asked} \cup {query[i] : i \in DOMAIN query}) \ {NoActor}

\* They are those the overlord's table had when the request came; no event is
\* handled meanwhile, and each actor is asked once.
AskInv ==
  /\ ToAnswer # {} => sending = <<>>
  /\ \A a \in ToAnswer : \E c \in Checks : checks[c] = a
  /\ \A i, j \in DOMAIN query : i < j => query[i] < query[j]
  /\ asked # NoActor => \A i \in DOMAIN query : asked < query[i]

\* A step that is not about requests.
LEMMA AskKept ==
  ASSUME AskInv, UNCHANGED <<query, asked>>,
         ToAnswer # {} => UNCHANGED <<checks, sending>>
  PROVE  AskInv'
BY DEF AskInv, ToAnswer, NoActor

\* A request, which asks the actors of the table in order.
LEMMA AskStarts ==
  ASSUME MonTypeOK, AskInv, NEW S \in SUBSET Checks, QueryChecks(S)
  PROVE  AskInv'
<1> DEFINE H == {checks[c] : c \in S} \ {NoActor}
<1>1. /\ asked' = NoActor /\ sending' = <<>> /\ checks' = checks
      /\ query' \in InSpawnOrder(H)
  BY DEF QueryChecks, OverlordIdle
<1>2. \A a \in H : \E c \in Checks : checks[c] = a
  OBVIOUS
<1> HIDE DEF H
<1>3. PICK m \in 0 .. Cardinality(H) : query' \in [1 .. m -> H]
  BY <1>1 DEF InSpawnOrder, BoundedSeq, SeqOf
<1>4. \A i, j \in DOMAIN query' : i < j => query'[i] < query'[j]
  BY <1>1 DEF InSpawnOrder
<1>5. ToAnswer' \subseteq H
  BY <1>1, <1>3 DEF ToAnswer, NoActor
<1> QED
  BY <1>1, <1>2, <1>4, <1>5 DEF AskInv

\* The next actor is asked, or the one that was answers.
LEMMA AskGoesOn ==
  ASSUME MonTypeOK, AskInv, Ask \/ \E a \in Actors : Answer(a)
  PROVE  AskInv'
<1>1. UNCHANGED <<checks, sending>>
  BY DEF Ask, Answer
<1>2. CASE Ask
  <2>1. /\ query \in Seq(Nat) /\ query # <<>> /\ asked' = Head(query) /\ query' = Tail(query)
    BY <1>2 DEF Ask, MonTypeOK
  <2>2. /\ 1 \in DOMAIN query /\ asked' = query[1]
        /\ \A i \in DOMAIN query' : /\ i + 1 \in DOMAIN query /\ query'[i] = query[i + 1]
                                    /\ 1 < i + 1 /\ i \in Nat
    BY <2>1
  <2>3. ToAnswer' \subseteq ToAnswer
    BY <2>2 DEF ToAnswer, NoActor
  <2>4. \A i, j \in DOMAIN query' : i < j => query'[i] < query'[j]
    <3> SUFFICES ASSUME NEW i \in DOMAIN query', NEW j \in DOMAIN query', i < j
                 PROVE  query'[i] < query'[j]
      OBVIOUS
    <3>1. i + 1 < j + 1
      BY <2>2
    <3> QED
      BY <2>2, <3>1 DEF AskInv
  <2>5. \A i \in DOMAIN query' : asked' < query'[i]
    BY <2>2 DEF AskInv
  <2> QED
    BY <1>1, <2>3, <2>4, <2>5 DEF AskInv
<1>3. CASE \E a \in Actors : Answer(a)
  <2>1. query' = query /\ asked' = NoActor
    BY <1>3 DEF Answer
  <2>2. ToAnswer' \subseteq ToAnswer
    BY <2>1 DEF ToAnswer, NoActor
  <2> QED
    BY <1>1, <2>1, <2>2 DEF AskInv
<1> QED
  BY <1>2, <1>3

\* Every actor that a request still awaits is in charge of its check, was not told to
\* shut down and has not, and will be asked once; the overlord does nothing else.
RequestsReachActors ==
  /\ \A a \in ToAnswer : /\ a \in Actors /\ checks[actors[a].check] = a
                         /\ ~ actors[a].told /\ actors[a].phase # "gone"
  /\ asked \notin {query[i] : i \in DOMAIN query} \/ asked = NoActor
  /\ \A i, j \in DOMAIN query : query[i] = query[j] => i = j
  /\ ToAnswer # {} => sending = <<>>

\* The safety half of QueriesAnswered (query_checks, whose oneshot replies have no
\* timeout): no request waits for an actor that a replan has removed, however many
\* replans, probes and reports are under way.
THEOREM RequestsAnswerable == MonSpec => []RequestsReachActors
<1>1. MonInit => AskInv
  BY EmptySeq DEF MonInit, AskInv, ToAnswer, NoActor
<1>2. MonTypeOK /\ AskInv /\ [MonNext]_monVars => AskInv'
  <2> SUFFICES ASSUME MonTypeOK, AskInv, [MonNext]_monVars PROVE AskInv'
    OBVIOUS
  <2>1. ASSUME NEW a \in Actors, Quiet(a) PROVE AskInv'
    BY <2>1, AskKept DEF Quiet, DelayOver, Tick, ReceiveShutdown, overlordVars
  <2>2. ASSUME NEW a \in Actors, NEW ok \in BOOLEAN, ProbeEnds(a, ok) PROVE AskInv'
    BY <2>2, AskKept DEF ProbeEnds
  <2>3. ASSUME NEW a \in Actors, Report(a) PROVE AskInv'
    BY <2>3, AskKept DEF Report, overlordVars
  <2>4. CASE Asking
    BY <2>4, AskStarts, AskGoesOn DEF Asking
  <2>5. CASE HandleCheckEvent \/ Replan
    <3>1. UNCHANGED <<query, asked>> /\ query = <<>> /\ asked = NoActor
      BY <2>5 DEF HandleCheckEvent, Replan, OverlordIdle
    <3>2. ToAnswer = {}
      BY <3>1, EmptySeq DEF ToAnswer
    <3> QED
      BY <3>1, <3>2, AskKept
  <2>6. CASE SendAlert
    <3>1. UNCHANGED <<query, asked>> /\ ToAnswer = {}
      BY <2>6 DEF SendAlert, AskInv
    <3> QED
      BY <3>1, AskKept
  <2>7. ASSUME NEW n \in Jobs, Dispatch(n) \/ Post(n) PROVE AskInv'
    BY <2>7, AskKept DEF Dispatch, Post, PostSucceeds, PostRefused, PostFails, PostUnheard,
                         Posted, DeliveryFrame, overlordVars
  <2>8. CASE UNCHANGED monVars
    BY <2>8, AskKept DEF monVars, overlordVars
  <2> QED
    BY <2>1, <2>2, <2>3, <2>4, <2>5, <2>6, <2>7, <2>8, Steps
<1>3. MonTypeOK /\ OneActorInCharge /\ AskInv => RequestsReachActors
  <2> SUFFICES ASSUME MonTypeOK, OneActorInCharge, AskInv PROVE RequestsReachActors
    OBVIOUS
  <2>1. query \in Seq(Nat) /\ asked \in Nat /\ checks \in [Checks -> {NoActor} \cup Actors]
    BY DEF MonTypeOK
  <2>2. ASSUME NEW a \in ToAnswer
        PROVE  /\ a \in Actors /\ checks[actors[a].check] = a
               /\ ~ actors[a].told /\ actors[a].phase # "gone"
    <3>1. PICK c \in Checks : checks[c] = a
      BY DEF AskInv
    <3>2. a # NoActor
      BY DEF ToAnswer
    <3> QED
      BY <2>1, <3>1, <3>2 DEF OneActorInCharge
  <2>3. /\ DOMAIN query = 1 .. Len(query) /\ \A i \in DOMAIN query : query[i] \in Nat
    BY <2>1
  <2>4. \A i, j \in DOMAIN query : query[i] = query[j] => i = j
    <3> SUFFICES ASSUME NEW i \in DOMAIN query, NEW j \in DOMAIN query, i < j
                 PROVE  query[i] # query[j]
      BY <2>3
    <3>1. query[i] < query[j]
      BY DEF AskInv
    <3> QED
      BY <2>3, <3>1
  <2>5. asked \notin {query[i] : i \in DOMAIN query} \/ asked = NoActor
    <3> SUFFICES ASSUME asked # NoActor, NEW i \in DOMAIN query, asked = query[i] PROVE FALSE
      OBVIOUS
    <3>1. asked < query[i]
      BY DEF AskInv
    <3> QED
      BY <2>3, <3>1
  <2> QED
    BY <2>2, <2>4, <2>5 DEF RequestsReachActors, AskInv
<1> QED
  BY <1>1, <1>2, <1>3, MonTypes, InCharge, PTL DEF MonSpec
=============================================================================
