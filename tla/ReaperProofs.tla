---------------------------- MODULE ReaperProofs ----------------------------
(***************************************************************************)
(* What Reaper promises for every set of waits and of process identifiers: *)
(* a wait is told how its own process ended, although the reaper may have  *)
(* collected it first, unless its identifier had a second process, and no  *)
(* zombie is passed over.                                                  *)
(***************************************************************************)
EXTENDS Reaper, TLAPS

-----------------------------------------------------------------------------
(* The invariant.                                                          *)

\* A wait that has begun has an identifier, until it returns.
WaitsHavePids ==
  \A w \in Waiters : waiter[w] \in {"wait", "lookup", "dropped"} => pid[w] \in Pids

\* The reaper holds a status only between collecting it and recording it.
HeldToRecord ==
  IF reaper = "record" THEN held[1] \in Pids /\ held[2] \in Owners
                       ELSE held[1] = NoPid /\ held[2] = NoStatus

\* What is found under the identifier of a wait is its own process or its own
\* status, and one of them is somewhere, or was dropped for its age.
Traced(w) ==
  /\ owner[pid[w]] \in {w, Free}
  /\ reaped[pid[w]] \in {w, NoStatus}
  /\ held[1] = pid[w] => held[2] = w
  /\ owner[pid[w]] = w \/ held[1] = pid[w] \/ reaped[pid[w]] = w \/ w \in late
  /\ waiter[w] = "lookup" => owner[pid[w]] = Free
  /\ \A v \in Waiters \ {w} : Unresolved(v) => pid[v] # pid[w]

AllTraced == \A w \in Waiters \ reused : Unresolved(w) => Traced(w)

\* Without the reaper nobody but the waiter collects its process.
WithoutReaper ==
  ~reaping => /\ reaper = "idle"
              /\ \A p \in Pids : reaped[p] = NoStatus
              /\ \A w \in Waiters : /\ waiter[w] # "lookup"
                                    /\ waiter[w] = "wait" => owner[pid[w]] = w

StatusInv ==
  ReaperTypeOK /\ WaitsHavePids /\ HeldToRecord /\ AllTraced /\ WithoutReaper /\ StatusesDelivered

-----------------------------------------------------------------------------
(* The steps.                                                              *)

\* No process, status or wait is there at the start.
LEMMA InitStatus == Init => StatusInv
<1> SUFFICES ASSUME Init PROVE StatusInv
  OBVIOUS
<1>1. ReaperTypeOK
  BY DEF Init, ReaperTypeOK, Statuses
<1>2. WaitsHavePids /\ HeldToRecord /\ AllTraced /\ WithoutReaper /\ StatusesDelivered
  BY NamesAssumption
  DEF Init, WaitsHavePids, HeldToRecord, AllTraced, Unresolved, WithoutReaper, StatusesDelivered,
      StatusIsOwn, StatusNotLost
<1> QED
  BY <1>1, <1>2 DEF StatusInv

\* The invariant, part by part.
LEMMA Parts ==
  ASSUME StatusInv
  PROVE  /\ ReaperTypeOK /\ WaitsHavePids /\ HeldToRecord /\ AllTraced /\ WithoutReaper
         /\ \A w \in Waiters \ reused : result[w] \in {w, Error, NoStatus}
         /\ ~reaping => \A w \in Waiters : result[w] \in {w, NoStatus}
         /\ \A w \in Waiters : result[w] = Error => w \in late \cup reused
BY DEF StatusInv, StatusesDelivered, StatusIsOwn, StatusNotLost

\* A process starts under a free identifier.
LEMMA SpawnStatus ==
  ASSUME StatusInv, NEW w \in Waiters, NEW p \in Pids, Spawn(w, p)
  PROVE  StatusInv'
<1>1. ReaperTypeOK'
  BY Parts DEF Spawn, ReaperTypeOK, reaperVars, Owners, WaitingFor, Statuses
<1>2. WaitsHavePids' /\ HeldToRecord'
  BY Parts DEF Spawn, ReaperTypeOK, WaitsHavePids, HeldToRecord, reaperVars
<1>3. ASSUME NEW v \in Waiters \ reused', Unresolved(v)'
      PROVE  Traced(v)'
  <2>1. CASE v = w
    <3>1. /\ waiter'[w] = "wait" /\ pid'[w] = p /\ owner'[p] = w
          /\ reaped[p] = NoStatus /\ held[1] # p
          /\ \A u \in Waiters : Unresolved(u) => pid[u] # p
          /\ \A u \in Waiters \ {w} : waiter'[u] = waiter[u] /\ pid'[u] = pid[u]
      BY <1>3, <2>1, Parts DEF Spawn, ReaperTypeOK, OnRecord, WaitingFor
    <3> QED
      BY <2>1, <3>1 DEF Traced, Spawn, reaperVars, Unresolved
  <2>2. CASE v # w
    <3>1. /\ waiter'[v] = waiter[v] /\ pid'[v] = pid[v] /\ v \notin reused /\ Unresolved(v)
          /\ pid[v] # p /\ pid[v] \in Pids /\ owner'[pid[v]] = owner[pid[v]] /\ pid'[w] = p
          /\ \A u \in Waiters \ {w} : waiter'[u] = waiter[u] /\ pid'[u] = pid[u]
      BY <1>3, <2>2, Parts DEF Spawn, ReaperTypeOK, WaitingFor, WaitsHavePids, Unresolved
    <3>2. Traced(v)
      BY <3>1, Parts DEF AllTraced
    <3> QED
      BY <3>1, <3>2 DEF Traced, Spawn, reaperVars, Unresolved
  <2> QED
    BY <2>1, <2>2
<1>4. WithoutReaper'
  <2>1. /\ waiter[w] = "new" /\ owner[p] = Free /\ Free \notin Waiters
        /\ owner' = [owner EXCEPT ![p] = w] /\ waiter' = [waiter EXCEPT ![w] = "wait"]
        /\ pid' = [pid EXCEPT ![w] = p] /\ UNCHANGED <<reaping, reaper, reaped>>
        /\ owner \in [Pids -> Owners \cup {Free}] /\ pid \in [Waiters -> Pids \cup {NoPid}]
        /\ waiter \in [Waiters -> {"new", "wait", "lookup", "done", "dropped"}]
    BY Parts, NamesAssumption DEF Spawn, ReaperTypeOK, reaperVars, Owners
  <2>2. ASSUME ~reaping, NEW v \in Waiters, v # w, waiter'[v] = "wait"
        PROVE  owner'[pid'[v]] = v
    <3>1. waiter[v] = "wait" /\ pid'[v] = pid[v] /\ pid[v] \in Pids /\ owner[pid[v]] = v
      BY <2>1, <2>2, Parts DEF WithoutReaper, WaitsHavePids
    <3>2. pid[v] # p
      BY <2>1, <3>1
    <3> QED
      BY <2>1, <3>1, <3>2
  <2>3. owner'[pid'[w]] = w
    BY <2>1
  <2>4. ASSUME ~reaping, NEW v \in Waiters PROVE waiter'[v] # "lookup"
    BY <2>1, <2>4, Parts DEF WithoutReaper
  <2> QED
    BY <2>1, <2>2, <2>3, <2>4, Parts DEF WithoutReaper
<1>5. StatusesDelivered'
  BY Parts DEF Spawn, StatusesDelivered, StatusIsOwn, StatusNotLost
<1> QED
  BY <1>1, <1>2, <1>3, <1>4, <1>5 DEF StatusInv, AllTraced

\* An orphan takes a free identifier.
LEMMA AdoptStatus ==
  ASSUME StatusInv, NEW p \in Pids, Adopt(p)
  PROVE  StatusInv'
<1>1. ReaperTypeOK'
  BY Parts DEF Adopt, ReaperTypeOK, reaperVars, waitVars, Owners, WaitingFor, Statuses
<1>2. WaitsHavePids' /\ HeldToRecord'
  BY Parts DEF Adopt, WaitsHavePids, HeldToRecord, reaperVars, waitVars
<1>3. ASSUME NEW v \in Waiters \ reused', Unresolved(v)'
      PROVE  Traced(v)'
  <2>1. /\ v \notin reused /\ Unresolved(v) /\ pid[v] # p /\ pid[v] \in Pids
        /\ owner'[pid[v]] = owner[pid[v]]
    BY <1>3, Parts DEF Adopt, waitVars, Unresolved, WaitingFor, WaitsHavePids, ReaperTypeOK
  <2>2. Traced(v)
    BY <2>1, Parts DEF AllTraced
  <2> QED
    BY <2>1, <2>2 DEF Traced, Adopt, reaperVars, waitVars, Unresolved
<1>4. WithoutReaper' /\ StatusesDelivered'
  BY Parts DEF Adopt, WithoutReaper, StatusesDelivered, StatusIsOwn, StatusNotLost, waitVars
<1> QED
  BY <1>1, <1>2, <1>3, <1>4 DEF StatusInv, AllTraced

\* A process exits: whose it is does not change.
LEMMA ExitStatus ==
  ASSUME StatusInv, NEW p \in Pids, ProcessExits(p)
  PROVE  StatusInv'
<1>1. ReaperTypeOK'
  BY Parts DEF ProcessExits, ReaperTypeOK, reaperVars, waitVars, Owners, Statuses
<1> QED
  BY <1>1, Parts
  DEF ProcessExits, StatusInv, WaitsHavePids, HeldToRecord, AllTraced, Traced, Unresolved,
      WithoutReaper, StatusesDelivered, StatusIsOwn, StatusNotLost, reaperVars, waitVars

\* The reaper wakes, or goes back to sleep: it holds nothing then.
LEMMA IdleStatus ==
  ASSUME StatusInv, ReaperWakes \/ ReaperSleeps
  PROVE  StatusInv'
<1>1. /\ reaper # "record" /\ reaper' # "record" /\ (reaper # "idle" \/ reaping)
      /\ (reaper' = "idle" \/ reaper' = "drain") /\ (sigchld' = FALSE \/ sigchld' = sigchld)
      /\ UNCHANGED <<reaping, owner, zombie, held, reaped, old, waiter, pid, result, reused, late>>
  BY DEF ReaperWakes, ReaperSleeps, kernelVars, waitVars
<1>2. ReaperTypeOK'
  BY <1>1, Parts DEF ReaperTypeOK, Statuses
<1>3. WaitsHavePids' /\ HeldToRecord' /\ AllTraced'
  BY <1>1, Parts DEF WaitsHavePids, HeldToRecord, AllTraced, Traced, Unresolved
<1>4. WithoutReaper' /\ StatusesDelivered'
  BY <1>1, Parts DEF WithoutReaper, StatusesDelivered, StatusIsOwn, StatusNotLost
<1> QED
  BY <1>2, <1>3, <1>4 DEF StatusInv

\* The reaper collects a process and takes its status in hand.
LEMMA CollectsStatus ==
  ASSUME StatusInv, NEW p \in Pids, ReaperCollects(p)
  PROVE  StatusInv'
<1>1. /\ reaper = "drain" /\ reaper' = "record" /\ owner[p] \in Owners /\ held' = <<p, owner[p]>>
      /\ held'[1] = p /\ held'[2] = owner[p] /\ held[1] = NoPid /\ NoPid \notin Pids
      /\ owner' = [owner EXCEPT ![p] = Free] /\ zombie' = [zombie EXCEPT ![p] = FALSE]
      /\ UNCHANGED <<reaping, sigchld, reaped, old, waiter, pid, result, reused, late>>
  BY Parts, NamesAssumption
  DEF ReaperCollects, Collect, ReaperTypeOK, HeldToRecord, waitVars
<1>2. ReaperTypeOK'
  BY <1>1, Parts DEF ReaperTypeOK, Statuses
<1>3. WaitsHavePids' /\ HeldToRecord'
  BY <1>1, Parts DEF WaitsHavePids, HeldToRecord
<1>4. ASSUME NEW v \in Waiters \ reused', Unresolved(v)'
      PROVE  Traced(v)'
  <2>1. v \notin reused /\ Unresolved(v) /\ pid[v] \in Pids /\ Traced(v)
    BY <1>1, <1>4, Parts DEF Unresolved, WaitsHavePids, AllTraced
  <2>2. owner \in [Pids -> Owners \cup {Free}] /\ Free \notin Owners
    BY Parts, NamesAssumption DEF ReaperTypeOK
  <2>3. CASE pid[v] = p
    BY <1>1, <2>1, <2>2, <2>3 DEF Traced, Unresolved
  <2>4. CASE pid[v] # p
    BY <1>1, <2>1, <2>2, <2>4 DEF Traced, Unresolved
  <2> QED
    BY <2>3, <2>4
<1>5. WithoutReaper' /\ StatusesDelivered'
  BY <1>1, Parts DEF WithoutReaper, StatusesDelivered, StatusIsOwn, StatusNotLost
<1> QED
  BY <1>2, <1>3, <1>4, <1>5 DEF StatusInv, AllTraced

\* The reaper records the status, and drops those that are too old.
LEMMA RecordStatus ==
  ASSUME StatusInv, record_reaped
  PROVE  StatusInv'
<1>1. /\ reaper = "record" /\ reaper' = "drain" /\ held' = <<NoPid, NoStatus>>
      /\ held'[1] = NoPid /\ held'[2] = NoStatus /\ old' = {} /\ NoPid \notin Pids
      /\ held[1] \in Pids /\ held[2] \in Owners
      /\ reaped' = [p \in Pids |-> IF p = held[1] THEN held[2]
                                   ELSE IF p \in old THEN NoStatus ELSE reaped[p]]
      /\ late \subseteq late' /\ late' \subseteq Waiters
      /\ \A w \in Waiters : Unresolved(w) /\ pid[w] \in old \ {held[1]} /\ reaped[pid[w]] = w
                              => w \in late'
      /\ UNCHANGED <<reaping, owner, zombie, sigchld, waiter, pid, result, reused>>
  BY Parts, NamesAssumption
  DEF record_reaped, Recorded, HeldToRecord, ReaperTypeOK, kernelVars, waitVars, WaitingFor
<1>2. ReaperTypeOK'
  BY <1>1, Parts DEF ReaperTypeOK, Statuses
<1>3. WaitsHavePids' /\ HeldToRecord'
  BY <1>1, Parts DEF WaitsHavePids, HeldToRecord
<1>4. ASSUME NEW v \in Waiters \ reused', Unresolved(v)'
      PROVE  Traced(v)'
  <2>1. v \notin reused /\ Unresolved(v) /\ pid[v] \in Pids /\ Traced(v)
    BY <1>1, <1>4, Parts DEF Unresolved, WaitsHavePids, AllTraced
  <2>2. reaped'[pid[v]] = IF pid[v] = held[1] THEN held[2]
                          ELSE IF pid[v] \in old THEN NoStatus ELSE reaped[pid[v]]
    BY <1>1, <2>1
  <2>3. CASE pid[v] = held[1]
    BY <1>1, <2>1, <2>2, <2>3 DEF Traced, Unresolved
  <2>4. CASE pid[v] # held[1]
    BY <1>1, <2>1, <2>2, <2>4 DEF Traced, Unresolved
  <2> QED
    BY <2>3, <2>4
<1>5. WithoutReaper' /\ StatusesDelivered'
  BY <1>1, Parts DEF WithoutReaper, StatusesDelivered, StatusIsOwn, StatusNotLost
<1> QED
  BY <1>2, <1>3, <1>4, <1>5 DEF StatusInv, AllTraced

\* A minute passes for a record.
LEMMA AgeStatus ==
  ASSUME StatusInv, NEW p \in Pids, RecordAges(p)
  PROVE  StatusInv'
<1>1. ReaperTypeOK'
  BY Parts DEF RecordAges, ReaperTypeOK, kernelVars, waitVars
<1> QED
  BY <1>1, Parts
  DEF RecordAges, StatusInv, WaitsHavePids, HeldToRecord, AllTraced, Traced, Unresolved,
      WithoutReaper, StatusesDelivered, StatusIsOwn, StatusNotLost, kernelVars, waitVars

-----------------------------------------------------------------------------
(* The waits.                                                              *)

\* waitpid collects what has the identifier.
LEMMA WaitStatus ==
  ASSUME StatusInv, NEW w \in Waiters, WaitReturns(w)
  PROVE  StatusInv'
<1> DEFINE p == pid[w]
<1>1. /\ waiter[w] = "wait" /\ p \in Pids /\ owner[p] \in Owners /\ owner[p] # Free
      /\ owner' = [owner EXCEPT ![p] = Free] /\ zombie' = [zombie EXCEPT ![p] = FALSE]
      /\ waiter' = [waiter EXCEPT ![w] = "done"] /\ pid' = [pid EXCEPT ![w] = NoPid]
      /\ result' = [result EXCEPT ![w] = owner[p]]
      /\ UNCHANGED <<reaping, sigchld, reaper, held, reaped, old, reused, late>>
  BY Parts DEF WaitReturns, Collect, Return, WaitsHavePids, ReaperTypeOK, reaperVars
<1>2. ReaperTypeOK'
  BY <1>1, Parts DEF ReaperTypeOK, Statuses
<1>3. WaitsHavePids' /\ HeldToRecord'
  BY <1>1, Parts DEF WaitsHavePids, HeldToRecord, ReaperTypeOK
<1>4. ASSUME NEW v \in Waiters \ reused', Unresolved(v)'
      PROVE  Traced(v)'
  <2>1. /\ v # w /\ v \notin reused /\ Unresolved(v) /\ waiter'[v] = waiter[v] /\ pid'[v] = pid[v]
        /\ pid[v] \in Pids
    BY <1>1, <1>4, Parts DEF Unresolved, WaitsHavePids, ReaperTypeOK
  <2>2. Traced(v)
    BY <2>1, Parts DEF AllTraced
  <2>3. pid[v] # p
    BY <1>1, <2>1, <2>2 DEF Traced, Unresolved
  <2>4. owner'[pid[v]] = owner[pid[v]]
    BY <1>1, <2>3
  <2>5. \A u \in Waiters : Unresolved(u)' => Unresolved(u) /\ pid'[u] = pid[u]
    BY <1>1, Parts DEF Unresolved, ReaperTypeOK
  <2> QED
    BY <1>1, <2>1, <2>2, <2>4, <2>5 DEF Traced
<1>5. WithoutReaper'
  <2>1. ASSUME ~reaping, NEW v \in Waiters
        PROVE  waiter'[v] # "lookup" /\ (waiter'[v] = "wait" => owner'[pid'[v]] = v)
    <3>1. v # w => waiter'[v] = waiter[v] /\ pid'[v] = pid[v]
      BY <1>1
    <3>2. owner[p] = w
      BY <1>1, <2>1, Parts DEF WithoutReaper
    <3>3. v # w /\ waiter[v] = "wait" => owner[pid[v]] = v /\ pid[v] \in Pids
      BY <2>1, Parts DEF WithoutReaper, WaitsHavePids
    <3>4. waiter'[w] = "done"
      BY <1>1, Parts DEF ReaperTypeOK
    <3>5. \A q \in Pids \ {p} : owner'[q] = owner[q]
      BY <1>1
    <3> QED
      BY <2>1, <3>1, <3>2, <3>3, <3>4, <3>5, Parts DEF WithoutReaper
  <2> QED
    BY <1>1, <2>1, Parts DEF WithoutReaper
<1>6. StatusesDelivered'
  <2>1. result'[w] = owner[p] /\ \A v \in Waiters \ {w} : result'[v] = result[v]
    BY <1>1, Parts DEF ReaperTypeOK
  <2>2. w \notin reused => owner[p] = w
    BY <1>1, Parts DEF AllTraced, Traced, Unresolved
  <2>3. ~reaping => owner[p] = w
    BY <1>1, Parts DEF WithoutReaper
  <2>4. owner[p] # Error
    BY <1>1, NamesAssumption
  <2> QED
    BY <1>1, <2>1, <2>2, <2>3, <2>4, Parts DEF StatusesDelivered, StatusIsOwn, StatusNotLost
<1> QED
  BY <1>2, <1>3, <1>4, <1>5, <1>6 DEF StatusInv, AllTraced

\* waitpid finds no child: the reaper has been there.
LEMMA WaitFailsStatus ==
  ASSUME StatusInv, NEW w \in Waiters, WaitFails(w)
  PROVE  StatusInv'
<1>1. /\ waiter[w] = "wait" /\ owner[pid[w]] = Free
      /\ waiter' = [waiter EXCEPT ![w] = "lookup"]
      /\ UNCHANGED <<reaping, owner, zombie, sigchld, reaper, held, reaped, old, pid, result,
                     reused, late>>
  BY DEF WaitFails, kernelVars, reaperVars
<1>2. ReaperTypeOK'
  BY <1>1, Parts DEF ReaperTypeOK
<1>3. WaitsHavePids' /\ HeldToRecord'
  BY <1>1, Parts DEF WaitsHavePids, HeldToRecord, ReaperTypeOK
<1>4. ASSUME NEW v \in Waiters \ reused', Unresolved(v)'
      PROVE  Traced(v)'
  <2>1. \A u \in Waiters : Unresolved(u)' <=> Unresolved(u)
    BY <1>1, Parts DEF Unresolved, ReaperTypeOK
  <2>2. v \notin reused /\ Traced(v)
    BY <1>1, <1>4, <2>1, Parts DEF AllTraced
  <2>3. waiter'[v] = "lookup" => owner[pid[v]] = Free
    BY <1>1, <2>2, Parts DEF Traced, ReaperTypeOK
  <2> QED
    BY <1>1, <2>1, <2>2, <2>3 DEF Traced
<1>5. reaping
  <2>1. owner[pid[w]] # w
    BY <1>1, NamesAssumption DEF Owners
  <2> QED
    BY <1>1, <2>1, Parts DEF WithoutReaper
<1>6. WithoutReaper' /\ StatusesDelivered'
  BY <1>1, <1>5, Parts DEF WithoutReaper, StatusesDelivered, StatusIsOwn, StatusNotLost
<1> QED
  BY <1>2, <1>3, <1>4, <1>6 DEF StatusInv, AllTraced

\* The record has the status, or has not.
LEMMA LookupStatus ==
  ASSUME StatusInv, NEW w \in Waiters, take_reaped(w) \/ LookupFails(w)
  PROVE  StatusInv'
<1> DEFINE p == pid[w]
<1>1. /\ waiter[w] = "lookup" /\ p \in Pids
      /\ waiter' = [waiter EXCEPT ![w] = "done"] /\ pid' = [pid EXCEPT ![w] = NoPid]
      /\ UNCHANGED <<reaping, owner, zombie, sigchld, reaper, held, reused, late>>
      /\ reaping
  BY Parts DEF take_reaped, LookupFails, Return, WaitsHavePids, kernelVars, reaperVars, WithoutReaper
<1>2. \/ /\ reaped[p] # NoStatus /\ result' = [result EXCEPT ![w] = reaped[p]]
         /\ reaped' = [reaped EXCEPT ![p] = NoStatus] /\ old' = old \ {p}
      \/ /\ reaped[p] = NoStatus /\ reaper # "record"
         /\ result' = [result EXCEPT ![w] = Error]
         /\ reaped' = reaped /\ old' = old
  BY DEF take_reaped, LookupFails, Return, reaperVars
<1>3. ReaperTypeOK'
  BY <1>1, <1>2, Parts DEF ReaperTypeOK, Statuses
<1>4. WaitsHavePids' /\ HeldToRecord'
  BY <1>1, Parts DEF WaitsHavePids, HeldToRecord, ReaperTypeOK
<1>5. ASSUME NEW v \in Waiters \ reused', Unresolved(v)'
      PROVE  Traced(v)'
  <2>1. /\ v # w /\ v \notin reused /\ Unresolved(v) /\ waiter'[v] = waiter[v] /\ pid'[v] = pid[v]
        /\ pid[v] \in Pids
    BY <1>1, <1>5, Parts DEF Unresolved, WaitsHavePids, ReaperTypeOK
  <2>2. Traced(v)
    BY <2>1, Parts DEF AllTraced
  <2>3. pid[v] # p
    BY <1>1, <2>1, <2>2 DEF Traced, Unresolved
  <2>4. reaped'[pid[v]] = reaped[pid[v]]
    BY <1>2, <2>1, <2>3, Parts DEF ReaperTypeOK
  <2>5. \A u \in Waiters : Unresolved(u)' => Unresolved(u) /\ pid'[u] = pid[u]
    BY <1>1, Parts DEF Unresolved, ReaperTypeOK
  <2> QED
    BY <1>1, <2>1, <2>2, <2>4, <2>5 DEF Traced
<1>6. WithoutReaper'
  BY <1>1 DEF WithoutReaper
<1>7. StatusesDelivered'
  <2>1. \A v \in Waiters \ {w} : result'[v] = result[v]
    BY <1>2, Parts DEF ReaperTypeOK
  <2>2. w \notin reused => Traced(w)
    BY <1>1, Parts DEF AllTraced, Unresolved
  <2>3. CASE reaped[p] # NoStatus /\ result' = [result EXCEPT ![w] = reaped[p]]
    <3>1. result'[w] = reaped[p] /\ reaped[p] \in Owners /\ reaped[p] # Error
      BY <1>1, <2>3, NamesAssumption, Parts DEF ReaperTypeOK, Statuses
    <3>2. w \notin reused => reaped[p] = w
      BY <2>2, <2>3 DEF Traced
    <3> QED
      BY <1>1, <2>1, <3>1, <3>2, Parts DEF StatusesDelivered, StatusIsOwn, StatusNotLost
  <2>4. CASE /\ reaped[p] = NoStatus /\ reaper # "record"
             /\ result' = [result EXCEPT ![w] = Error]
    <3>1. result'[w] = Error
      BY <2>4, Parts DEF ReaperTypeOK
    <3>2. owner[p] = Free => owner[p] # w
      BY NamesAssumption DEF Owners
    <3>3. held[1] # p /\ NoStatus # w
      BY <1>1, <2>4, NamesAssumption, Parts DEF HeldToRecord, Owners
    <3>4. w \in late \cup reused
      BY <1>1, <2>2, <2>4, <3>2, <3>3 DEF Traced
    <3> QED
      BY <1>1, <2>1, <3>1, <3>4, Parts DEF StatusesDelivered, StatusIsOwn, StatusNotLost
  <2> QED
    BY <1>2, <2>3, <2>4
<1> QED
  BY <1>3, <1>4, <1>5, <1>6, <1>7 DEF StatusInv, AllTraced

\* A service's wait begins again, and a probe's is dropped.
LEMMA DropStatus ==
  ASSUME StatusInv, NEW w \in Waiters, WaitAgain(w) \/ ProbeTimesOut(w)
  PROVE  StatusInv'
<1>1. /\ Unresolved(w)
      /\ \/ waiter[w] = "lookup" /\ waiter' = [waiter EXCEPT ![w] = "wait"]
         \/ waiter' = [waiter EXCEPT ![w] = "dropped"]
      /\ UNCHANGED <<reaping, owner, zombie, sigchld, reaper, held, reaped, old, pid, result,
                     reused, late>>
  BY DEF WaitAgain, ProbeTimesOut, kernelVars, reaperVars, Unresolved
<1>2. ReaperTypeOK'
  BY <1>1, Parts DEF ReaperTypeOK
<1>3. WaitsHavePids' /\ HeldToRecord'
  BY <1>1, Parts DEF WaitsHavePids, HeldToRecord, ReaperTypeOK, Unresolved
<1>4. ASSUME NEW v \in Waiters \ reused', Unresolved(v)'
      PROVE  Traced(v)'
  <2>1. /\ \A u \in Waiters : Unresolved(u)' => Unresolved(u)
        /\ waiter'[v] = "lookup" => waiter[v] = "lookup"
    BY <1>1, Parts DEF Unresolved, ReaperTypeOK
  <2>2. Traced(v)
    BY <1>1, <1>4, <2>1, Parts DEF AllTraced
  <2> QED
    BY <1>1, <2>1, <2>2 DEF Traced
<1>5. WithoutReaper' /\ StatusesDelivered'
  BY <1>1, Parts DEF WithoutReaper, StatusesDelivered, StatusIsOwn, StatusNotLost, ReaperTypeOK
<1> QED
  BY <1>2, <1>3, <1>4, <1>5 DEF StatusInv, AllTraced

\* tokio collects a process nobody waits for any more.
LEMMA TokioStatus ==
  ASSUME StatusInv, NEW w \in Waiters, TokioCollects(w)
  PROVE  StatusInv'
<1> DEFINE p == pid[w]
<1>1. /\ waiter[w] = "dropped" /\ p \in Pids /\ owner[p] = w
      /\ owner' = [owner EXCEPT ![p] = Free] /\ zombie' = [zombie EXCEPT ![p] = FALSE]
      /\ UNCHANGED <<reaping, sigchld, reaper, held, reaped, old, waiter, pid, result, reused, late>>
  BY Parts DEF TokioCollects, Collect, WaitsHavePids, reaperVars, waitVars
<1>2. ReaperTypeOK'
  BY <1>1, Parts DEF ReaperTypeOK
<1>3. WaitsHavePids' /\ HeldToRecord'
  BY <1>1, Parts DEF WaitsHavePids, HeldToRecord
<1>4. ASSUME NEW v \in Waiters \ reused', Unresolved(v)'
      PROVE  Traced(v)'
  <2>1. v # w /\ Unresolved(v) /\ pid[v] \in Pids /\ Traced(v)
    BY <1>1, <1>4, Parts DEF Unresolved, WaitsHavePids, AllTraced
  <2>2. pid[v] # p
    BY <1>1, <2>1, NamesAssumption DEF Traced, Owners
  <2>3. owner'[pid[v]] = owner[pid[v]]
    BY <1>1, <2>2
  <2> QED
    BY <1>1, <2>1, <2>3 DEF Traced, Unresolved
<1>5. WithoutReaper' /\ StatusesDelivered'
  <2>1. ASSUME ~reaping, NEW v \in Waiters, waiter[v] = "wait"
        PROVE  owner'[pid[v]] = v
    <3>1. owner[pid[v]] = v /\ v # w
      BY <1>1, <2>1, Parts DEF WithoutReaper
    <3> QED
      BY <1>1, <3>1
  <2> QED
    BY <1>1, <2>1, Parts DEF WithoutReaper, StatusesDelivered, StatusIsOwn, StatusNotLost
<1> QED
  BY <1>2, <1>3, <1>4, <1>5 DEF StatusInv, AllTraced

-----------------------------------------------------------------------------
(* The theorems.                                                           *)

\* No step disturbs the invariant.
LEMMA NextStatus == StatusInv /\ [Next]_vars => StatusInv'
<1> SUFFICES ASSUME StatusInv, [Next]_vars PROVE StatusInv'
  OBVIOUS
<1>1. CASE KernelStep
  BY <1>1, SpawnStatus, AdoptStatus, ExitStatus DEF KernelStep
<1>2. CASE ReaperStep
  BY <1>2, IdleStatus, CollectsStatus, RecordStatus DEF ReaperStep
<1>3. CASE \E p \in Pids : RecordAges(p)
  BY <1>3, AgeStatus
<1>4. CASE \E w \in Waiters : WaiterStep(w)
  BY <1>4, WaitStatus, WaitFailsStatus, LookupStatus, DropStatus, TokioStatus DEF WaiterStep
<1>5. CASE UNCHANGED vars
  BY <1>5
  DEF StatusInv, ReaperTypeOK, WaitsHavePids, HeldToRecord, AllTraced, Traced, Unresolved,
      WithoutReaper, StatusesDelivered, StatusIsOwn, StatusNotLost,
      vars, kernelVars, reaperVars, waitVars
<1> QED
  BY <1>1, <1>2, <1>3, <1>4, <1>5 DEF Next

\* Type correctness.
THEOREM ReaperTypes == Spec => []ReaperTypeOK
<1>1. StatusInv => ReaperTypeOK
  BY DEF StatusInv
<1> QED
  BY <1>1, InitStatus, NextStatus, PTL DEF Spec

\* Each wait is told how its own process ended, whether waitpid or the reaper
\* collected it (wait_child, record_reaped and take_reaped), for any number of
\* services, probes and identifiers.
THEOREM OwnStatus == Spec => []StatusesDelivered
<1>1. StatusInv => StatusesDelivered
  BY DEF StatusInv
<1> QED
  BY <1>1, InitStatus, NextStatus, PTL DEF Spec

\* A zombie has its waitpid still to come: its identifier is not free, and with the
\* reaper a SIGCHLD is to be delivered, or the loop that calls waitpid is not over.
ZombiesHeard ==
  \A p \in Pids : zombie[p] => /\ owner[p] # Free
                               /\ reaping => sigchld \/ reaper # "idle"

\* No SIGCHLD is lost, although several exits are one signal and a process may exit while
\* the reaper drains or sleeps (reap_children calls waitpid until it has nothing, and
\* the signal of a later exit is pending by then): the safety half of ZombiesCollected.
THEOREM NoZombieMissed == Spec => []ZombiesHeard
<1>1. Init => ZombiesHeard
  BY DEF Init, ZombiesHeard
<1>2. StatusInv /\ ZombiesHeard /\ [Next]_vars => ZombiesHeard'
  <2> SUFFICES ASSUME StatusInv, ZombiesHeard, [Next]_vars PROVE ZombiesHeard'
    OBVIOUS
  <2>1. owner \in [Pids -> Owners \cup {Free}] /\ zombie \in [Pids -> BOOLEAN]
    BY Parts DEF ReaperTypeOK
  <2>2. CASE UNCHANGED <<reaping, kernelVars, reaper>>
    BY <2>2 DEF kernelVars, ZombiesHeard
  <2>3. ASSUME NEW w \in Waiters, NEW p \in Pids, Spawn(w, p) PROVE ZombiesHeard'
    BY <2>1, <2>3, NamesAssumption DEF Spawn, reaperVars, ZombiesHeard, Owners
  <2>4. ASSUME NEW p \in Pids, Adopt(p) PROVE ZombiesHeard'
    BY <2>1, <2>4, NamesAssumption DEF Adopt, reaperVars, ZombiesHeard, Owners
  <2>5. ASSUME NEW p \in Pids, ProcessExits(p) PROVE ZombiesHeard'
    BY <2>1, <2>5 DEF ProcessExits, reaperVars, ZombiesHeard
  <2>6. ASSUME NEW p, Collect(p), reaping' = reaping, sigchld' = sigchld,
               reaper' # "idle" \/ reaper' = reaper
        PROVE  ZombiesHeard'
    BY <2>1, <2>6 DEF Collect, ZombiesHeard
  <2>7. CASE ReaperWakes
    BY <2>7 DEF ReaperWakes, ZombiesHeard
  <2>8. CASE \E p \in Pids : ReaperCollects(p)
    BY <2>6, <2>8 DEF ReaperCollects
  <2>9. CASE ReaperSleeps
    BY <2>9 DEF ReaperSleeps, kernelVars, ZombiesHeard
  <2>10. CASE record_reaped
    BY <2>10 DEF record_reaped, Recorded, kernelVars, ZombiesHeard
  <2>11. CASE \E p \in Pids : RecordAges(p)
    BY <2>2, <2>11 DEF RecordAges
  <2>12. ASSUME NEW w \in Waiters, WaiterStep(w) PROVE ZombiesHeard'
    <3>1. CASE WaitReturns(w)
      BY <2>6, <3>1 DEF WaitReturns, reaperVars
    <3>2. CASE TokioCollects(w)
      BY <2>6, <3>2 DEF TokioCollects, reaperVars
    <3>3. CASE WaitFails(w) \/ take_reaped(w) \/ LookupFails(w) \/ WaitAgain(w)
                 \/ ProbeTimesOut(w)
      BY <2>2, <3>3
      DEF WaitFails, take_reaped, LookupFails, WaitAgain, ProbeTimesOut, reaperVars
    <3> QED
      BY <2>12, <3>1, <3>2, <3>3 DEF WaiterStep
  <2>13. CASE UNCHANGED vars
    BY <2>2, <2>13 DEF vars, reaperVars
  <2> QED
    BY <2>3, <2>4, <2>5, <2>7, <2>8, <2>9, <2>10, <2>11, <2>12, <2>13
    DEF Next, KernelStep, ReaperStep
<1> QED
  BY <1>1, <1>2, InitStatus, NextStatus, PTL DEF Spec
=============================================================================
