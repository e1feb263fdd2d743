------------------------------- MODULE Reaper -------------------------------
(***************************************************************************)
(* The zombie reaper of vigild (reaper.rs), which runs when vigild is      *)
(* process 1 or started with --reaper.  On SIGCHLD it collects every child *)
(* that has exited, with waitpid(-1): orphans that were reparented to      *)
(* vigild, and also the processes that service actors and exec probes wait *)
(* for themselves.  It therefore records the statuses it collects, by      *)
(* process identifier, for wait_child to find; a record is dropped when a  *)
(* later one is made after REAPED_KEEP.                                    *)
(*                                                                         *)
(* A status is named by the process that it belongs to: the waiter that    *)
(* spawned it, or Orphan.  Every waiter waits for one process.  The        *)
(* kernel may give the identifier of a collected process to a new one.     *)
(***************************************************************************)
EXTENDS Integers, FiniteSets

CONSTANTS
  Pids,
  Waiters,       \* the calls of wait_child
  Probes,        \* those made by exec probes, which time out
  Free, Orphan,  \* whose a process identifier is, when it is no waiter's
  NoPid, NoStatus, Error

Owners == Waiters \cup {Orphan}

ASSUME NamesAssumption ==
  /\ Free \notin Owners /\ NoPid \notin Pids /\ Orphan \notin Waiters
  /\ {NoStatus, Error} \cap Owners = {} /\ NoStatus # Error
  /\ Probes \subseteq Waiters

VARIABLES
  reaping,    \* does the reaper run?
  owner,      \* kernel: whose process has the identifier
  zombie,     \* kernel: has it exited, and waits to be collected?
  sigchld,    \* is a SIGCHLD to be delivered? several are one
  reaper,     \* where the reaper task is
  held,       \* the identifier and the status it has just collected
  reaped,     \* the record: the status of each identifier, or NoStatus
  old,        \* the identifiers whose record is older than REAPED_KEEP
  waiter,     \* where each wait is
  pid,        \* the identifier it waits for, NoPid before and after
  result,     \* the status it returned, or Error
  reused,     \* history: the waits whose identifier two processes had
  late        \* history: the waits that came after their status was dropped

kernelVars == <<owner, zombie, sigchld>>
reaperVars == <<reaper, held, reaped, old>>
waitVars == <<waiter, pid, result>>
vars == <<reaping, kernelVars, reaperVars, waitVars, reused, late>>

-----------------------------------------------------------------------------
(* State.                                                                  *)

\* is_pid1() or --reaper.
Init ==
  /\ reaping \in BOOLEAN
  /\ owner = [p \in Pids |-> Free]
  /\ zombie = [p \in Pids |-> FALSE]
  /\ sigchld = FALSE
  /\ reaper = "idle" /\ held = <<NoPid, NoStatus>>
  /\ reaped = [p \in Pids |-> NoStatus]
  /\ old = {}
  /\ waiter = [w \in Waiters |-> "new"]
  /\ pid = [w \in Waiters |-> NoPid]
  /\ result = [w \in Waiters |-> NoStatus]
  /\ reused = {} /\ late = {}

Unresolved(w) == waiter[w] \in {"wait", "lookup"}

\* The waits that still want the status of a process that had identifier p.
WaitingFor(p) == {w \in Waiters : Unresolved(w) /\ pid[w] = p}

\* Is there a status under the identifier, in the record or on its way there?
OnRecord(p) == reaped[p] # NoStatus \/ held[1] = p

-----------------------------------------------------------------------------
(* The kernel.                                                             *)

\* A service or a probe starts a process.
Spawn(w, p) ==
  /\ waiter[w] = "new" /\ owner[p] = Free
  /\ owner' = [owner EXCEPT ![p] = w]
  /\ waiter' = [waiter EXCEPT ![w] = "wait"]
  /\ pid' = [pid EXCEPT ![w] = p]
  /\ reused' = reused \cup WaitingFor(p)
                      \cup (IF OnRecord(p) \/ WaitingFor(p) # {} THEN {w} ELSE {})
  /\ UNCHANGED <<reaping, zombie, sigchld, reaperVars, result, late>>

\* A process whose parent has died becomes a child of vigild.
Adopt(p) ==
  /\ reaping /\ owner[p] = Free
  /\ owner' = [owner EXCEPT ![p] = Orphan]
  /\ reused' = reused \cup WaitingFor(p)
  /\ UNCHANGED <<reaping, zombie, sigchld, reaperVars, waitVars, late>>

ProcessExits(p) ==
  /\ owner[p] # Free /\ ~zombie[p]
  /\ zombie' = [zombie EXCEPT ![p] = TRUE]
  /\ sigchld' = TRUE
  /\ UNCHANGED <<reaping, owner, reaperVars, waitVars, reused, late>>

\* waitpid collects the process, and its identifier is free again.
Collect(p) ==
  /\ owner[p] # Free /\ zombie[p]
  /\ owner' = [owner EXCEPT ![p] = Free]
  /\ zombie' = [zombie EXCEPT ![p] = FALSE]

\* A minute passes.
RecordAges(p) ==
  /\ reaped[p] # NoStatus /\ p \notin old
  /\ old' = old \cup {p}
  /\ UNCHANGED <<reaping, kernelVars, reaper, held, reaped, waitVars, reused, late>>

-----------------------------------------------------------------------------
(* The reaper task.                                                        *)

ReaperWakes ==
  /\ reaping /\ reaper = "idle" /\ sigchld
  /\ reaper' = "drain"
  /\ sigchld' = FALSE
  /\ UNCHANGED <<reaping, owner, zombie, held, reaped, old, waitVars, reused, late>>

\* One round of the loop in reap_children, up to record_reaped.
ReaperCollects(p) ==
  /\ reaper = "drain"
  /\ Collect(p)
  /\ held' = <<p, owner[p]>>
  /\ reaper' = "record"
  /\ UNCHANGED <<reaping, sigchld, reaped, old, waitVars, reused, late>>

\* StillAlive or ECHILD.
ReaperSleeps ==
  /\ reaper = "drain"
  /\ \A p \in Pids : ~zombie[p]
  /\ reaper' = "idle"
  /\ UNCHANGED <<reaping, kernelVars, held, reaped, old, waitVars, reused, late>>

Recorded(next) ==
  /\ reaper = "record"
  /\ reaped' = [p \in Pids |-> IF p = held[1] THEN held[2]
                               ELSE IF p \in old THEN NoStatus ELSE reaped[p]]
  /\ old' = {}
  /\ late' = late \cup {w \in Waiters : \E p \in old \ {held[1]} :
                          reaped[p] = w /\ w \in WaitingFor(p)}
  /\ held' = <<NoPid, NoStatus>>
  /\ reaper' = next
  /\ UNCHANGED <<reaping, kernelVars, waitVars, reused>>

record_reaped_once == Recorded("idle")

\* record_reaped: what is too old goes, and the new status replaces what was
\* there under its identifier.
record_reaped == Recorded("drain")

-----------------------------------------------------------------------------
(* wait_child.                                                             *)

Return(w, status) ==
  /\ waiter' = [waiter EXCEPT ![w] = "done"]
  /\ result' = [result EXCEPT ![w] = status]
  /\ pid' = [pid EXCEPT ![w] = NoPid]

\* The process waited for has exited, which a pidfd tells.
HasExited(w) == owner[pid[w]] # w \/ zombie[pid[w]]

\* Child::wait: waitpid takes whatever has the identifier and has exited.
WaitReturns(w) ==
  /\ waiter[w] = "wait" /\ HasExited(w)
  /\ Collect(pid[w])
  /\ Return(w, owner[pid[w]])
  /\ UNCHANGED <<reaping, sigchld, reaperVars, reused, late>>

\* ECHILD: there is no such child any more.
WaitFails(w) ==
  /\ waiter[w] = "wait" /\ HasExited(w)
  /\ owner[pid[w]] = Free
  /\ waiter' = [waiter EXCEPT ![w] = "lookup"]
  /\ UNCHANGED <<reaping, kernelVars, reaperVars, pid, result, reused, late>>

take_reaped_any(w) ==
  /\ waiter[w] = "lookup"
  /\ \E p \in Pids :
       /\ reaped[p] # NoStatus
       /\ Return(w, reaped[p])
       /\ reaped' = [reaped EXCEPT ![p] = NoStatus]
  /\ UNCHANGED <<reaping, kernelVars, reaper, held, old, reused, late>>

take_reaped(w) ==
  /\ waiter[w] = "lookup"
  /\ reaped[pid[w]] # NoStatus
  /\ Return(w, reaped[pid[w]])
  /\ reaped' = [reaped EXCEPT ![pid[w]] = NoStatus]
  /\ old' = old \ {pid[w]}
  /\ UNCHANGED <<reaping, kernelVars, reaper, held, reused, late>>

\* REAPED_LOOKUP is over, which is far longer than waitpid and record_reaped
\* take together.
LookupFails(w) ==
  /\ waiter[w] = "lookup"
  /\ reaped[pid[w]] = NoStatus /\ reaper # "record"
  /\ Return(w, Error)
  /\ UNCHANGED <<reaping, kernelVars, reaperVars, reused, late>>

\* The select! of a service actor takes another branch: the wait is dropped
\* where it is, and a new one begins at the next turn of the loop.
WaitAgain(w) ==
  /\ waiter[w] = "lookup" /\ w \notin Probes
  /\ waiter' = [waiter EXCEPT ![w] = "wait"]
  /\ UNCHANGED <<reaping, kernelVars, reaperVars, pid, result, reused, late>>

\* A probe times out: its wait is dropped, and its process runs on.
ProbeTimesOut(w) ==
  /\ Unresolved(w) /\ w \in Probes
  /\ waiter' = [waiter EXCEPT ![w] = "dropped"]
  /\ UNCHANGED <<reaping, kernelVars, reaperVars, pid, result, reused, late>>

\* tokio collects the processes of dropped handles when it sees a SIGCHLD.
TokioCollects(w) ==
  /\ waiter[w] = "dropped"
  /\ owner[pid[w]] = w /\ Collect(pid[w])
  /\ UNCHANGED <<reaping, sigchld, reaperVars, waitVars, reused, late>>

WaiterStep(w) ==
  \/ WaitReturns(w) \/ WaitFails(w) \/ take_reaped(w) \/ LookupFails(w)
  \/ WaitAgain(w) \/ ProbeTimesOut(w) \/ TokioCollects(w)

-----------------------------------------------------------------------------
(* The specification.                                                      *)

ReaperStep ==
  ReaperWakes \/ (\E p \in Pids : ReaperCollects(p)) \/ ReaperSleeps \/ record_reaped

KernelStep ==
  \/ \E w \in Waiters, p \in Pids : Spawn(w, p)
  \/ \E p \in Pids : Adopt(p) \/ ProcessExits(p)

Next ==
  \/ KernelStep \/ ReaperStep
  \/ \E p \in Pids : RecordAges(p)
  \/ \E w \in Waiters : WaiterStep(w)

\* The runtime runs the reaper's task, and waitpid(-1) takes the children in
\* the order they came, so that it passes over none for ever.  A wait may be
\* kept from going on.
Spec == Init /\ [][Next]_vars
FairSpec ==
  Spec /\ WF_vars(ReaperStep) /\ \A p \in Pids : SF_vars(ReaperCollects(p))

-----------------------------------------------------------------------------
(* Properties.                                                             *)

Statuses == Owners \cup {NoStatus}

\* Every variable holds a value of its type.
ReaperTypeOK ==
  /\ reaping \in BOOLEAN /\ sigchld \in BOOLEAN
  /\ owner \in [Pids -> Owners \cup {Free}] /\ zombie \in [Pids -> BOOLEAN]
  /\ reaper \in {"idle", "drain", "record"}
  /\ held \in (Pids \cup {NoPid}) \X Statuses
  /\ reaped \in [Pids -> Statuses] /\ old \subseteq Pids
  /\ waiter \in [Waiters -> {"new", "wait", "lookup", "done", "dropped"}]
  /\ pid \in [Waiters -> Pids \cup {NoPid}]
  /\ result \in [Waiters -> Statuses \cup {Error}]
  /\ reused \subseteq Waiters /\ late \subseteq Waiters

\* A wait returns the status of the process it waited for and of no other,
\* whoever collected it, unless two processes had the identifier while a wait
\* or a record referred to it; without the reaper that cannot happen, as a
\* process keeps its identifier until its waiter has collected it.
StatusIsOwn ==
  /\ \A w \in Waiters \ reused : result[w] \in {w, Error, NoStatus}
  /\ ~reaping => \A w \in Waiters : result[w] \in {w, NoStatus}

\* No status is lost to the race with the reaper: a wait fails only when its
\* status was dropped for age before the wait got to ask for it, or when its
\* identifier was reused (REAPED_KEEP and REAPED_LOOKUP, and a wait dropped
\* and begun again finds what the first one would have).
StatusNotLost == \A w \in Waiters : result[w] = Error => w \in late \cup reused

\* Each wait is told how its process ended, and of no other process.
StatusesDelivered == StatusIsOwn /\ StatusNotLost

\* Every zombie is collected, however many exits one SIGCHLD stands for (the
\* loop of reap_children).
ZombiesCollected == \A p \in Pids : reaping /\ zombie[p] ~> ~zombie[p]
=============================================================================
