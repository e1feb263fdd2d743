------------------------------ MODULE LogStore ------------------------------
(***************************************************************************)
(* The log store of vigild (crates/vigild/src/logs) and those who read     *)
(* from it: the tasks that push the lines of a service to a collector, and *)
(* `vigil logs -f', which asks for the last lines and then follows.        *)
(*                                                                         *)
(* Every captured stream of a process has a reader task.  It puts a line   *)
(* into the ring buffer of its service, which it creates when the map has  *)
(* none, and then sends it on a broadcast channel.  The lookup, the        *)
(* insertion into the map, the push and the send take one lock each and    *)
(* let others in between.                                                  *)
(*                                                                         *)
(* The broadcast channel waits for nobody: a receiver that is more than    *)
(* its capacity behind skips to the oldest line that is left.              *)
(***************************************************************************)
EXTENDS Integers, FiniteSets, SequencesExt

CONSTANTS
  Readers,            \* the captured streams
  Services,
  ServiceOf,          \* the service of each reader
  Lines,              \* bound: the lines of each reader
  BufferCapacity,     \* lines kept per service (--log-buffer)
  BroadcastCapacity,  \* places of the broadcast channel
  PushTasks,          \* the push tasks
  PushedService,      \* the service of each push task
  MaxConnects,        \* bound: attempts to connect of each push task
  Uses,               \* sets of those who may be there: push tasks, and Viewer
  Viewer,             \* `vigil logs -f'
  ViewedService,      \* the service `vigil logs -f' is called for
  TailLines,          \* its -n
  NoLine

ASSUME LogReadersAssumption ==
  /\ ServiceOf \in [Readers -> Services] /\ Lines \in [Readers -> Nat]
  /\ PushedService \in [PushTasks -> Services] /\ ViewedService \in Services
  /\ Uses \subseteq SUBSET (PushTasks \cup {Viewer}) /\ Viewer \notin PushTasks
ASSUME LogBoundsAssumption ==
  /\ BufferCapacity \in Nat \ {0} /\ BroadcastCapacity \in Nat \ {0}
  /\ TailLines \in Nat /\ MaxConnects \in Nat

\* A LogEntry: who read it, and when, as the number of lines read by then.
Entry == [from : Readers, time : Nat \ {0}]
ASSUME NoLineAssumption == NoLine \notin Entry

VARIABLES
  clock,     \* the number of lines read
  reader,    \* the reader tasks: phase, the line in hand, the buffer it goes to
  buffers,   \* every ring buffer ever created, with its service, oldest line first
  current,   \* LogStore.buffers: the buffer of each service, or NoBuffer
  sent,      \* the lines sent to the broadcast channel, which holds the last ones
  push,      \* the push tasks: phase, position in the channel, line in hand
  got,       \* history: what the collector of each push task received
  viewer,    \* `vigil logs -f': phase, position, what it has shown
  pushed     \* history: the lines pushed to buffers, per service

storeVars == <<clock, reader, buffers, current, sent, pushed>>
logVars == <<storeVars, push, got, viewer>>

NoBuffer == 0

Reading == [phase |-> "reading", line |-> NoLine, buffer |-> NoBuffer, lines |-> 0]

LogInit ==
  /\ clock = 0
  /\ reader = [r \in Readers |-> Reading]
  /\ buffers = <<>>
  /\ current = [s \in Services |-> NoBuffer]
  /\ sent = <<>>
  /\ \E use \in Uses :
       /\ push = [p \in PushTasks |-> [phase |-> IF p \in use THEN "connecting" ELSE "absent",
                                       next |-> 1, line |-> NoLine, connects |-> 0]]
       /\ viewer = [phase |-> IF Viewer \in use THEN "start" ELSE "absent",
                    next |-> 1, since |-> 1, tail |-> <<>>, live |-> <<>>,
                    unsent |-> {}, skipped |-> 0]
  /\ got = [p \in PushTasks |-> <<>>]
  /\ pushed = [s \in Services |-> <<>>]

-----------------------------------------------------------------------------
(* Readers and the store.                                                  *)

Now == clock + 1

\* A line arrives and gets its timestamp.
ReadLine(r) ==
  /\ reader[r].phase = "reading"
  /\ reader[r].lines < Lines[r]
  /\ clock' = Now
  /\ reader' = [reader EXCEPT ![r] = [phase |-> "looking", line |-> [from |-> r, time |-> Now],
                                     buffer |-> NoBuffer, lines |-> @.lines + 1]]
  /\ UNCHANGED <<buffers, current, sent, pushed, push, got, viewer>>

\* The first half of buffer_for, under the read lock.
Lookup(r) ==
  LET b == current[ServiceOf[r]]
  IN  /\ reader[r].phase = "looking"
      /\ reader' = [reader EXCEPT ![r] =
                      [@ EXCEPT !.phase = IF b = NoBuffer THEN "creating" ELSE "pushing",
                                !.buffer = b]]
      /\ UNCHANGED <<clock, buffers, current, sent, pushed, push, got, viewer>>

\* The second half of buffer_for, under the write lock: whatever is in the map by
\* now is replaced.
CreateBuffer(r) ==
  /\ reader[r].phase = "creating"
  /\ buffers' = Append(buffers, [of |-> ServiceOf[r], lines |-> <<>>])
  /\ current' = [current EXCEPT ![ServiceOf[r]] = Len(buffers')]
  /\ reader' = [reader EXCEPT ![r] = [@ EXCEPT !.phase = "pushing", !.buffer = Len(buffers')]]
  /\ UNCHANGED <<clock, sent, pushed, push, got, viewer>>

Push_dropping_newest(lines, line) ==
  IF Len(lines) >= BufferCapacity THEN lines ELSE Append(lines, line)

\* Buffer::push: the oldest line makes room.
Push(lines, line) == Append(IF Len(lines) >= BufferCapacity THEN Tail(lines) ELSE lines, line)

PushLine(r) ==
  /\ reader[r].phase = "pushing"
  /\ buffers' = [buffers EXCEPT ![reader[r].buffer].lines = Push(@, reader[r].line)]
  /\ pushed' = [pushed EXCEPT ![ServiceOf[r]] = Append(@, reader[r].line)]
  /\ reader' = [reader EXCEPT ![r] = [@ EXCEPT !.phase = "sending", !.buffer = NoBuffer]]
  /\ UNCHANGED <<clock, current, sent, push, got, viewer>>

\* The oldest position that the channel still holds.
Oldest == IF Len(sent) > BroadcastCapacity THEN Len(sent) - BroadcastCapacity + 1 ELSE 1

\* broadcast.send: overwrites the oldest line, whoever has not had it yet.
SendLine(r) ==
  /\ reader[r].phase = "sending"
  /\ sent' = Append(sent, reader[r].line)
  /\ reader' = [reader EXCEPT ![r] = [@ EXCEPT !.phase = "reading", !.line = NoLine]]
  /\ UNCHANGED <<clock, buffers, current, pushed, push, got, viewer>>

ReaderStep(r) == ReadLine(r) \/ Lookup(r) \/ CreateBuffer(r) \/ PushLine(r) \/ SendLine(r)

-----------------------------------------------------------------------------
(* Push tasks.                                                             *)

NextSent_replaying == Oldest

\* LogStore::subscribe: a receiver gets what is sent from now on.
NextSent == Len(sent) + 1

\* The task connects, and then subscribes.
Connect(p) ==
  /\ push[p].phase = "connecting"
  /\ push[p].connects < MaxConnects
  /\ push' = [push EXCEPT ![p] = [@ EXCEPT !.phase = "listening", !.next = NextSent,
                                           !.connects = push[p].connects + 1]]
  /\ UNCHANGED <<storeVars, got, viewer>>

ConnectFails(p) ==
  /\ push[p].phase = "connecting"
  /\ push[p].connects < MaxConnects
  /\ push' = [push EXCEPT ![p] = [@ EXCEPT !.phase = "waiting",
                                           !.connects = push[p].connects + 1]]
  /\ UNCHANGED <<storeVars, got, viewer>>

\* The task skips what it lags behind, without a word, and other services' lines.
TakeLine(p) ==
  /\ push[p].phase = "listening"
  /\ push[p].next <= Len(sent)
  /\ LET next == push[p].next
         line == sent[next]
     IN  push' = [push EXCEPT ![p] =
                    IF next < Oldest THEN [@ EXCEPT !.next = Oldest]
                    ELSE IF ServiceOf[line.from] # PushedService[p]
                      THEN [@ EXCEPT !.next = next + 1]
                      ELSE [@ EXCEPT !.next = next + 1, !.phase = "writing", !.line = line]]
  /\ UNCHANGED <<storeVars, got, viewer>>

\* The kernel takes the line, or the connection is lost and with it the line in
\* hand.  Either way the collector may have received it or not.
WriteLine(p) ==
  /\ push[p].phase = "writing"
  /\ \E phase \in {"listening", "waiting"} :
       push' = [push EXCEPT ![p] = [@ EXCEPT !.phase = phase, !.line = NoLine]]
  /\ got' \in {got, [got EXCEPT ![p] = Append(@, push[p].line)]}
  /\ UNCHANGED <<storeVars, viewer>>

DelayOver(p) ==
  /\ push[p].phase = "waiting"
  /\ push' = [push EXCEPT ![p] = [@ EXCEPT !.phase = "connecting"]]
  /\ UNCHANGED <<storeVars, got, viewer>>

PushStep(p) == Connect(p) \/ ConnectFails(p) \/ TakeLine(p) \/ WriteLine(p) \/ DelayOver(p)

-----------------------------------------------------------------------------
(* vigil logs -f.                                                          *)

Kept(s) == IF current[s] = NoBuffer THEN <<>> ELSE buffers[current[s]].lines

\* Lines of one stream come in the order of their times.
InOrderOfStream(lines) ==
  \A i, j \in DOMAIN lines :
    i < j /\ lines[i].from = lines[j].from => lines[i].time < lines[j].time

\* LogStore::tail for one service: the last n of the lines kept, sorted by time.
IsTail(shown, s, n) ==
  LET kept == ToSet(Kept(s))
  IN  /\ \A i, j \in DOMAIN shown : i < j => shown[i].time < shown[j].time
      /\ \A line \in kept \ ToSet(shown) :
           Len(shown) = n /\ \A i \in DOMAIN shown : line.time < shown[i].time

\* GET /v1/logs.
GetLogs ==
  /\ viewer.phase = "start"
  /\ \E shown \in UNION {[1 .. k -> ToSet(Kept(ViewedService))] : k \in 0 .. TailLines} :
       /\ IsTail(shown, ViewedService, TailLines)
       /\ viewer' = [viewer EXCEPT !.phase = "shown", !.tail = shown,
                                   !.unsent = {line \in ToSet(shown) :
                                                 \A i \in DOMAIN sent : sent[i] # line}]
  /\ UNCHANGED <<storeVars, push, got>>

\* GET /v1/logs/follow, once the first answer is there.
FollowLogs ==
  /\ viewer.phase = "shown"
  /\ viewer' = [viewer EXCEPT !.phase = "following", !.next = NextSent, !.since = NextSent]
  /\ UNCHANGED <<storeVars, push, got>>

Skipped_off_by_one(next) == IF next < Oldest THEN Oldest - next - 1 ELSE 0

Skipped(next) == IF next < Oldest THEN Oldest - next ELSE 0

\* An event of the stream: a line, or the number of lines that were skipped.
Follow ==
  /\ viewer.phase = "following"
  /\ viewer.next <= Len(sent)
  /\ viewer' = IF viewer.next < Oldest
                  THEN [viewer EXCEPT !.next = Oldest, !.skipped = @ + Skipped(viewer.next)]
                  ELSE LET line == sent[viewer.next]
                       IN  [viewer EXCEPT !.next = @ + 1,
                              !.live = IF ServiceOf[line.from] = ViewedService
                                         THEN Append(@, line) ELSE @]
  /\ UNCHANGED <<storeVars, push, got>>

-----------------------------------------------------------------------------
(* Specification.                                                          *)

LogNext ==
  \/ \E r \in Readers : ReaderStep(r)
  \/ \E p \in PushTasks : PushStep(p)
  \/ GetLogs \/ FollowLogs \/ Follow

LogSpec == LogInit /\ [][LogNext]_logVars

-----------------------------------------------------------------------------
(* Properties.                                                             *)

Phases == {"reading", "looking", "creating", "pushing", "sending"}
Reader == [phase : Phases, line : Entry \cup {NoLine}, buffer : Nat, lines : Nat]
Buffer == [of : Services, lines : Seq(Entry)]

StoreTypeOK ==
  /\ clock \in Nat
  /\ reader \in [Readers -> Reader]
  /\ \A r \in Readers : reader[r].buffer \in {NoBuffer} \cup DOMAIN buffers
  /\ buffers \in Seq(Buffer)
  /\ \A b \in DOMAIN buffers : Len(buffers[b].lines) <= BufferCapacity
  /\ current \in [Services -> {NoBuffer} \cup DOMAIN buffers]
  /\ sent \in Seq(Entry)
  /\ pushed \in [Services -> Seq(Entry)]

PushTask ==
  [phase : {"absent", "connecting", "listening", "writing", "waiting"},
   next : Nat \ {0}, line : Entry \cup {NoLine}, connects : Nat]

LogViewer ==
  [phase : {"absent", "start", "shown", "following"}, next : Nat \ {0}, since : Nat \ {0},
   tail : Seq(Entry), live : Seq(Entry), unsent : SUBSET Entry, skipped : Nat]

FollowersTypeOK ==
  /\ push \in [PushTasks -> PushTask]
  /\ got \in [PushTasks -> Seq(Entry)]
  /\ viewer \in LogViewer

\* Every variable has its type, and no ring buffer exceeds --log-buffer
\* (logs/store.rs, Buffer::push).
LogTypeOK == StoreTypeOK /\ FollowersTypeOK

Raced(s) == Cardinality({b \in DOMAIN buffers : buffers[b].of = s}) > 1

LastLines(lines) ==
  LET n == Len(lines)
  IN  SubSeq(lines, IF n > BufferCapacity THEN n - BufferCapacity + 1 ELSE 1, n)

\* What is kept of a stream is its end.
KeepsEnds(kept, lines) ==
  \A i, j \in DOMAIN lines :
    i < j /\ lines[i].from = lines[j].from /\ lines[i] \in ToSet(kept) => lines[j] \in ToSet(kept)

\* docs/user-guide/logging.md: "vigild keeps the last N lines per service in
\* memory".  That is so unless two readers created the buffer, each having
\* missed the other's (logs/store.rs, buffer_for).  Then lines are missing, but
\* never from the middle or the end of what is kept of one stream, and a reader
\* does so with its first line only.
KeepsLastLines ==
  /\ \A s \in Services : ~ Raced(s) => Kept(s) = LastLines(pushed[s])
  /\ \A s \in Services : /\ InOrderOfStream(Kept(s))
                         /\ ToSet(Kept(s)) \subseteq ToSet(pushed[s])
                         /\ KeepsEnds(Kept(s), pushed[s])
  /\ \A r \in Readers : reader[r].phase = "creating" =>
       \A i \in DOMAIN pushed[ServiceOf[r]] : pushed[ServiceOf[r]][i].from # r

\* A collector receives the lines of each stream of its service in order, none
\* twice, over any number of connections (logs/push.rs).
PushInOrder ==
  \A p \in PushTasks :
    /\ \A i \in DOMAIN got[p] : ServiceOf[got[p][i].from] = PushedService[p]
    /\ InOrderOfStream(got[p])

\* Of the lines sent since it subscribed, a follower has been given every one of
\* its service, or been told how many it lost, and is never disconnected for it
\* (api/handlers/logs.rs, follow_logs).
FollowerAccounts ==
  LET mine == {i \in viewer.since .. viewer.next - 1 : ServiceOf[sent[i].from] = ViewedService}
  IN  /\ Cardinality(mine) <= Len(viewer.live) + viewer.skipped
      /\ Len(viewer.live) + viewer.skipped <= viewer.next - viewer.since

\* `vigil logs -f' shows the lines of each stream in order, and a line twice only
\* if its reader was between the buffer and the channel when the first lines were
\* asked for (crates/vigil/src/cmd/logs.rs: list_logs, then follow_logs).
ViewInOrder ==
  /\ InOrderOfStream(viewer.tail) /\ InOrderOfStream(viewer.live)
  /\ \A i \in DOMAIN viewer.tail, j \in DOMAIN viewer.live :
       viewer.tail[i].from = viewer.live[j].from =>
         \/ viewer.tail[i].time < viewer.live[j].time
         \/ viewer.tail[i] = viewer.live[j] /\ viewer.tail[i] \in viewer.unsent

\* Whoever follows gets the lines of each stream in order.
FollowersInOrder == PushInOrder /\ ViewInOrder
=============================================================================
