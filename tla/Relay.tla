------------------------------- MODULE Relay -------------------------------
(***************************************************************************)
(* vigil-log-relay (crates/vigil-log-relay) with an HTTP or Unix-socket    *)
(* source.  The source task follows a log stream and hands its lines to a  *)
(* bounded channel without ever waiting for room; the sink task takes them *)
(* from there and writes them to a collector over one TCP connection at a  *)
(* time, or to stdout; main ends when the source gives up or a signal      *)
(* arrives, whatever the sink still holds.  Both tasks reconnect, each     *)
(* with a delay of its own.                                                *)
(*                                                                         *)
(* Lines are numbered in the order in which the followed service writes    *)
(* them.  A write puts a line, or a part of one, into the socket; what the *)
(* collector gets of it, and when, is the network's affair.                *)
(***************************************************************************)
EXTENDS Integers, Sequences, FiniteSets

CONSTANTS
  Log,              \* the lines of the followed service, as the filter sees them
  Include,          \* is there an --include pattern?
  BufferCap,        \* capacity of the channel (8192)
  MaxRetries,       \* --source-reconnect-retries, 0 for no limit
  SourceDelay, SourceDelayMax,   \* the delays of the source's reconnections
  SinkDelay, SinkDelayMax,       \* the delays of the sink's
  SinkIdles,        \* is there a --dest-idle-timeout?
  WriteTimesOut,    \* is there a --dest-read-timeout, which limits writes?
  Modes,            \* the sinks considered: "tcp", "stdout"
  MaxTrouble,       \* bound on what goes wrong between sink and collector
  NoLine

Lines == 1 .. Len(Log)

\* What decides the fate of a line: SSE framing, and the patterns it matches.
Text == [framing : BOOLEAN, included : BOOLEAN, excluded : BOOLEAN]

ASSUME LogAssumption == Log \in Seq(Text) /\ Include \in BOOLEAN
ASSUME NoLineAssumption == NoLine \notin Nat
ASSUME CapsAssumption == BufferCap \in Nat \ {0} /\ MaxRetries \in Nat /\ MaxTrouble \in Nat
ASSUME DelaysAssumption ==
  /\ {SourceDelay, SourceDelayMax, SinkDelay, SinkDelayMax} \subseteq Nat
  /\ SourceDelay <= SourceDelayMax /\ SinkDelay <= SinkDelayMax
ASSUME ModesAssumption ==
  Modes \subseteq {"tcp", "stdout"} /\ SinkIdles \in BOOLEAN /\ WriteTimesOut \in BOOLEAN

VARIABLES
  relay,        \* "run", or how the process ended: "ok", "error"
  source,       \* where the source task is
  failures,     \* its count of failures
  sourceDelay,  \* its backoff
  next,         \* the next line the followed service writes
  channel,      \* the mpsc channel between the tasks
  sink,         \* where the sink task is
  pending,      \* the sink's line to be written again
  line,         \* the line it is writing
  sinkDelay,    \* its backoff
  wire,         \* how many connections the sink has made
  link,         \* the current connection
  sent,         \* what was written to all of them, in order
  up,           \* does the collector, or what reads stdout, take anything?
  trouble,      \* how often something went wrong there
  handed,       \* history: the lines put into the channel
  unprinted,    \* history: the lines a write of which to stdout failed
  outcomes      \* history: how the source's last attempts ended, oldest first

sourceVars == <<source, failures, sourceDelay, next, outcomes>>
sinkVars == <<sink, pending, line, sinkDelay>>
netVars == <<wire, link, sent>>
envVars == <<up, trouble>>
history == <<handed, unprinted>>
vars == <<relay, sourceVars, channel, history, sinkVars, netVars, envVars>>

-----------------------------------------------------------------------------
(* State.                                                                  *)

\* A chunk is a line, or the part of one that a failed write left; it waits in
\* the connection's buffers until the collector has it or it is lost.
Chunk == [line : Lines, whole : BOOLEAN, wire : Nat, at : {"socket", "collector", "void"}]

Init ==
  /\ relay = "run"
  /\ source = "connect" /\ failures = 0 /\ sourceDelay = SourceDelay
  /\ next = 1
  /\ channel = <<>>
  /\ sink \in {IF mode = "tcp" THEN "connect" ELSE "stdout" : mode \in Modes}
  /\ pending = NoLine /\ line = NoLine /\ sinkDelay = SinkDelay
  /\ wire = 0 /\ link = "none" /\ sent = <<>>
  /\ up \in BOOLEAN /\ trouble = 0
  /\ handed = {} /\ unprinted = {} /\ outcomes = <<>>

Doubled(delay, max) == IF 2 * delay <= max THEN 2 * delay ELSE max

\* Something goes wrong with the collector or the network.
Trouble == trouble < MaxTrouble /\ trouble' = trouble + 1

-----------------------------------------------------------------------------
(* The source task.                                                        *)

Ended(outcome) ==
  outcomes' = LET all == Append(outcomes, outcome)
              IN  IF Len(all) > MaxRetries THEN Tail(all) ELSE all

SourceConnects_keeps_failures ==
  /\ relay = "run" /\ source = "connect"
  /\ source' = "stream"
  /\ sourceDelay' = SourceDelay
  /\ UNCHANGED <<relay, failures, next, outcomes, channel, history, sinkVars, netVars,
                 envVars>>

\* A 2xx answer.
SourceConnects ==
  /\ relay = "run" /\ source = "connect"
  /\ source' = "stream"
  /\ failures' = 0
  /\ sourceDelay' = SourceDelay
  /\ UNCHANGED <<relay, next, outcomes, channel, history, sinkVars, netVars, envVars>>

\* bump_failures: one failure more; the task ends when there were too many.
Bump(outcome) ==
  /\ Ended(outcome)
  /\ failures' = failures + 1
  /\ source' = IF MaxRetries > 0 /\ failures + 1 >= MaxRetries THEN "failed" ELSE "sleep"
  /\ UNCHANGED <<relay, sourceDelay, next, channel, history, sinkVars, netVars, envVars>>

\* The connection cannot be made, or the answer is not a 2xx.
SourceRefused == relay = "run" /\ source = "connect" /\ Bump("refused")

\* A read error, or no line for --source-idle-timeout.
StreamBreaks == relay = "run" /\ source = "stream" /\ Bump("broken")

StreamEnds ==
  /\ relay = "run" /\ source = "stream"
  /\ Ended("eof")
  /\ source' = "sleep"
  /\ UNCHANGED <<relay, failures, sourceDelay, next, channel, history, sinkVars, netVars,
                 envVars>>

SourceSleeps ==
  /\ relay = "run" /\ source = "sleep"
  /\ source' = "connect"
  /\ sourceDelay' = Doubled(sourceDelay, SourceDelayMax)
  /\ UNCHANGED <<relay, failures, next, outcomes, channel, history, sinkVars, netVars,
                 envVars>>

\* LineFilter::allow.
allow(text) == (Include => text.included) /\ ~text.excluded

\* forward_line: framing and filtered lines go nowhere, and neither does a line
\* for which try_send finds no room.
forward_line(l) ==
  IF ~Log[l].framing /\ allow(Log[l]) /\ Len(channel) < BufferCap
    THEN /\ channel' = Append(channel, l)
         /\ handed' = handed \cup {l}
    ELSE UNCHANGED <<channel, handed>>

ReadLine ==
  /\ relay = "run" /\ source = "stream"
  /\ next \in Lines
  /\ next' = next + 1
  /\ forward_line(next)
  /\ UNCHANGED <<relay, source, failures, sourceDelay, outcomes, unprinted, sinkVars,
                 netVars, envVars>>

\* The followed service writes a line while the relay is not connected to it.
MissLine ==
  /\ source # "stream" /\ next \in Lines
  /\ next' = next + 1
  /\ UNCHANGED <<relay, source, failures, sourceDelay, outcomes, channel, history, sinkVars,
                 netVars, envVars>>

SourceStep ==
  \/ SourceConnects \/ SourceRefused \/ StreamBreaks \/ StreamEnds \/ SourceSleeps \/ ReadLine

-----------------------------------------------------------------------------
(* The TCP sink.                                                           *)

SinkConnects ==
  /\ relay = "run" /\ sink = "connect"
  /\ up
  /\ sink' = "take"
  /\ sinkDelay' = SinkDelay
  /\ wire' = wire + 1 /\ link' = "open"
  /\ UNCHANGED <<relay, sourceVars, channel, history, pending, line, sent, envVars>>

SinkRefused_gives_up ==
  /\ relay = "run" /\ sink = "connect"
  /\ sink' = "done"
  /\ \/ ~up /\ UNCHANGED trouble
     \/ up /\ Trouble
  /\ UNCHANGED <<relay, sourceVars, channel, history, pending, line, sinkDelay, netVars, up>>

\* Nobody listens, or nobody answers within --dest-connect-timeout.
SinkRefused ==
  /\ relay = "run" /\ sink = "connect"
  /\ sink' = "backoff"
  /\ \/ ~up /\ UNCHANGED trouble
     \/ up /\ Trouble
  /\ UNCHANGED <<relay, sourceVars, channel, history, pending, line, sinkDelay, netVars, up>>

SinkSleeps ==
  /\ relay = "run" /\ sink = "backoff"
  /\ sink' = "connect"
  /\ sinkDelay' = Doubled(sinkDelay, SinkDelayMax)
  /\ UNCHANGED <<relay, sourceVars, channel, history, pending, line, netVars, envVars>>

\* The line to be written again comes first, then the channel.
TakeLine ==
  /\ relay = "run" /\ sink = "take"
  /\ sink' = "write"
  /\ \/ /\ pending # NoLine
        /\ line' = pending
        /\ pending' = NoLine
        /\ UNCHANGED channel
     \/ /\ pending = NoLine /\ channel # <<>>
        /\ line' = Head(channel)
        /\ channel' = Tail(channel)
        /\ UNCHANGED pending
  /\ UNCHANGED <<relay, sourceVars, history, sinkDelay, netVars, envVars>>

\* No line for --dest-idle-timeout: the connection is closed, and what is in
\* its buffers still arrives.
SinkIdle ==
  /\ relay = "run" /\ sink = "take" /\ SinkIdles
  /\ pending = NoLine /\ channel = <<>>
  /\ Trouble
  /\ sink' = "connect" /\ link' = "none"
  /\ UNCHANGED <<relay, sourceVars, channel, history, pending, line, sinkDelay, wire, sent,
                 up>>

\* The source task has ended and dropped its end of the channel.
SinkEnds ==
  /\ relay = "run" /\ sink \in {"take", "stdout"}
  /\ pending = NoLine /\ channel = <<>> /\ source = "failed"
  /\ sink' = "done" /\ link' = "none"
  /\ UNCHANGED <<relay, sourceVars, channel, history, pending, line, sinkDelay, wire, sent,
                 envVars>>

\* What a write leaves behind it: stdout hands it on at once, and a socket later.
Written(whole) ==
  Append(sent, [line |-> line, whole |-> whole, wire |-> wire,
                at |-> CASE sink = "print" -> "collector"
                         [] link = "broken" -> "void"
                         [] OTHER -> "socket"])

\* write_all succeeds when the kernel has the line, be the connection broken or
\* not.
WriteLine ==
  /\ relay = "run" /\ sink = "write"
  /\ sent' = Written(TRUE)
  /\ line' = NoLine
  /\ sink' = "take"
  /\ UNCHANGED <<relay, sourceVars, channel, history, pending, sinkDelay, wire, link,
                 envVars>>

WriteFails_forgets_line ==
  /\ relay = "run" /\ sink = "write"
  /\ \/ link = "broken" /\ UNCHANGED trouble
     \/ link = "open" /\ WriteTimesOut /\ Trouble
  /\ sent' \in {sent, Written(FALSE)}
  /\ line' = NoLine
  /\ sink' = "connect" /\ link' = "none"
  /\ UNCHANGED <<relay, sourceVars, channel, history, pending, sinkDelay, wire, up>>

WriteFails_queues_again ==
  /\ relay = "run" /\ sink = "write"
  /\ \/ link = "broken" /\ UNCHANGED trouble
     \/ link = "open" /\ WriteTimesOut /\ Trouble
  /\ sent' \in {sent, Written(FALSE)}
  /\ channel' = Append(channel, line)
  /\ line' = NoLine
  /\ sink' = "connect" /\ link' = "none"
  /\ UNCHANGED <<relay, sourceVars, history, pending, sinkDelay, wire, up>>

\* A broken connection is noticed, or the write takes too long.  A part of the
\* line may have been written; the line is kept, and the connection given up.
WriteFails ==
  /\ relay = "run" /\ sink = "write"
  /\ \/ link = "broken" /\ UNCHANGED trouble
     \/ link = "open" /\ WriteTimesOut /\ Trouble
  /\ sent' \in {sent, Written(FALSE)}
  /\ pending' = line
  /\ line' = NoLine
  /\ sink' = "connect" /\ link' = "none"
  /\ UNCHANGED <<relay, sourceVars, channel, history, sinkDelay, wire, up>>

-----------------------------------------------------------------------------
(* The stdout sink.                                                        *)

\* The line is no longer in the channel while it is being written.
PrintTakes ==
  /\ relay = "run" /\ sink = "stdout" /\ channel # <<>>
  /\ sink' = "print"
  /\ line' = Head(channel)
  /\ channel' = Tail(channel)
  /\ UNCHANGED <<relay, sourceVars, history, pending, sinkDelay, netVars, envVars>>

\* What reads stdout takes the line and its newline.  tokio writes on a thread of
\* its own and waits for it at the next write; here the line is waited for.
PrintLine ==
  /\ relay = "run" /\ sink = "print" /\ up
  /\ sent' = Written(TRUE)
  /\ line' = NoLine
  /\ sink' = "stdout"
  /\ UNCHANGED <<relay, sourceVars, channel, history, pending, sinkDelay, wire, link,
                 envVars>>

\* A write fails (a closed pipe, a full disk), and nobody looks at the result:
\* nothing of the line is there, or a part, or all of it when only the newline
\* failed.  tokio reports the failure of one write at the next, which is then
\* not made, so that the line lost may be the one after.
PrintFails ==
  /\ relay = "run" /\ sink = "print"
  /\ \/ ~up /\ UNCHANGED trouble
     \/ up /\ Trouble
  /\ sent' \in {sent} \cup {Written(whole) : whole \in BOOLEAN}
  /\ unprinted' = unprinted \cup {line}
  /\ line' = NoLine
  /\ sink' = "stdout"
  /\ UNCHANGED <<relay, sourceVars, channel, handed, pending, sinkDelay, wire, link, up>>

SinkStep ==
  \/ SinkConnects \/ SinkRefused \/ SinkSleeps \/ TakeLine \/ SinkIdle \/ SinkEnds
  \/ WriteLine \/ WriteFails \/ PrintTakes \/ PrintLine

-----------------------------------------------------------------------------
(* main: the source's result or a signal ends the process.                 *)

\* What the sink was writing may be there in part.
ProcessEnds(code) ==
  /\ relay = "run"
  /\ relay' = code
  /\ sent' \in IF sink \in {"write", "print"} THEN {sent, Written(FALSE)} ELSE {sent}
  /\ link' = "none"
  /\ UNCHANGED <<sourceVars, channel, history, sinkVars, wire, envVars>>

SourceResult == source = "failed" /\ ProcessEnds("error")

Signal == ProcessEnds("ok")

-----------------------------------------------------------------------------
(* The network and the collector.                                          *)

\* A connection brings its chunks in order; different ones bring theirs as
\* they may.
Receive(i) ==
  /\ sent[i].at = "socket" /\ up
  /\ \A j \in 1 .. (i - 1) : sent[j].wire = sent[i].wire => sent[j].at # "socket"
  /\ sent' = [sent EXCEPT ![i].at = "collector"]
  /\ UNCHANGED <<relay, sourceVars, channel, history, sinkVars, wire, link, envVars>>

\* What is in the buffers of the connections W is lost.
LoseWires(W) ==
  /\ sent' = [i \in DOMAIN sent |->
                IF sent[i].wire \in W /\ sent[i].at = "socket"
                  THEN [sent[i] EXCEPT !.at = "void"] ELSE sent[i]]
  /\ link' = IF link = "open" /\ wire \in W THEN "broken" ELSE link

WireBreaks(w) ==
  /\ Trouble
  /\ LoseWires({w})
  /\ UNCHANGED <<relay, sourceVars, channel, history, sinkVars, wire, up>>

CollectorFails ==
  /\ up /\ Trouble
  /\ up' = FALSE
  /\ LoseWires(1 .. wire)
  /\ UNCHANGED <<relay, sourceVars, channel, history, sinkVars, wire>>

CollectorReturns ==
  /\ ~up
  /\ up' = TRUE
  /\ UNCHANGED <<relay, sourceVars, channel, history, sinkVars, netVars, trouble>>

NetworkStep ==
  \/ \E i \in DOMAIN sent : Receive(i)
  \/ \E w \in 1 .. wire : WireBreaks(w)
  \/ CollectorFails \/ CollectorReturns

-----------------------------------------------------------------------------
(* The specification.                                                      *)

Next ==
  SourceStep \/ MissLine \/ SinkStep \/ PrintFails \/ SourceResult \/ Signal \/ NetworkStep

\* The runtime runs the sink task whenever it can go on, and open connections
\* to a collector that is there move their data.  Nothing is assumed of the
\* source, of signals, of the collector or of what reads stdout.
Fairness ==
  /\ WF_vars(SinkStep)
  /\ WF_vars(\E i \in DOMAIN sent : Receive(i))

Spec == Init /\ [][Next]_vars
FairSpec == Spec /\ Fairness

-----------------------------------------------------------------------------
(* Properties.                                                             *)

\* Every variable holds a value of its type, and the channel keeps its capacity.
RelayTypeOK ==
  /\ relay \in {"run", "ok", "error"}
  /\ source \in {"connect", "stream", "sleep", "failed"}
  /\ failures \in Nat /\ sourceDelay \in 0 .. SourceDelayMax
  /\ next \in 1 .. (Len(Log) + 1)
  /\ channel \in Seq(Lines) /\ Len(channel) <= BufferCap
  /\ sink \in {"connect", "backoff", "take", "write", "stdout", "print", "done"}
  /\ pending \in Lines \cup {NoLine} /\ line \in Lines \cup {NoLine}
  /\ sinkDelay \in 0 .. SinkDelayMax
  /\ wire \in Nat /\ link \in {"none", "open", "broken"}
  /\ sent \in Seq(Chunk)
  /\ up \in BOOLEAN /\ trouble \in 0 .. MaxTrouble
  /\ handed \subseteq Lines /\ unprinted \subseteq Lines
  /\ outcomes \in Seq({"refused", "broken", "eof"})

WrittenWhole == {sent[i].line : i \in {j \in DOMAIN sent : sent[j].whole}}

Held == {channel[i] : i \in DOMAIN channel} \cup ({pending, line} \ {NoLine})

\* A line handed to the sink is still in its hands, and nowhere else yet, until
\* it is given whole to the kernel: the TCP sink loses none through any sequence
\* of failed writes, timeouts and reconnections (pending in tcp_sink::run).  The
\* stdout sink has no such care: what main.rs writes "to stdout" and README.md:124
\* offers for "piping output to another process" is gone after a failed write.
SinkKeepsLines ==
  relay = "run" =>
    /\ handed = WrittenWhole \cup Held \cup unprinted
    /\ Held \cap (WrittenWhole \cup unprinted) = {}
    /\ unprinted # {} => wire = 0

\* The collector can put the lines together again: over all connections they
\* are written in the order of the log, and one is written again only after a
\* write of it that failed (a reconnection must neither reorder nor repeat).
WritesInOrder ==
  \A i, j \in DOMAIN sent : i < j =>
    \/ sent[i].line < sent[j].line
    \/ sent[i].line = sent[j].line /\ ~sent[i].whole /\ sent[i].wire < sent[j].wire

\* The source gives up exactly when an attempt went wrong in any way and the
\* MaxRetries - 1 after it did not even connect: a connection forgives all that
\* was before, and the broken stream that follows it counts as the first failure.
GivesUpAfterFailures ==
  LET n == Len(outcomes)
  IN  source = "failed" <=>
        /\ MaxRetries > 0 /\ n = MaxRetries
        /\ outcomes[1] # "eof"
        /\ \A i \in 2 .. n : outcomes[i] = "refused"

\* Whatever was handed to the sink reaches the collector, or what reads stdout,
\* once that stays up, unless a connection broke under it, a write to stdout
\* failed or the relay ends first.
LinesArrive ==
  <>[]up =>
    \A l \in Lines :
      l \in handed ~>
        \/ relay # "run"
        \/ \E i \in DOMAIN sent : sent[i].line = l /\ sent[i].whole /\ sent[i].at # "socket"
        \/ l \in unprinted
=============================================================================
