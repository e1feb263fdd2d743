----------------------------- MODULE RelayProofs -----------------------------
(***************************************************************************)
(* What Relay promises for every log, filter, capacity, delay and limit:   *)
(* the sink keeps its lines, writes them in order and repeats one only     *)
(* after a write that failed, and the source gives up when, and only when, *)
(* the attempts of the last connection say so.                             *)
(***************************************************************************)
EXTENDS Relay, SequenceTheorems, TLAPS

USE DEF history

-----------------------------------------------------------------------------
(* Types.                                                                  *)

\* The relay starts with every variable in its type.
LEMMA InitTypes == Init => RelayTypeOK
<1> SUFFICES ASSUME Init PROVE RelayTypeOK
  OBVIOUS
<1>1. sink \in {"connect", "stdout"}
  BY ModesAssumption DEF Init
<1>2. Len(Log) \in Nat
  BY LogAssumption, LenProperties
<1> QED
  BY <1>1, <1>2, CapsAssumption, DelaysAssumption DEF Init, RelayTypeOK, Lines, Chunk

\* A backoff is bounded by its maximum.
LEMMA DoubledType ==
  ASSUME NEW max \in Nat, NEW delay \in 0 .. max
  PROVE  Doubled(delay, max) \in 0 .. max
BY DEF Doubled

\* What the collector gets, or never gets, is what was written.
SameChunks ==
  /\ sent' \in Seq(Chunk) /\ Len(sent') = Len(sent)
  /\ \A i \in 1 .. Len(sent) :
       /\ sent'[i].line = sent[i].line
       /\ sent'[i].whole = sent[i].whole
       /\ sent'[i].wire = sent[i].wire

\* Nothing is written, received or lost.
LEMMA Unsent ==
  ASSUME RelayTypeOK, sent' = sent
  PROVE  SameChunks
BY DEF RelayTypeOK, SameChunks

\* A chunk is received.
LEMMA ReceiveSame ==
  ASSUME RelayTypeOK, NEW i \in DOMAIN sent, Receive(i)
  PROVE  SameChunks
<1> DEFINE c == [sent[i] EXCEPT !.at = "collector"]
<1>1. /\ DOMAIN sent = 1 .. Len(sent) /\ sent \in Seq(Chunk)
      /\ \A j \in 1 .. Len(sent) : sent[j] \in Chunk
  BY LenProperties, ElementOfSeq DEF RelayTypeOK
<1>2. c \in Chunk /\ c.line = sent[i].line /\ c.whole = sent[i].whole /\ c.wire = sent[i].wire
  BY <1>1 DEF Chunk
<1>3. sent' = [sent EXCEPT ![i] = c]
  BY DEF Receive
<1>4. /\ sent' \in Seq(Chunk) /\ Len(sent') = Len(sent)
      /\ \A j \in 1 .. Len(sent) : sent'[j] = IF j = i THEN c ELSE sent[j]
  BY <1>1, <1>2, <1>3, ExceptSeq
<1> QED
  BY <1>2, <1>4 DEF SameChunks

\* Connections break.
LEMMA LoseSame ==
  ASSUME RelayTypeOK, NEW W, LoseWires(W)
  PROVE  SameChunks /\ link' \in {"none", "open", "broken"}
<1> DEFINE c(i) == IF sent[i].wire \in W /\ sent[i].at = "socket"
                     THEN [sent[i] EXCEPT !.at = "void"] ELSE sent[i]
<1>1. /\ DOMAIN sent = 1 .. Len(sent) /\ Len(sent) \in Nat
      /\ \A j \in 1 .. Len(sent) : sent[j] \in Chunk
  BY LenProperties, ElementOfSeq DEF RelayTypeOK
<1>2. \A j \in 1 .. Len(sent) : /\ c(j) \in Chunk /\ c(j).line = sent[j].line
                                /\ c(j).whole = sent[j].whole /\ c(j).wire = sent[j].wire
  BY <1>1 DEF Chunk
<1>3. sent' = [i \in 1 .. Len(sent) |-> c(i)]
  BY <1>1 DEF LoseWires
<1>4. sent' \in [1 .. Len(sent) -> Chunk]
  BY <1>2, <1>3
<1>5. sent' \in Seq(Chunk)
  BY <1>1, <1>4, SeqDef
<1>6. Len(sent') = Len(sent)
  BY <1>1, <1>4, <1>5, LenProperties
<1> QED
  BY <1>2, <1>3, <1>5, <1>6 DEF SameChunks, LoseWires, RelayTypeOK

\* The network changes what became of the chunks, and the link.
LEMMA NetworkSame ==
  ASSUME RelayTypeOK, NetworkStep
  PROVE  /\ SameChunks /\ RelayTypeOK'
         /\ UNCHANGED <<relay, sourceVars, channel, handed, unprinted, sinkVars, wire>>
<1>1. CASE \E i \in DOMAIN sent : Receive(i)
  <2>1. PICK i \in DOMAIN sent : Receive(i)
    BY <1>1
  <2>2. SameChunks
    BY <2>1, ReceiveSame
  <2> QED
    BY <2>1, <2>2 DEF Receive, RelayTypeOK, SameChunks, sourceVars, sinkVars, envVars
<1>2. CASE \E w \in 1 .. wire : WireBreaks(w)
  <2>1. PICK w \in 1 .. wire : WireBreaks(w)
    BY <1>2
  <2>2. SameChunks /\ link' \in {"none", "open", "broken"}
    BY <2>1, LoseSame DEF WireBreaks
  <2> QED
    BY <2>1, <2>2, CapsAssumption
    DEF WireBreaks, Trouble, RelayTypeOK, SameChunks, sourceVars, sinkVars
<1>3. CASE CollectorFails
  <2>1. SameChunks /\ link' \in {"none", "open", "broken"}
    BY <1>3, LoseSame DEF CollectorFails
  <2>2. /\ up' = FALSE /\ trouble' \in 0 .. MaxTrouble
        /\ UNCHANGED <<relay, source, failures, sourceDelay, next, outcomes, channel, handed,
                       unprinted, sink, pending, line, sinkDelay, wire>>
    BY <1>3, CapsAssumption DEF CollectorFails, Trouble, RelayTypeOK, sourceVars, sinkVars
  <2> QED
    BY <2>1, <2>2 DEF RelayTypeOK, SameChunks, sourceVars, sinkVars
<1>4. CASE CollectorReturns
  <2>1. SameChunks
    BY <1>4, Unsent DEF CollectorReturns, netVars
  <2> QED
    BY <1>4, <2>1 DEF CollectorReturns, RelayTypeOK, SameChunks, sourceVars, sinkVars, netVars
<1> QED
  BY <1>1, <1>2, <1>3, <1>4 DEF NetworkStep

\* While it writes, the sink holds one line, and otherwise none; only the TCP
\* sink keeps one to write it again.
HandsFull ==
  /\ IF sink \in {"write", "print"} THEN line \in Lines /\ pending = NoLine ELSE line = NoLine
  /\ sink = "stdout" => pending = NoLine

TypeInv == RelayTypeOK /\ HandsFull

\* A line, or a part of it, is added to what was sent.
LEMMA WrittenSent ==
  ASSUME RelayTypeOK, line \in Lines, NEW whole \in BOOLEAN
  PROVE  LET c == Written(whole)[Len(sent) + 1] IN
         /\ Written(whole) \in Seq(Chunk)
         /\ Len(Written(whole)) = Len(sent) + 1
         /\ \A i \in 1 .. Len(sent) : Written(whole)[i] = sent[i]
         /\ c.line = line /\ c.whole = whole /\ c.wire = wire
<1> DEFINE c == [line |-> line, whole |-> whole, wire |-> wire,
                 at |-> CASE sink = "print" -> "collector"
                          [] link = "broken" -> "void" [] OTHER -> "socket"]
<1>1. c \in Chunk
  BY DEF RelayTypeOK, Chunk
<1>2. sent \in Seq(Chunk)
  BY DEF RelayTypeOK
<1> QED
  BY <1>1, <1>2, AppendProperties DEF Written

\* The attempts that are remembered.
LEMMA EndedType ==
  ASSUME RelayTypeOK, NEW outcome \in {"refused", "broken", "eof"}, Ended(outcome)
  PROVE  outcomes' \in Seq({"refused", "broken", "eof"})
<1> DEFINE O == {"refused", "broken", "eof"}
           all == Append(outcomes, outcome)
<1>1. outcomes \in Seq(O) /\ outcome \in O
  BY DEF RelayTypeOK
<1>2. all \in Seq(O) /\ all # <<>>
  BY <1>1, AppendProperties
<1>3. Tail(all) \in Seq(O)
  BY <1>2, HeadTailProperties
<1> QED
  BY <1>2, <1>3 DEF Ended

\* The source task.
LEMMA SourceTypes ==
  ASSUME TypeInv, SourceStep \/ MissLine
  PROVE  TypeInv'
<1> USE DEF TypeInv, HandsFull
<1>0. Len(Log) \in Nat
  BY LogAssumption, LenProperties
<1>1. CASE SourceConnects
  BY <1>1, DelaysAssumption
  DEF SourceConnects, RelayTypeOK, sinkVars, netVars, envVars
<1>2. ASSUME NEW o \in {"refused", "broken"}, Bump(o)
      PROVE  TypeInv'
  <2>1. outcomes' \in Seq({"refused", "broken", "eof"})
    BY <1>2, EndedType DEF Bump
  <2> QED
    BY <1>2, <2>1 DEF Bump, RelayTypeOK, sinkVars, netVars, envVars
<1>3. CASE StreamEnds
  <2>1. outcomes' \in Seq({"refused", "broken", "eof"})
    BY <1>3, EndedType DEF StreamEnds
  <2> QED
    BY <1>3, <2>1 DEF StreamEnds, RelayTypeOK, sinkVars, netVars, envVars
<1>4. CASE SourceSleeps
  <2>1. sourceDelay' \in 0 .. SourceDelayMax
    BY <1>4, DoubledType, DelaysAssumption DEF SourceSleeps, RelayTypeOK
  <2> QED
    BY <1>4, <2>1 DEF SourceSleeps, RelayTypeOK, sinkVars, netVars, envVars
<1>5. CASE ReadLine
  <2>1. next \in Lines /\ next' = next + 1 /\ next' \in 1 .. (Len(Log) + 1)
    BY <1>5, <1>0 DEF ReadLine, RelayTypeOK, Lines
  <2>2. channel \in Seq(Lines)
    BY DEF RelayTypeOK
  <2>3. /\ Append(channel, next) \in Seq(Lines)
        /\ Len(Append(channel, next)) = Len(channel) + 1
    BY <2>1, <2>2, AppendProperties
  <2>4. Len(channel) \in Nat
    BY <2>2, LenProperties
  <2>5. channel' \in Seq(Lines) /\ Len(channel') <= BufferCap /\ handed' \subseteq Lines
    <3>1. \/ /\ Len(channel) < BufferCap
             /\ channel' = Append(channel, next) /\ handed' = handed \cup {next}
          \/ channel' = channel /\ handed' = handed
      BY <1>5 DEF ReadLine, forward_line
    <3>2. BufferCap \in Nat /\ Len(channel) <= BufferCap /\ handed \subseteq Lines
      BY CapsAssumption DEF RelayTypeOK
    <3>3. CASE Len(channel) < BufferCap /\ channel' = Append(channel, next)
               /\ handed' = handed \cup {next}
      <4>1. Len(channel) + 1 <= BufferCap
        BY <2>4, <3>2, <3>3
      <4>2. Len(channel') = Len(channel) + 1 /\ channel' \in Seq(Lines)
        BY <2>3, <3>3
      <4> QED
        BY <2>1, <3>2, <3>3, <4>1, <4>2
    <3>4. CASE channel' = channel /\ handed' = handed
      BY <2>2, <3>2, <3>4
    <3> QED
      BY <3>1, <3>3, <3>4
  <2> QED
    BY <1>5, <2>1, <2>5 DEF ReadLine, RelayTypeOK, sinkVars, netVars, envVars
<1>6. CASE MissLine
  BY <1>6, <1>0 DEF MissLine, RelayTypeOK, Lines, sinkVars, netVars, envVars
<1> QED
  BY <1>1, <1>2, <1>3, <1>4, <1>5, <1>6 DEF SourceStep, SourceRefused, StreamBreaks

\* The sink task.
LEMMA SinkTypes ==
  ASSUME TypeInv, SinkStep
  PROVE  TypeInv'
<1> USE DEF TypeInv, HandsFull
<1>0. NoLine \notin Lines
  BY NoLineAssumption DEF Lines
<1>1. CASE SinkConnects
  BY <1>1, DelaysAssumption DEF SinkConnects, RelayTypeOK, sourceVars, envVars
<1>2. CASE SinkRefused
  BY <1>2, CapsAssumption DEF SinkRefused, Trouble, RelayTypeOK, sourceVars, netVars
<1>3. CASE SinkSleeps
  <2>1. sinkDelay' \in 0 .. SinkDelayMax
    BY <1>3, DoubledType, DelaysAssumption DEF SinkSleeps, RelayTypeOK
  <2> QED
    BY <1>3, <2>1 DEF SinkSleeps, RelayTypeOK, sourceVars, netVars, envVars
<1>4. CASE TakeLine
  <2>1. channel \in Seq(Lines)
    BY DEF RelayTypeOK
  <2>2. channel # <<>> => /\ Head(channel) \in Lines /\ Tail(channel) \in Seq(Lines)
                          /\ Len(Tail(channel)) = Len(channel) - 1
    BY <2>1, HeadTailProperties
  <2>3. Len(channel) \in Nat
    BY <2>1, LenProperties
  <2>4. /\ line' \in Lines /\ pending' = NoLine
        /\ channel' \in Seq(Lines) /\ Len(channel') <= BufferCap
    <3>1. CASE pending # NoLine
      BY <1>4, <3>1 DEF TakeLine, RelayTypeOK
    <3>2. CASE pending = NoLine
      <4>1. /\ channel # <<>> /\ line' = Head(channel) /\ channel' = Tail(channel)
            /\ pending' = NoLine
        BY <1>4, <3>2 DEF TakeLine
      <4>2. Len(channel) <= BufferCap /\ BufferCap \in Nat
        BY CapsAssumption DEF RelayTypeOK
      <4>3. Len(channel') = Len(channel) - 1 /\ channel' \in Seq(Lines)
        BY <2>2, <4>1
      <4> QED
        BY <2>2, <2>3, <4>1, <4>2, <4>3
    <3> QED
      BY <3>1, <3>2
  <2> QED
    BY <1>4, <2>4 DEF TakeLine, RelayTypeOK, sourceVars, netVars, envVars
<1>5. CASE SinkIdle
  BY <1>5, CapsAssumption DEF SinkIdle, Trouble, RelayTypeOK, sourceVars
<1>6. CASE SinkEnds
  BY <1>6 DEF SinkEnds, RelayTypeOK, sourceVars, envVars
<1>7. CASE WriteLine
  <2>1. sent' \in Seq(Chunk)
    BY <1>7, WrittenSent DEF WriteLine
  <2> QED
    BY <1>7, <2>1 DEF WriteLine, RelayTypeOK, sourceVars, envVars
<1>8. CASE WriteFails
  <2>1. sent' \in Seq(Chunk)
    BY <1>8, WrittenSent DEF WriteFails, RelayTypeOK
  <2> QED
    BY <1>8, <2>1, CapsAssumption DEF WriteFails, Trouble, RelayTypeOK, sourceVars
<1>9. CASE PrintTakes
  <2>1. channel \in Seq(Lines) /\ channel # <<>> /\ Len(channel) <= BufferCap
    BY <1>9 DEF RelayTypeOK, PrintTakes
  <2>2. /\ Head(channel) \in Lines /\ Tail(channel) \in Seq(Lines)
        /\ Len(Tail(channel)) = Len(channel) - 1
    BY <2>1, HeadTailProperties
  <2>3. Len(channel) \in Nat /\ BufferCap \in Nat
    BY <2>1, LenProperties, CapsAssumption
  <2>4. Len(Tail(channel)) <= BufferCap
    BY <2>1, <2>2, <2>3
  <2> QED
    BY <1>9, <2>2, <2>4 DEF PrintTakes, RelayTypeOK, sourceVars, netVars, envVars
<1>10. CASE PrintLine
  <2>1. sent' \in Seq(Chunk)
    BY <1>10, WrittenSent DEF PrintLine
  <2> QED
    BY <1>10, <2>1 DEF PrintLine, RelayTypeOK, sourceVars, envVars
<1> QED
  BY <1>1, <1>2, <1>3, <1>4, <1>5, <1>6, <1>7, <1>8, <1>9, <1>10 DEF SinkStep

\* A write to stdout that fails.
LEMMA PrintFailsTypes ==
  ASSUME TypeInv, PrintFails
  PROVE  TypeInv'
<1>1. sent' \in Seq(Chunk)
  BY WrittenSent DEF PrintFails, TypeInv, HandsFull, RelayTypeOK
<1>2. line \in Lines /\ unprinted' \subseteq Lines
  BY DEF PrintFails, TypeInv, HandsFull, RelayTypeOK
<1> QED
  BY <1>1, <1>2, CapsAssumption
  DEF PrintFails, Trouble, TypeInv, HandsFull, RelayTypeOK, sourceVars

\* The end of the process.
LEMMA EndTypes ==
  ASSUME TypeInv, NEW code \in {"ok", "error"}, ProcessEnds(code)
  PROVE  TypeInv'
<1>1. sent' \in Seq(Chunk)
  BY WrittenSent DEF ProcessEnds, TypeInv, HandsFull, RelayTypeOK
<1> QED
  BY <1>1 DEF ProcessEnds, TypeInv, HandsFull, RelayTypeOK, sourceVars, sinkVars, envVars

\* No step leaves the types.
LEMMA NextTypes == TypeInv /\ [Next]_vars => TypeInv'
<1> SUFFICES ASSUME TypeInv, [Next]_vars PROVE TypeInv'
  OBVIOUS
<1>1. CASE NetworkStep
  BY <1>1, NetworkSame DEF TypeInv, HandsFull, sinkVars
<1>2. CASE SourceResult \/ Signal
  BY <1>2, EndTypes DEF SourceResult, Signal
<1>3. CASE UNCHANGED vars
  BY <1>3 DEF TypeInv, HandsFull, RelayTypeOK, vars, sourceVars, sinkVars, netVars, envVars
<1> QED
  BY <1>1, <1>2, <1>3, SourceTypes, SinkTypes, PrintFailsTypes DEF Next

\* The types and the sink's hands, together, are an invariant.
LEMMA Types == Spec => []TypeInv
<1>1. Init => TypeInv
  BY InitTypes DEF Init, TypeInv, HandsFull
<1> QED
  BY <1>1, NextTypes, PTL DEF Spec

\* Type correctness: the channel never holds more than its capacity, the delays
\* never exceed their maxima.
THEOREM RelayTypes == Spec => []RelayTypeOK
<1>1. TypeInv => RelayTypeOK
  BY DEF TypeInv
<1> QED
  BY <1>1, Types, PTL

-----------------------------------------------------------------------------
(* What the sequences hold.                                                *)

Elements(s) == {s[i] : i \in DOMAIN s}

\* What a sequence holds when something is added at its end.
LEMMA ElementsOfAppend ==
  ASSUME NEW S, NEW s \in Seq(S), NEW e \in S
  PROVE  Elements(Append(s, e)) = Elements(s) \cup {e}
<1>1. /\ DOMAIN s = 1 .. Len(s) /\ Len(s) \in Nat
      /\ DOMAIN Append(s, e) = 1 .. (Len(s) + 1)
      /\ \A i \in 1 .. Len(s) : Append(s, e)[i] = s[i]
      /\ Append(s, e)[Len(s) + 1] = e
  BY LenProperties, AppendProperties
<1>2. DOMAIN Append(s, e) = DOMAIN s \cup {Len(s) + 1}
  BY <1>1
<1> QED
  BY <1>1, <1>2 DEF Elements

\* What it holds without its first element, and where.
LEMMA ElementsOfTail ==
  ASSUME NEW S, NEW s \in Seq(S), s # <<>>
  PROVE  /\ Elements(s) = Elements(Tail(s)) \cup {Head(s)}
         /\ DOMAIN Tail(s) = 1 .. (Len(s) - 1) /\ DOMAIN s = 1 .. Len(s)
         /\ \A i \in DOMAIN Tail(s) : Tail(s)[i] = s[i + 1]
<1>1. /\ DOMAIN s = 1 .. Len(s) /\ Len(s) \in Nat /\ Len(s) # 0
      /\ Head(s) = s[1]
      /\ DOMAIN Tail(s) = 1 .. (Len(s) - 1)
      /\ \A i \in 1 .. (Len(s) - 1) : Tail(s)[i] = s[i + 1]
  BY LenProperties, EmptySeq, HeadTailProperties
<1>2. ASSUME NEW i \in DOMAIN s PROVE s[i] \in Elements(Tail(s)) \cup {Head(s)}
  <2>1. CASE i = 1
    BY <1>1, <2>1
  <2>2. CASE i # 1
    <3>1. i - 1 \in DOMAIN Tail(s) /\ Tail(s)[i - 1] = s[i]
      BY <1>1, <2>2
    <3> QED
      BY <3>1 DEF Elements
  <2> QED
    BY <2>1, <2>2
<1>3. Elements(Tail(s)) \cup {Head(s)} \subseteq Elements(s)
  <2>1. ASSUME NEW i \in DOMAIN Tail(s) PROVE Tail(s)[i] \in Elements(s)
    <3>1. i + 1 \in DOMAIN s /\ Tail(s)[i] = s[i + 1]
      BY <1>1
    <3> QED
      BY <3>1 DEF Elements
  <2>2. 1 \in DOMAIN s
    BY <1>1
  <2> QED
    BY <1>1, <2>1, <2>2 DEF Elements
<1> QED
  BY <1>1, <1>2, <1>3 DEF Elements

\* The lines written whole, when one more is written or a part of it.
LEMMA WholeOfAppend ==
  ASSUME sent \in Seq(Chunk), NEW c \in Chunk, sent' = Append(sent, c)
  PROVE  WrittenWhole' = WrittenWhole \cup (IF c.whole THEN {c.line} ELSE {})
<1>1. /\ DOMAIN sent = 1 .. Len(sent) /\ Len(sent) \in Nat
      /\ DOMAIN sent' = 1 .. (Len(sent) + 1)
      /\ \A i \in 1 .. Len(sent) : sent'[i] = sent[i]
      /\ sent'[Len(sent) + 1] = c
  BY LenProperties, AppendProperties
<1>2. DOMAIN sent' = DOMAIN sent \cup {Len(sent) + 1}
  BY <1>1
<1> QED
  BY <1>1, <1>2 DEF WrittenWhole

\* What becomes of the chunks does not change what was written.
LEMMA WholeOfSame ==
  ASSUME RelayTypeOK, SameChunks
  PROVE  WrittenWhole' = WrittenWhole
<1>1. DOMAIN sent = 1 .. Len(sent) /\ DOMAIN sent' = 1 .. Len(sent)
  BY LenProperties DEF RelayTypeOK, SameChunks
<1> QED
  BY <1>1 DEF WrittenWhole, SameChunks

-----------------------------------------------------------------------------
(* The sink writes its lines in order.                                     *)

\* A chunk that may come before line l on connection w.
Before(c, l, w) == c.line < l \/ (c.line = l /\ ~c.whole /\ c.wire < w)

\* The connection on which a line to be written again will be written.
NextWire == IF sink \in {"connect", "backoff"} THEN wire + 1 ELSE wire

\* While the relay runs, every line sent comes before those in the sink's hands,
\* these before those in the channel, and these before those to come.
Ahead ==
  /\ \A i \in DOMAIN channel : channel[i] < next
  /\ \A i, j \in DOMAIN channel : i < j => channel[i] < channel[j]
  /\ line # NoLine => /\ line < next
                      /\ \A i \in DOMAIN channel : line < channel[i]
                      /\ \A i \in DOMAIN sent : Before(sent[i], line, wire)
  /\ pending # NoLine => /\ pending < next
                         /\ \A i \in DOMAIN channel : pending < channel[i]
                         /\ \A i \in DOMAIN sent : Before(sent[i], pending, NextWire)
  /\ \A i \in DOMAIN sent : /\ sent[i].line < next /\ sent[i].wire <= wire
                             /\ \A j \in DOMAIN channel : sent[i].line < channel[j]

OrderInv == TypeInv /\ WritesInOrder /\ (relay = "run" => Ahead)

\* A chunk of a line that comes after those sent keeps the order.
LEMMA OrderOfAppend ==
  ASSUME sent \in Seq(Chunk), WritesInOrder, NEW c \in Chunk,
         \A i \in DOMAIN sent : Before(sent[i], c.line, c.wire)
  PROVE  sent' = Append(sent, c) =>
           /\ WritesInOrder'
           /\ DOMAIN sent' = DOMAIN sent \cup {Len(sent) + 1}
           /\ \A i \in DOMAIN sent : sent'[i] = sent[i]
           /\ sent'[Len(sent) + 1] = c
<1> SUFFICES ASSUME sent' = Append(sent, c)
             PROVE  /\ WritesInOrder'
                    /\ DOMAIN sent' = DOMAIN sent \cup {Len(sent) + 1}
                    /\ \A i \in DOMAIN sent : sent'[i] = sent[i]
                    /\ sent'[Len(sent) + 1] = c
  OBVIOUS
<1>1. /\ DOMAIN sent = 1 .. Len(sent) /\ Len(sent) \in Nat
      /\ DOMAIN sent' = 1 .. (Len(sent) + 1)
      /\ \A i \in 1 .. Len(sent) : sent'[i] = sent[i]
      /\ sent'[Len(sent) + 1] = c
  BY LenProperties, AppendProperties
<1>2. ASSUME NEW i \in DOMAIN sent', NEW j \in DOMAIN sent', i < j
      PROVE  Before(sent'[i], sent'[j].line, sent'[j].wire)
  <2>1. i \in DOMAIN sent /\ sent'[i] = sent[i]
    BY <1>1, <1>2
  <2>2. CASE j \in DOMAIN sent
    <3>1. sent'[j] = sent[j]
      BY <1>1, <2>2
    <3> QED
      BY <1>2, <2>1, <2>2, <3>1 DEF WritesInOrder, Before
  <2>3. CASE j \notin DOMAIN sent
    <3>1. sent'[j] = c
      BY <1>1, <2>3
    <3> QED
      BY <2>1, <3>1
  <2> QED
    BY <2>2, <2>3
<1>3. WritesInOrder'
  BY <1>2 DEF WritesInOrder, Before
<1> QED
  BY <1>1, <1>3

\* What becomes of the chunks does not change their order.
LEMMA OrderOfSame ==
  ASSUME RelayTypeOK, SameChunks, WritesInOrder
  PROVE  WritesInOrder' /\ DOMAIN sent' = DOMAIN sent
<1>1. DOMAIN sent = 1 .. Len(sent) /\ DOMAIN sent' = 1 .. Len(sent)
  BY LenProperties DEF RelayTypeOK, SameChunks
<1> QED
  BY <1>1 DEF WritesInOrder, SameChunks

\* What the types say of the elements.
LEMMA ElementTypes ==
  ASSUME RelayTypeOK
  PROVE  /\ next \in Nat /\ wire \in Nat /\ channel \in Seq(Lines) /\ sent \in Seq(Chunk)
         /\ \A i \in DOMAIN channel : channel[i] \in Lines /\ channel[i] \in Nat
         /\ \A i \in DOMAIN sent : sent[i] \in Chunk /\ sent[i].line \in Nat /\ sent[i].wire \in Nat
         /\ Lines \subseteq Nat /\ NoLine \notin Lines
         /\ line # NoLine => line \in Nat
         /\ pending # NoLine => pending \in Nat
<1>1. Lines \subseteq Nat /\ NoLine \notin Lines
  BY LogAssumption, LenProperties, NoLineAssumption DEF Lines
<1>2. \A i \in DOMAIN sent : sent[i] \in Chunk
  BY ElementOfSeq, LenProperties DEF RelayTypeOK
<1>3. \A i \in DOMAIN channel : channel[i] \in Lines
  BY ElementOfSeq, LenProperties DEF RelayTypeOK
<1>4. next \in Nat
  BY LogAssumption, LenProperties DEF RelayTypeOK
<1> QED
  BY <1>1, <1>2, <1>3, <1>4 DEF RelayTypeOK, Chunk

\* The source keeps the order: it hands over the line it reads, and no other.
LEMMA SourceOrder ==
  ASSUME OrderInv, relay = "run", SourceStep \/ MissLine
  PROVE  WritesInOrder' /\ Ahead'
<1>a. Ahead /\ TypeInv /\ WritesInOrder
  BY DEF OrderInv
<1>0. /\ next \in Nat /\ wire \in Nat /\ channel \in Seq(Lines) /\ sent \in Seq(Chunk)
      /\ \A i \in DOMAIN channel : channel[i] \in Nat
      /\ \A i \in DOMAIN sent : sent[i].line \in Nat /\ sent[i].wire \in Nat
      /\ line # NoLine => line \in Nat
      /\ pending # NoLine => pending \in Nat
  BY <1>a, ElementTypes DEF TypeInv
<1>1. UNCHANGED <<sink, line, pending, sent, wire>>
  BY DEF SourceStep, SourceConnects, SourceRefused, StreamBreaks, Bump, StreamEnds, SourceSleeps,
         ReadLine, MissLine, sinkVars, netVars
<1>2. WritesInOrder'
  BY <1>a, <1>1 DEF WritesInOrder
<1>3. CASE next' = next /\ channel' = channel
  BY <1>a, <1>1, <1>2, <1>3 DEF Ahead, NextWire
<1>4. CASE next' = next + 1 /\ channel' = channel
  <2>1. NextWire' = NextWire
    BY <1>1 DEF NextWire
  <2>2. /\ \A i \in DOMAIN channel : channel[i] < next'
        /\ line # NoLine => line < next'
        /\ pending # NoLine => pending < next'
        /\ \A i \in DOMAIN sent : sent[i].line < next'
    BY <1>a, <1>0, <1>4 DEF Ahead
  <2> QED
    BY <1>a, <1>1, <1>2, <1>4, <2>1, <2>2 DEF Ahead
<1>5. CASE next \in Lines /\ next' = next + 1 /\ channel' = Append(channel, next)
  <2>1. /\ DOMAIN channel = 1 .. Len(channel) /\ Len(channel) \in Nat
        /\ DOMAIN channel' = 1 .. (Len(channel) + 1)
        /\ \A i \in 1 .. Len(channel) : channel'[i] = channel[i]
        /\ channel'[Len(channel) + 1] = next
    BY <1>0, <1>5, LenProperties, AppendProperties
  <2>2. ASSUME NEW i \in DOMAIN channel'
        PROVE  (i \in DOMAIN channel /\ channel'[i] = channel[i]) \/ channel'[i] = next
    BY <2>1
  <2>3. /\ \A i \in DOMAIN channel' : channel'[i] < next'
        /\ \A i, j \in DOMAIN channel' : i < j => channel'[i] < channel'[j]
    <3>1. \A i \in DOMAIN channel' : channel'[i] < next'
      BY <1>a, <1>0, <1>5, <2>2 DEF Ahead
    <3>2. ASSUME NEW i \in DOMAIN channel', NEW j \in DOMAIN channel', i < j
          PROVE  channel'[i] < channel'[j]
      <4>1. i \in DOMAIN channel /\ channel'[i] = channel[i]
        BY <2>1, <3>2
      <4> QED
        BY <1>a, <2>1, <2>2, <3>2, <4>1 DEF Ahead
    <3> QED
      BY <3>1, <3>2
  <2>4. line' # NoLine => /\ line' < next'
                          /\ \A i \in DOMAIN channel' : line' < channel'[i]
                          /\ \A i \in DOMAIN sent' : Before(sent'[i], line', wire')
    BY <1>a, <1>0, <1>1, <1>5, <2>2 DEF Ahead
  <2>5. pending' # NoLine => /\ pending' < next'
                             /\ \A i \in DOMAIN channel' : pending' < channel'[i]
                             /\ \A i \in DOMAIN sent' : Before(sent'[i], pending', NextWire')
    BY <1>a, <1>0, <1>1, <1>5, <2>2 DEF Ahead, NextWire
  <2>6. \A i \in DOMAIN sent' : /\ sent'[i].line < next' /\ sent'[i].wire <= wire'
                                /\ \A j \in DOMAIN channel' : sent'[i].line < channel'[j]
    BY <1>a, <1>0, <1>1, <1>5, <2>2 DEF Ahead
  <2> QED
    BY <1>2, <2>3, <2>4, <2>5, <2>6 DEF Ahead
<1>6. \/ next' = next /\ channel' = channel
      \/ next' = next + 1 /\ channel' = channel
      \/ next \in Lines /\ next' = next + 1 /\ channel' = Append(channel, next)
  <2>1. CASE SourceConnects
    BY <2>1 DEF SourceConnects
  <2>2. CASE SourceRefused \/ StreamBreaks
    BY <2>2 DEF SourceRefused, StreamBreaks, Bump
  <2>3. CASE StreamEnds
    BY <2>3 DEF StreamEnds
  <2>4. CASE SourceSleeps
    BY <2>4 DEF SourceSleeps
  <2>5. CASE ReadLine
    BY <2>5 DEF ReadLine, forward_line
  <2>6. CASE MissLine
    BY <2>6 DEF MissLine
  <2> QED
    BY <2>1, <2>2, <2>3, <2>4, <2>5, <2>6 DEF SourceStep
<1> QED
  BY <1>3, <1>4, <1>5, <1>6

\* What the head of the channel is to the rest.
LEMMA HeadOrder ==
  ASSUME RelayTypeOK, Ahead, channel # <<>>, channel' = Tail(channel)
  PROVE  /\ Head(channel) < next /\ Head(channel) \in Lines
         /\ \A i \in DOMAIN channel' : channel'[i] < next /\ Head(channel) < channel'[i]
         /\ \A i, j \in DOMAIN channel' : i < j => channel'[i] < channel'[j]
         /\ \A i \in DOMAIN channel' : \E j \in DOMAIN channel : channel'[i] = channel[j]
         /\ \E j \in DOMAIN channel : Head(channel) = channel[j]
<1>1. /\ DOMAIN channel = 1 .. Len(channel) /\ Len(channel) \in Nat /\ Len(channel) # 0
      /\ Head(channel) = channel[1] /\ Head(channel) \in Lines
      /\ DOMAIN channel' = 1 .. (Len(channel) - 1)
      /\ \A i \in 1 .. (Len(channel) - 1) : channel'[i] = channel[i + 1]
  BY LenProperties, EmptySeq, HeadTailProperties DEF RelayTypeOK
<1>2. 1 \in DOMAIN channel
  BY <1>1
<1>3. \A i \in DOMAIN channel' : i + 1 \in DOMAIN channel /\ channel'[i] = channel[i + 1] /\ 1 < i + 1
  BY <1>1
<1>4. \A i, j \in DOMAIN channel' : i < j => i + 1 < j + 1
  BY <1>1
<1> QED
  BY <1>1, <1>2, <1>3, <1>4 DEF Ahead

\* What is written of the sink's line comes after all that was written before.
LEMMA WrittenOrder ==
  ASSUME TypeInv, WritesInOrder, Ahead, line # NoLine, NEW whole \in BOOLEAN,
         sent' = Written(whole)
  PROVE  /\ WritesInOrder'
         /\ \A i \in DOMAIN sent' :
              \/ i \in DOMAIN sent /\ sent'[i] = sent[i]
              \/ sent'[i].line = line /\ sent'[i].whole = whole /\ sent'[i].wire = wire
<1> DEFINE c == [line |-> line, whole |-> whole, wire |-> wire,
                 at |-> CASE sink = "print" -> "collector"
                          [] link = "broken" -> "void" [] OTHER -> "socket"]
<1>1. c \in Chunk /\ c.line = line /\ c.whole = whole /\ c.wire = wire
  BY DEF TypeInv, RelayTypeOK, Chunk
<1>2. sent' = Append(sent, c)
  BY DEF Written
<1> HIDE DEF c
<1>3. \A i \in DOMAIN sent : Before(sent[i], c.line, c.wire)
  BY <1>1 DEF Ahead
<1>4. /\ WritesInOrder'
      /\ DOMAIN sent' = DOMAIN sent \cup {Len(sent) + 1}
      /\ \A i \in DOMAIN sent : sent'[i] = sent[i]
      /\ sent'[Len(sent) + 1] = c
  BY <1>1, <1>2, <1>3, OrderOfAppend DEF TypeInv, RelayTypeOK
<1> QED
  BY <1>1, <1>4

\* The line is written, or a write of it to stdout failed, and the sink goes on.
LEMMA LineLeaves ==
  ASSUME OrderInv, Ahead, line # NoLine, pending = NoLine, line' = NoLine,
         UNCHANGED <<next, channel, pending, wire>>,
         sent' \in {sent} \cup {Written(whole) : whole \in BOOLEAN}
  PROVE  WritesInOrder' /\ Ahead'
<1>1. next \in Nat /\ wire \in Nat
  BY ElementTypes DEF OrderInv, TypeInv
<1>2. /\ WritesInOrder'
      /\ \A i \in DOMAIN sent' :
           \/ i \in DOMAIN sent /\ sent'[i] = sent[i]
           \/ sent'[i].line = line /\ sent'[i].wire = wire
  <2>1. CASE sent' = sent
    BY <2>1 DEF OrderInv, WritesInOrder
  <2>2. ASSUME NEW whole \in BOOLEAN, sent' = Written(whole)
        PROVE  /\ WritesInOrder'
               /\ \A i \in DOMAIN sent' :
                    \/ i \in DOMAIN sent /\ sent'[i] = sent[i]
                    \/ sent'[i].line = line /\ sent'[i].wire = wire
    BY <2>2, WrittenOrder DEF OrderInv
  <2> QED
    BY <2>1, <2>2
<1>3. ASSUME NEW i \in DOMAIN sent'
      PROVE  /\ sent'[i].line < next /\ sent'[i].wire <= wire
             /\ \A j \in DOMAIN channel : sent'[i].line < channel[j]
  <2>1. CASE i \in DOMAIN sent /\ sent'[i] = sent[i]
    BY <2>1 DEF Ahead
  <2>2. CASE sent'[i].line = line /\ sent'[i].wire = wire
    <3>1. line < next /\ \A j \in DOMAIN channel : line < channel[j]
      BY DEF Ahead
    <3>2. wire <= wire
      BY <1>1
    <3> QED
      BY <2>2, <3>1, <3>2
  <2> QED
    BY <1>2, <2>1, <2>2
<1> QED
  BY <1>2, <1>3 DEF Ahead

\* The sink keeps the order: what it writes comes after all it has written, or
\* repeats what failed on an earlier connection.
LEMMA SinkOrder ==
  ASSUME OrderInv, relay = "run", SinkStep
  PROVE  WritesInOrder' /\ Ahead'
<1>a. Ahead /\ TypeInv /\ WritesInOrder /\ RelayTypeOK
  BY DEF OrderInv, TypeInv
<1>0. /\ next \in Nat /\ wire \in Nat /\ channel \in Seq(Lines) /\ sent \in Seq(Chunk)
      /\ \A i \in DOMAIN channel : channel[i] \in Nat
      /\ \A i \in DOMAIN sent : sent[i].line \in Nat /\ sent[i].wire \in Nat
      /\ line # NoLine => line \in Nat
      /\ pending # NoLine => pending \in Nat
      /\ Lines \subseteq Nat /\ NoLine \notin Lines
  BY <1>a, ElementTypes
<1>1. CASE UNCHANGED <<next, channel, line, pending, sent, wire>> /\ NextWire' = NextWire
  BY <1>a, <1>1 DEF Ahead, WritesInOrder
<1>2. CASE SinkConnects
  <2>1. /\ line = NoLine /\ wire' = wire + 1 /\ NextWire = wire + 1 /\ NextWire' = wire + 1
        /\ UNCHANGED <<next, channel, line, pending, sent>>
    BY <1>a, <1>2 DEF SinkConnects, TypeInv, HandsFull, sourceVars, NextWire
  <2>2. \A i \in DOMAIN sent : sent[i].wire <= wire'
    BY <1>a, <1>0, <2>1 DEF Ahead
  <2> QED
    BY <1>a, <2>1, <2>2 DEF Ahead, WritesInOrder
<1>3. CASE SinkRefused \/ SinkSleeps
  BY <1>1, <1>3 DEF SinkRefused, SinkSleeps, NextWire, sourceVars, netVars
<1>4. CASE SinkIdle \/ SinkEnds
  <2>1. line = NoLine /\ pending = NoLine /\ UNCHANGED <<next, channel, line, pending, sent, wire>>
    BY <1>a, <1>4 DEF SinkIdle, SinkEnds, TypeInv, HandsFull, sourceVars
  <2> QED
    BY <1>a, <2>1 DEF Ahead, WritesInOrder
<1>5. CASE TakeLine \/ PrintTakes
  <2>1. /\ line = NoLine /\ NextWire = wire /\ NextWire' = wire /\ pending' = NoLine
        /\ UNCHANGED <<next, sent, wire>>
    BY <1>a, <1>5 DEF TakeLine, PrintTakes, TypeInv, HandsFull, NextWire, sourceVars, netVars
  <2>2. WritesInOrder'
    BY <1>a, <2>1 DEF WritesInOrder
  <2>3. CASE pending # NoLine /\ line' = pending /\ channel' = channel
    BY <1>a, <2>1, <2>2, <2>3 DEF Ahead
  <2>4. CASE channel # <<>> /\ line' = Head(channel) /\ channel' = Tail(channel)
    <3>1. /\ line' < next
          /\ \A i \in DOMAIN channel' : channel'[i] < next /\ line' < channel'[i]
          /\ \A i, j \in DOMAIN channel' : i < j => channel'[i] < channel'[j]
          /\ \A i \in DOMAIN channel' : \E j \in DOMAIN channel : channel'[i] = channel[j]
          /\ \E j \in DOMAIN channel : line' = channel[j]
      BY <1>a, <2>4, HeadOrder
    <3>2. \A i \in DOMAIN sent : Before(sent[i], line', wire)
      BY <1>a, <3>1 DEF Ahead, Before
    <3>3. \A i \in DOMAIN sent : \A j \in DOMAIN channel' : sent[i].line < channel'[j]
      BY <1>a, <3>1 DEF Ahead
    <3> QED
      BY <1>a, <2>1, <2>2, <3>1, <3>2, <3>3 DEF Ahead
  <2> QED
    BY <1>5, <2>3, <2>4 DEF TakeLine, PrintTakes
<1>7. CASE WriteLine \/ PrintLine
  <2>1. /\ line # NoLine /\ sent' = Written(TRUE) /\ line' = NoLine /\ pending = NoLine
        /\ UNCHANGED <<next, channel, pending, wire>>
    BY <1>a, <1>0, <1>7 DEF WriteLine, PrintLine, TypeInv, HandsFull, sourceVars
  <2> QED
    BY <1>a, <2>1, LineLeaves
<1>8. CASE WriteFails
  <2>1. /\ line # NoLine /\ line \in Lines /\ sent' \in {sent, Written(FALSE)}
        /\ line' = NoLine /\ pending' = line /\ sink' = "connect"
        /\ UNCHANGED <<next, channel, wire>>
    BY <1>a, <1>0, <1>8 DEF WriteFails, TypeInv, HandsFull, sourceVars
  <2>2. /\ WritesInOrder'
        /\ \A i \in DOMAIN sent' :
             \/ i \in DOMAIN sent /\ sent'[i] = sent[i]
             \/ sent'[i].line = line /\ ~sent'[i].whole /\ sent'[i].wire = wire
    <3>1. CASE sent' = sent
      BY <1>a, <3>1 DEF WritesInOrder
    <3>2. CASE sent' = Written(FALSE)
      BY <1>a, <2>1, <3>2, WrittenOrder
    <3> QED
      BY <2>1, <3>1, <3>2
  <2>3. \A i \in DOMAIN sent' : /\ sent'[i].line < next /\ sent'[i].wire <= wire
                                /\ \A j \in DOMAIN channel : sent'[i].line < channel[j]
    BY <1>a, <1>0, <2>1, <2>2 DEF Ahead
  <2>4. NextWire' = wire + 1
    BY <2>1 DEF NextWire
  <2>5. ASSUME NEW i \in DOMAIN sent' PROVE Before(sent'[i], line, wire + 1)
    <3>1. CASE i \in DOMAIN sent /\ sent'[i] = sent[i]
      <4>1. sent[i].wire \in Nat /\ Before(sent[i], line, wire)
        BY <1>a, <1>0, <2>1, <3>1 DEF Ahead
      <4>2. sent[i].wire < wire => sent[i].wire < wire + 1
        BY <1>0, <4>1
      <4> QED
        BY <3>1, <4>1, <4>2 DEF Before
    <3>2. CASE sent'[i].line = line /\ ~sent'[i].whole /\ sent'[i].wire = wire
      <4>1. wire < wire + 1
        BY <1>0
      <4> QED
        BY <3>2, <4>1 DEF Before
    <3> QED
      BY <2>2, <3>1, <3>2
  <2> QED
    BY <1>a, <2>1, <2>2, <2>3, <2>4, <2>5 DEF Ahead
<1> QED
  BY <1>2, <1>3, <1>4, <1>5, <1>7, <1>8 DEF SinkStep

\* The network keeps the order.
LEMMA NetworkOrder ==
  ASSUME OrderInv, NetworkStep
  PROVE  WritesInOrder' /\ (relay = "run" => Ahead') /\ relay' = relay
<1>1. /\ SameChunks /\ RelayTypeOK
      /\ UNCHANGED <<relay, next, channel, line, pending, sink, wire>>
  BY NetworkSame DEF OrderInv, TypeInv, sourceVars, sinkVars
<1>2. WritesInOrder' /\ DOMAIN sent' = DOMAIN sent
  BY <1>1, OrderOfSame DEF OrderInv
<1>3. /\ DOMAIN sent = 1 .. Len(sent) /\ NextWire' = NextWire
      /\ \A i \in DOMAIN sent : /\ sent'[i].line = sent[i].line
                                /\ sent'[i].whole = sent[i].whole
                                /\ sent'[i].wire = sent[i].wire
  BY <1>1, LenProperties DEF SameChunks, RelayTypeOK, NextWire
<1>4. ASSUME relay = "run" PROVE Ahead'
  BY <1>1, <1>2, <1>3, <1>4 DEF OrderInv, Ahead, Before
<1> QED
  BY <1>1, <1>2, <1>4

\* The end of the process may leave a part of the line that was being written.
LEMMA EndOrder ==
  ASSUME OrderInv, NEW code, ProcessEnds(code)
  PROVE  WritesInOrder'
<1>1. CASE sent' = sent
  BY <1>1 DEF OrderInv, WritesInOrder
<1>2. CASE sink \in {"write", "print"} /\ sent' = Written(FALSE)
  <2>1. line # NoLine /\ Ahead
    BY <1>2, NoLineAssumption, ElementTypes DEF ProcessEnds, OrderInv, TypeInv, HandsFull
  <2> QED
    BY <1>2, <2>1, WrittenOrder DEF OrderInv
<1> QED
  BY <1>1, <1>2 DEF ProcessEnds

\* No step disturbs the order.
LEMMA NextOrder == OrderInv /\ [Next]_vars => OrderInv'
<1> SUFFICES ASSUME OrderInv, [Next]_vars
             PROVE  WritesInOrder' /\ (relay' = "run" => Ahead')
  BY NextTypes DEF OrderInv
<1>1. CASE SourceStep /\ relay = "run"
  BY <1>1, SourceOrder
<1>2. CASE MissLine
  <2>1. CASE relay = "run"
    BY <1>2, <2>1, SourceOrder
  <2>2. CASE relay # "run"
    BY <1>2, <2>2 DEF MissLine, netVars, OrderInv, WritesInOrder
  <2> QED
    BY <2>1, <2>2
<1>3. CASE SinkStep /\ relay = "run"
  BY <1>3, SinkOrder
<1>4. CASE NetworkStep
  BY <1>4, NetworkOrder
<1>5. CASE SourceResult \/ Signal
  <2>1. WritesInOrder'
    BY <1>5, EndOrder DEF SourceResult, Signal
  <2>2. relay' # "run"
    BY <1>5 DEF SourceResult, Signal, ProcessEnds
  <2> QED
    BY <2>1, <2>2
<1>6. CASE UNCHANGED vars
  BY <1>6 DEF vars, sourceVars, sinkVars, netVars, OrderInv, WritesInOrder, Ahead, NextWire
<1>7. CASE PrintFails
  <2>1. /\ line # NoLine /\ pending = NoLine /\ Ahead /\ line' = NoLine
        /\ sent' \in {sent} \cup {Written(whole) : whole \in BOOLEAN}
        /\ UNCHANGED <<next, channel, pending, wire>>
    BY <1>7, ElementTypes DEF PrintFails, OrderInv, TypeInv, HandsFull, sourceVars
  <2> QED
    BY <2>1, LineLeaves
<1>8. (SourceStep => relay = "run") /\ (SinkStep => relay = "run")
  BY DEF SourceStep, SourceConnects, SourceRefused, StreamBreaks, Bump, StreamEnds, SourceSleeps,
         ReadLine, SinkStep, SinkConnects, SinkRefused, SinkSleeps, TakeLine, SinkIdle, SinkEnds,
         WriteLine, WriteFails, PrintTakes, PrintLine
<1> QED
  BY <1>1, <1>2, <1>3, <1>4, <1>5, <1>6, <1>7, <1>8 DEF Next

\* The relay starts in order.
LEMMA InitOrder == Init => OrderInv
<1>1. Init => TypeInv
  BY InitTypes DEF Init, TypeInv, HandsFull
<1>2. Init => WritesInOrder /\ Ahead
  BY DEF Init, WritesInOrder, Ahead
<1> QED
  BY <1>1, <1>2 DEF OrderInv

\* The collector can put the log together again: lines are written in order over
\* all connections, and one is repeated only after a write of it that failed
\* (tcp_sink::run), for every log, capacity and number of faults.
THEOREM InOrder == Spec => []WritesInOrder
<1>1. OrderInv => WritesInOrder
  BY DEF OrderInv
<1> QED
  BY <1>1, InitOrder, NextOrder, PTL DEF Spec

-----------------------------------------------------------------------------
(* The sink keeps its lines.                                               *)

\* The lines that were not printed come before those in the sink's hands and in
\* the channel, and only the stdout sink, which makes no connection, has any.
Unprinted ==
  /\ sink \in {"stdout", "print"} => wire = 0
  /\ unprinted # {} => /\ sink \in {"stdout", "print", "done"} /\ wire = 0
                       /\ pending = NoLine
  /\ \A l \in unprinted : /\ l < next
                          /\ line # NoLine => l < line
                          /\ \A i \in DOMAIN channel : l < channel[i]

\* The lines handed to the sink are those written, lost at stdout, or held.
Accounted == handed = WrittenWhole \cup Held \cup unprinted

KeepsInv == OrderInv /\ (relay = "run" => Accounted /\ Unprinted)

\* Nothing the sink has yet to write was written whole, or lost, before.
LEMMA HeldIsNew ==
  ASSUME KeepsInv
  PROVE  SinkKeepsLines
<1> SUFFICES ASSUME relay = "run", NEW l \in Held, l \in WrittenWhole \cup unprinted
             PROVE  FALSE
  BY DEF KeepsInv, Accounted, Unprinted, SinkKeepsLines
<1>0. Ahead /\ Unprinted /\ RelayTypeOK
  BY DEF KeepsInv, OrderInv, TypeInv
<1>1. /\ \A i \in DOMAIN sent : sent[i].line \in Nat
      /\ unprinted \subseteq Nat /\ Lines \subseteq Nat
  BY <1>0, ElementTypes DEF RelayTypeOK
<1>2. CASE l \in WrittenWhole
  <2>1. PICK i \in DOMAIN sent : sent[i].whole /\ sent[i].line = l
    BY <1>2 DEF WrittenWhole
  <2>2. /\ \A j \in DOMAIN channel : l < channel[j]
        /\ line # NoLine => l < line
        /\ pending # NoLine => l < pending
    BY <1>0, <2>1 DEF Ahead, Before
  <2> QED
    BY <1>1, <2>1, <2>2 DEF Held
<1>3. CASE l \in unprinted
  <2>1. /\ \A j \in DOMAIN channel : l < channel[j]
        /\ line # NoLine => l < line
        /\ pending = NoLine /\ l \in Nat
    BY <1>0, <1>1, <1>3 DEF Unprinted
  <2> QED
    BY <2>1 DEF Held
<1> QED
  BY <1>2, <1>3

\* No step changes what is known of the lines that were not printed.
LEMMA NextUnprinted ==
  ASSUME KeepsInv, relay = "run", [Next]_vars, relay' = "run"
  PROVE  Unprinted'
<1>0. /\ OrderInv /\ TypeInv /\ RelayTypeOK /\ Ahead /\ Unprinted
      /\ next \in Nat /\ Lines \subseteq Nat /\ NoLine \notin Lines
      /\ unprinted \subseteq Nat /\ channel \in Seq(Lines)
  BY ElementTypes DEF KeepsInv, OrderInv, TypeInv, RelayTypeOK
<1>1. ASSUME UNCHANGED <<unprinted, channel, line, pending, wire>>, next' \in {next, next + 1},
             \/ sink' = sink
             \/ sink \in {"connect", "backoff", "take", "write"} /\ sink' \notin {"stdout", "print"}
             \/ sink' = "done"
      PROVE  Unprinted'
  BY <1>0, <1>1 DEF Unprinted
<1>2. CASE SourceStep \/ MissLine
  <2>1. CASE ReadLine
    <3>1. UNCHANGED <<unprinted, sink, line, pending, wire>> /\ next' = next + 1
      BY <2>1 DEF ReadLine, sinkVars, netVars
    <3>2. \A i \in DOMAIN channel' : channel'[i] = next \/ (i \in DOMAIN channel /\ channel'[i] = channel[i])
      <4>1. channel' = channel \/ channel' = Append(channel, next)
        BY <2>1 DEF ReadLine, forward_line
      <4>2. next \in Lines
        BY <2>1 DEF ReadLine
      <4> QED
        BY <1>0, <4>1, <4>2, LenProperties, AppendProperties
    <3>3. ASSUME NEW l \in unprinted, NEW i \in DOMAIN channel' PROVE l < channel'[i]
      BY <1>0, <3>2 DEF Unprinted
    <3>4. \A l \in unprinted : l < next' /\ (line # NoLine => l < line)
      BY <1>0, <3>1 DEF Unprinted
    <3> QED
      BY <1>0, <3>1, <3>3, <3>4 DEF Unprinted
  <2> QED
    BY <1>1, <1>2, <2>1
    DEF SourceStep, SourceConnects, SourceRefused, StreamBreaks, Bump, StreamEnds,
        SourceSleeps, MissLine, sinkVars, netVars
<1>3. CASE SinkConnects
  BY <1>0, <1>3 DEF SinkConnects, Unprinted, sourceVars
<1>4. CASE SinkRefused \/ SinkSleeps \/ SinkIdle \/ SinkEnds
  BY <1>1, <1>4 DEF SinkRefused, SinkSleeps, SinkIdle, SinkEnds, sourceVars, netVars
<1>5. CASE TakeLine
  <2>1. unprinted = {} /\ unprinted' = {} /\ sink' = "write"
    BY <1>0, <1>5 DEF TakeLine, Unprinted
  <2> QED
    BY <2>1 DEF Unprinted
<1>6. CASE PrintTakes
  <2>1. /\ channel # <<>> /\ channel' = Tail(channel) /\ line' = Head(channel) /\ sink = "stdout"
        /\ sink' = "print" /\ UNCHANGED <<unprinted, next, pending, wire>>
    BY <1>6 DEF PrintTakes, sourceVars, netVars
  <2>2. /\ \A i \in DOMAIN channel' : \E j \in DOMAIN channel : channel'[i] = channel[j]
        /\ \E j \in DOMAIN channel : line' = channel[j]
    BY <1>0, <2>1, HeadOrder
  <2> QED
    BY <1>0, <2>1, <2>2 DEF Unprinted
<1>7. CASE WriteLine \/ WriteFails
  <2>1. unprinted = {} /\ unprinted' = {} /\ sink' \in {"take", "connect"}
    BY <1>0, <1>7 DEF WriteLine, WriteFails, Unprinted
  <2> QED
    BY <2>1 DEF Unprinted
<1>8. CASE PrintLine \/ PrintFails
  <2>1. /\ sink = "print" /\ sink' = "stdout" /\ line # NoLine /\ line' = NoLine /\ pending = NoLine
        /\ UNCHANGED <<next, channel, pending, wire>>
        /\ unprinted' \subseteq unprinted \cup {line}
    BY <1>0, <1>8 DEF PrintLine, PrintFails, TypeInv, HandsFull, sourceVars
  <2>2. line < next /\ \A i \in DOMAIN channel : line < channel[i]
    BY <1>0, <2>1 DEF Ahead
  <2> QED
    BY <1>0, <2>1, <2>2 DEF Unprinted
<1>9. CASE NetworkStep
  BY <1>0, <1>1, <1>9, NetworkSame DEF sourceVars, sinkVars
<1>10. CASE SourceResult \/ Signal
  BY <1>10 DEF SourceResult, Signal, ProcessEnds
<1>11. CASE UNCHANGED vars
  BY <1>1, <1>11 DEF vars, sourceVars, sinkVars, netVars
<1> QED
  BY <1>2, <1>3, <1>4, <1>5, <1>6, <1>7, <1>8, <1>9, <1>10, <1>11 DEF Next, SinkStep

\* No step drops a line, except the write to stdout that fails.
LEMMA NextAccounted ==
  ASSUME KeepsInv, [Next]_vars, relay' = "run"
  PROVE  relay = "run" /\ Accounted'
<1>0. /\ TypeInv /\ channel \in Seq(Lines) /\ sent \in Seq(Chunk) /\ NoLine \notin Lines
      /\ pending \in Lines \cup {NoLine} /\ line \in Lines \cup {NoLine}
      /\ Held = Elements(channel) \cup ({pending, line} \ {NoLine})
      /\ Held' = Elements(channel') \cup ({pending', line'} \ {NoLine})
      /\ relay = "run" => handed = WrittenWhole \cup Held \cup unprinted
  BY NoLineAssumption, SMTT(30)
  DEF KeepsInv, OrderInv, Accounted, TypeInv, RelayTypeOK, Held, Elements, Lines
<1> USE DEF Accounted
<1>1. ASSUME relay = "run", UNCHANGED <<channel, handed, unprinted, pending, line>>, sent' = sent
      PROVE  Accounted'
  BY <1>0, <1>1 DEF WrittenWhole
<1>2. ASSUME relay = "run", ReadLine
      PROVE  Accounted'
  <2>1. UNCHANGED <<pending, line, sent, unprinted>> /\ next \in Lines
    BY <1>2 DEF ReadLine, sinkVars, netVars
  <2>2. \/ channel' = Append(channel, next) /\ handed' = handed \cup {next}
        \/ channel' = channel /\ handed' = handed
    BY <1>2 DEF ReadLine, forward_line
  <2>3. Elements(Append(channel, next)) = Elements(channel) \cup {next}
    BY <1>0, <2>1, ElementsOfAppend
  <2>4. WrittenWhole' = WrittenWhole
    BY <2>1 DEF WrittenWhole
  <2>5. \/ Held' = Held /\ handed' = handed
        \/ Held' = Held \cup {next} /\ handed' = handed \cup {next}
    BY <1>0, <2>1, <2>2, <2>3
  <2> QED
    BY <1>0, <1>2, <2>1, <2>2, <2>4, <2>5
<1>3. CASE SourceStep \/ MissLine
  <2>1. relay = "run"
    BY <1>3 DEF SourceStep, SourceConnects, SourceRefused, StreamBreaks, Bump, StreamEnds,
                SourceSleeps, ReadLine, MissLine
  <2> QED
    BY <1>1, <1>2, <1>3, <2>1
    DEF SourceStep, SourceConnects, SourceRefused, StreamBreaks, Bump, StreamEnds,
        SourceSleeps, MissLine, sinkVars, netVars
<1>4. CASE TakeLine \/ PrintTakes
  <2>1. /\ relay = "run" /\ UNCHANGED <<handed, unprinted, sent>> /\ line = NoLine
        /\ sink = "stdout" => pending = NoLine
    BY <1>0, <1>4 DEF TakeLine, PrintTakes, netVars, TypeInv, HandsFull
  <2>2. CASE pending # NoLine /\ line' = pending /\ pending' = NoLine /\ channel' = channel
    BY <1>0, <2>1, <2>2 DEF WrittenWhole
  <2>3. CASE /\ pending = NoLine /\ channel # <<>> /\ pending' = NoLine
             /\ line' = Head(channel) /\ channel' = Tail(channel)
    <3>1. Elements(channel) = Elements(channel') \cup {line'} /\ line' \in Lines
      BY <1>0, <2>3, ElementsOfTail, HeadTailProperties
    <3> QED
      BY <1>0, <2>1, <2>3, <3>1 DEF WrittenWhole
  <2> QED
    BY <1>4, <2>1, <2>2, <2>3 DEF TakeLine, PrintTakes
<1>5. ASSUME line \in Lines, NEW whole \in BOOLEAN, sent' = Written(whole)
      PROVE  WrittenWhole' = WrittenWhole \cup (IF whole THEN {line} ELSE {})
  <2> DEFINE c == [line |-> line, whole |-> whole, wire |-> wire,
                   at |-> CASE sink = "print" -> "collector"
                            [] link = "broken" -> "void" [] OTHER -> "socket"]
  <2>1. c \in Chunk /\ c.line = line /\ c.whole = whole
    BY <1>0, <1>5 DEF TypeInv, RelayTypeOK, Chunk
  <2>2. sent' = Append(sent, c)
    BY <1>5 DEF Written
  <2> HIDE DEF c
  <2>3. WrittenWhole' = WrittenWhole \cup (IF c.whole THEN {c.line} ELSE {})
    BY <1>0, <2>1, <2>2, WholeOfAppend
  <2> QED
    BY <2>1, <2>3
<1>6. CASE WriteLine \/ PrintLine
  <2>1. /\ relay = "run" /\ line \in Lines /\ sent' = Written(TRUE) /\ line' = NoLine
        /\ UNCHANGED <<channel, handed, unprinted, pending>>
    BY <1>0, <1>6 DEF WriteLine, PrintLine, TypeInv, HandsFull
  <2>2. WrittenWhole' = WrittenWhole \cup {line}
    BY <1>5, <2>1
  <2> QED
    BY <1>0, <2>1, <2>2
<1>7. CASE WriteFails
  <2>1. /\ relay = "run" /\ line \in Lines /\ sent' \in {sent, Written(FALSE)}
        /\ pending = NoLine /\ pending' = line /\ line' = NoLine
        /\ UNCHANGED <<channel, handed, unprinted>>
    BY <1>0, <1>7 DEF WriteFails, TypeInv, HandsFull
  <2>2. WrittenWhole' = WrittenWhole
    BY <1>5, <2>1 DEF WrittenWhole
  <2> QED
    BY <1>0, <2>1, <2>2
<1>8. CASE PrintFails
  <2>1. /\ relay = "run" /\ line \in Lines /\ line' = NoLine
        /\ sent' \in {sent} \cup {Written(whole) : whole \in BOOLEAN}
        /\ unprinted' = unprinted \cup {line} /\ UNCHANGED <<channel, handed, pending>>
    BY <1>0, <1>8 DEF PrintFails, TypeInv, HandsFull
  <2>2. WrittenWhole' = WrittenWhole \/ WrittenWhole' = WrittenWhole \cup {line}
    BY <1>5, <2>1 DEF WrittenWhole
  <2> QED
    BY <1>0, <2>1, <2>2
<1>9. CASE SinkStep
  <2>1. CASE SinkConnects \/ SinkRefused \/ SinkSleeps \/ SinkIdle \/ SinkEnds
    BY <1>1, <2>1 DEF SinkConnects, SinkRefused, SinkSleeps, SinkIdle, SinkEnds, netVars
  <2>2. relay = "run"
    BY <1>9 DEF SinkStep, SinkConnects, SinkRefused, SinkSleeps, TakeLine, SinkIdle, SinkEnds,
                WriteLine, WriteFails, PrintTakes, PrintLine
  <2> QED
    BY <1>4, <1>6, <1>7, <1>9, <2>1, <2>2 DEF SinkStep
<1>10. CASE NetworkStep
  <2>1. WrittenWhole' = WrittenWhole /\ UNCHANGED <<relay, channel, handed, unprinted, pending, line>>
    BY <1>0, <1>10, NetworkSame, WholeOfSame DEF TypeInv, sinkVars
  <2> QED
    BY <1>0, <2>1
<1>11. CASE SourceResult \/ Signal
  BY <1>11 DEF SourceResult, Signal, ProcessEnds
<1>12. CASE UNCHANGED vars
  BY <1>1, <1>12 DEF vars, sinkVars, netVars
<1>13. PrintFails => relay = "run"
  BY DEF PrintFails
<1> QED
  BY <1>3, <1>8, <1>9, <1>10, <1>11, <1>12, <1>13 DEF Next

\* A line handed to the sink is in its hands, and nowhere else yet, until it is
\* given whole to the kernel or a write of it to stdout fails: the TCP sink loses
\* none (pending in tcp_sink::run), for every log, capacity and number of faults.
THEOREM KeepsLines == Spec => []SinkKeepsLines
<1>1. Init => KeepsInv
  <2>1. Init => OrderInv
    BY InitOrder
  <2>2. Init => Accounted /\ Unprinted
    BY DEF Init, Accounted, Unprinted, WrittenWhole, Held
  <2> QED
    BY <2>1, <2>2 DEF KeepsInv
<1>2. KeepsInv /\ [Next]_vars => KeepsInv'
  <2> SUFFICES ASSUME KeepsInv, [Next]_vars PROVE KeepsInv'
    OBVIOUS
  <2>1. OrderInv'
    BY NextOrder DEF KeepsInv
  <2> QED
    BY <2>1, NextUnprinted, NextAccounted DEF KeepsInv
<1> QED
  BY <1>1, <1>2, HeldIsNew, PTL DEF Spec

-----------------------------------------------------------------------------
(* The source gives up in time.                                            *)

\* The outcome of the d-th attempt counted from the last.
FromEnd(d) == outcomes[Len(outcomes) - d + 1]

\* k attempts that count as k failures: the oldest went wrong in any way, and
\* those after it did not even connect.
Form(k) == FromEnd(k) # "eof" /\ \A d \in 1 .. (k - 1) : FromEnd(d) = "refused"

\* Between connections the failures counted are the longest such suffix; a
\* connection forgets them, and only the property itself says that they were
\* not too many.
RetryInv ==
  /\ failures \in Nat /\ outcomes \in Seq({"refused", "broken", "eof"})
  /\ source = "failed" => MaxRetries > 0 /\ failures = MaxRetries
  /\ MaxRetries > 0 =>
       /\ Len(outcomes) <= MaxRetries /\ failures <= Len(outcomes)
       /\ source # "failed" => failures < MaxRetries
       /\ source = "stream" => failures = 0 /\ ~(Len(outcomes) = MaxRetries /\ Form(MaxRetries))
       /\ source # "stream" => \A k \in 1 .. Len(outcomes) : Form(k) <=> k <= failures

\* One more attempt moves the others away from the end by one.
LEMMA EndedShifts ==
  ASSUME NEW o \in {"refused", "broken", "eof"}, Ended(o), MaxRetries > 0,
         outcomes \in Seq({"refused", "broken", "eof"}), Len(outcomes) <= MaxRetries
  PROVE  /\ outcomes' \in Seq({"refused", "broken", "eof"})
         /\ Len(outcomes') = IF Len(outcomes) < MaxRetries THEN Len(outcomes) + 1 ELSE MaxRetries
         /\ FromEnd(1)' = o
         /\ \A d \in 1 .. (Len(outcomes') - 1) : FromEnd(d + 1)' = FromEnd(d)
<1> DEFINE O == {"refused", "broken", "eof"}
           all == Append(outcomes, o)
           n == Len(outcomes)
<1>1. outcomes \in Seq(O) /\ o \in O /\ n \in Nat /\ MaxRetries \in Nat
  BY LenProperties, CapsAssumption
<1>2. /\ all \in Seq(O) /\ Len(all) = n + 1 /\ all # <<>>
      /\ \A i \in 1 .. n : all[i] = outcomes[i]
      /\ all[n + 1] = o
  BY <1>1, AppendProperties, EmptySeq
<1>3. CASE n < MaxRetries
  <2>1. outcomes' = all
    BY <1>1, <1>2, <1>3 DEF Ended
  <2>2. ASSUME NEW d \in 1 .. (Len(outcomes') - 1) PROVE FromEnd(d + 1)' = FromEnd(d)
    <3>1. n - d + 1 \in 1 .. n /\ Len(outcomes') - (d + 1) + 1 = n - d + 1
      BY <1>1, <1>2, <2>1
    <3> QED
      BY <1>2, <2>1, <3>1 DEF FromEnd
  <2>3. Len(outcomes') - 1 + 1 = n + 1
    BY <1>1, <1>2, <2>1
  <2>4. FromEnd(1)' = o
    BY <1>2, <2>1, <2>3 DEF FromEnd
  <2> QED
    BY <1>2, <1>3, <2>1, <2>2, <2>4
<1>4. CASE ~(n < MaxRetries)
  <2>1. n = MaxRetries /\ outcomes' = Tail(all)
    BY <1>1, <1>2, <1>4 DEF Ended
  <2>2. /\ outcomes' \in Seq(O) /\ Len(outcomes') = n
        /\ \A i \in 1 .. n : outcomes'[i] = all[i + 1]
    BY <1>1, <1>2, <2>1, HeadTailProperties
  <2>3. ASSUME NEW d \in 1 .. (Len(outcomes') - 1) PROVE FromEnd(d + 1)' = FromEnd(d)
    <3>1. /\ n - d \in 1 .. n /\ n - d + 1 \in 1 .. n
          /\ Len(outcomes') - (d + 1) + 1 = n - d
      BY <1>1, <2>2
    <3>2. outcomes'[n - d] = all[n - d + 1]
      BY <2>2, <3>1
    <3> QED
      BY <1>2, <3>1, <3>2 DEF FromEnd
  <2>4. FromEnd(1)' = o
    <3>1. n \in 1 .. n /\ Len(outcomes') - 1 + 1 = n
      BY <1>1, <2>1, <2>2
    <3> QED
      BY <1>2, <2>2, <3>1 DEF FromEnd
  <2> QED
    BY <1>4, <2>1, <2>2, <2>3, <2>4
<1> QED
  BY <1>3, <1>4

\* What one more attempt makes of the suffixes.
LEMMA EndedForms ==
  ASSUME NEW o \in {"refused", "broken", "eof"}, Ended(o), MaxRetries > 0,
         outcomes \in Seq({"refused", "broken", "eof"}), Len(outcomes) <= MaxRetries
  PROVE  /\ Form(1)' <=> o # "eof"
         /\ \A k \in 1 .. (Len(outcomes') - 1) : Form(k + 1)' <=> o = "refused" /\ Form(k)
<1>1. /\ FromEnd(1)' = o
      /\ \A d \in 1 .. (Len(outcomes') - 1) : FromEnd(d + 1)' = FromEnd(d)
      /\ Len(outcomes') \in Nat
  BY EndedShifts, LenProperties
<1>2. Form(1)' <=> o # "eof"
  BY <1>1 DEF Form
<1>3. ASSUME NEW k \in 1 .. (Len(outcomes') - 1)
      PROVE  Form(k + 1)' <=> o = "refused" /\ Form(k)
  <2>1. FromEnd(k + 1)' = FromEnd(k)
    BY <1>1
  <2>2. ASSUME Form(k + 1)' PROVE o = "refused" /\ Form(k)
    <3>1. /\ FromEnd(k + 1)' # "eof"
          /\ \A d \in 1 .. k : FromEnd(d)' = "refused"
      BY <2>2 DEF Form
    <3>2. 1 \in 1 .. k /\ \A d \in 1 .. (k - 1) : d + 1 \in 1 .. k /\ d \in 1 .. (Len(outcomes') - 1)
      BY <1>1
    <3>3. \A d \in 1 .. (k - 1) : FromEnd(d) = "refused"
      BY <1>1, <3>1, <3>2
    <3> QED
      BY <1>1, <2>1, <3>1, <3>2, <3>3 DEF Form
  <2>3. ASSUME o = "refused", Form(k) PROVE Form(k + 1)'
    <3>1. ASSUME NEW d \in 1 .. k PROVE FromEnd(d)' = "refused"
      <4>1. CASE d = 1
        BY <1>1, <2>3, <4>1
      <4>2. CASE d # 1
        <5>1. d - 1 \in 1 .. (k - 1) /\ d - 1 \in 1 .. (Len(outcomes') - 1) /\ (d - 1) + 1 = d
          BY <1>1, <4>2
        <5>2. FromEnd((d - 1) + 1)' = FromEnd(d - 1)
          BY <1>1, <5>1
        <5> QED
          BY <2>3, <5>1, <5>2 DEF Form
      <4> QED
        BY <4>1, <4>2
    <3>2. (k + 1) - 1 = k
      BY <1>1
    <3> QED
      BY <2>1, <2>3, <3>1, <3>2 DEF Form
  <2> QED
    BY <2>2, <2>3
<1> QED
  BY <1>2, <1>3

\* An attempt that went wrong adds to the failures counted, and only a stream
\* that the other side ended does not.
LEMMA AttemptRetries ==
  ASSUME RetryInv, NEW o \in {"refused", "broken", "eof"}, Ended(o),
         \/ source = "connect" /\ o = "refused" /\ Bump(o)
         \/ source = "stream" /\ o = "broken" /\ Bump(o)
         \/ source = "stream" /\ o = "eof" /\ source' = "sleep" /\ failures' = failures
  PROVE  RetryInv'
<1>0. MaxRetries \in Nat /\ failures \in Nat /\ Len(outcomes) \in Nat
  BY CapsAssumption, LenProperties DEF RetryInv
<1>1. CASE ~(MaxRetries > 0)
  <2>1. failures' \in Nat /\ source' # "failed"
    BY <1>0, <1>1 DEF Bump
  <2>2. outcomes' \in Seq({"refused", "broken", "eof"})
    <3>1. /\ outcomes \in Seq({"refused", "broken", "eof"})
          /\ Append(outcomes, o) \in Seq({"refused", "broken", "eof"}) /\ Append(outcomes, o) # <<>>
      BY AppendProperties DEF RetryInv
    <3> QED
      BY <3>1, HeadTailProperties DEF Ended
  <2> QED
    BY <1>1, <2>1, <2>2 DEF RetryInv
<1>2. CASE MaxRetries > 0
  <2>1. /\ outcomes' \in Seq({"refused", "broken", "eof"})
        /\ Len(outcomes') = IF Len(outcomes) < MaxRetries THEN Len(outcomes) + 1 ELSE MaxRetries
        /\ Form(1)' <=> o # "eof"
        /\ \A k \in 1 .. (Len(outcomes') - 1) : Form(k + 1)' <=> o = "refused" /\ Form(k)
    BY <1>2, EndedShifts, EndedForms DEF RetryInv
  <2>2. /\ Len(outcomes) <= MaxRetries /\ failures <= Len(outcomes) /\ failures < MaxRetries
        /\ source = "stream" => failures = 0
        /\ source # "stream" => \A k \in 1 .. Len(outcomes) : Form(k) <=> k <= failures
        /\ source \in {"connect", "stream"}
    BY <1>2 DEF RetryInv
  <2>3. /\ Len(outcomes') <= MaxRetries /\ Len(outcomes') \in Nat /\ Len(outcomes') >= 1
        /\ Len(outcomes') - 1 <= Len(outcomes)
    BY <1>0, <1>2, <2>1, <2>2
  <2>4. /\ failures' \in Nat /\ failures' <= Len(outcomes') /\ source' # "stream"
        /\ failures' = IF o = "eof" THEN 0 ELSE failures + 1
        /\ source' = "failed" => failures' = MaxRetries
        /\ source' # "failed" => failures' < MaxRetries
    BY <1>0, <1>2, <2>1, <2>2, <2>3 DEF Bump
  <2>5. ASSUME NEW k \in 1 .. Len(outcomes') PROVE Form(k)' <=> k <= failures'
    <3>1. CASE k = 1
      BY <1>0, <2>1, <2>4, <3>1
    <3>2. CASE k # 1
      <4> DEFINE j == k - 1
      <4>1. j \in 1 .. (Len(outcomes') - 1) /\ j + 1 = k /\ j \in 1 .. Len(outcomes)
        BY <2>2, <2>3, <3>2, <1>0
      <4> HIDE DEF j
      <4>2. Form(j + 1)' <=> o = "refused" /\ Form(j)
        BY <2>1, <4>1
      <4>3. Form(k)' <=> o = "refused" /\ Form(j)
        BY <4>1, <4>2
      <4>4. CASE o = "refused"
        <5>1. Form(j) <=> j <= failures
          BY <2>2, <4>1, <4>4
        <5>2. j <= failures <=> k <= failures'
          BY <1>0, <2>4, <4>1, <4>4
        <5> QED
          BY <4>3, <4>4, <5>1, <5>2
      <4>5. CASE o # "refused"
        <5>1. failures' <= 1 /\ ~(k <= failures')
          BY <1>0, <2>2, <2>4, <3>2, <4>5
        <5> QED
          BY <4>3, <4>5, <5>1
      <4> QED
        BY <4>4, <4>5
    <3> QED
      BY <3>1, <3>2
  <2> QED
    BY <1>2, <2>1, <2>3, <2>4, <2>5 DEF RetryInv
<1> QED
  BY <1>1, <1>2

\* No step counts differently.
LEMMA NextRetries == RetryInv /\ [Next]_vars => RetryInv'
<1> SUFFICES ASSUME RetryInv, [Next]_vars PROVE RetryInv'
  OBVIOUS
<1>1. ASSUME UNCHANGED <<source, failures, outcomes>> PROVE RetryInv'
  BY <1>1 DEF RetryInv, Form, FromEnd
<1>2. CASE SourceConnects
  <2>1. /\ source = "connect" /\ source' = "stream" /\ failures' = 0 /\ outcomes' = outcomes
    BY <1>2 DEF SourceConnects
  <2>2. ASSUME MaxRetries > 0, Len(outcomes) = MaxRetries PROVE ~Form(MaxRetries)
    <3>1. MaxRetries \in 1 .. Len(outcomes) /\ failures < MaxRetries /\ ~(MaxRetries <= failures)
      BY <2>1, <2>2, CapsAssumption DEF RetryInv
    <3> QED
      BY <2>1, <2>2, <3>1 DEF RetryInv
  <2>3. MaxRetries > 0 => 0 <= Len(outcomes) /\ Len(outcomes) <= MaxRetries
    BY LenProperties DEF RetryInv
  <2>4. Form(MaxRetries)' <=> Form(MaxRetries)
    BY <2>1 DEF Form, FromEnd
  <2> QED
    BY <2>1, <2>2, <2>3, <2>4 DEF RetryInv
<1>3. CASE SourceRefused \/ StreamBreaks \/ StreamEnds
  <2>1. CASE SourceRefused
    BY <2>1, AttemptRetries DEF SourceRefused, Bump
  <2>2. CASE StreamBreaks
    BY <2>2, AttemptRetries DEF StreamBreaks, Bump
  <2>3. CASE StreamEnds
    BY <2>3, AttemptRetries DEF StreamEnds
  <2> QED
    BY <1>3, <2>1, <2>2, <2>3
<1>4. CASE SourceSleeps
  <2>1. /\ source = "sleep" /\ source' = "connect" /\ UNCHANGED <<failures, outcomes>>
    BY <1>4 DEF SourceSleeps
  <2> QED
    BY <2>1 DEF RetryInv, Form, FromEnd
<1>5. CASE ReadLine \/ MissLine
  BY <1>1, <1>5 DEF ReadLine, MissLine
<1>6. CASE SinkStep \/ PrintFails
  BY <1>1, <1>6 DEF SinkStep, SinkConnects, SinkRefused, SinkSleeps, TakeLine, SinkIdle, SinkEnds,
                    WriteLine, WriteFails, PrintTakes, PrintLine, PrintFails, sourceVars
<1>7. CASE SourceResult \/ Signal
  BY <1>1, <1>7 DEF SourceResult, Signal, ProcessEnds, sourceVars
<1>8. CASE NetworkStep
  BY <1>1, <1>8 DEF NetworkStep, Receive, WireBreaks, CollectorFails, CollectorReturns, sourceVars
<1>9. CASE UNCHANGED vars
  BY <1>1, <1>9 DEF vars, sourceVars
<1> QED
  BY <1>2, <1>3, <1>4, <1>5, <1>6, <1>7, <1>8, <1>9 DEF Next, SourceStep

\* The source ends the relay exactly when the attempts since the last connection
\* say so, whatever the limit (bump_failures and the reset of failures in
\* source_http::run).
THEOREM GivesUp == Spec => []GivesUpAfterFailures
<1>1. Init => RetryInv
  <2>1. <<>> \in Seq({"refused", "broken", "eof"}) /\ Len(<<>>) = 0
    OBVIOUS
  <2> QED
    BY <2>1, CapsAssumption DEF Init, RetryInv
<1>2. RetryInv => GivesUpAfterFailures
  <2> SUFFICES ASSUME RetryInv PROVE GivesUpAfterFailures
    OBVIOUS
  <2> DEFINE n == Len(outcomes)
  <2>1. n \in Nat /\ MaxRetries \in Nat /\ failures \in Nat
    BY LenProperties, CapsAssumption DEF RetryInv
  <2>2. ASSUME MaxRetries > 0, n = MaxRetries
        PROVE  Form(n) <=> outcomes[1] # "eof" /\ \A i \in 2 .. n : outcomes[i] = "refused"
    <3>1. n - n + 1 = 1 /\ FromEnd(n) = outcomes[1]
      BY <2>1 DEF FromEnd
    <3>2. ASSUME \A d \in 1 .. (n - 1) : FromEnd(d) = "refused", NEW i \in 2 .. n
          PROVE  outcomes[i] = "refused"
      <4>1. n - i + 1 \in 1 .. (n - 1) /\ n - (n - i + 1) + 1 = i
        BY <2>1
      <4> QED
        BY <3>2, <4>1 DEF FromEnd
    <3>3. ASSUME \A i \in 2 .. n : outcomes[i] = "refused", NEW d \in 1 .. (n - 1)
          PROVE  FromEnd(d) = "refused"
      <4>1. n - d + 1 \in 2 .. n
        BY <2>1
      <4> QED
        BY <3>3, <4>1 DEF FromEnd
    <3> QED
      BY <3>1, <3>2, <3>3 DEF Form
  <2>3. ASSUME source = "failed"
        PROVE  MaxRetries > 0 /\ n = MaxRetries /\ Form(n)
    <3>1. MaxRetries > 0 /\ failures = MaxRetries /\ n <= MaxRetries /\ failures <= n
      BY <2>3 DEF RetryInv
    <3>2. n = MaxRetries /\ n \in 1 .. n /\ n <= failures
      BY <2>1, <3>1
    <3> QED
      BY <2>3, <3>1, <3>2 DEF RetryInv
  <2>4. ASSUME source # "failed", MaxRetries > 0, n = MaxRetries
        PROVE  ~Form(n)
    <3>1. CASE source = "stream"
      BY <2>4, <3>1 DEF RetryInv
    <3>2. CASE source # "stream"
      <4>1. n \in 1 .. n /\ ~(n <= failures)
        BY <2>1, <2>4, <3>2 DEF RetryInv
      <4> QED
        BY <2>4, <3>2, <4>1 DEF RetryInv
    <3> QED
      BY <3>1, <3>2
  <2> QED
    BY <2>2, <2>3, <2>4 DEF GivesUpAfterFailures
<1> QED
  BY <1>1, <1>2, NextRetries, PTL DEF Spec

=============================================================================
