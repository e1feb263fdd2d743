--------------------------- MODULE LogStoreProofs ---------------------------
(***************************************************************************)
(* What LogStore promises for any streams, services, capacities and        *)
(* followers: the buffer of a service has its last lines but for the race  *)
(* of the first ones, and whoever follows gets the lines of each stream in *)
(* order and can account for those it was not given.                       *)
(***************************************************************************)
EXTENDS LogStore, SequenceTheorems, FiniteSetTheorems, TLAPS

-----------------------------------------------------------------------------
(* Types.                                                                  *)

\* The store starts with every variable in its type.
LEMMA InitTypes == LogInit => LogTypeOK
<1> SUFFICES ASSUME LogInit PROVE LogTypeOK
  OBVIOUS
<1>1. <<>> \in Seq(Entry) /\ <<>> \in Seq(Buffer) /\ DOMAIN buffers = {}
  BY EmptySeq DEF LogInit
<1> QED
  BY <1>1, LogReadersAssumption DEF LogInit, LogTypeOK, StoreTypeOK, FollowersTypeOK, Reading, NoBuffer,
    Reader, Phases, PushTask, LogViewer

\* A line is pushed to a buffer that has its type.
LEMMA PushType ==
  ASSUME NEW lines \in Seq(Entry), Len(lines) <= BufferCapacity, NEW line \in Entry
  PROVE  Push(lines, line) \in Seq(Entry) /\ Len(Push(lines, line)) <= BufferCapacity
<1>1. BufferCapacity \in Nat \ {0} /\ Len(lines) \in Nat
  BY LogBoundsAssumption, LenProperties
<1>2. CASE Len(lines) >= BufferCapacity
  <2>1. lines # <<>>
    BY <1>1, <1>2, EmptySeq
  <2>2. Tail(lines) \in Seq(Entry) /\ Len(Tail(lines)) = Len(lines) - 1
    BY <2>1, HeadTailProperties
  <2> QED
    BY <1>1, <1>2, <2>2, AppendProperties DEF Push
<1>3. CASE ~(Len(lines) >= BufferCapacity)
  BY <1>1, <1>3, AppendProperties DEF Push
<1> QED
  BY <1>2, <1>3

\* The buffers are those of their services, and the readers hold what they say.
HandsInv ==
  /\ \A s \in Services : current[s] # NoBuffer => buffers[current[s]].of = s
  /\ \A r \in Readers :
       /\ reader[r].phase # "reading" =>
            reader[r].line \in Entry /\ reader[r].line.from = r /\ reader[r].line.time <= clock
       /\ reader[r].phase = "pushing" =>
            reader[r].buffer \in DOMAIN buffers /\ buffers[reader[r].buffer].of = ServiceOf[r]

\* The buffers: how many there are and how they are changed.
LEMMA BuffersTypes ==
  ASSUME StoreTypeOK
  PROVE  /\ Len(buffers) \in Nat /\ DOMAIN buffers = 1 .. Len(buffers)
         /\ \A b \in DOMAIN buffers : /\ buffers[b] \in Buffer /\ buffers[b].of \in Services
                                      /\ buffers[b].lines \in Seq(Entry)
<1>1. buffers \in Seq(Buffer)
  BY DEF StoreTypeOK
<1>2. /\ Len(buffers) \in Nat /\ DOMAIN buffers = 1 .. Len(buffers)
      /\ \A b \in DOMAIN buffers : buffers[b] \in Buffer
  BY <1>1, LenProperties, ElementOfSeq
<1> QED
  BY <1>2 DEF Buffer

\* A new buffer.
LEMMA CreateTypes ==
  ASSUME StoreTypeOK, NEW r \in Readers, CreateBuffer(r)
  PROVE  /\ buffers' \in Seq(Buffer) /\ Len(buffers') = Len(buffers) + 1
         /\ DOMAIN buffers' = DOMAIN buffers \cup {Len(buffers')}
         /\ Len(buffers') \notin DOMAIN buffers /\ Len(buffers') # NoBuffer
         /\ \A b \in DOMAIN buffers : buffers'[b] = buffers[b]
         /\ buffers'[Len(buffers')] = [of |-> ServiceOf[r], lines |-> <<>>]
<1> DEFINE new == [of |-> ServiceOf[r], lines |-> <<>>]
<1>1. new \in Buffer
  BY LogReadersAssumption, EmptySeq DEF Buffer
<1>2. buffers \in Seq(Buffer) /\ buffers' = Append(buffers, new)
  BY DEF StoreTypeOK, CreateBuffer
<1> HIDE DEF new
<1>3. /\ buffers' \in Seq(Buffer) /\ Len(buffers') = Len(buffers) + 1 /\ Len(buffers) \in Nat
      /\ DOMAIN buffers = 1 .. Len(buffers) /\ DOMAIN buffers' = 1 .. Len(buffers')
      /\ \A b \in 1 .. Len(buffers) : buffers'[b] = buffers[b]
      /\ buffers'[Len(buffers) + 1] = new
  BY <1>1, <1>2, AppendProperties, LenProperties
<1> QED
  BY <1>3 DEF new, NoBuffer

\* A line is put into a buffer.
LEMMA PushTypes ==
  ASSUME StoreTypeOK, HandsInv, NEW r \in Readers, PushLine(r)
  PROVE  LET b == reader[r].buffer
             s == ServiceOf[r]
             line == reader[r].line IN
         /\ b \in DOMAIN buffers /\ buffers[b].of = s /\ line \in Entry /\ line.from = r
         /\ buffers' \in Seq(Buffer) /\ DOMAIN buffers' = DOMAIN buffers
         /\ \A c \in DOMAIN buffers : /\ buffers'[c].of = buffers[c].of
                                      /\ c # b => buffers'[c] = buffers[c]
         /\ buffers'[b].lines = Push(buffers[b].lines, line)
         /\ \A c \in DOMAIN buffers' : Len(buffers'[c].lines) <= BufferCapacity
         /\ s \in Services /\ pushed[s] \in Seq(Entry)
         /\ pushed' \in [Services -> Seq(Entry)]
         /\ \A t \in Services : pushed'[t] = IF t = s THEN Append(pushed[s], line) ELSE pushed[t]
<1> DEFINE b == reader[r].buffer
           s == ServiceOf[r]
           line == reader[r].line
           lines == Push(buffers[b].lines, line)
           new == [of |-> buffers[b].of, lines |-> lines]
<1>1. b \in DOMAIN buffers /\ buffers[b].of = s /\ line \in Entry /\ line.from = r
  BY DEF PushLine, HandsInv
<1>2. /\ Len(buffers) \in Nat /\ DOMAIN buffers = 1 .. Len(buffers)
      /\ \A c \in DOMAIN buffers : buffers[c] \in Buffer
      /\ buffers[b].of \in Services /\ buffers[b].lines \in Seq(Entry)
  BY <1>1, BuffersTypes
<1>3. lines \in Seq(Entry) /\ Len(lines) <= BufferCapacity
  BY <1>1, <1>2, PushType DEF StoreTypeOK
<1> HIDE DEF lines
<1>4. new \in Buffer /\ new.of = buffers[b].of /\ new.lines = lines
  BY <1>2, <1>3 DEF Buffer
<1>5. buffers' = [buffers EXCEPT ![b] = new]
  <2>1. buffers' = [buffers EXCEPT ![b].lines = lines]
    BY DEF PushLine, lines
  <2>2. [buffers[b] EXCEPT !.lines = lines] = new
    BY <1>1, <1>2 DEF Buffer
  <2> QED
    BY <2>1, <2>2
<1> HIDE DEF new
<1>6. /\ buffers' \in Seq(Buffer) /\ Len(buffers') = Len(buffers)
      /\ \A c \in DOMAIN buffers : buffers'[c] = IF c = b THEN new ELSE buffers[c]
  <2>1. buffers \in Seq(Buffer) /\ b \in 1 .. Len(buffers)
    BY <1>1, <1>2 DEF StoreTypeOK
  <2> HIDE DEF b
  <2>2. /\ [buffers EXCEPT ![b] = new] \in Seq(Buffer)
        /\ Len([buffers EXCEPT ![b] = new]) = Len(buffers)
        /\ \A j \in 1 .. Len(buffers) :
              [buffers EXCEPT ![b] = new][j] = IF j = b THEN new ELSE buffers[j]
    BY <1>4, <2>1, ExceptSeq
  <2> QED
    BY <1>2, <1>5, <2>2
<1>7. DOMAIN buffers' = DOMAIN buffers
  BY <1>2, <1>6, LenProperties
<1>8. \A c \in DOMAIN buffers' : Len(buffers'[c].lines) <= BufferCapacity
  BY <1>3, <1>4, <1>6, <1>7 DEF StoreTypeOK
<1>9. /\ s \in Services /\ pushed[s] \in Seq(Entry) /\ Append(pushed[s], line) \in Seq(Entry)
      /\ pushed' = [pushed EXCEPT ![s] = Append(pushed[s], line)]
      /\ pushed \in [Services -> Seq(Entry)]
  BY <1>1, LogReadersAssumption, AppendProperties DEF PushLine, StoreTypeOK
<1>10. /\ pushed' \in [Services -> Seq(Entry)]
       /\ \A t \in Services : pushed'[t] = IF t = s THEN Append(pushed[s], line) ELSE pushed[t]
  BY <1>9
<1> QED
  BY <1>1, <1>4, <1>6, <1>7, <1>8, <1>9, <1>10 DEF lines

\* A reader goes on to another phase.
LEMMA ReaderGoes ==
  ASSUME StoreTypeOK, NEW r \in Readers,
         NEW rec \in Reader,
         reader' = [reader EXCEPT ![r] = rec],
         DOMAIN buffers \subseteq DOMAIN buffers', rec.buffer \in {NoBuffer} \cup DOMAIN buffers'
  PROVE  /\ reader' \in [Readers -> Reader]
         /\ \A q \in Readers : reader'[q].buffer \in {NoBuffer} \cup DOMAIN buffers'
         /\ reader'[r] = rec /\ \A q \in Readers \ {r} : reader'[q] = reader[q]
BY DEF StoreTypeOK

\* What a reader becomes.
ReaderAfter(r) ==
  CASE reader[r].phase = "reading" ->
         [phase |-> "looking", line |-> [from |-> r, time |-> clock + 1], buffer |-> NoBuffer,
          lines |-> reader[r].lines + 1]
    [] reader[r].phase = "looking" ->
         [phase |-> IF current[ServiceOf[r]] = NoBuffer THEN "creating" ELSE "pushing",
          line |-> reader[r].line, buffer |-> current[ServiceOf[r]], lines |-> reader[r].lines]
    [] reader[r].phase = "creating" ->
         [phase |-> "pushing", line |-> reader[r].line, buffer |-> Len(buffers'),
          lines |-> reader[r].lines]
    [] reader[r].phase = "pushing" ->
         [phase |-> "sending", line |-> reader[r].line, buffer |-> NoBuffer,
          lines |-> reader[r].lines]
    [] reader[r].phase = "sending" ->
         [phase |-> "reading", line |-> NoLine, buffer |-> reader[r].buffer,
          lines |-> reader[r].lines]

\* Two fields of it are changed.
LEMMA TwoFields ==
  ASSUME NEW rec \in Reader, NEW x, NEW y
  PROVE  /\ [rec EXCEPT !.phase = x, !.buffer = y] =
              [phase |-> x, line |-> rec.line, buffer |-> y, lines |-> rec.lines]
         /\ [rec EXCEPT !.phase = x, !.line = y] =
              [phase |-> x, line |-> y, buffer |-> rec.buffer, lines |-> rec.lines]
<1> DEFINE one == [rec EXCEPT !.phase = x]
<1>1. one = [phase |-> x, line |-> rec.line, buffer |-> rec.buffer, lines |-> rec.lines]
  BY DEF Reader
<1> HIDE DEF one
<1>2. /\ [one EXCEPT !.buffer = y] =
              [phase |-> x, line |-> rec.line, buffer |-> y, lines |-> rec.lines]
      /\ [one EXCEPT !.line = y] =
              [phase |-> x, line |-> y, buffer |-> rec.buffer, lines |-> rec.lines]
  BY <1>1
<1> QED
  BY <1>2 DEF one

\* Every step of a reader makes it that.
LEMMA ReaderStepIs ==
  ASSUME StoreTypeOK, NEW r \in Readers, ReaderStep(r)
  PROVE  reader' = [reader EXCEPT ![r] = ReaderAfter(r)]
<1>1. reader[r] \in Reader
  BY DEF StoreTypeOK
<1>3. CASE ReadLine(r)
  BY <1>3 DEF ReadLine, Now, ReaderAfter
<1>4. CASE Lookup(r)
  <2>1. [reader[r] EXCEPT !.phase = IF current[ServiceOf[r]] = NoBuffer THEN "creating" ELSE "pushing",
                          !.buffer = current[ServiceOf[r]]] = ReaderAfter(r)
    BY ZenonT(40), <1>1, TwoFields, <1>4 DEF Lookup, ReaderAfter
  <2> QED
    BY <1>4, <2>1 DEF Lookup
<1>5. CASE CreateBuffer(r)
  <2>1. [reader[r] EXCEPT !.phase = "pushing", !.buffer = Len(buffers')] = ReaderAfter(r)
    BY <1>1, TwoFields, <1>5 DEF CreateBuffer, ReaderAfter
  <2> QED
    BY <1>5, <2>1 DEF CreateBuffer
<1>6. CASE PushLine(r)
  <2>1. [reader[r] EXCEPT !.phase = "sending", !.buffer = NoBuffer] = ReaderAfter(r)
    BY <1>1, TwoFields, <1>6 DEF PushLine, ReaderAfter
  <2> QED
    BY <1>6, <2>1 DEF PushLine
<1>7. CASE SendLine(r)
  <2>1. [reader[r] EXCEPT !.phase = "reading", !.line = NoLine] = ReaderAfter(r)
    BY <1>1, TwoFields, <1>7 DEF SendLine, ReaderAfter
  <2> QED
    BY <1>7, <2>1 DEF SendLine
<1> QED
  BY <1>3, <1>4, <1>5, <1>6, <1>7 DEF ReaderStep

\* The steps of a reader leave the followers alone, and keep the types.
LEMMA ReaderTypes ==
  ASSUME StoreTypeOK, HandsInv, NEW r \in Readers, ReaderStep(r)
  PROVE  StoreTypeOK' /\ HandsInv'
<1>1. reader[r] \in Reader /\ ServiceOf[r] \in Services /\ clock \in Nat
  BY LogReadersAssumption DEF StoreTypeOK
<1>2. reader' = [reader EXCEPT ![r] = ReaderAfter(r)]
  BY ReaderStepIs
<1>3. CASE ReadLine(r)
  <2>1. /\ clock' = clock + 1 /\ reader[r].phase = "reading"
        /\ UNCHANGED <<buffers, current, sent, pushed, push, got, viewer>>
    BY <1>3 DEF ReadLine, Now
  <2> DEFINE rec == ReaderAfter(r)
  <2>2. /\ rec.phase = "looking" /\ rec.line = [from |-> r, time |-> clock + 1]
        /\ rec.buffer = NoBuffer /\ rec \in Reader /\ rec.line \in Entry
    BY <1>1, <2>1 DEF ReaderAfter, Reader, Phases, Entry, NoBuffer
  <2> HIDE DEF rec
  <2>3. /\ reader' \in [Readers -> Reader] /\ reader'[r] = rec
        /\ \A q \in Readers : reader'[q].buffer \in {NoBuffer} \cup DOMAIN buffers'
        /\ \A q \in Readers \ {r} : reader'[q] = reader[q]
    BY <1>2, <2>1, <2>2, ReaderGoes DEF rec
  <2>4. StoreTypeOK'
    BY <1>1, <2>1, <2>3 DEF StoreTypeOK
  <2>5. HandsInv'
    <3>1. rec.line.from = r /\ rec.line.time = clock'
      BY <2>1, <2>2
    <3>2. \A q \in Readers \ {r} : reader[q].phase # "reading" => reader[q].line.time <= clock'
      BY <1>1, <2>1 DEF HandsInv, Entry
    <3> QED
      BY <1>1, <2>1, <2>2, <2>3, <3>1, <3>2 DEF HandsInv
  <2> QED
    BY <2>4, <2>5
<1>4. CASE Lookup(r)
  <2>1. /\ reader[r].phase = "looking"
        /\ UNCHANGED <<clock, buffers, current, sent, pushed, push, got, viewer>>
    BY <1>4 DEF Lookup
  <2> DEFINE rec == ReaderAfter(r)
             b == current[ServiceOf[r]]
  <2>2. /\ rec.phase = IF b = NoBuffer THEN "creating" ELSE "pushing"
        /\ rec.line = reader[r].line /\ rec.buffer = b /\ rec.lines = reader[r].lines
        /\ rec = [phase |-> rec.phase, line |-> rec.line, buffer |-> rec.buffer,
                  lines |-> rec.lines]
    BY <2>1 DEF ReaderAfter
  <2>3. b \in {NoBuffer} \cup DOMAIN buffers /\ b \in Nat
    BY <1>1, BuffersTypes DEF StoreTypeOK, NoBuffer
  <2> HIDE DEF rec, b
  <2>4. rec \in Reader
    <3>1. rec.phase \in Phases
      BY <2>2 DEF Phases
    <3> QED
      BY <1>1, <2>2, <2>3, <3>1 DEF Reader
  <2>5. /\ reader' \in [Readers -> Reader] /\ reader'[r] = rec
        /\ \A q \in Readers : reader'[q].buffer \in {NoBuffer} \cup DOMAIN buffers'
        /\ \A q \in Readers \ {r} : reader'[q] = reader[q]
    BY <1>2, <2>1, <2>2, <2>3, <2>4, ReaderGoes DEF rec
  <2>6. StoreTypeOK'
    BY <1>1, <2>1, <2>5 DEF StoreTypeOK
  <2>7. b # NoBuffer => b \in DOMAIN buffers /\ buffers[b].of = ServiceOf[r]
    BY <1>1, <2>3 DEF HandsInv, b
  <2>8. HandsInv'
    BY <1>1, <2>1, <2>2, <2>5, <2>7 DEF HandsInv
  <2> QED
    BY <2>6, <2>8
<1>5. CASE CreateBuffer(r)
  <2>1. /\ current' = [current EXCEPT ![ServiceOf[r]] = Len(buffers')]
        /\ reader[r].phase = "creating"
        /\ UNCHANGED <<clock, sent, pushed, push, got, viewer>>
    BY <1>5 DEF CreateBuffer
  <2> DEFINE rec == ReaderAfter(r)
             b == Len(buffers')
  <2>2. /\ rec.phase = "pushing" /\ rec.line = reader[r].line /\ rec.buffer = b
        /\ rec = [phase |-> "pushing", line |-> reader[r].line, buffer |-> b,
                  lines |-> reader[r].lines]
    BY <2>1 DEF ReaderAfter
  <2>3. /\ buffers' \in Seq(Buffer) /\ b \in DOMAIN buffers' /\ b \in Nat
        /\ DOMAIN buffers \subseteq DOMAIN buffers'
        /\ \A c \in DOMAIN buffers' : Len(buffers'[c].lines) <= BufferCapacity
        /\ \A c \in DOMAIN buffers : buffers'[c].of = buffers[c].of
        /\ buffers'[b].of = ServiceOf[r]
    <3>1. Len(buffers') \in Nat
      BY <1>5, CreateTypes, LenProperties
    <3>2. Len(<<>>) <= BufferCapacity
      BY LogBoundsAssumption, EmptySeq
    <3>3. /\ buffers' \in Seq(Buffer) /\ b = Len(buffers) + 1
          /\ DOMAIN buffers' = DOMAIN buffers \cup {b} /\ b \notin DOMAIN buffers
          /\ \A c \in DOMAIN buffers : buffers'[c] = buffers[c]
          /\ buffers'[b] = [of |-> ServiceOf[r], lines |-> <<>>]
      BY <1>5, CreateTypes
    <3>4. \A c \in DOMAIN buffers' : Len(buffers'[c].lines) <= BufferCapacity
      BY <3>2, <3>3 DEF StoreTypeOK
    <3> QED
      BY <3>1, <3>3, <3>4
  <2>4. current' = [current EXCEPT ![ServiceOf[r]] = b]
    BY <2>1
  <2> HIDE DEF rec, b
  <2>5. rec \in Reader
    BY <1>1, <2>2, <2>3 DEF Reader, Phases
  <2>6. /\ reader' \in [Readers -> Reader] /\ reader'[r] = rec
        /\ \A q \in Readers : reader'[q].buffer \in {NoBuffer} \cup DOMAIN buffers'
        /\ \A q \in Readers \ {r} : reader'[q] = reader[q]
    BY <1>2, <2>2, <2>3, <2>5, ReaderGoes DEF rec
  <2>7. StoreTypeOK'
    BY <1>1, <2>1, <2>3, <2>4, <2>6 DEF StoreTypeOK
  <2>8. \A s \in Services : current[s] # NoBuffer => current[s] \in DOMAIN buffers
    BY DEF StoreTypeOK
  <2>9. \A s \in Services : current'[s] = IF s = ServiceOf[r] THEN b ELSE current[s]
    BY <1>1, <2>4 DEF StoreTypeOK
  <2>10. HandsInv'
    BY SMTT(30), <1>1, <2>1, <2>2, <2>3, <2>6, <2>8, <2>9 DEF HandsInv
  <2> QED
    BY <2>7, <2>10
<1>6. CASE PushLine(r)
  <2>1. /\ reader[r].phase = "pushing"
        /\ UNCHANGED <<clock, current, sent, push, got, viewer>>
    BY <1>6 DEF PushLine
  <2> DEFINE rec == ReaderAfter(r)
  <2>2. /\ rec.phase = "sending" /\ rec.line = reader[r].line /\ rec.buffer = NoBuffer
        /\ rec = [phase |-> "sending", line |-> reader[r].line, buffer |-> NoBuffer,
                  lines |-> reader[r].lines]
    BY <2>1 DEF ReaderAfter
  <2>3. /\ buffers' \in Seq(Buffer) /\ DOMAIN buffers' = DOMAIN buffers
        /\ \A b \in DOMAIN buffers' : Len(buffers'[b].lines) <= BufferCapacity
        /\ \A b \in DOMAIN buffers : buffers'[b].of = buffers[b].of
        /\ pushed' \in [Services -> Seq(Entry)]
    BY <1>6, PushTypes
  <2> HIDE DEF rec
  <2>4. rec \in Reader
    BY <1>1, <2>2 DEF Reader, Phases, NoBuffer
  <2>5. /\ reader' \in [Readers -> Reader] /\ reader'[r] = rec
        /\ \A q \in Readers : reader'[q].buffer \in {NoBuffer} \cup DOMAIN buffers'
        /\ \A q \in Readers \ {r} : reader'[q] = reader[q]
    BY <1>2, <2>2, <2>3, <2>4, ReaderGoes DEF rec
  <2>6. StoreTypeOK'
    BY <1>1, <2>1, <2>3, <2>5 DEF StoreTypeOK
  <2>7. \A s \in Services : current[s] # NoBuffer => current[s] \in DOMAIN buffers
    BY DEF StoreTypeOK
  <2>8. HandsInv'
    <3>1. \A s \in Services : current'[s] # NoBuffer => buffers'[current'[s]].of = s
      BY <2>1, <2>3, <2>7 DEF HandsInv
    <3>2. \A q \in Readers \ {r} : reader[q].phase = "pushing" =>
             reader[q].buffer \in DOMAIN buffers' /\ buffers'[reader[q].buffer].of = ServiceOf[q]
      BY <2>3 DEF HandsInv
    <3> QED
      BY <2>1, <2>2, <2>5, <3>1, <3>2 DEF HandsInv
  <2> QED
    BY <2>6, <2>8
<1>7. CASE SendLine(r)
  <2>1. /\ reader[r].phase = "sending" /\ sent' = Append(sent, reader[r].line)
        /\ UNCHANGED <<clock, buffers, current, pushed, push, got, viewer>>
        /\ reader[r].line \in Entry
    BY <1>7 DEF SendLine, HandsInv
  <2> DEFINE rec == ReaderAfter(r)
  <2>2. /\ rec.phase = "reading" /\ rec.buffer = reader[r].buffer
        /\ rec = [phase |-> "reading", line |-> NoLine, buffer |-> reader[r].buffer,
                  lines |-> reader[r].lines]
    BY <2>1 DEF ReaderAfter
  <2>3. sent' \in Seq(Entry)
    BY <2>1, AppendProperties DEF StoreTypeOK
  <2> HIDE DEF rec
  <2>4. rec \in Reader /\ rec.buffer \in {NoBuffer} \cup DOMAIN buffers
    BY <1>1, <2>2 DEF Reader, Phases, StoreTypeOK
  <2>5. /\ reader' \in [Readers -> Reader] /\ reader'[r] = rec
        /\ \A q \in Readers : reader'[q].buffer \in {NoBuffer} \cup DOMAIN buffers'
        /\ \A q \in Readers \ {r} : reader'[q] = reader[q]
    BY <1>2, <2>1, <2>4, ReaderGoes DEF rec
  <2>6. StoreTypeOK'
    BY <1>1, <2>1, <2>3, <2>5 DEF StoreTypeOK
  <2>7. HandsInv'
    BY <1>1, <2>1, <2>2, <2>5 DEF HandsInv
  <2> QED
    BY <2>6, <2>7
<1> QED
  BY <1>3, <1>4, <1>5, <1>6, <1>7 DEF ReaderStep

-----------------------------------------------------------------------------
(* The order of what is pushed and sent.                                   *)

\* The lines of its stream are earlier than a line.
Behind(lines, line) ==
  \A i \in DOMAIN lines : lines[i].from = line.from => lines[i].time < line.time

\* They are, but for the line itself.
UpTo(lines, line) ==
  \A i \in DOMAIN lines :
    lines[i].from = line.from => lines[i].time < line.time \/ lines[i] = line

\* No line is later than now.
Read(lines) == \A i \in DOMAIN lines : lines[i].time <= clock

SentInv ==
  /\ InOrderOfStream(sent)
  /\ Read(sent)
  /\ \A r \in Readers : reader[r].phase # "reading" => Behind(sent, reader[r].line)

Unpushed == {"looking", "creating", "pushing"}

PushedOrder(s) ==
  /\ InOrderOfStream(pushed[s])
  /\ Read(pushed[s])
  /\ \A i \in DOMAIN pushed[s] : ServiceOf[pushed[s][i].from] = s

PushedBehind(r) ==
  /\ reader[r].phase \in Unpushed => Behind(pushed[ServiceOf[r]], reader[r].line)
  /\ reader[r].phase = "sending" => UpTo(pushed[ServiceOf[r]], reader[r].line)

PushedInv == (\A s \in Services : PushedOrder(s)) /\ (\A r \in Readers : PushedBehind(r))

\* One reader moves.
LEMMA OneMoves ==
  ASSUME StoreTypeOK, NEW r \in Readers, ReaderStep(r)
  PROVE  reader'[r] = ReaderAfter(r) /\ \A q \in Readers \ {r} : reader'[q] = reader[q]
BY ReaderStepIs DEF StoreTypeOK

\* The elements of a sequence of lines.
LEMMA Elements ==
  ASSUME NEW lines \in Seq(Entry)
  PROVE  \A i \in DOMAIN lines : /\ lines[i] \in Entry /\ i \in Nat \ {0}
                                 /\ lines[i].time \in Nat \ {0} /\ lines[i].from \in Readers
<1>1. \A i \in DOMAIN lines : lines[i] \in Entry /\ i \in Nat \ {0}
  BY ElementOfSeq, LenProperties
<1> QED
  BY <1>1 DEF Entry

\* The elements of a sequence with one more.
LEMMA AppendElements ==
  ASSUME NEW S, NEW lines \in Seq(S), NEW line \in S
  PROVE  /\ DOMAIN Append(lines, line) = DOMAIN lines \cup {Len(lines) + 1}
         /\ Len(lines) + 1 \notin DOMAIN lines
         /\ \A i \in DOMAIN lines : Append(lines, line)[i] = lines[i] /\ i < Len(lines) + 1
         /\ Append(lines, line)[Len(lines) + 1] = line
         /\ Len(lines) \in Nat /\ DOMAIN lines = 1 .. Len(lines)
<1>1. /\ Append(lines, line) \in Seq(S) /\ Len(Append(lines, line)) = Len(lines) + 1
      /\ \A i \in 1 .. Len(lines) : Append(lines, line)[i] = lines[i]
      /\ Append(lines, line)[Len(lines) + 1] = line
  BY AppendProperties
<1>2. DOMAIN Append(lines, line) = 1 .. (Len(lines) + 1)
  BY <1>1, LenProperties
<1>3. DOMAIN lines = 1 .. Len(lines) /\ Len(lines) \in Nat
  BY LenProperties
<1> QED
  BY <1>1, <1>2, <1>3

\* A later line keeps the order.
LEMMA AppendInOrder ==
  ASSUME NEW lines \in Seq(Entry), NEW line \in Entry,
         InOrderOfStream(lines), Behind(lines, line)
  PROVE  InOrderOfStream(Append(lines, line))
<1> DEFINE more == Append(lines, line)
           n == Len(lines) + 1
<1>1. /\ DOMAIN more = DOMAIN lines \cup {n} /\ DOMAIN lines \subseteq Nat /\ n \in Nat
      /\ \A i \in DOMAIN lines : more[i] = lines[i] /\ i < n
      /\ more[n] = line
  BY AppendElements
<1> HIDE DEF more, n
<1>2. ASSUME NEW i \in DOMAIN more, NEW j \in DOMAIN more, i < j, more[i].from = more[j].from
      PROVE  more[i].time < more[j].time
  <2>1. i \in DOMAIN lines
    BY <1>1, <1>2
  <2>2. CASE j = n
    BY <1>1, <1>2, <2>1, <2>2 DEF Behind
  <2>3. CASE j \in DOMAIN lines
    BY <1>1, <1>2, <2>1, <2>3 DEF InOrderOfStream
  <2> QED
    BY <1>1, <2>2, <2>3
<1> QED
  BY <1>2 DEF InOrderOfStream, more

\* What a line that is added leaves as it is.
LEMMA AppendKeeps ==
  ASSUME NEW lines \in Seq(Entry), NEW line \in Entry, NEW other \in Entry
  PROVE  /\ line.from # other.from /\ Behind(lines, other) => Behind(Append(lines, line), other)
         /\ line.from # other.from /\ UpTo(lines, other) => UpTo(Append(lines, line), other)
         /\ Behind(lines, line) => UpTo(Append(lines, line), line)
         /\ Read(lines) /\ line.time <= clock => Read(Append(lines, line))
<1> DEFINE more == Append(lines, line)
           n == Len(lines) + 1
<1>1. /\ DOMAIN more = DOMAIN lines \cup {n} /\ more[n] = line
      /\ \A i \in DOMAIN lines : more[i] = lines[i]
  BY AppendElements
<1> HIDE DEF more, n
<1>2. line.from # other.from /\ Behind(lines, other) => Behind(more, other)
  BY <1>1 DEF Behind
<1>3. line.from # other.from /\ UpTo(lines, other) => UpTo(more, other)
  BY <1>1 DEF UpTo
<1>4. Behind(lines, line) => UpTo(more, line)
  BY <1>1 DEF Behind, UpTo
<1>5. Read(lines) /\ line.time <= clock => Read(more)
  BY <1>1 DEF Read
<1> QED
  BY <1>2, <1>3, <1>4, <1>5 DEF more

\* What is sent keeps the order.
LEMMA ReaderSent ==
  ASSUME StoreTypeOK, HandsInv, SentInv, NEW r \in Readers, ReaderStep(r)
  PROVE  SentInv'
<1>1. /\ reader'[r] = ReaderAfter(r) /\ \A q \in Readers \ {r} : reader'[q] = reader[q]
      /\ clock \in Nat /\ sent \in Seq(Entry)
  BY OneMoves DEF StoreTypeOK
<1>2. CASE ReadLine(r)
  <2>1. /\ clock' = clock + 1 /\ sent' = sent
        /\ reader'[r].line = [from |-> r, time |-> clock + 1]
    BY <1>1, <1>2 DEF ReadLine, Now, ReaderAfter
  <2>2. Read(sent)' /\ Behind(sent, reader'[r].line)
    <3>1. /\ \A i \in DOMAIN sent : sent[i].time <= clock'
          /\ Behind(sent, reader'[r].line)
      <4>1. \A i \in DOMAIN sent : sent[i].time \in Nat /\ sent[i].time <= clock
        BY <1>1, Elements DEF Read, SentInv
      <4>2. \A i \in DOMAIN sent : sent[i].time < clock + 1 /\ sent[i].time <= clock'
        BY <1>1, <2>1, <4>1
      <4> QED
        BY <2>1, <4>2 DEF Behind
    <3> QED
      BY <2>1, <3>1 DEF Read
  <2> QED
    BY <1>1, <2>1, <2>2 DEF SentInv
<1>3. CASE Lookup(r) \/ CreateBuffer(r) \/ PushLine(r)
  <2>1. reader'[r].line = reader[r].line /\ reader[r].phase # "reading"
    BY <1>1, <1>3 DEF Lookup, CreateBuffer, PushLine, ReaderAfter
  <2>2. clock' = clock /\ sent' = sent
    BY <1>3 DEF Lookup, CreateBuffer, PushLine
  <2>3. Read(sent)' <=> Read(sent)
    BY <2>2 DEF Read
  <2> QED
    BY <1>1, <2>1, <2>2, <2>3 DEF SentInv
<1>4. CASE SendLine(r)
  <2> DEFINE line == reader[r].line
  <2>1. /\ clock' = clock /\ sent' = Append(sent, line) /\ reader'[r].phase = "reading"
        /\ line \in Entry /\ line.from = r /\ line.time <= clock /\ Behind(sent, line)
    BY <1>1, <1>4 DEF SendLine, ReaderAfter, HandsInv, SentInv
  <2> HIDE DEF line
  <2>2. InOrderOfStream(Append(sent, line))
    BY <1>1, <2>1, AppendInOrder DEF SentInv
  <2>3. Read(Append(sent, line))
    BY <1>1, <2>1, AppendKeeps DEF SentInv
  <2>4. Read(sent)'
    BY <2>1, <2>3 DEF Read
  <2>5. ASSUME NEW q \in Readers, reader'[q].phase # "reading"
        PROVE  Behind(sent', reader'[q].line)
    <3>1. q # r /\ reader'[q] = reader[q]
      BY <1>1, <2>1, <2>5
    <3>2. /\ Behind(sent, reader[q].line) /\ reader[q].line.from = q
          /\ reader[q].line \in Entry
      BY <2>5, <3>1 DEF SentInv, HandsInv
    <3>3. Behind(Append(sent, line), reader[q].line)
      BY <1>1, <2>1, <3>1, <3>2, AppendKeeps
    <3> QED
      BY <2>1, <3>1, <3>3
  <2> QED
    BY <2>1, <2>2, <2>4, <2>5 DEF SentInv
<1> QED
  BY <1>2, <1>3, <1>4 DEF ReaderStep

\* What is pushed keeps the order, service by service.
LEMMA ReaderPushed ==
  ASSUME StoreTypeOK, HandsInv, PushedInv, NEW r \in Readers, ReaderStep(r)
  PROVE  PushedInv'
<1>1. /\ reader'[r] = ReaderAfter(r) /\ \A q \in Readers \ {r} : reader'[q] = reader[q]
      /\ clock \in Nat /\ pushed \in [Services -> Seq(Entry)]
      /\ \A q \in Readers : ServiceOf[q] \in Services
      /\ \A s \in Services : pushed[s] \in Seq(Entry)
  BY OneMoves, LogReadersAssumption DEF StoreTypeOK
<1>2. CASE ReadLine(r)
  <2>1. /\ clock' = clock + 1 /\ pushed' = pushed /\ reader'[r].phase = "looking"
        /\ reader'[r].line = [from |-> r, time |-> clock + 1]
    BY <1>1, <1>2 DEF ReadLine, Now, ReaderAfter
  <2>2. ASSUME NEW s \in Services
        PROVE  \A i \in DOMAIN pushed[s] :
                 pushed[s][i].time < clock + 1 /\ pushed[s][i].time <= clock'
    <3>1. \A i \in DOMAIN pushed[s] : pushed[s][i].time \in Nat /\ pushed[s][i].time <= clock
      BY <1>1, Elements DEF PushedInv, PushedOrder, Read
    <3> QED
      BY <1>1, <2>1, <3>1
  <2>3. ASSUME NEW s \in Services PROVE PushedOrder(s)'
    BY <2>1, <2>2 DEF PushedInv, PushedOrder, Read
  <2>4. PushedBehind(r)'
    <3>1. Behind(pushed[ServiceOf[r]], reader'[r].line)
      BY <1>1, <2>1, <2>2 DEF Behind
    <3> QED
      BY <2>1, <3>1 DEF PushedBehind
  <2>5. ASSUME NEW q \in Readers \ {r} PROVE PushedBehind(q)'
    BY <1>1, <2>1 DEF PushedInv, PushedBehind
  <2> QED
    BY <2>3, <2>4, <2>5 DEF PushedInv
<1>3. CASE Lookup(r) \/ CreateBuffer(r)
  <2>1. /\ reader'[r].line = reader[r].line /\ reader'[r].phase # "sending"
        /\ reader[r].phase \in Unpushed
    BY <1>1, <1>3 DEF Lookup, CreateBuffer, ReaderAfter, Unpushed
  <2>2. clock' = clock /\ pushed' = pushed
    BY <1>3 DEF Lookup, CreateBuffer
  <2>3. ASSUME NEW s \in Services PROVE PushedOrder(s)'
    BY <2>2 DEF PushedInv, PushedOrder, Read
  <2>4. ASSUME NEW q \in Readers PROVE PushedBehind(q)'
    BY <1>1, <2>1, <2>2 DEF PushedInv, PushedBehind
  <2> QED
    BY <2>3, <2>4 DEF PushedInv
<1>4. CASE PushLine(r)
  <2> DEFINE line == reader[r].line
             s == ServiceOf[r]
             more == Append(pushed[s], line)
  <2>1. /\ clock' = clock /\ reader[r].phase = "pushing"
        /\ reader'[r].phase = "sending" /\ reader'[r].line = line
        /\ line \in Entry /\ line.from = r /\ line.time <= clock
    BY <1>1, <1>4 DEF PushLine, ReaderAfter, HandsInv
  <2>2. s \in Services /\ pushed[s] \in Seq(Entry) /\ Behind(pushed[s], line)
    BY <1>1, <2>1 DEF PushedInv, PushedBehind, Unpushed
  <2>3. pushed'[s] = more /\ \A t \in Services \ {s} : pushed'[t] = pushed[t]
    BY <1>4, <2>2, PushTypes
  <2>4. /\ InOrderOfStream(more) /\ UpTo(more, line) /\ Read(more)
        /\ \A other \in Entry : other.from # r =>
             /\ Behind(pushed[s], other) => Behind(more, other)
             /\ UpTo(pushed[s], other) => UpTo(more, other)
    <3> HIDE DEF line, s
    <3>1. InOrderOfStream(pushed[s]) /\ Read(pushed[s])
      BY <2>2 DEF PushedInv, PushedOrder
    <3> QED
      BY <2>1, <2>2, <3>1, AppendInOrder, AppendKeeps
  <2>5. \A i \in DOMAIN more : ServiceOf[more[i].from] = s
    <3>1. /\ DOMAIN more = DOMAIN pushed[s] \cup {Len(pushed[s]) + 1}
          /\ \A i \in DOMAIN pushed[s] : more[i] = pushed[s][i]
          /\ more[Len(pushed[s]) + 1] = line
      <4> HIDE DEF s, line
      <4> QED BY <2>1, <2>2, AppendElements
    <3> HIDE DEF more
    <3> QED
      BY <2>1, <2>2, <3>1 DEF PushedInv, PushedOrder
  <2> HIDE DEF more, line
  <2>6. ASSUME NEW t \in Services PROVE PushedOrder(t)'
    <3>1. CASE t = s
      BY <2>1, <2>3, <2>4, <2>5, <3>1 DEF PushedOrder, Read
    <3>2. CASE t # s
      BY <2>1, <2>3, <3>2 DEF PushedInv, PushedOrder, Read
    <3> QED
      BY <3>1, <3>2
  <2>7. PushedBehind(r)'
    BY <2>1, <2>3, <2>4 DEF PushedBehind, Unpushed
  <2>8. ASSUME NEW q \in Readers \ {r} PROVE PushedBehind(q)'
    <3>1. reader'[q] = reader[q] /\ PushedBehind(q) /\ ServiceOf[q] \in Services
      BY <1>1 DEF PushedInv
    <3>2. CASE ServiceOf[q] = s
      <4>1. reader[q].phase \in Unpushed \cup {"sending"} =>
              reader[q].line \in Entry /\ reader[q].line.from # r
        BY DEF HandsInv, Unpushed
      <4> HIDE DEF s
      <4> QED
        BY <2>3, <2>4, <3>1, <3>2, <4>1 DEF PushedBehind
    <3>3. CASE ServiceOf[q] # s
      BY <2>3, <3>1, <3>3 DEF PushedBehind
    <3> QED
      BY <3>2, <3>3
  <2> QED
    BY <2>6, <2>7, <2>8 DEF PushedInv
<1>5. CASE SendLine(r)
  <2>1. reader'[r].phase = "reading" /\ clock' = clock /\ pushed' = pushed
    BY <1>1, <1>5 DEF SendLine, ReaderAfter
  <2>2. ASSUME NEW s \in Services PROVE PushedOrder(s)'
    BY <2>1 DEF PushedInv, PushedOrder, Read
  <2>3. ASSUME NEW q \in Readers PROVE PushedBehind(q)'
    BY <1>1, <2>1 DEF PushedInv, PushedBehind, Unpushed
  <2> QED
    BY <2>2, <2>3 DEF PushedInv
<1> QED
  BY <1>2, <1>3, <1>4, <1>5 DEF ReaderStep

-----------------------------------------------------------------------------
(* Push tasks: what the collector has was sent before where the task is.   *)

Given(all, lines, n) == \A i \in DOMAIN lines : \E k \in DOMAIN all : k < n /\ lines[i] = all[k]

PushInv(p) ==
  /\ push[p].next <= Len(sent) + 1
  /\ \A i \in DOMAIN got[p] : ServiceOf[got[p][i].from] = PushedService[p]
  /\ InOrderOfStream(got[p])
  /\ push[p].phase # "writing" => Given(sent, got[p], push[p].next)
  /\ push[p].phase = "writing" =>
       /\ push[p].next - 1 \in DOMAIN sent /\ push[p].line = sent[push[p].next - 1]
       /\ ServiceOf[push[p].line.from] = PushedService[p]
       /\ Given(sent, got[p], push[p].next - 1)

\* The channel only gets more lines.
LEMMA SentGrows ==
  ASSUME StoreTypeOK, HandsInv, NEW r \in Readers, ReaderStep(r)
  PROVE  /\ UNCHANGED <<push, got, viewer>>
         /\ Len(sent) \in Nat /\ Len(sent') \in Nat /\ Len(sent) <= Len(sent')
         /\ DOMAIN sent = 1 .. Len(sent) /\ DOMAIN sent' = 1 .. Len(sent')
         /\ \A k \in DOMAIN sent : k \in DOMAIN sent' /\ sent'[k] = sent[k]
<1>1. sent \in Seq(Entry) /\ Len(sent) \in Nat /\ DOMAIN sent = 1 .. Len(sent)
  BY LenProperties DEF StoreTypeOK
<1>2. CASE ReadLine(r) \/ Lookup(r) \/ CreateBuffer(r) \/ PushLine(r)
  BY <1>1, <1>2 DEF ReadLine, Lookup, CreateBuffer, PushLine
<1>3. CASE SendLine(r)
  <2>1. reader[r].line \in Entry /\ sent' = Append(sent, reader[r].line)
    BY <1>3 DEF SendLine, HandsInv
  <2>2. /\ sent' \in Seq(Entry) /\ Len(sent') = Len(sent) + 1
        /\ \A k \in 1 .. Len(sent) : sent'[k] = sent[k]
    BY <1>1, <2>1, AppendProperties
  <2>3. DOMAIN sent' = 1 .. Len(sent')
    BY <2>2, LenProperties
  <2> QED
    BY <1>1, <1>3, <2>2, <2>3 DEF SendLine
<1> QED
  BY <1>2, <1>3 DEF ReaderStep

\* A reader's step leaves the collectors what they have.
LEMMA ReaderPush ==
  ASSUME StoreTypeOK, FollowersTypeOK, HandsInv, NEW r \in Readers, ReaderStep(r),
         NEW p \in PushTasks, PushInv(p)
  PROVE  PushInv(p)'
<1>1. /\ push' = push /\ got' = got
      /\ Len(sent) \in Nat /\ Len(sent') \in Nat /\ Len(sent) <= Len(sent')
      /\ \A k \in DOMAIN sent : k \in DOMAIN sent' /\ sent'[k] = sent[k]
  BY SentGrows
<1>2. push[p].next \in Nat \ {0}
  BY DEF FollowersTypeOK, PushTask
<1>3. \A n : Given(sent, got[p], n) => Given(sent', got[p], n)
  BY <1>1 DEF Given
<1> QED
  BY <1>1, <1>2, <1>3 DEF PushInv

\* The record of a push task after one of its steps.
LEMMA TaskGoes ==
  ASSUME FollowersTypeOK, NEW p \in PushTasks, PushStep(p), viewer' = viewer,
         NEW rec \in PushTask, push' = [push EXCEPT ![p] = rec], NEW lines \in Seq(Entry),
         got' = [got EXCEPT ![p] = lines]
  PROVE  /\ FollowersTypeOK' /\ push'[p] = rec /\ got'[p] = lines
         /\ \A q \in PushTasks \ {p} : push'[q] = push[q] /\ got'[q] = got[q]
BY DEF FollowersTypeOK

\* A push task of which fields are changed.
Task(phase, next, line, connects) ==
  [phase |-> phase, next |-> next, line |-> line, connects |-> connects]

LEMMA TaskField ==
  ASSUME NEW t \in PushTask, NEW x
  PROVE  /\ [t EXCEPT !.phase = x] = Task(x, t.next, t.line, t.connects)
         /\ [t EXCEPT !.next = x] = Task(t.phase, x, t.line, t.connects)
BY DEF PushTask, Task

LEMMA TaskPhaseLine ==
  ASSUME NEW t \in PushTask, NEW x, NEW y
  PROVE  [t EXCEPT !.phase = x, !.line = y] = Task(x, t.next, y, t.connects)
<1> DEFINE one == [t EXCEPT !.phase = x]
<1>1. one = Task(x, t.next, t.line, t.connects)
  BY TaskField
<1> HIDE DEF one
<1>2. [one EXCEPT !.line = y] = Task(x, t.next, y, t.connects)
  BY <1>1 DEF Task
<1> QED
  BY <1>2 DEF one

LEMMA TaskPhaseConnects ==
  ASSUME NEW t \in PushTask, NEW x, NEW y
  PROVE  [t EXCEPT !.phase = x, !.connects = y] = Task(x, t.next, t.line, y)
<1> DEFINE one == [t EXCEPT !.phase = x]
<1>1. one = Task(x, t.next, t.line, t.connects)
  BY TaskField
<1> HIDE DEF one
<1>2. [one EXCEPT !.connects = y] = Task(x, t.next, t.line, y)
  BY <1>1 DEF Task
<1> QED
  BY <1>2 DEF one

LEMMA TaskNextPhaseLine ==
  ASSUME NEW t \in PushTask, NEW x, NEW y, NEW z
  PROVE  [t EXCEPT !.next = x, !.phase = y, !.line = z] = Task(y, x, z, t.connects)
<1> DEFINE one == [t EXCEPT !.next = x]
           two == [one EXCEPT !.phase = y]
<1>1. one = Task(t.phase, x, t.line, t.connects)
  BY TaskField
<1> HIDE DEF one
<1>2. two = Task(y, x, t.line, t.connects)
  BY <1>1 DEF Task
<1> HIDE DEF two
<1>3. [two EXCEPT !.line = z] = Task(y, x, z, t.connects)
  BY <1>2 DEF Task
<1> QED
  BY <1>3 DEF one, two

\* What the steps of a push task make of it.
LEMMA TaskSteps ==
  ASSUME FollowersTypeOK, NEW p \in PushTasks
  PROVE  LET t == push[p] IN
         /\ Connect(p) =>
              push' = [push EXCEPT ![p] = Task("listening", NextSent, t.line, t.connects + 1)]
         /\ ConnectFails(p) =>
              push' = [push EXCEPT ![p] = Task("waiting", t.next, t.line, t.connects + 1)]
         /\ DelayOver(p) =>
              push' = [push EXCEPT ![p] = Task("connecting", t.next, t.line, t.connects)]
         /\ WriteLine(p) =>
              \E phase \in {"listening", "waiting"} :
                push' = [push EXCEPT ![p] = Task(phase, t.next, NoLine, t.connects)]
<1>1. push[p] \in PushTask
  BY DEF FollowersTypeOK
<1>2. ASSUME Connect(p)
      PROVE  push' = [push EXCEPT ![p] =
                        Task("listening", NextSent, push[p].line, push[p].connects + 1)]
  <2> DEFINE t == push[p]
             z == t.connects + 1
  <2>1. [t EXCEPT !.phase = "listening", !.next = NextSent, !.connects = z] =
          Task("listening", NextSent, t.line, z)
    <3> DEFINE one == [t EXCEPT !.phase = "listening"]
               two == [one EXCEPT !.next = NextSent]
    <3>1. one = Task("listening", t.next, t.line, t.connects)
      BY <1>1, TaskField
    <3> HIDE DEF one, z
    <3>2. two = Task("listening", NextSent, t.line, t.connects)
      BY <3>1 DEF Task
    <3> HIDE DEF two
    <3>3. [two EXCEPT !.connects = z] = Task("listening", NextSent, t.line, z)
      BY <3>2 DEF Task
    <3> QED
      BY <3>3 DEF one, two
  <2> QED
    BY <1>2, <2>1 DEF Connect
<1>3. ASSUME ConnectFails(p)
      PROVE  push' = [push EXCEPT ![p] =
                        Task("waiting", push[p].next, push[p].line, push[p].connects + 1)]
  <2>1. [push[p] EXCEPT !.phase = "waiting", !.connects = push[p].connects + 1] =
          Task("waiting", push[p].next, push[p].line, push[p].connects + 1)
    BY <1>1, TaskPhaseConnects
  <2> QED
    BY <1>3, <2>1 DEF ConnectFails
<1>4. ASSUME DelayOver(p)
      PROVE  push' = [push EXCEPT ![p] =
                        Task("connecting", push[p].next, push[p].line, push[p].connects)]
  <2>1. push' = [push EXCEPT ![p] = [push[p] EXCEPT !.phase = "connecting"]]
    BY <1>4 DEF DelayOver
  <2> QED
    BY <1>1, <2>1, TaskField
<1>5. ASSUME WriteLine(p)
      PROVE  \E phase \in {"listening", "waiting"} :
               push' = [push EXCEPT ![p] = Task(phase, push[p].next, NoLine, push[p].connects)]
  <2>1. PICK phase \in {"listening", "waiting"} :
           push' = [push EXCEPT ![p] = [push[p] EXCEPT !.phase = phase, !.line = NoLine]]
    BY <1>5 DEF WriteLine
  <2>2. push' = [push EXCEPT ![p] = Task(phase, push[p].next, NoLine, push[p].connects)]
    BY <1>1, <2>1, TaskPhaseLine
  <2> QED
    BY <2>2
<1> QED
  BY <1>2, <1>3, <1>4, <1>5

\* What it becomes when it takes a line.
LEMMA TaskTakes ==
  ASSUME FollowersTypeOK, NEW p \in PushTasks, TakeLine(p)
  PROVE  LET t == push[p]
             line == sent[t.next]
             mine == ServiceOf[line.from] = PushedService[p] IN
         /\ t.next < Oldest =>
              push' = [push EXCEPT ![p] = Task("listening", Oldest, t.line, t.connects)]
         /\ ~(t.next < Oldest) /\ ~ mine =>
              push' = [push EXCEPT ![p] = Task("listening", t.next + 1, t.line, t.connects)]
         /\ ~(t.next < Oldest) /\ mine =>
              push' = [push EXCEPT ![p] = Task("writing", t.next + 1, line, t.connects)]
<1> DEFINE t == push[p]
           line == sent[t.next]
           mine == ServiceOf[line.from] = PushedService[p]
<1>1. t \in PushTask /\ t.phase = "listening"
  BY DEF FollowersTypeOK, TakeLine
<1>2. ASSUME t.next < Oldest
      PROVE  push' = [push EXCEPT ![p] = Task("listening", Oldest, t.line, t.connects)]
  <2>1. [t EXCEPT !.next = Oldest] = Task("listening", Oldest, t.line, t.connects)
    BY <1>1, TaskField
  <2> QED
    BY <1>2, <2>1 DEF TakeLine
<1>3. ASSUME ~(t.next < Oldest), ~ mine
      PROVE  push' = [push EXCEPT ![p] = Task("listening", t.next + 1, t.line, t.connects)]
  <2>1. [t EXCEPT !.next = t.next + 1] = Task("listening", t.next + 1, t.line, t.connects)
    BY <1>1, TaskField
  <2> QED
    BY <1>3, <2>1 DEF TakeLine
<1>4. ASSUME ~(t.next < Oldest), mine
      PROVE  push' = [push EXCEPT ![p] = Task("writing", t.next + 1, line, t.connects)]
  <2>1. [t EXCEPT !.next = t.next + 1, !.phase = "writing", !.line = line] =
          Task("writing", t.next + 1, line, t.connects)
    <3> DEFINE x == t.next + 1
               y == "writing"
    <3>1. t \in PushTask
      BY <1>1
    <3> HIDE DEF t, x, y, line
    <3>2. [t EXCEPT !.next = x, !.phase = y, !.line = line] = Task(y, x, line, t.connects)
      BY <3>1, TaskNextPhaseLine
    <3> QED
      BY <3>2 DEF x, y
  <2> QED
    BY <1>4, <2>1 DEF TakeLine
<1> QED
  BY <1>2, <1>3, <1>4

\* The steps of a push task keep the types and the order.
LEMMA PushSteps ==
  ASSUME StoreTypeOK, FollowersTypeOK, SentInv, NEW p \in PushTasks, PushInv(p), PushStep(p)
  PROVE  /\ UNCHANGED <<storeVars, viewer>>
         /\ FollowersTypeOK' /\ PushInv(p)'
         /\ \A q \in PushTasks \ {p} : push'[q] = push[q] /\ got'[q] = got[q]
<1>1. /\ push[p] \in PushTask /\ got[p] \in Seq(Entry)
      /\ push[p].next \in Nat \ {0} /\ push[p].connects \in Nat
      /\ push[p].line \in Entry \cup {NoLine}
  BY DEF FollowersTypeOK, PushTask
<1>2. /\ sent \in Seq(Entry) /\ Len(sent) \in Nat /\ DOMAIN sent = 1 .. Len(sent)
      /\ \A k \in DOMAIN sent : sent[k] \in Entry
  BY LenProperties, ElementOfSeq DEF StoreTypeOK
<1>3. UNCHANGED <<storeVars, viewer>> /\ sent' = sent
  BY DEF PushStep, Connect, ConnectFails, TakeLine, WriteLine, DelayOver, storeVars
<1>4. got = [got EXCEPT ![p] = got[p]]
  BY DEF FollowersTypeOK
<1>5. Oldest \in Nat \ {0} /\ Oldest <= Len(sent) + 1
  BY <1>2, LogBoundsAssumption DEF Oldest
<1>7. ASSUME NEW m \in Nat, NEW n \in Nat, m <= n, NEW lines, Given(sent, lines, m)
      PROVE  Given(sent, lines, n)
  BY <1>2, <1>7 DEF Given
<1>8. ASSUME NEW rec \in PushTask, push' = [push EXCEPT ![p] = rec], got' = got,
             rec.phase # "writing", Given(sent, got[p], rec.next), rec.next <= Len(sent) + 1
      PROVE  /\ FollowersTypeOK' /\ PushInv(p)'
             /\ \A q \in PushTasks \ {p} : push'[q] = push[q] /\ got'[q] = got[q]
  <2>1. /\ FollowersTypeOK' /\ push'[p] = rec /\ got'[p] = got[p]
        /\ \A q \in PushTasks \ {p} : push'[q] = push[q] /\ got'[q] = got[q]
    BY <1>1, <1>3, <1>4, <1>8, TaskGoes
  <2> QED
    BY <1>3, <1>8, <2>1 DEF PushInv
<1>9. CASE Connect(p) \/ ConnectFails(p) \/ DelayOver(p)
  <2>1. PICK phase, next, connects :
           /\ push' = [push EXCEPT ![p] = Task(phase, next, push[p].line, connects)]
           /\ phase \in {"listening", "waiting", "connecting"}
           /\ next \in Nat \ {0} /\ connects \in Nat
           /\ next = push[p].next \/ next = Len(sent) + 1
    <3>1. /\ NextSent \in Nat \ {0} /\ NextSent = Len(sent) + 1 /\ push[p].connects + 1 \in Nat
      BY <1>1, <1>2 DEF NextSent
    <3>2. CASE Connect(p)
      BY <3>1, <3>2, TaskSteps
    <3>3. CASE ConnectFails(p)
      BY <1>1, <3>1, <3>3, TaskSteps
    <3>4. CASE DelayOver(p)
      BY <1>1, <3>4, TaskSteps
    <3> QED
      BY <1>9, <3>2, <3>3, <3>4
  <2>2. push[p].phase # "writing" /\ got' = got
    BY <1>9 DEF Connect, ConnectFails, DelayOver
  <2> DEFINE rec == Task(phase, next, push[p].line, connects)
  <2>3. /\ rec \in PushTask /\ rec.phase # "writing" /\ rec.next = next
        /\ next <= Len(sent) + 1
    BY <1>1, <1>2, <2>1 DEF PushInv, PushTask, Task
  <2>4. Given(sent, got[p], next)
    <3>1. Given(sent, got[p], push[p].next) /\ push[p].next <= Len(sent) + 1
      BY <2>2 DEF PushInv
    <3> QED
      BY <1>1, <1>2, <1>7, <2>1, <3>1
  <2>5. push' = [push EXCEPT ![p] = rec]
    BY <2>1
  <2> HIDE DEF rec
  <2> QED
    BY <1>3, <1>8, <2>2, <2>3, <2>4, <2>5
<1>10. CASE TakeLine(p)
  <2>1. push[p].phase = "listening" /\ push[p].next <= Len(sent) /\ got' = got
    BY <1>10 DEF TakeLine
  <2>2. Given(sent, got[p], push[p].next)
    BY <2>1 DEF PushInv
  <2> DEFINE line == sent[push[p].next]
             n == push[p].next
             mine == ServiceOf[line.from] = PushedService[p]
  <2>3. n \in DOMAIN sent /\ line \in Entry
    BY <1>1, <1>2, <2>1
  <2>4. CASE n < Oldest
    <3> DEFINE rec == Task("listening", Oldest, push[p].line, push[p].connects)
    <3>1. push' = [push EXCEPT ![p] = rec]
      BY <1>10, <2>4, TaskTakes
    <3>2. Given(sent, got[p], Oldest)
      BY <1>1, <1>5, <1>7, <2>2, <2>4
    <3>3. rec \in PushTask /\ rec.phase # "writing" /\ rec.next = Oldest
      BY <1>1, <1>5 DEF PushTask, Task
    <3> HIDE DEF rec
    <3> QED
      BY <1>3, <1>5, <1>8, <2>1, <3>1, <3>2, <3>3
  <2>5. CASE ~(n < Oldest) /\ ~ mine
    <3> DEFINE rec == Task("listening", n + 1, push[p].line, push[p].connects)
    <3>1. push' = [push EXCEPT ![p] = rec]
      BY <1>10, <2>5, TaskTakes
    <3>2. Given(sent, got[p], n + 1) /\ n + 1 <= Len(sent) + 1
      <4>1. n \in Nat /\ n + 1 \in Nat /\ n <= n + 1 /\ n + 1 <= Len(sent) + 1
        BY <1>1, <1>2, <2>1
      <4> HIDE DEF n
      <4> QED
        BY <1>7, <2>2, <4>1 DEF n
    <3>3. rec \in PushTask /\ rec.phase # "writing" /\ rec.next = n + 1
      BY <1>1 DEF PushTask, Task
    <3> HIDE DEF rec, n
    <3> QED
      BY <1>3, <1>8, <2>1, <3>1, <3>2, <3>3
  <2>6. CASE ~(n < Oldest) /\ mine
    <3> DEFINE rec == Task("writing", n + 1, line, push[p].connects)
    <3>1. push' = [push EXCEPT ![p] = rec]
      BY <1>10, <2>6, TaskTakes
    <3>2. /\ rec \in PushTask /\ rec.phase = "writing" /\ rec.next = n + 1
          /\ rec.line = line /\ n + 1 - 1 = n /\ n + 1 <= Len(sent) + 1
      BY <1>1, <1>2, <2>1, <2>3 DEF PushTask, Task
    <3> HIDE DEF rec
    <3>3. /\ FollowersTypeOK' /\ push'[p] = rec /\ got'[p] = got[p]
          /\ \A q \in PushTasks \ {p} : push'[q] = push[q] /\ got'[q] = got[q]
      BY <1>1, <1>3, <1>4, <2>1, <3>1, <3>2, TaskGoes
    <3>4. Given(sent, got[p], n) /\ InOrderOfStream(got[p])
          /\ \A i \in DOMAIN got[p] : ServiceOf[got[p][i].from] = PushedService[p]
      BY <2>2, <3>3 DEF PushInv
    <3>9. n \in Nat /\ ServiceOf[line.from] = PushedService[p] /\ line = sent[n]
      BY <1>1, <2>6
    <3> HIDE DEF n, line, mine
    <3>5. PushInv(p)'
      <4>1. /\ push'[p].phase = "writing" /\ push'[p].next = n + 1 /\ push'[p].line = line
            /\ n + 1 <= Len(sent') + 1 /\ push'[p].next - 1 = n /\ n \in DOMAIN sent'
            /\ line = sent'[n]
            /\ ServiceOf[line.from] = PushedService[p]
        BY <1>3, <2>3, <3>2, <3>3, <3>9
      <4> QED
        BY <1>3, <3>3, <3>4, <4>1 DEF PushInv
    <3> QED
      BY <1>3, <3>3, <3>5
  <2> QED
    BY <2>4, <2>5, <2>6
<1>11. CASE WriteLine(p)
  <2> DEFINE line == push[p].line
             n == push[p].next - 1
  <2>1. /\ push[p].phase = "writing" /\ n \in DOMAIN sent /\ line = sent[n]
        /\ ServiceOf[line.from] = PushedService[p] /\ Given(sent, got[p], n) /\ line \in Entry
        /\ n + 1 = push[p].next
    BY <1>1, <1>2, <1>11 DEF WriteLine, PushInv
  <2>2. PICK phase \in {"listening", "waiting"} :
           push' = [push EXCEPT ![p] = Task(phase, push[p].next, NoLine, push[p].connects)]
    BY <1>11, TaskSteps
  <2> DEFINE rec == Task(phase, push[p].next, NoLine, push[p].connects)
             more == Append(got[p], line)
  <2>3. rec \in PushTask /\ rec.phase # "writing" /\ rec.next = push[p].next
    BY <1>1 DEF PushTask, Task
  <2>4. CASE got' = got
    <3>1. Given(sent, got[p], push[p].next)
      BY <1>1, <1>2, <1>7, <2>1
    <3> HIDE DEF rec
    <3> QED
      BY <1>3, <1>8, <2>2, <2>3, <2>4, <3>1 DEF PushInv, rec
  <2>5. CASE got' = [got EXCEPT ![p] = more]
    <3>1. /\ DOMAIN more = DOMAIN got[p] \cup {Len(got[p]) + 1}
          /\ \A i \in DOMAIN got[p] : more[i] = got[p][i]
          /\ more[Len(got[p]) + 1] = line
      <4> HIDE DEF line
      <4> QED BY <1>1, <2>1, AppendElements
    <3>2. more \in Seq(Entry)
      <4> HIDE DEF line
      <4> QED BY <1>1, <2>1, AppendProperties
    <3>3. Behind(got[p], line)
      <4>1. ASSUME NEW i \in DOMAIN got[p], got[p][i].from = line.from
            PROVE  got[p][i].time < line.time
        <5>1. PICK k \in DOMAIN sent : k < n /\ got[p][i] = sent[k]
          BY <2>1 DEF Given
        <5> QED
          BY <2>1, <4>1, <5>1 DEF SentInv, InOrderOfStream
      <4> QED
        BY <4>1 DEF Behind
    <3>4. InOrderOfStream(more)
      <4>1. InOrderOfStream(got[p])
        BY DEF PushInv
      <4> HIDE DEF line
      <4> QED BY <1>1, <2>1, <3>3, <4>1, AppendInOrder
    <3>5. Given(sent, more, push[p].next)
      <4>1. n < push[p].next /\ \A k \in DOMAIN sent : k < n => k < push[p].next
        BY <1>1, <1>2, <2>1
      <4> HIDE DEF more, n, line
      <4> QED
        BY <2>1, <3>1, <4>1 DEF Given
    <3>6. \A i \in DOMAIN more : ServiceOf[more[i].from] = PushedService[p]
      <4> HIDE DEF more, line
      <4> QED
        BY <2>1, <3>1 DEF PushInv
    <3> HIDE DEF more, rec
    <3>7. /\ FollowersTypeOK' /\ push'[p] = rec /\ got'[p] = more
          /\ \A q \in PushTasks \ {p} : push'[q] = push[q] /\ got'[q] = got[q]
      BY <1>3, <2>2, <2>3, <2>5, <3>2, TaskGoes DEF rec
    <3> QED
      BY <1>3, <2>3, <3>4, <3>5, <3>6, <3>7 DEF PushInv
  <2> QED
    BY <1>11, <2>4, <2>5 DEF WriteLine
<1> QED
  BY <1>3, <1>9, <1>10, <1>11 DEF PushStep

-----------------------------------------------------------------------------
(* What is kept was pushed.                                                *)

StoredInv == \A b \in DOMAIN buffers : ToSet(buffers[b].lines) \subseteq ToSet(pushed[buffers[b].of])

\* The elements of a sequence with one more, and of a buffer.
LEMMA AppendSet ==
  ASSUME NEW lines \in Seq(Entry), NEW line \in Entry
  PROVE  ToSet(Append(lines, line)) = ToSet(lines) \cup {line}
<1>1. /\ DOMAIN Append(lines, line) = DOMAIN lines \cup {Len(lines) + 1}
      /\ \A i \in DOMAIN lines : Append(lines, line)[i] = lines[i]
      /\ Append(lines, line)[Len(lines) + 1] = line
  BY AppendElements
<1> DEFINE more == Append(lines, line)
<1> HIDE DEF more
<1> QED
  BY <1>1 DEF ToSet, more

LEMMA TailElements ==
  ASSUME NEW lines \in Seq(Entry), lines # <<>>
  PROVE  /\ Tail(lines) \in Seq(Entry) /\ Len(Tail(lines)) = Len(lines) - 1 /\ Len(lines) \in Nat
         /\ \A i \in DOMAIN Tail(lines) : i + 1 \in DOMAIN lines /\ Tail(lines)[i] = lines[i + 1]
         /\ ToSet(Tail(lines)) \subseteq ToSet(lines)
<1>1. /\ Tail(lines) \in Seq(Entry) /\ Len(Tail(lines)) = Len(lines) - 1 /\ Len(lines) \in Nat
      /\ \A i \in 1 .. Len(Tail(lines)) : Tail(lines)[i] = lines[i + 1]
  BY HeadTailProperties, LenProperties
<1>2. DOMAIN Tail(lines) = 1 .. Len(Tail(lines)) /\ DOMAIN lines = 1 .. Len(lines)
  BY <1>1, LenProperties
<1>3. \A i \in DOMAIN Tail(lines) : i + 1 \in DOMAIN lines /\ Tail(lines)[i] = lines[i + 1]
  BY <1>1, <1>2
<1> QED
  BY <1>1, <1>3 DEF ToSet

LEMMA PushSet ==
  ASSUME NEW lines \in Seq(Entry), NEW line \in Entry
  PROVE  ToSet(Push(lines, line)) \subseteq ToSet(lines) \cup {line}
<1>1. Len(lines) \in Nat /\ BufferCapacity \in Nat \ {0}
  BY LenProperties, LogBoundsAssumption
<1>2. CASE Len(lines) >= BufferCapacity
  <2>1. lines # <<>>
    BY <1>1, <1>2, EmptySeq
  <2>2. Tail(lines) \in Seq(Entry) /\ ToSet(Tail(lines)) \subseteq ToSet(lines)
    BY <2>1, TailElements
  <2>3. ToSet(Append(Tail(lines), line)) = ToSet(Tail(lines)) \cup {line}
    BY <2>2, AppendSet
  <2> QED
    BY <1>2, <2>2, <2>3 DEF Push
<1>3. CASE ~(Len(lines) >= BufferCapacity)
  BY <1>3, AppendSet DEF Push
<1> QED
  BY <1>2, <1>3

\* A reader's step keeps it so.
LEMMA ReaderStored ==
  ASSUME StoreTypeOK, HandsInv, StoredInv, NEW r \in Readers, ReaderStep(r)
  PROVE  StoredInv'
<1>1. CASE ReadLine(r) \/ Lookup(r) \/ SendLine(r)
  <2>1. buffers' = buffers /\ pushed' = pushed
    BY <1>1 DEF ReadLine, Lookup, SendLine
  <2> QED
    BY <2>1 DEF StoredInv
<1>2. CASE CreateBuffer(r)
  <2>1. /\ DOMAIN buffers' = DOMAIN buffers \cup {Len(buffers')}
        /\ \A b \in DOMAIN buffers : buffers'[b] = buffers[b]
        /\ buffers'[Len(buffers')].lines = <<>>
    <3> DEFINE n == Len(buffers')
    <3>1. /\ DOMAIN buffers' = DOMAIN buffers \cup {n}
          /\ \A b \in DOMAIN buffers : buffers'[b] = buffers[b]
          /\ buffers'[n] = [of |-> ServiceOf[r], lines |-> <<>>]
      BY <1>2, CreateTypes
    <3> HIDE DEF n
    <3>2. buffers'[n].lines = <<>>
      BY <3>1
    <3> QED
      BY <3>1, <3>2 DEF n
  <2>3. pushed' = pushed
    BY <1>2 DEF CreateBuffer
  <2>2. ToSet(<<>>) = {}
    BY EmptySeq DEF ToSet
  <2> QED
    BY <2>1, <2>2, <2>3 DEF StoredInv
<1>3. CASE PushLine(r)
  <2> DEFINE b == reader[r].buffer
             s == ServiceOf[r]
             line == reader[r].line
  <2>1. /\ b \in DOMAIN buffers /\ buffers[b].of = s /\ line \in Entry
        /\ DOMAIN buffers' = DOMAIN buffers
        /\ \A c \in DOMAIN buffers : /\ buffers'[c].of = buffers[c].of
                                     /\ c # b => buffers'[c] = buffers[c]
        /\ buffers'[b].lines = Push(buffers[b].lines, line)
        /\ s \in Services /\ pushed[s] \in Seq(Entry)
        /\ \A t \in Services : pushed'[t] = IF t = s THEN Append(pushed[s], line) ELSE pushed[t]
    BY <1>3, PushTypes
  <2> HIDE DEF b, s, line
  <2>2. \A c \in DOMAIN buffers : buffers[c].of \in Services /\ buffers[c].lines \in Seq(Entry)
    BY BuffersTypes
  <2>3. ToSet(pushed'[s]) = ToSet(pushed[s]) \cup {line}
    BY <2>1, AppendSet
  <2>4. \A t \in Services : ToSet(pushed[t]) \subseteq ToSet(pushed'[t])
    BY <2>1, <2>3
  <2>5. ToSet(buffers'[b].lines) \subseteq ToSet(buffers[b].lines) \cup {line}
    BY <2>1, <2>2, PushSet
  <2>6. ASSUME NEW c \in DOMAIN buffers
        PROVE  ToSet(buffers'[c].lines) \subseteq ToSet(pushed'[buffers'[c].of])
    <3>1. CASE c = b
      BY <2>1, <2>3, <2>5, <3>1 DEF StoredInv
    <3>2. CASE c # b
      BY <2>1, <2>2, <2>4, <3>2 DEF StoredInv
    <3> QED
      BY <3>1, <3>2
  <2> QED
    BY <2>1, <2>6 DEF StoredInv
<1> QED
  BY <1>1, <1>2, <1>3 DEF ReaderStep

-----------------------------------------------------------------------------
(* vigil logs -f: what it shows first is behind what it is given later.     *)

Settled(line) ==
  \A i \in DOMAIN viewer.tail : viewer.tail[i].from = line.from =>
    \/ viewer.tail[i].time < line.time
    \/ viewer.tail[i] = line /\ viewer.tail[i] \in viewer.unsent

LiveSent ==
  \A j \in DOMAIN viewer.live : \E k \in DOMAIN sent :
    viewer.since <= k /\ k < viewer.next /\ viewer.live[j] = sent[k]

ViewInv ==
  /\ viewer.since <= viewer.next /\ viewer.next <= Len(sent) + 1
  /\ viewer.phase # "following" => viewer.live = <<>> /\ viewer.skipped = 0
  /\ InOrderOfStream(viewer.tail) /\ InOrderOfStream(viewer.live)
  /\ LiveSent
  /\ Read(viewer.tail)
  /\ \A r \in Readers : reader[r].phase # "reading" => Settled(reader[r].line)
  /\ viewer.phase = "following" =>
       \A k \in DOMAIN sent : viewer.since <= k => Settled(sent[k])

\* The types of its fields.
LEMMA ViewerFields ==
  ASSUME FollowersTypeOK
  PROVE  /\ viewer \in LogViewer
         /\ viewer.phase \in {"absent", "start", "shown", "following"}
         /\ viewer.next \in Nat \ {0} /\ viewer.since \in Nat \ {0} /\ viewer.skipped \in Nat
         /\ viewer.tail \in Seq(Entry) /\ viewer.live \in Seq(Entry)
BY DEF FollowersTypeOK, LogViewer

\* A reader's step keeps it so.
LEMMA ReaderView ==
  ASSUME StoreTypeOK, FollowersTypeOK, HandsInv, SentInv, ViewInv, NEW r \in Readers, ReaderStep(r)
  PROVE  ViewInv'
<1>1. /\ viewer' = viewer
      /\ Len(sent) \in Nat /\ Len(sent') \in Nat /\ Len(sent) <= Len(sent')
      /\ \A k \in DOMAIN sent : k \in DOMAIN sent' /\ sent'[k] = sent[k]
  BY SentGrows
<1>2. /\ reader'[r] = ReaderAfter(r) /\ \A q \in Readers \ {r} : reader'[q] = reader[q]
      /\ clock \in Nat /\ sent \in Seq(Entry)
  BY OneMoves DEF StoreTypeOK
<1>3. viewer.next \in Nat \ {0} /\ viewer.tail \in Seq(Entry)
  BY ViewerFields
<1>4. \A line : Settled(line)' <=> Settled(line)
  BY <1>1 DEF Settled
<1>5. viewer.next <= Len(sent') + 1
  BY <1>1, <1>3 DEF ViewInv
<1>6. LiveSent'
  BY <1>1 DEF ViewInv, LiveSent
<1>7. CASE ReadLine(r)
  <2>1. /\ clock' = clock + 1 /\ sent' = sent
        /\ reader'[r].line = [from |-> r, time |-> clock + 1]
    BY <1>2, <1>7 DEF ReadLine, Now, ReaderAfter
  <2>2. \A i \in DOMAIN viewer.tail : viewer.tail[i].time \in Nat /\ viewer.tail[i].time <= clock
    BY <1>3, Elements DEF ViewInv, Read
  <2>3. \A i \in DOMAIN viewer.tail : /\ viewer.tail[i].time < clock + 1
                                      /\ viewer.tail[i].time <= clock'
    BY <1>2, <2>1, <2>2
  <2>4. Read(viewer.tail)'
    BY <1>1, <2>3 DEF Read
  <2>5. Settled(reader'[r].line)
    BY <2>1, <2>3 DEF Settled
  <2>6. ASSUME NEW q \in Readers, reader'[q].phase # "reading"
        PROVE  Settled(reader'[q].line)
    BY <1>2, <2>5, <2>6 DEF ViewInv
  <2>7. \A q \in Readers : reader'[q].phase # "reading" => Settled(reader[q].line)'
    BY <1>1, <2>6 DEF Settled
  <2>8. \A k \in DOMAIN sent : Settled(sent[k])' <=> Settled(sent[k])
    BY <1>1, <2>1 DEF Settled
  <2> QED
    BY <1>1, <1>5, <1>6, <2>1, <2>4, <2>7, <2>8 DEF ViewInv
<1>8. CASE Lookup(r) \/ CreateBuffer(r) \/ PushLine(r)
  <2>1. reader'[r].line = reader[r].line /\ reader[r].phase # "reading"
    BY <1>2, <1>8 DEF Lookup, CreateBuffer, PushLine, ReaderAfter
  <2>2. clock' = clock /\ sent' = sent
    BY <1>8 DEF Lookup, CreateBuffer, PushLine
  <2>3. Read(viewer.tail)'
    BY <1>1, <2>2 DEF ViewInv, Read
  <2>4. ASSUME NEW q \in Readers, reader'[q].phase # "reading"
        PROVE  Settled(reader'[q].line)
    BY <1>2, <2>1, <2>4 DEF ViewInv
  <2>5. \A q \in Readers : reader'[q].phase # "reading" => Settled(reader[q].line)'
    BY <1>1, <2>4 DEF Settled
  <2>6. \A k \in DOMAIN sent : Settled(sent[k])' <=> Settled(sent[k])
    BY <1>1, <2>2 DEF Settled
  <2> QED
    BY <1>1, <1>5, <1>6, <2>2, <2>3, <2>5, <2>6 DEF ViewInv
<1>9. CASE SendLine(r)
  <2> DEFINE line == reader[r].line
  <2>1. /\ clock' = clock /\ sent' = Append(sent, line) /\ reader'[r].phase = "reading"
        /\ line \in Entry /\ Settled(line)
    BY <1>2, <1>9 DEF SendLine, ReaderAfter, HandsInv, ViewInv
  <2>2. Read(viewer.tail)'
    BY <1>1, <2>1 DEF ViewInv, Read
  <2>3. ASSUME NEW q \in Readers, reader'[q].phase # "reading"
        PROVE  Settled(reader'[q].line)
    BY <1>2, <2>1, <2>3 DEF ViewInv
  <2>4. \A q \in Readers : reader'[q].phase # "reading" => Settled(reader[q].line)'
    BY <1>1, <2>3 DEF Settled
  <2> HIDE DEF line
  <2>5. /\ DOMAIN sent' = DOMAIN sent \cup {Len(sent) + 1}
        /\ \A k \in DOMAIN sent : sent'[k] = sent[k]
        /\ sent'[Len(sent) + 1] = line
    BY <1>2, <2>1, AppendElements
  <2>6. ASSUME viewer.phase = "following", NEW k \in DOMAIN sent', viewer.since <= k
        PROVE  Settled(sent'[k])
    BY <2>1, <2>5, <2>6 DEF ViewInv
  <2>7. viewer.phase = "following" =>
          \A k \in DOMAIN sent' : viewer.since <= k => Settled(sent[k])'
    BY <1>1, <2>6 DEF Settled
  <2> QED
    BY <1>1, <1>5, <1>6, <2>2, <2>4, <2>7 DEF ViewInv
<1> QED
  BY <1>7, <1>8, <1>9 DEF ReaderStep

\* The first lines are shown.
LEMMA ShowView ==
  ASSUME StoreTypeOK, FollowersTypeOK, HandsInv, SentInv, PushedInv, StoredInv, ViewInv, GetLogs
  PROVE  FollowersTypeOK' /\ ViewInv'
<1> DEFINE s == ViewedService
<1>1. PICK shown \in UNION {[1 .. k -> ToSet(Kept(s))] : k \in 0 .. TailLines} :
         /\ IsTail(shown, s, TailLines)
         /\ viewer' = [viewer EXCEPT !.phase = "shown", !.tail = shown,
                                     !.unsent = {line \in ToSet(shown) :
                                                   \A i \in DOMAIN sent : sent[i] # line}]
  BY DEF GetLogs
<1> DEFINE unsent == {line \in ToSet(shown) : \A i \in DOMAIN sent : sent[i] # line}
<1>2. UNCHANGED <<storeVars, push, got>> /\ viewer.phase = "start"
  BY DEF GetLogs
<1>3. s \in Services /\ pushed[s] \in Seq(Entry)
  BY LogReadersAssumption DEF StoreTypeOK
<1>4. ToSet(Kept(s)) \subseteq ToSet(pushed[s])
  <2>1. CASE current[s] = NoBuffer
    <3>1. ToSet(<<>>) = {}
      BY EmptySeq DEF ToSet
    <3> QED
      BY <2>1, <3>1 DEF Kept
  <2>2. CASE current[s] # NoBuffer
    <3>1. current[s] \in DOMAIN buffers /\ buffers[current[s]].of = s
      BY <1>3, <2>2 DEF StoreTypeOK, HandsInv
    <3>2. Kept(s) = buffers[current[s]].lines
      BY <2>2 DEF Kept
    <3> QED
      BY <3>1, <3>2 DEF StoredInv
  <2> QED
    BY <2>1, <2>2
<1>5. \A line \in ToSet(pushed[s]) : \E j \in DOMAIN pushed[s] : line = pushed[s][j]
  BY DEF ToSet
<1>6. ToSet(pushed[s]) \subseteq Entry
  BY <1>3, <1>5, Elements
<1>7. shown \in Seq(Entry) /\ \A i \in DOMAIN shown : shown[i] \in ToSet(pushed[s])
  <2>1. PICK k \in 0 .. TailLines : shown \in [1 .. k -> ToSet(Kept(s))]
    BY <1>1
  <2>2. k \in Nat /\ shown \in [1 .. k -> Entry]
    BY <1>4, <1>6, <2>1, LogBoundsAssumption
  <2>3. DOMAIN shown = 1 .. k /\ \A i \in 1 .. k : shown[i] \in ToSet(Kept(s))
    BY <2>1
  <2>4. shown \in Seq(Entry)
    BY <2>2, IsASeq
  <2> QED
    BY <1>4, <2>3, <2>4
<1>8. unsent \subseteq Entry
  BY <1>6, <1>7 DEF ToSet
<1>9. /\ viewer'.phase = "shown" /\ viewer'.tail = shown /\ viewer'.unsent = unsent
      /\ viewer'.next = viewer.next /\ viewer'.since = viewer.since /\ viewer'.live = viewer.live
      /\ viewer'.skipped = viewer.skipped
      /\ viewer' \in LogViewer
  <2>1. /\ viewer.next \in Nat \ {0} /\ viewer.since \in Nat \ {0} /\ viewer.skipped \in Nat
        /\ viewer.live \in Seq(Entry) /\ viewer \in LogViewer
    BY ViewerFields
  <2> HIDE DEF unsent
  <2>2. viewer' = [viewer EXCEPT !.phase = "shown", !.tail = shown, !.unsent = unsent]
    BY <1>1 DEF unsent
  <2>3. viewer' = [phase |-> "shown", next |-> viewer.next, since |-> viewer.since,
                   tail |-> shown, live |-> viewer.live, unsent |-> unsent,
                   skipped |-> viewer.skipped]
    <3> DEFINE one == [viewer EXCEPT !.phase = "shown"]
               two == [one EXCEPT !.tail = shown]
    <3>1. one = [phase |-> "shown", next |-> viewer.next, since |-> viewer.since,
                 tail |-> viewer.tail, live |-> viewer.live, unsent |-> viewer.unsent,
                 skipped |-> viewer.skipped]
      BY <2>1 DEF LogViewer
    <3> HIDE DEF one
    <3>2. two = [phase |-> "shown", next |-> viewer.next, since |-> viewer.since,
                 tail |-> shown, live |-> viewer.live, unsent |-> viewer.unsent,
                 skipped |-> viewer.skipped]
      BY <3>1
    <3> HIDE DEF two
    <3>3. [two EXCEPT !.unsent = unsent] =
                [phase |-> "shown", next |-> viewer.next, since |-> viewer.since,
                 tail |-> shown, live |-> viewer.live, unsent |-> unsent,
                 skipped |-> viewer.skipped]
      BY <3>2
    <3> QED
      BY <2>2, <3>3 DEF one, two
  <2> QED
    BY <1>7, <1>8, <2>1, <2>3 DEF LogViewer
<1> HIDE DEF unsent
<1>10. FollowersTypeOK'
  BY <1>2, <1>9 DEF FollowersTypeOK
<1>11. InOrderOfStream(shown)
  BY <1>1 DEF IsTail, InOrderOfStream
<1>12. \A i \in DOMAIN shown : shown[i].time <= clock
  BY <1>3, <1>5, <1>7 DEF PushedInv, PushedOrder, Read
<1>13. ASSUME NEW r \in Readers, reader[r].phase # "reading",
              NEW i \in DOMAIN shown, shown[i].from = reader[r].line.from
       PROVE  \/ shown[i].time < reader[r].line.time
              \/ shown[i] = reader[r].line /\ shown[i] \in unsent
  <2> DEFINE line == reader[r].line
  <2>1. PICK j \in DOMAIN pushed[s] : shown[i] = pushed[s][j]
    BY <1>5, <1>7
  <2>2. line \in Entry /\ line.from = r /\ Behind(sent, line) /\ line.time \in Nat
    BY <1>13 DEF HandsInv, SentInv, Entry
  <2>3. ServiceOf[r] = s
    BY <1>3, <1>13, <2>1, <2>2 DEF PushedInv, PushedOrder
  <2>4. reader[r].phase \in Unpushed \/ reader[r].phase = "sending"
    BY <1>13 DEF StoreTypeOK, Reader, Phases, Unpushed
  <2>5. shown[i].time < line.time \/ shown[i] = line
    BY <1>13, <2>1, <2>3, <2>4 DEF PushedInv, PushedBehind, Behind, UpTo
  <2>6. \A k \in DOMAIN sent : sent[k] # line
    BY <2>2 DEF Behind
  <2>7. shown[i] = line => shown[i] \in unsent
    BY <2>6 DEF unsent, ToSet
  <2> QED
    BY <2>5, <2>7
<1>14. LiveSent'
  BY <1>2, <1>9 DEF storeVars, ViewInv, LiveSent
<1>15. \A r \in Readers : reader'[r].phase # "reading" => Settled(reader[r].line)'
  BY <1>2, <1>9, <1>13 DEF storeVars, Settled
<1>16. Read(viewer.tail)'
  BY <1>2, <1>9, <1>12 DEF storeVars, Read
<1> QED
  BY <1>2, <1>9, <1>10, <1>11, <1>14, <1>15, <1>16 DEF storeVars, ViewInv

\* A follower of which the phase, the positions, the lines and the count are changed.
Viewing(phase, next, since, live, skipped) ==
  [phase |-> phase, next |-> next, since |-> since, tail |-> viewer.tail, live |-> live,
   unsent |-> viewer.unsent, skipped |-> skipped]

LEMMA ViewingIs ==
  ASSUME FollowersTypeOK, NEW x, NEW y
  PROVE  /\ viewer = Viewing(viewer.phase, viewer.next, viewer.since, viewer.live, viewer.skipped)
         /\ [viewer EXCEPT !.next = x, !.skipped = y] =
              Viewing(viewer.phase, x, viewer.since, viewer.live, y)
         /\ [viewer EXCEPT !.next = x, !.live = y] =
              Viewing(viewer.phase, x, viewer.since, y, viewer.skipped)
<1>1. viewer \in LogViewer
  BY ViewerFields
<1> DEFINE one == [viewer EXCEPT !.next = x]
<1>2. /\ viewer = Viewing(viewer.phase, viewer.next, viewer.since, viewer.live, viewer.skipped)
      /\ one = Viewing(viewer.phase, x, viewer.since, viewer.live, viewer.skipped)
  BY SMTT(30), <1>1 DEF LogViewer, Viewing
<1> HIDE DEF one
<1>3. /\ [one EXCEPT !.skipped = y] = Viewing(viewer.phase, x, viewer.since, viewer.live, y)
      /\ [one EXCEPT !.live = y] = Viewing(viewer.phase, x, viewer.since, y, viewer.skipped)
  BY <1>2 DEF Viewing
<1> QED
  BY <1>2, <1>3 DEF one

\* It begins to follow.
LEMMA FollowBegins ==
  ASSUME StoreTypeOK, FollowersTypeOK, FollowLogs
  PROVE  viewer' = Viewing("following", NextSent, NextSent, viewer.live, viewer.skipped)
<1>1. viewer \in LogViewer
  BY ViewerFields
<1> DEFINE one == [viewer EXCEPT !.phase = "following"]
           two == [one EXCEPT !.next = NextSent]
<1>2. one = Viewing("following", viewer.next, viewer.since, viewer.live, viewer.skipped)
  BY SMTT(30), <1>1 DEF LogViewer, Viewing
<1> HIDE DEF one
<1>3. two = Viewing("following", NextSent, viewer.since, viewer.live, viewer.skipped)
  BY <1>2 DEF Viewing
<1> HIDE DEF two
<1>4. [two EXCEPT !.since = NextSent] =
         Viewing("following", NextSent, NextSent, viewer.live, viewer.skipped)
  BY <1>3 DEF Viewing
<1> QED
  BY <1>4 DEF one, two, FollowLogs

\* It is given a line, or told how many it missed.
LEMMA FollowGoes ==
  ASSUME StoreTypeOK, FollowersTypeOK, Follow
  PROVE  LET next == viewer.next
             line == sent[next] IN
         /\ next < Oldest =>
              viewer' = Viewing("following", Oldest, viewer.since, viewer.live,
                                viewer.skipped + Skipped(next))
         /\ ~(next < Oldest) /\ ServiceOf[line.from] # ViewedService =>
              viewer' = Viewing("following", next + 1, viewer.since, viewer.live, viewer.skipped)
         /\ ~(next < Oldest) /\ ServiceOf[line.from] = ViewedService =>
              viewer' = Viewing("following", next + 1, viewer.since, Append(viewer.live, line),
                                viewer.skipped)
<1> DEFINE next == viewer.next
           line == sent[next]
<1>1. viewer.phase = "following"
  BY DEF Follow
<1>2. ASSUME next < Oldest
      PROVE  viewer' = Viewing("following", Oldest, viewer.since, viewer.live,
                                viewer.skipped + Skipped(next))
  <2> DEFINE more == viewer.skipped + Skipped(next)
  <2>1. viewer' = [viewer EXCEPT !.next = Oldest, !.skipped = more]
    BY SMTT(30), <1>2 DEF Follow
  <2> HIDE DEF more
  <2>2. [viewer EXCEPT !.next = Oldest, !.skipped = more] =
          Viewing(viewer.phase, Oldest, viewer.since, viewer.live, more)
    BY ViewingIs
  <2> QED
    BY <1>1, <2>1, <2>2 DEF more
<1>3. ASSUME ~(next < Oldest)
      PROVE  LET live == IF ServiceOf[line.from] = ViewedService THEN Append(viewer.live, line)
                         ELSE viewer.live IN
             viewer' = Viewing("following", next + 1, viewer.since, live, viewer.skipped)
  <2> DEFINE live == IF ServiceOf[line.from] = ViewedService THEN Append(viewer.live, line)
                     ELSE viewer.live
             n == next + 1
  <2>1. viewer' = [viewer EXCEPT !.next = n, !.live = live]
    BY SMTT(30), <1>3 DEF Follow
  <2> HIDE DEF live, n
  <2>2. [viewer EXCEPT !.next = n, !.live = live] =
          Viewing(viewer.phase, n, viewer.since, live, viewer.skipped)
    BY ViewingIs
  <2> QED
    BY <1>1, <2>1, <2>2 DEF live, n
<1> QED
  BY <1>2, <1>3

\* What a follower keeps when it goes on.
LEMMA FollowerKeeps ==
  ASSUME StoreTypeOK, FollowersTypeOK, ViewInv, UNCHANGED <<storeVars, push, got>>,
         NEW next \in Nat \ {0}, NEW since \in Nat \ {0}, NEW live \in Seq(Entry),
         NEW skipped \in Nat,
         viewer' = Viewing("following", next, since, live, skipped),
         since <= next, next <= Len(sent) + 1, InOrderOfStream(live),
         \A j \in DOMAIN live : \E k \in DOMAIN sent :
           since <= k /\ k < next /\ live[j] = sent[k],
         \A k \in DOMAIN sent : since <= k => Settled(sent[k])
  PROVE  /\ FollowersTypeOK' /\ ViewInv'
         /\ viewer'.phase = "following" /\ viewer'.next = next /\ viewer'.since = since
         /\ viewer'.live = live /\ viewer'.skipped = skipped
<1>1. viewer \in LogViewer
  BY ViewerFields
<1>2. /\ viewer'.phase = "following" /\ viewer'.next = next /\ viewer'.since = since
      /\ viewer'.live = live /\ viewer'.skipped = skipped
      /\ viewer'.tail = viewer.tail /\ viewer'.unsent = viewer.unsent
  BY DEF Viewing
<1>3. FollowersTypeOK'
  <2>1. viewer' \in LogViewer
    BY <1>1 DEF LogViewer, Viewing
  <2> QED
    BY <2>1 DEF FollowersTypeOK
<1>4. /\ sent' = sent /\ clock' = clock /\ reader' = reader
  BY DEF storeVars
<1>5. \A r \in Readers : reader'[r].phase # "reading" => Settled(reader[r].line)'
  BY <1>2, <1>4 DEF ViewInv, Settled
<1>6. \A k \in DOMAIN sent' : viewer'.since <= k => Settled(sent[k])'
  BY <1>2, <1>4 DEF Settled
<1>7. Read(viewer.tail)' /\ InOrderOfStream(viewer'.tail)
  BY <1>2, <1>4 DEF ViewInv, Read
<1>8. LiveSent'
  BY <1>2, <1>4 DEF LiveSent
<1> QED
  BY <1>2, <1>3, <1>4, <1>5, <1>6, <1>7, <1>8 DEF ViewInv

AccountsOf(next, since, live, skipped) ==
  LET mine == {i \in since .. next - 1 : ServiceOf[sent[i].from] = ViewedService}
  IN  /\ Cardinality(mine) <= Len(live) + skipped
      /\ Len(live) + skipped <= next - since

\* The account of a follower that starts from now.
LEMMA AccountsOfNone ==
  ASSUME NEW n \in Nat
  PROVE  AccountsOf(n, n, <<>>, 0)
<1> DEFINE mine == {i \in n .. n - 1 : ServiceOf[sent[i].from] = ViewedService}
<1>1. mine = {} /\ Len(<<>>) = 0
  BY EmptySeq
<1>2. Cardinality(mine) = 0
  BY <1>1, FS_EmptySet
<1> HIDE DEF mine
<1>3. Cardinality(mine) <= Len(<<>>) + 0 /\ Len(<<>>) + 0 <= n - n
  BY <1>1, <1>2
<1> QED
  BY <1>3 DEF AccountsOf, mine

\* Lines are passed: each is given or counted.
LEMMA AccountsOfMore ==
  ASSUME NEW next \in Nat \ {0}, NEW since \in Nat \ {0}, NEW live \in Seq(Entry), NEW skipped \in Nat,
         AccountsOf(next, since, live, skipped), since <= next,
         NEW next2 \in Nat \ {0}, NEW live2 \in Seq(Entry), NEW skipped2 \in Nat,
         next <= next2,
         LET missed == {i \in next .. next2 - 1 : ServiceOf[sent[i].from] = ViewedService} IN
           Len(live) + skipped + Cardinality(missed) <= Len(live2) + skipped2,
         Len(live2) + skipped2 <= Len(live) + skipped + (next2 - next)
  PROVE  AccountsOf(next2, since, live2, skipped2)
<1> DEFINE Mine(a, b) == {i \in a .. b - 1 : ServiceOf[sent[i].from] = ViewedService}
<1>1. /\ IsFiniteSet(since .. next - 1) /\ IsFiniteSet(next .. next2 - 1)
  <2> DEFINE a == next - 1
             b == next2 - 1
  <2>1. a \in Int /\ b \in Int /\ since \in Int /\ next \in Int
    OBVIOUS
  <2> HIDE DEF a, b
  <2>2. IsFiniteSet(since .. a) /\ IsFiniteSet(next .. b)
    BY <2>1, FS_Interval
  <2> QED
    BY <2>2 DEF a, b
<1>2. /\ IsFiniteSet(Mine(since, next)) /\ IsFiniteSet(Mine(next, next2))
  BY <1>1, FS_Subset
<1>3. Mine(since, next2) = Mine(since, next) \cup Mine(next, next2)
  <2>1. since .. next2 - 1 = (since .. next - 1) \cup (next .. next2 - 1)
    OBVIOUS
  <2> QED
    BY <2>1
<1>4. Mine(since, next) \cap Mine(next, next2) = {}
  OBVIOUS
<1> HIDE DEF Mine
<1>5. Cardinality(Mine(since, next2)) =
        Cardinality(Mine(since, next)) + Cardinality(Mine(next, next2))
        - Cardinality(Mine(since, next) \cap Mine(next, next2))
  BY <1>2, <1>3, FS_Union
<1>6. /\ Cardinality(Mine(since, next)) \in Nat /\ Cardinality(Mine(next, next2)) \in Nat
      /\ Cardinality(Mine(since, next) \cap Mine(next, next2)) = 0
  BY <1>2, <1>4, FS_CardinalityType, FS_EmptySet
<1>7. /\ Cardinality(Mine(since, next)) <= Len(live) + skipped
      /\ Len(live) + skipped <= next - since
      /\ Len(live) + skipped + Cardinality(Mine(next, next2)) <= Len(live2) + skipped2
  BY DEF AccountsOf, Mine
<1>8. Len(live) \in Nat /\ Len(live2) \in Nat
  BY LenProperties
<1>9. /\ Cardinality(Mine(since, next2)) <= Len(live2) + skipped2
      /\ Len(live2) + skipped2 <= next2 - since
  BY <1>5, <1>6, <1>7, <1>8
<1> QED
  BY <1>9 DEF AccountsOf, Mine

\* The follower's steps keep the types, the order and the account.
LEMMA FollowSteps ==
  ASSUME StoreTypeOK, FollowersTypeOK, SentInv, ViewInv, FollowerAccounts,
         FollowLogs \/ Follow
  PROVE  /\ UNCHANGED <<storeVars, push, got>>
         /\ FollowersTypeOK' /\ ViewInv' /\ FollowerAccounts'
<1>1. /\ viewer.next \in Nat \ {0} /\ viewer.since \in Nat \ {0} /\ viewer.skipped \in Nat
      /\ viewer.live \in Seq(Entry)
  BY ViewerFields
<1>2. /\ sent \in Seq(Entry) /\ Len(sent) \in Nat /\ DOMAIN sent = 1 .. Len(sent)
      /\ \A k \in DOMAIN sent : sent[k] \in Entry
  BY LenProperties, ElementOfSeq DEF StoreTypeOK
<1>3. UNCHANGED <<storeVars, push, got>> /\ sent' = sent
  BY DEF FollowLogs, Follow, storeVars
<1>4. AccountsOf(viewer.next, viewer.since, viewer.live, viewer.skipped)
  BY DEF AccountsOf, FollowerAccounts
<1>5. AccountsOf(viewer'.next, viewer'.since, viewer'.live, viewer'.skipped) => FollowerAccounts'
  BY <1>3 DEF AccountsOf, FollowerAccounts
<1>6. CASE FollowLogs
  <2>1. viewer.live = <<>> /\ viewer.skipped = 0
    BY <1>6 DEF FollowLogs, ViewInv
  <2>2. NextSent \in Nat \ {0} /\ NextSent = Len(sent) + 1
    BY <1>2 DEF NextSent
  <2>3. viewer' = Viewing("following", NextSent, NextSent, <<>>, 0)
    BY <1>6, <2>1, FollowBegins
  <2>4. <<>> \in Seq(Entry) /\ DOMAIN <<>> = {} /\ InOrderOfStream(<<>>)
    BY EmptySeq DEF InOrderOfStream
  <2>5. \A k \in DOMAIN sent : ~(NextSent <= k)
    BY <1>2, <2>2
  <2>6. /\ FollowersTypeOK' /\ ViewInv'
        /\ viewer'.next = NextSent /\ viewer'.since = NextSent
        /\ viewer'.live = <<>> /\ viewer'.skipped = 0
    <3> DEFINE n == NextSent
    <3>1. n \in Nat \ {0} /\ n <= n /\ n <= Len(sent) + 1
      BY <1>2, <2>2
    <3> HIDE DEF n
    <3>2. /\ viewer' = Viewing("following", n, n, <<>>, 0)
          /\ \A k \in DOMAIN sent : ~(n <= k)
      BY <2>3, <2>5 DEF n
    <3>3. /\ FollowersTypeOK' /\ ViewInv'
          /\ viewer'.next = n /\ viewer'.since = n
          /\ viewer'.live = <<>> /\ viewer'.skipped = 0
      <4>1. 0 \in Nat
        OBVIOUS
      <4> QED
        BY <1>3, <2>4, <3>1, <3>2, <4>1, FollowerKeeps
    <3> QED
      BY <3>3 DEF n
  <2>7. AccountsOf(NextSent, NextSent, <<>>, 0)
    BY <2>2, AccountsOfNone
  <2> QED
    BY <1>3, <1>5, <2>6, <2>7
<1>7. CASE Follow
  <2> DEFINE next == viewer.next
             line == sent[next]
             live == viewer.live
             since == viewer.since
             skipped == viewer.skipped
  <2>1. viewer.phase = "following" /\ next <= Len(sent)
    BY <1>7 DEF Follow
  <2>2. /\ since <= next /\ next \in DOMAIN sent /\ line \in Entry
        /\ InOrderOfStream(live) /\ LiveSent
        /\ \A k \in DOMAIN sent : since <= k => Settled(sent[k])
    BY <1>1, <1>2, <2>1 DEF ViewInv
  <2>3. Oldest \in Nat \ {0} /\ Oldest <= Len(sent) + 1
    BY <1>2, LogBoundsAssumption DEF Oldest
  <2>4. CASE next < Oldest
    <3> DEFINE more == skipped + Skipped(next)
    <3>1. Skipped(next) = Oldest - next
      BY <2>4 DEF Skipped
    <3>2. viewer' = Viewing("following", Oldest, since, live, more)
      BY <1>7, <2>4, FollowGoes
    <3>3. more \in Nat /\ more = skipped + (Oldest - next) /\ since <= Oldest
      BY <1>1, <2>2, <2>3, <2>4, <3>1
    <3>4. \A j \in DOMAIN live : \E k \in DOMAIN sent :
            since <= k /\ k < Oldest /\ live[j] = sent[k]
      BY <1>1, <1>2, <2>2, <2>3, <2>4 DEF LiveSent
    <3> HIDE DEF more
    <3>5. /\ FollowersTypeOK' /\ ViewInv'
          /\ viewer'.next = Oldest /\ viewer'.since = since
          /\ viewer'.live = live /\ viewer'.skipped = more
      <4>1. /\ Oldest \in Nat \ {0} /\ since \in Nat \ {0} /\ live \in Seq(Entry) /\ more \in Nat
            /\ viewer' = Viewing("following", Oldest, since, live, more)
            /\ since <= Oldest /\ Oldest <= Len(sent) + 1 /\ InOrderOfStream(live)
            /\ \A j \in DOMAIN live : \E k \in DOMAIN sent :
                 since <= k /\ k < Oldest /\ live[j] = sent[k]
            /\ \A k \in DOMAIN sent : since <= k => Settled(sent[k])
        BY <1>1, <2>2, <2>3, <3>2, <3>3, <3>4
      <4> HIDE DEF live, since
      <4> QED
        BY <1>3, <4>1, FollowerKeeps
    <3>6. AccountsOf(Oldest, since, live, more)
      <4> DEFINE missed == {i \in next .. Oldest - 1 : ServiceOf[sent[i].from] = ViewedService}
      <4>1. IsFiniteSet(next .. Oldest - 1) /\ Cardinality(next .. Oldest - 1) = Oldest - next
        <5> DEFINE b == Oldest - 1
        <5>1. b \in Int /\ next \in Int /\ next <= b /\ b - next + 1 = Oldest - next
          BY <1>1, <2>3, <2>4
        <5> HIDE DEF b, next
        <5>2. IsFiniteSet(next .. b) /\ Cardinality(next .. b) = b - next + 1
          BY <5>1, FS_Interval
        <5> QED
          BY <5>1, <5>2 DEF b
      <4>2. Cardinality(missed) \in Nat /\ Cardinality(missed) <= Oldest - next
        <5>1. missed \subseteq next .. Oldest - 1
          OBVIOUS
        <5> HIDE DEF missed
        <5> QED
          BY <4>1, <5>1, FS_Subset, FS_CardinalityType
      <4> HIDE DEF missed
      <4>3. /\ Len(live) + skipped + Cardinality(missed) <= Len(live) + more
            /\ Len(live) + more <= Len(live) + skipped + (Oldest - next)
            /\ next <= Oldest
        <5>1. Len(live) \in Nat
          BY <1>1, LenProperties
        <5> HIDE DEF next, live, skipped
        <5>2. next \in Nat /\ skipped \in Nat /\ Len(live) \in Nat
          BY <1>1, <5>1 DEF next, live, skipped
        <5> QED
          BY <2>3, <2>4, <3>3, <4>2, <5>2
      <4> HIDE DEF next, live, since, skipped
      <4> QED
        BY <1>1, <1>4, <2>2, <2>3, <3>3, <4>3, AccountsOfMore DEF missed, next, live, since, skipped
    <3> QED
      BY <1>3, <1>5, <3>5, <3>6
  <2>5. CASE ~(next < Oldest)
    <3> DEFINE mine == ServiceOf[line.from] = ViewedService
               more == IF mine THEN Append(live, line) ELSE live
               n == next + 1
    <3>1. viewer' = Viewing("following", n, since, more, skipped)
      BY <1>7, <2>5, FollowGoes
    <3>2. n \in Nat \ {0} /\ since <= n /\ n <= Len(sent) + 1 /\ next < n /\ next <= n
          /\ next .. n - 1 = {next}
      BY <1>1, <1>2, <2>1, <2>2
    <3>3. /\ Append(live, line) \in Seq(Entry) /\ Len(Append(live, line)) = Len(live) + 1
          /\ DOMAIN Append(live, line) = DOMAIN live \cup {Len(live) + 1}
          /\ \A j \in DOMAIN live : Append(live, line)[j] = live[j]
          /\ Append(live, line)[Len(live) + 1] = line
          /\ Len(live) \in Nat
      <4> HIDE DEF live, line
      <4> QED
        BY <1>1, <2>2, AppendElements, AppendProperties DEF live
    <3>4. ASSUME NEW j \in DOMAIN live
          PROVE  \E k \in DOMAIN sent : since <= k /\ k < next /\ k < n /\ live[j] = sent[k]
      BY <1>1, <1>2, <2>2, <3>2 DEF LiveSent
    <3>5. Behind(live, line)
      <4>1. ASSUME NEW j \in DOMAIN live, live[j].from = line.from
            PROVE  live[j].time < line.time
        <5>1. PICK k \in DOMAIN sent : k < next /\ live[j] = sent[k]
          BY <3>4
        <5> QED
          BY <2>2, <4>1, <5>1 DEF SentInv, InOrderOfStream
      <4> QED
        BY <4>1 DEF Behind
    <3>6. InOrderOfStream(Append(live, line))
      <4> HIDE DEF live, line
      <4> QED
        BY <1>1, <2>2, <3>5, AppendInOrder DEF live
    <3>7. /\ more \in Seq(Entry) /\ InOrderOfStream(more)
          /\ \A j \in DOMAIN more : \E k \in DOMAIN sent :
               since <= k /\ k < n /\ more[j] = sent[k]
      <4>1. CASE mine
        <5>1. more = Append(live, line)
          BY <4>1
        <5> HIDE DEF more, n
        <5> QED
          BY <2>2, <3>2, <3>3, <3>4, <3>6, <5>1
      <4>2. CASE ~ mine
        <5>1. more = live
          BY <4>2
        <5> HIDE DEF more, n
        <5> QED
          BY <1>1, <2>2, <3>4, <5>1
      <4> QED
        BY <4>1, <4>2
    <3>8. /\ FollowersTypeOK' /\ ViewInv'
          /\ viewer'.next = n /\ viewer'.since = since
          /\ viewer'.live = more /\ viewer'.skipped = skipped
      <4> HIDE DEF more, n, line, mine
      <4> QED
        <5>1. /\ n \in Nat \ {0} /\ since \in Nat \ {0} /\ more \in Seq(Entry) /\ skipped \in Nat
              /\ viewer' = Viewing("following", n, since, more, skipped)
              /\ since <= n /\ n <= Len(sent) + 1 /\ InOrderOfStream(more)
              /\ \A j \in DOMAIN more : \E k \in DOMAIN sent :
                   since <= k /\ k < n /\ more[j] = sent[k]
              /\ \A k \in DOMAIN sent : since <= k => Settled(sent[k])
          BY <1>1, <2>2, <3>1, <3>2, <3>7
        <5> HIDE DEF since, skipped
        <5> QED
          BY <1>3, <5>1, FollowerKeeps
    <3>9. AccountsOf(n, since, more, skipped)
      <4> DEFINE missed == {i \in next .. n - 1 : ServiceOf[sent[i].from] = ViewedService}
      <4>1. /\ Cardinality(missed) \in Nat /\ Len(live) + Cardinality(missed) = Len(more)
            /\ Cardinality(missed) <= 1
        <5>1. CASE mine
          <6>1. missed = {next} /\ more = Append(live, line)
            BY <3>2, <5>1
          <6>2. Cardinality({next}) = 1
            BY FS_Singleton
          <6>3. Cardinality(missed) = 1 /\ Len(more) = Len(live) + 1
            BY <3>3, <6>1, <6>2
          <6> HIDE DEF more, missed
          <6> QED
            BY <3>3, <6>3
        <5>2. CASE ~ mine
          <6>1. missed = {} /\ more = live
            BY <3>2, <5>2
          <6>2. Cardinality({}) = 0
            BY FS_EmptySet
          <6>3. Cardinality(missed) = 0 /\ Len(more) = Len(live)
            BY <6>1, <6>2
          <6> HIDE DEF more, missed
          <6> QED
            BY <3>3, <6>3
        <5> QED
          BY <5>1, <5>2
      <4> HIDE DEF missed, more
      <4>3. n - next = 1
        BY <1>1
      <4>4. /\ Len(live) + skipped + Cardinality(missed) <= Len(more) + skipped
            /\ Len(more) + skipped <= Len(live) + skipped + (n - next)
        <5> HIDE DEF n
        <5> QED
          BY SMTT(30), <1>1, <3>3, <4>1, <4>3
      <4> HIDE DEF n, next, live, since, skipped
      <4> QED
        BY <1>1, <1>4, <2>2, <3>2, <3>7, <4>4, AccountsOfMore DEF missed, next, live, since, skipped
    <3> QED
      BY <1>3, <1>5, <3>8, <3>9
  <2> QED
    BY <2>4, <2>5
<1> QED
  BY <1>6, <1>7

-----------------------------------------------------------------------------
(* What is kept of what was pushed.                                        *)

\* The last lines, one by one.
LEMMA LastElements ==
  ASSUME NEW lines \in Seq(Entry)
  PROVE  LET n == Len(lines)
             m == IF n > BufferCapacity THEN BufferCapacity ELSE n IN
         /\ LastLines(lines) \in Seq(Entry) /\ Len(LastLines(lines)) = m
         /\ n \in Nat /\ m \in Nat /\ m <= n
         /\ \A i \in 1 .. m : LastLines(lines)[i] = lines[n - m + i]
<1> DEFINE n == Len(lines)
           m == IF n > BufferCapacity THEN BufferCapacity ELSE n
           f == IF n > BufferCapacity THEN n - BufferCapacity + 1 ELSE 1
<1>1. n \in Nat /\ BufferCapacity \in Nat \ {0} /\ DOMAIN lines = 1 .. n
  BY LenProperties, LogBoundsAssumption
<1>2. m \in Nat /\ m <= n /\ f \in Nat \ {0} /\ f = n - m + 1
  BY <1>1
<1>3. LastLines(lines) = SubSeq(lines, f, n)
  BY DEF LastLines
<1> HIDE DEF n, m, f
<1>4. \A i \in f .. n : lines[i] \in Entry
  BY <1>1, <1>2, ElementOfSeq DEF n
<1>5. /\ SubSeq(lines, f, n) \in Seq(Entry)
      /\ Len(SubSeq(lines, f, n)) = IF f <= n THEN n - f + 1 ELSE 0
      /\ \A i \in 1 .. n - f + 1 : SubSeq(lines, f, n)[i] = lines[f + i - 1]
  BY <1>1, <1>2, <1>4, SubSeqProperties
<1>6. Len(LastLines(lines)) = m
  BY <1>1, <1>2, <1>3, <1>5
<1>7. \A i \in 1 .. m : i \in 1 .. n - f + 1 /\ f + i - 1 = n - m + i
  BY <1>1, <1>2
<1>8. \A i \in 1 .. m : LastLines(lines)[i] = lines[n - m + i]
  BY <1>3, <1>5, <1>7
<1> QED
  BY <1>1, <1>2, <1>3, <1>5, <1>6, <1>8 DEF n, m

\* There are no last lines of nothing.
LEMMA LastOfNone == LastLines(<<>>) = <<>>
<1>1. <<>> \in Seq(Entry) /\ Len(<<>>) = 0
  BY EmptySeq
<1> DEFINE none == <<>>
<1>2. none \in Seq(Entry) /\ Len(none) = 0 /\ BufferCapacity \in Nat \ {0}
  BY <1>1, LogBoundsAssumption
<1> HIDE DEF none
<1>3. /\ LastLines(none) \in Seq(Entry)
      /\ Len(LastLines(none)) = IF Len(none) > BufferCapacity THEN BufferCapacity ELSE Len(none)
  BY <1>2, LastElements
<1>4. Len(LastLines(none)) = 0
  BY <1>2, <1>3
<1> QED
  BY <1>3, <1>4, EmptySeq DEF none

\* A buffer that has the last lines has them after a push.
LEMMA PushLast ==
  ASSUME NEW lines \in Seq(Entry), NEW line \in Entry
  PROVE  Push(LastLines(lines), line) = LastLines(Append(lines, line))
<1> DEFINE kept == LastLines(lines)
           more == Append(lines, line)
           last == LastLines(more)
           next == Push(kept, line)
           n == Len(lines)
           cap == BufferCapacity
<1>1. /\ kept \in Seq(Entry) /\ n \in Nat
      /\ Len(kept) = IF n > cap THEN cap ELSE n
      /\ \A i \in 1 .. Len(kept) : kept[i] = lines[n - Len(kept) + i]
  BY SMTT(30), LastElements
<1>2. /\ more \in Seq(Entry) /\ Len(more) = n + 1
      /\ \A i \in 1 .. n : more[i] = lines[i]
      /\ more[n + 1] = line
  BY AppendProperties
<1>3. cap \in Nat \ {0}
  BY LogBoundsAssumption
<1> HIDE DEF kept, more, n, cap
<1>4. /\ last \in Seq(Entry)
      /\ Len(last) = IF n + 1 > cap THEN cap ELSE n + 1
      /\ \A i \in 1 .. Len(last) : last[i] = more[n + 1 - Len(last) + i]
  <2> DEFINE m == IF Len(more) > cap THEN cap ELSE Len(more)
  <2>1. /\ last \in Seq(Entry) /\ Len(last) = m
        /\ \A i \in 1 .. m : last[i] = more[Len(more) - m + i]
    BY <1>2, LastElements DEF cap
  <2> HIDE DEF last
  <2>2. Len(last) = IF n + 1 > cap THEN cap ELSE n + 1
    BY <1>2, <2>1
  <2> HIDE DEF m
  <2>3. ASSUME NEW i \in 1 .. Len(last) PROVE last[i] = more[n + 1 - Len(last) + i]
    <3>1. last[i] = more[Len(more) - m + i]
      BY <2>1
    <3>2. Len(more) - m + i = n + 1 - Len(last) + i
      <4>1. Len(last) \in Nat /\ m = Len(last) /\ i \in Nat /\ Len(more) = n + 1 /\ n \in Nat
        BY <1>1, <1>2, <2>1, LenProperties
      <4> HIDE DEF more, last
      <4> QED
        BY <4>1
    <3> QED
      BY <3>1, <3>2
  <2> QED
    BY <2>1, <2>2, <2>3
<1> HIDE DEF last
<1>5. CASE n < cap
  <2>1. Len(kept) = n /\ Len(last) = n + 1 /\ next = Append(kept, line)
    BY <1>1, <1>3, <1>4, <1>5 DEF Push, cap
  <2>2. /\ next \in Seq(Entry) /\ Len(next) = n + 1
        /\ \A i \in 1 .. n : next[i] = kept[i]
        /\ next[n + 1] = line
    BY <1>1, <2>1, AppendProperties
  <2> HIDE DEF next
  <2>3. ASSUME NEW i \in 1 .. n + 1 PROVE next[i] = last[i]
    <3>1. last[i] = more[i]
      BY <1>1, <1>4, <2>1
    <3>2. CASE i = n + 1
      BY <1>2, <2>2, <3>1, <3>2
    <3>3. CASE i \in 1 .. n
      BY <1>1, <1>2, <2>1, <2>2, <3>1, <3>3
    <3> QED
      BY <1>1, <3>2, <3>3
  <2> QED
    BY <1>4, <2>1, <2>2, <2>3, SeqEqual DEF last, next, kept, more
<1>6. CASE ~(n < cap)
  <2>1. Len(kept) = cap /\ Len(last) = cap /\ next = Append(Tail(kept), line)
    BY <1>1, <1>3, <1>4, <1>6 DEF Push, cap
  <2>2. kept # <<>>
    BY <1>3, <2>1, EmptySeq
  <2>3. /\ Tail(kept) \in Seq(Entry) /\ Len(Tail(kept)) = cap - 1
        /\ \A i \in 1 .. cap - 1 : Tail(kept)[i] = kept[i + 1]
    BY <1>1, <2>1, <2>2, HeadTailProperties
  <2>4. /\ next \in Seq(Entry) /\ Len(next) = cap - 1 + 1
        /\ \A i \in 1 .. cap - 1 : next[i] = Tail(kept)[i]
        /\ next[cap - 1 + 1] = line
    BY <2>1, <2>3, AppendProperties
  <2>5. Len(next) = cap /\ next[cap] = line
    BY <1>3, <2>4
  <2> HIDE DEF next
  <2>6. ASSUME NEW i \in 1 .. cap PROVE next[i] = last[i]
    <3>1. last[i] = more[n + 1 - cap + i]
      BY <1>4, <2>1
    <3>2. CASE i = cap
      <4>1. n + 1 - cap + i = n + 1
        BY <1>1, <1>3, <3>2
      <4> QED
        BY <1>2, <2>5, <3>1, <3>2, <4>1
    <3>3. CASE i \in 1 .. cap - 1
      <4>1. n + 1 - cap + i \in 1 .. n /\ i + 1 \in 1 .. cap /\ n - cap + (i + 1) = n + 1 - cap + i
        BY <1>1, <1>3, <1>6, <3>3
      <4>2. next[i] = kept[i + 1]
        BY <2>3, <2>4, <3>3
      <4>3. kept[i + 1] = lines[n - cap + (i + 1)]
        BY <1>1, <2>1, <4>1
      <4> QED
        BY <1>2, <3>1, <4>1, <4>2, <4>3
    <3> QED
      BY <1>3, <3>2, <3>3
  <2> QED
    BY <1>4, <2>1, <2>4, <2>5, <2>6, SeqEqual DEF last, next, kept, more
<1> QED
  BY <1>5, <1>6

\* A later line keeps the order of a buffer, which loses at most its first line.
LEMMA PushOrder ==
  ASSUME NEW kept \in Seq(Entry), NEW line \in Entry, InOrderOfStream(kept), Behind(kept, line)
  PROVE  InOrderOfStream(Push(kept, line))
<1>1. Len(kept) \in Nat /\ BufferCapacity \in Nat \ {0}
  BY LenProperties, LogBoundsAssumption
<1>2. CASE Len(kept) >= BufferCapacity
  <2>1. kept # <<>>
    BY <1>1, <1>2, EmptySeq
  <2>2. /\ Tail(kept) \in Seq(Entry)
        /\ \A i \in DOMAIN Tail(kept) : i + 1 \in DOMAIN kept /\ Tail(kept)[i] = kept[i + 1]
    BY <2>1, TailElements
  <2>3. \A i \in DOMAIN Tail(kept) : i \in Nat
    BY <2>2, Elements
  <2>4. InOrderOfStream(Tail(kept))
    <3>1. ASSUME NEW i \in DOMAIN Tail(kept), NEW j \in DOMAIN Tail(kept), i < j,
                 Tail(kept)[i].from = Tail(kept)[j].from
          PROVE  Tail(kept)[i].time < Tail(kept)[j].time
      <4>1. i + 1 < j + 1
        BY <2>3, <3>1
      <4> QED
        BY <2>2, <3>1, <4>1 DEF InOrderOfStream
    <3> QED
      BY <3>1 DEF InOrderOfStream
  <2>5. Behind(Tail(kept), line)
    BY <2>2 DEF Behind
  <2>6. InOrderOfStream(Append(Tail(kept), line))
    BY <2>2, <2>4, <2>5, AppendInOrder
  <2> QED
    BY <1>2, <2>6 DEF Push
<1>3. CASE ~(Len(kept) >= BufferCapacity)
  BY <1>3, AppendInOrder DEF Push
<1> QED
  BY <1>2, <1>3

\* What a push keeps: the new line, and every line but a first one.
LEMMA PushKeeps ==
  ASSUME NEW kept \in Seq(Entry), NEW line \in Entry, InOrderOfStream(kept)
  PROVE  /\ line \in ToSet(Push(kept, line))
         /\ \A a, b \in ToSet(kept) : a.from = b.from /\ a.time < b.time =>
              (a \in ToSet(Push(kept, line)) => b \in ToSet(Push(kept, line)) \/ a = line)
<1>1. Len(kept) \in Nat /\ BufferCapacity \in Nat \ {0} /\ DOMAIN kept = 1 .. Len(kept)
  BY LenProperties, LogBoundsAssumption
<1>2. CASE Len(kept) >= BufferCapacity
  <2>1. kept # <<>>
    BY <1>1, <1>2, EmptySeq
  <2>2. /\ Tail(kept) \in Seq(Entry) /\ Len(Tail(kept)) = Len(kept) - 1
        /\ \A i \in DOMAIN Tail(kept) : i + 1 \in DOMAIN kept /\ Tail(kept)[i] = kept[i + 1]
    BY <2>1, TailElements
  <2>3. DOMAIN Tail(kept) = 1 .. Len(kept) - 1
    BY <2>2, LenProperties
  <2>4. ToSet(Push(kept, line)) = ToSet(Tail(kept)) \cup {line}
    BY <1>2, <2>2, AppendSet DEF Push
  <2>5. ASSUME NEW a \in ToSet(kept), NEW b \in ToSet(kept), a.from = b.from, a.time < b.time,
               a \in ToSet(Tail(kept))
        PROVE  b \in ToSet(Tail(kept))
    <3>1. PICK i \in DOMAIN Tail(kept) : a = Tail(kept)[i]
      BY <2>5 DEF ToSet
    <3>2. PICK j \in DOMAIN kept : b = kept[j]
      BY <2>5 DEF ToSet
    <3>3. i + 1 \in DOMAIN kept /\ a = kept[i + 1] /\ i \in Nat \ {0}
      BY <2>2, <2>3, <3>1
    <3>4. j # 1
      <4>1. ASSUME j = 1 PROVE FALSE
        <5>1. j < i + 1
          BY <3>3, <4>1
        <5>2. b.time < a.time
          BY <2>5, <3>2, <3>3, <5>1 DEF InOrderOfStream
        <5>3. a.time \in Nat /\ b.time \in Nat
          BY <3>2, <3>3, Elements
        <5> QED
          BY <2>5, <5>2, <5>3
      <4> QED
        BY <4>1
    <3>5. j - 1 \in DOMAIN Tail(kept) /\ j - 1 + 1 = j
      BY <1>1, <2>3, <3>2, <3>4
    <3>6. Tail(kept)[j - 1] = b
      BY <2>2, <3>2, <3>5
    <3> QED
      BY <3>5, <3>6 DEF ToSet
  <2> QED
    BY <2>4, <2>5
<1>3. CASE ~(Len(kept) >= BufferCapacity)
  <2>1. ToSet(Push(kept, line)) = ToSet(kept) \cup {line}
    BY <1>3, AppendSet DEF Push
  <2> QED
    BY <2>1
<1> QED
  BY <1>2, <1>3

\* A line goes to the buffer that is kept.
LEMMA PushEnds ==
  ASSUME NEW kept \in Seq(Entry), NEW lines \in Seq(Entry), NEW line \in Entry,
         InOrderOfStream(kept), InOrderOfStream(lines), Behind(lines, line),
         ToSet(kept) \subseteq ToSet(lines), KeepsEnds(kept, lines)
  PROVE  KeepsEnds(Push(kept, line), Append(lines, line))
<1> DEFINE more == Append(lines, line)
           n == Len(lines) + 1
           next == ToSet(Push(kept, line))
<1>1. /\ DOMAIN more = DOMAIN lines \cup {n} /\ n \notin DOMAIN lines
      /\ \A i \in DOMAIN lines : more[i] = lines[i] /\ i < n /\ i \in Nat
      /\ more[n] = line /\ n \in Nat
  BY AppendElements
<1>2. /\ line \in next /\ next \subseteq ToSet(kept) \cup {line}
      /\ \A a, b \in ToSet(kept) : a.from = b.from /\ a.time < b.time =>
           (a \in next => b \in next \/ a = line)
  BY PushKeeps, PushSet
<1> HIDE DEF more, n, next
<1>3. ASSUME NEW i \in DOMAIN more, NEW j \in DOMAIN more, i < j,
             more[i].from = more[j].from, more[i] \in next
      PROVE  more[j] \in next
  <2>1. i \in DOMAIN lines /\ more[i] = lines[i]
    BY <1>1, <1>3
  <2>2. CASE j = n
    BY <1>1, <1>2, <2>2
  <2>3. CASE j \in DOMAIN lines
    <3>1. more[j] = lines[j] /\ lines[i].time < lines[j].time /\ lines[i].from = lines[j].from
      BY <1>1, <1>3, <2>1, <2>3 DEF InOrderOfStream
    <3>2. lines[i] # line
      <4>1. lines[i].time \in Nat
        BY <2>1, Elements
      <4> QED
        BY <2>1, <4>1 DEF Behind
    <3>3. lines[i] \in ToSet(kept)
      BY <1>2, <1>3, <2>1, <3>2
    <3>4. lines[j] \in ToSet(kept)
      BY <1>3, <2>1, <2>3, <3>1, <3>3 DEF KeepsEnds
    <3> QED
      BY <1>2, <1>3, <2>1, <3>1, <3>2, <3>3, <3>4
  <2> QED
    BY <1>1, <2>2, <2>3
<1> QED
  BY <1>3 DEF KeepsEnds, more, next

\* A line goes to another buffer.
LEMMA OtherEnds ==
  ASSUME NEW kept, NEW lines \in Seq(Entry), NEW line \in Entry,
         KeepsEnds(kept, lines), \A l \in ToSet(kept) : l.from # line.from
  PROVE  KeepsEnds(kept, Append(lines, line))
<1> DEFINE more == Append(lines, line)
           n == Len(lines) + 1
<1>1. /\ DOMAIN more = DOMAIN lines \cup {n} /\ n \notin DOMAIN lines
      /\ \A i \in DOMAIN lines : more[i] = lines[i] /\ i < n
      /\ more[n] = line /\ n \in Nat
  BY AppendElements
<1> HIDE DEF more, n
<1> QED
  BY <1>1 DEF KeepsEnds, more

NoneYet(s) ==
  current[s] = NoBuffer => pushed[s] = <<>> /\ \A b \in DOMAIN buffers : buffers[b].of # s

OneBuffer(s) ==
  \A b, c \in DOMAIN buffers : buffers[b].of = s /\ buffers[c].of = s => b = c

HasLast(s) ==
  OneBuffer(s) => \A b \in DOMAIN buffers : buffers[b].of = s => buffers[b].lines = LastLines(pushed[s])

\* A reader that goes to a buffer which was replaced had no line in the one that
\* replaced it.
Elsewhere(r) ==
  reader[r].phase = "pushing" /\ reader[r].buffer # current[ServiceOf[r]] =>
    \A l \in ToSet(Kept(ServiceOf[r])) : l.from # r

\* A reader that is to create the buffer has not pushed a line yet.
First(r) ==
  reader[r].phase = "creating" =>
    \A i \in DOMAIN pushed[ServiceOf[r]] : pushed[ServiceOf[r]][i].from # r

KeptInv ==
  /\ \A b \in DOMAIN buffers : InOrderOfStream(buffers[b].lines)
  /\ \A s \in Services : NoneYet(s) /\ HasLast(s) /\ KeepsEnds(Kept(s), pushed[s])
  /\ \A r \in Readers : Elsewhere(r) /\ First(r)

\* What is kept of a service.
LEMMA KeptIs ==
  ASSUME StoreTypeOK, HandsInv, NEW s \in Services
  PROVE  /\ current[s] = NoBuffer => Kept(s) = <<>>
         /\ current[s] # NoBuffer =>
              /\ current[s] \in DOMAIN buffers /\ buffers[current[s]].of = s
              /\ Kept(s) = buffers[current[s]].lines
BY DEF StoreTypeOK, HandsInv, Kept

\* A new buffer is empty, and leaves those of other services alone.
LEMMA CreateKept ==
  ASSUME StoreTypeOK, HandsInv, KeptInv, NEW r \in Readers, CreateBuffer(r)
  PROVE  KeptInv'
<1> DEFINE s == ServiceOf[r]
           n == Len(buffers')
<1>1. /\ DOMAIN buffers' = DOMAIN buffers \cup {n} /\ n \notin DOMAIN buffers /\ n # NoBuffer
      /\ \A b \in DOMAIN buffers : buffers'[b] = buffers[b]
      /\ buffers'[n] = [of |-> s, lines |-> <<>>]
  BY CreateTypes
<1>2. current' = [current EXCEPT ![s] = n] /\ pushed' = pushed
  BY DEF CreateBuffer
<1>3. ReaderStep(r)
  BY DEF ReaderStep
<1>4. /\ reader'[r] = ReaderAfter(r) /\ \A q \in Readers \ {r} : reader'[q] = reader[q]
  BY <1>3, OneMoves
<1>5. reader'[r].phase = "pushing" /\ reader'[r].buffer = n
  BY <1>4 DEF CreateBuffer, ReaderAfter
<1>6. s \in Services /\ \A q \in Readers : ServiceOf[q] \in Services
  BY LogReadersAssumption
<1> HIDE DEF s, n
<1>7. buffers'[n].of = s /\ buffers'[n].lines = <<>>
  BY <1>1
<1>8. \A t \in Services : current'[t] = IF t = s THEN n ELSE current[t]
  BY <1>2, <1>6 DEF StoreTypeOK
<1>9. Kept(s)' = <<>>
  BY <1>1, <1>2, <1>6, <1>7, <1>8 DEF Kept, NoBuffer, s
<1>10. \A t \in Services \ {s} : Kept(t)' = Kept(t)
  <2>1. ASSUME NEW t \in Services \ {s} PROVE Kept(t)' = Kept(t)
    <3>1. current'[t] = current[t] /\ (current[t] # NoBuffer => buffers'[current[t]] = buffers[current[t]])
      BY <1>1, <1>8, KeptIs
    <3> QED
      BY <3>1 DEF Kept, NoBuffer
  <2> QED
    BY <2>1
<1>11. ToSet(<<>>) = {} /\ DOMAIN <<>> = {}
  BY EmptySeq DEF ToSet
<1>12. ASSUME NEW b \in DOMAIN buffers' PROVE InOrderOfStream(buffers'[b].lines)
  <2>1. InOrderOfStream(<<>>)
    BY <1>11 DEF InOrderOfStream
  <2> QED
    BY <1>1, <1>7, <2>1 DEF KeptInv
<1>13. ASSUME NEW t \in Services PROVE NoneYet(t)'
  BY <1>1, <1>2, <1>7, <1>8 DEF KeptInv, NoneYet, NoBuffer
<1>14. ASSUME NEW t \in Services PROVE HasLast(t)'
  <2>1. CASE t = s
    <3>1. ASSUME OneBuffer(s)' PROVE \A b \in DOMAIN buffers : buffers[b].of # s
      BY <1>1, <1>7, <3>1 DEF OneBuffer
    <3>2. ASSUME OneBuffer(s)' PROVE pushed[s] = <<>>
      <4>1. current[s] = NoBuffer
        BY <1>6, <3>1, <3>2, KeptIs
      <4> QED
        BY <1>6, <4>1 DEF KeptInv, NoneYet
    <3>3. LastLines(<<>>) = <<>>
      BY LastOfNone
    <3> QED
      BY <1>1, <1>2, <1>7, <2>1, <3>1, <3>2, <3>3 DEF HasLast
  <2>2. CASE t # s
    <3>1. OneBuffer(t)' => OneBuffer(t)
      BY <1>1 DEF OneBuffer
    <3> QED
      BY <1>1, <1>2, <1>7, <2>2, <3>1 DEF KeptInv, HasLast
  <2> QED
    BY <2>1, <2>2
<1>15. ASSUME NEW t \in Services PROVE KeepsEnds(Kept(t), pushed[t])'
  <2>1. CASE t = s
    <3>1. KeepsEnds(<<>>, pushed[s])
      BY <1>11 DEF KeepsEnds
    <3> QED
      BY <1>2, <1>9, <2>1, <3>1
  <2>2. CASE t # s
    BY <1>2, <1>10, <2>2 DEF KeptInv
  <2> QED
    BY <2>1, <2>2
<1>16. ASSUME NEW q \in Readers PROVE Elsewhere(q)' /\ First(q)'
  <2>1. CASE q = r
    BY <1>5, <1>6, <1>8, <2>1 DEF Elsewhere, First, s
  <2>2. CASE q # r
    <3>1. reader'[q] = reader[q] /\ ServiceOf[q] \in Services /\ Elsewhere(q) /\ First(q)
      BY <1>4, <1>6, <2>2 DEF KeptInv
    <3>2. First(q)'
      BY <1>2, <3>1 DEF First
    <3>3. Elsewhere(q)'
      <4>1. CASE ServiceOf[q] = s
        BY <1>9, <1>11, <4>1 DEF Elsewhere
      <4>2. CASE ServiceOf[q] # s
        BY <1>8, <1>10, <3>1, <4>2 DEF Elsewhere
      <4> QED
        BY <4>1, <4>2
    <3> QED
      BY <3>2, <3>3
  <2> QED
    BY <2>1, <2>2
<1> QED
  BY <1>12, <1>13, <1>14, <1>15, <1>16 DEF KeptInv

\* A line goes into a buffer.
LEMMA PushKept ==
  ASSUME StoreTypeOK, HandsInv, PushedInv, StoredInv, KeptInv, NEW r \in Readers, PushLine(r)
  PROVE  KeptInv'
<1> DEFINE s == ServiceOf[r]
           b == reader[r].buffer
           line == reader[r].line
           kept == buffers[b].lines
           all == pushed[s]
<1>1. /\ b \in DOMAIN buffers /\ buffers[b].of = s /\ line \in Entry /\ line.from = r
      /\ DOMAIN buffers' = DOMAIN buffers
      /\ \A c \in DOMAIN buffers : /\ buffers'[c].of = buffers[c].of
                                   /\ c # b => buffers'[c] = buffers[c]
      /\ buffers'[b].lines = Push(kept, line)
      /\ s \in Services /\ all \in Seq(Entry)
      /\ \A t \in Services : pushed'[t] = IF t = s THEN Append(all, line) ELSE pushed[t]
  BY PushTypes
<1>2. current' = current /\ reader[r].phase = "pushing"
  BY DEF PushLine
<1>3. ReaderStep(r)
  BY DEF ReaderStep
<1>4. /\ reader'[r] = ReaderAfter(r) /\ \A q \in Readers \ {r} : reader'[q] = reader[q]
  BY <1>3, OneMoves
<1>5. reader'[r].phase = "sending"
  BY <1>2, <1>4 DEF ReaderAfter
<1>6. \A q \in Readers : ServiceOf[q] \in Services
  BY LogReadersAssumption
<1>7. /\ Behind(all, line) /\ InOrderOfStream(all) /\ InOrderOfStream(kept)
      /\ ToSet(kept) \subseteq ToSet(all)
  BY <1>1, <1>2 DEF PushedInv, PushedBehind, PushedOrder, Unpushed, KeptInv, StoredInv
<1>8. kept \in Seq(Entry)
  BY <1>1, BuffersTypes
<1>9. Elsewhere(r)
  BY DEF KeptInv
<1>10. b # current[s] => \A l \in ToSet(Kept(s)) : l.from # r
  BY <1>2, <1>9 DEF Elsewhere
<1> HIDE DEF s, b, line, kept, all
<1>11. Behind(kept, line)
  BY <1>7 DEF Behind, ToSet
<1>12. current[s] # NoBuffer
  BY <1>1 DEF KeptInv, NoneYet
<1>13. /\ current[s] \in DOMAIN buffers
       /\ Kept(s) = buffers[current[s]].lines /\ Kept(s)' = buffers'[current[s]].lines
  <2>1. current[s] \in DOMAIN buffers /\ Kept(s) = buffers[current[s]].lines
    BY <1>1, <1>12, KeptIs
  <2>2. current'[s] # NoBuffer /\ current'[s] = current[s]
    BY <1>2, <1>12
  <2>3. Kept(s)' = buffers'[current[s]].lines
    BY <2>2 DEF Kept, NoBuffer, s
  <2> QED
    BY <2>1, <2>3
<1>14. \A t \in Services \ {s} : Kept(t)' = Kept(t)
  <2>1. ASSUME NEW t \in Services \ {s} PROVE Kept(t)' = Kept(t)
    <3>1. current[t] # NoBuffer => current[t] # b /\ current[t] \in DOMAIN buffers
      BY <1>1, KeptIs
    <3>2. current[t] # NoBuffer => buffers'[current[t]] = buffers[current[t]]
      BY <1>1, <3>1
    <3> QED
      BY <1>2, <3>2 DEF Kept, NoBuffer
  <2> QED
    BY <2>1
<1>15. ASSUME NEW c \in DOMAIN buffers' PROVE InOrderOfStream(buffers'[c].lines)
  <2>1. InOrderOfStream(Push(kept, line))
    BY <1>1, <1>7, <1>8, <1>11, PushOrder
  <2> QED
    BY <1>1, <2>1 DEF KeptInv
<1>16. ASSUME NEW t \in Services PROVE NoneYet(t)'
  BY <1>1, <1>2, <1>12 DEF KeptInv, NoneYet, NoBuffer
<1>17. ASSUME NEW t \in Services PROVE HasLast(t)'
  <2>1. OneBuffer(t)' => OneBuffer(t)
    BY <1>1 DEF OneBuffer
  <2>2. HasLast(t)
    BY DEF KeptInv
  <2>3. CASE t = s
    <3>1. Push(LastLines(all), line) = LastLines(Append(all, line))
      BY <1>1, PushLast
    <3>2. ASSUME OneBuffer(s)', NEW c \in DOMAIN buffers, buffers[c].of = s
          PROVE  buffers'[c].lines = LastLines(pushed'[s])
      <4>1. c = b
        BY <1>1, <2>1, <2>3, <3>2 DEF OneBuffer
      <4>2. kept = LastLines(all)
        BY <1>1, <2>1, <2>2, <2>3, <3>2 DEF HasLast, kept, all
      <4> QED
        BY <1>1, <3>1, <4>1, <4>2
    <3> QED
      BY <1>1, <2>3, <3>2 DEF HasLast
  <2>4. CASE t # s
    BY <1>1, <2>1, <2>2, <2>4 DEF HasLast
  <2> QED
    BY <2>3, <2>4
<1>18. ASSUME NEW t \in Services PROVE KeepsEnds(Kept(t), pushed[t])'
  <2>1. KeepsEnds(Kept(t), pushed[t])
    BY DEF KeptInv
  <2>2. CASE t = s /\ b = current[s]
    <3>1. Kept(s) = kept /\ Kept(s)' = Push(kept, line)
      BY <1>1, <1>13, <2>2 DEF kept
    <3>2. KeepsEnds(Push(kept, line), Append(all, line))
      BY <1>1, <1>7, <1>8, <2>1, <2>2, <3>1, PushEnds DEF all
    <3> QED
      BY <1>1, <2>2, <3>1, <3>2
  <2>3. CASE t = s /\ b # current[s]
    <3>1. Kept(s)' = Kept(s)
      BY <1>1, <1>13, <2>3
    <3>2. KeepsEnds(Kept(s), Append(all, line))
      BY <1>1, <1>10, <2>1, <2>3, OtherEnds DEF all
    <3> QED
      BY <1>1, <2>3, <3>1, <3>2
  <2>4. CASE t # s
    BY <1>1, <1>14, <2>1, <2>4
  <2> QED
    BY <2>2, <2>3, <2>4
<1>19. ASSUME NEW q \in Readers PROVE Elsewhere(q)' /\ First(q)'
  <2>1. CASE q = r
    BY <1>5, <2>1 DEF Elsewhere, First
  <2>2. CASE q # r
    <3>1. reader'[q] = reader[q] /\ ServiceOf[q] \in Services /\ Elsewhere(q) /\ First(q)
      BY <1>4, <1>6, <2>2 DEF KeptInv
    <3>2. CASE ServiceOf[q] = s
      <4>1. ToSet(Kept(s)') \subseteq ToSet(Kept(s)) \cup {line}
        <5>1. ToSet(Push(kept, line)) \subseteq ToSet(kept) \cup {line}
          BY <1>1, <1>8, PushSet
        <5> QED
          BY <1>1, <1>13, <5>1 DEF kept
      <4>2. Elsewhere(q)'
        BY <1>1, <1>2, <2>2, <3>1, <3>2, <4>1 DEF Elsewhere
      <4>3. /\ DOMAIN Append(all, line) = DOMAIN all \cup {Len(all) + 1}
            /\ \A i \in DOMAIN all : Append(all, line)[i] = all[i]
            /\ Append(all, line)[Len(all) + 1] = line
        BY <1>1, AppendElements
      <4>4. First(q)'
        BY <1>1, <2>2, <3>1, <3>2, <4>3 DEF First, all
      <4> QED
        BY <4>2, <4>4
    <3>3. CASE ServiceOf[q] # s
      BY <1>1, <1>2, <1>14, <3>1, <3>3 DEF Elsewhere, First
    <3> QED
      BY <3>2, <3>3
  <2> QED
    BY <2>1, <2>2
<1> QED
  BY <1>15, <1>16, <1>17, <1>18, <1>19 DEF KeptInv

\* The other steps of a reader change no buffer.
LEMMA ReaderKept ==
  ASSUME StoreTypeOK, HandsInv, PushedInv, StoredInv, KeptInv, NEW r \in Readers, ReaderStep(r)
  PROVE  KeptInv'
<1>1. /\ reader'[r] = ReaderAfter(r) /\ \A q \in Readers \ {r} : reader'[q] = reader[q]
  BY OneMoves
<1>2. CASE ReadLine(r) \/ Lookup(r) \/ SendLine(r)
  <2>1. buffers' = buffers /\ current' = current /\ pushed' = pushed
    BY <1>2 DEF ReadLine, Lookup, SendLine
  <2>2. \A s \in Services : Kept(s)' = Kept(s)
    BY <2>1 DEF Kept, NoBuffer
  <2>3. ASSUME NEW s \in Services
        PROVE  NoneYet(s)' /\ HasLast(s)' /\ KeepsEnds(Kept(s), pushed[s])'
    BY <2>1, <2>2 DEF KeptInv, NoneYet, HasLast, OneBuffer, NoBuffer
  <2>4. ServiceOf[r] \in Services /\ \A q \in Readers : ServiceOf[q] \in Services
    BY LogReadersAssumption
  <2>5. /\ reader'[r].phase = "pushing" => reader'[r].buffer = current[ServiceOf[r]]
        /\ reader'[r].phase = "creating" => current[ServiceOf[r]] = NoBuffer
    BY <1>1, <1>2 DEF ReadLine, Lookup, SendLine, ReaderAfter
  <2>6. current[ServiceOf[r]] = NoBuffer => DOMAIN pushed[ServiceOf[r]] = {}
    BY <2>4, EmptySeq DEF KeptInv, NoneYet
  <2>7. Elsewhere(r)' /\ First(r)'
    BY <2>1, <2>5, <2>6 DEF Elsewhere, First
  <2>8. ASSUME NEW q \in Readers \ {r} PROVE Elsewhere(q)' /\ First(q)'
    BY <1>1, <2>1, <2>2, <2>4 DEF KeptInv, Elsewhere, First
  <2> QED
    BY <2>1, <2>3, <2>7, <2>8 DEF KeptInv
<1>3. CASE CreateBuffer(r)
  BY <1>3, CreateKept
<1>4. CASE PushLine(r)
  BY <1>4, PushKept
<1> QED
  BY <1>2, <1>3, <1>4 DEF ReaderStep

-----------------------------------------------------------------------------
(* The theorems.                                                           *)

LogInv ==
  /\ LogTypeOK /\ HandsInv /\ SentInv /\ PushedInv /\ StoredInv /\ KeptInv
  /\ \A p \in PushTasks : PushInv(p)
  /\ ViewInv /\ FollowerAccounts

\* Nothing has been read.
LEMMA InitInv == LogInit => LogInv
<1> SUFFICES ASSUME LogInit PROVE LogInv
  OBVIOUS
<1>1. LogTypeOK
  BY InitTypes
<1>2. /\ clock = 0 /\ buffers = <<>> /\ sent = <<>>
      /\ \A r \in Readers : reader[r].phase = "reading"
      /\ \A s \in Services : current[s] = NoBuffer /\ pushed[s] = <<>>
      /\ \A p \in PushTasks : push[p].phase # "writing" /\ push[p].next = 1 /\ got[p] = <<>>
  BY DEF LogInit, Reading
<1>3. /\ viewer.phase # "following" /\ viewer.next = 1 /\ viewer.since = 1
      /\ viewer.tail = <<>> /\ viewer.live = <<>> /\ viewer.skipped = 0
  BY DEF LogInit
<1>4. DOMAIN <<>> = {} /\ Len(<<>>) = 0 /\ <<>> \in Seq(Entry)
  BY EmptySeq
<1>5. HandsInv
  BY <1>2 DEF HandsInv
<1>6. SentInv
  BY <1>2, <1>4 DEF SentInv, InOrderOfStream, Read
<1>7. PushedInv
  BY <1>2, <1>4 DEF PushedInv, PushedOrder, PushedBehind, InOrderOfStream, Read, Unpushed
<1>8. StoredInv
  BY <1>2, <1>4 DEF StoredInv
<1>9. KeptInv
  BY <1>2, <1>4 DEF KeptInv, NoneYet, HasLast, KeepsEnds, Elsewhere, First
<1>10. ASSUME NEW p \in PushTasks PROVE PushInv(p)
  BY <1>2, <1>4 DEF PushInv, Given, InOrderOfStream
<1>11. ViewInv
  BY <1>2, <1>3, <1>4 DEF ViewInv, LiveSent, InOrderOfStream, Read
<1>12. FollowerAccounts
  <2>1. AccountsOf(1, 1, <<>>, 0)
    BY AccountsOfNone
  <2> QED
    BY <1>3, <2>1 DEF AccountsOf, FollowerAccounts
<1> QED
  BY <1>1, <1>5, <1>6, <1>7, <1>8, <1>9, <1>10, <1>11, <1>12 DEF LogInv

\* A reader's step leaves the account as it is.
LEMMA ReaderAccounts ==
  ASSUME StoreTypeOK, FollowersTypeOK, HandsInv, ViewInv, FollowerAccounts,
         NEW r \in Readers, ReaderStep(r)
  PROVE  FollowerAccounts'
<1> DEFINE Mine(all) == {i \in viewer.since .. viewer.next - 1 :
                           ServiceOf[all[i].from] = ViewedService}
<1>1. /\ viewer' = viewer /\ Len(sent) \in Nat /\ DOMAIN sent = 1 .. Len(sent)
      /\ \A k \in DOMAIN sent : sent'[k] = sent[k]
  BY SentGrows
<1>2. /\ viewer.next \in Nat \ {0} /\ viewer.since \in Nat \ {0} /\ viewer.next <= Len(sent) + 1
  BY ViewerFields DEF ViewInv
<1>3. \A i \in viewer.since .. viewer.next - 1 : sent'[i] = sent[i]
  BY <1>1, <1>2
<1>4. Mine(sent') = Mine(sent)
  BY <1>3
<1>5. FollowerAccounts' <=>
        /\ Cardinality(Mine(sent')) <= Len(viewer.live) + viewer.skipped
        /\ Len(viewer.live) + viewer.skipped <= viewer.next - viewer.since
  BY <1>1 DEF FollowerAccounts
<1>6. FollowerAccounts <=>
        /\ Cardinality(Mine(sent)) <= Len(viewer.live) + viewer.skipped
        /\ Len(viewer.live) + viewer.skipped <= viewer.next - viewer.since
  BY DEF FollowerAccounts
<1> HIDE DEF Mine
<1> QED
  BY <1>4, <1>5, <1>6

\* Nor do the first lines, which no follower is given.
LEMMA ShowAccounts ==
  ASSUME FollowersTypeOK, FollowerAccounts, GetLogs
  PROVE  FollowerAccounts'
<1>1. PICK shown, unsent : viewer' = [viewer EXCEPT !.phase = "shown", !.tail = shown,
                                                    !.unsent = unsent]
  BY DEF GetLogs
<1>2. viewer \in LogViewer
  BY ViewerFields
<1>3. /\ viewer'.next = viewer.next /\ viewer'.since = viewer.since
      /\ viewer'.live = viewer.live /\ viewer'.skipped = viewer.skipped
  BY <1>1, <1>2 DEF LogViewer
<1>4. sent' = sent
  BY DEF GetLogs, storeVars
<1> QED
  BY <1>3, <1>4 DEF FollowerAccounts

\* What does not follow leaves the store's part as it is.
LEMMA StoreStands ==
  ASSUME LogInv, UNCHANGED storeVars
  PROVE  StoreTypeOK' /\ HandsInv' /\ SentInv' /\ PushedInv' /\ StoredInv' /\ KeptInv'
<1>1. /\ clock' = clock /\ reader' = reader /\ buffers' = buffers /\ current' = current
      /\ sent' = sent /\ pushed' = pushed
  BY DEF storeVars
<1>2. StoreTypeOK'
  BY <1>1 DEF LogInv, LogTypeOK, StoreTypeOK
<1>3. HandsInv'
  BY <1>1 DEF LogInv, HandsInv
<1>4. SentInv'
  BY <1>1 DEF LogInv, SentInv, Read
<1>5. PushedInv'
  BY <1>1 DEF LogInv, PushedInv, PushedOrder, PushedBehind, Read
<1>6. StoredInv'
  BY <1>1 DEF LogInv, StoredInv
<1>7. KeptInv'
  <2>1. \A s : Kept(s)' = Kept(s)
    BY <1>1 DEF Kept, NoBuffer
  <2> QED
    BY <1>1, <2>1 DEF LogInv, KeptInv, NoneYet, HasLast, OneBuffer, Elsewhere, First, NoBuffer
<1> QED
  BY <1>2, <1>3, <1>4, <1>5, <1>6, <1>7

\* What does not push leaves the collectors as they are.
LEMMA PushStands ==
  ASSUME NEW p \in PushTasks, PushInv(p), push'[p] = push[p], got'[p] = got[p], sent' = sent
  PROVE  PushInv(p)'
BY DEF PushInv

\* What does not follow leaves the follower as it is.
LEMMA ViewStands ==
  ASSUME ViewInv, FollowerAccounts, UNCHANGED <<storeVars, viewer>>
  PROVE  ViewInv' /\ FollowerAccounts'
<1>1. viewer' = viewer /\ sent' = sent /\ clock' = clock /\ reader' = reader
  BY DEF storeVars
<1>2. FollowerAccounts'
  BY <1>1 DEF FollowerAccounts
<1>3. /\ \A r \in Readers : reader'[r].phase # "reading" => Settled(reader[r].line)'
      /\ viewer'.phase = "following" =>
           \A k \in DOMAIN sent' : viewer'.since <= k => Settled(sent[k])'
  BY <1>1 DEF ViewInv, Settled
<1>4. Read(viewer.tail)' /\ LiveSent'
  BY <1>1 DEF ViewInv, Read, LiveSent
<1> QED
  BY <1>1, <1>2, <1>3, <1>4 DEF ViewInv

\* The invariant is kept.
LEMMA NextInv == LogInv /\ [LogNext]_logVars => LogInv'
<1> SUFFICES ASSUME LogInv, [LogNext]_logVars PROVE LogInv'
  OBVIOUS
<1>1. /\ StoreTypeOK /\ FollowersTypeOK /\ HandsInv /\ SentInv /\ PushedInv /\ StoredInv
      /\ KeptInv /\ ViewInv /\ FollowerAccounts /\ \A p \in PushTasks : PushInv(p)
  BY DEF LogInv, LogTypeOK
<1>2. ASSUME NEW r \in Readers, ReaderStep(r) PROVE LogInv'
  <2>1. StoreTypeOK' /\ HandsInv'
    BY <1>1, <1>2, ReaderTypes
  <2>2. SentInv' /\ PushedInv' /\ StoredInv' /\ KeptInv'
    BY <1>1, <1>2, ReaderSent, ReaderPushed, ReaderStored, ReaderKept
  <2>3. \A p \in PushTasks : PushInv(p)'
    BY <1>1, <1>2, ReaderPush
  <2>4. ViewInv' /\ FollowerAccounts'
    BY <1>1, <1>2, ReaderView, ReaderAccounts
  <2>5. FollowersTypeOK'
    <3>1. UNCHANGED <<push, got, viewer>>
      BY <1>1, <1>2, SentGrows
    <3> QED
      BY <1>1, <3>1 DEF FollowersTypeOK
  <2> QED
    BY <2>1, <2>2, <2>3, <2>4, <2>5 DEF LogInv, LogTypeOK
<1>3. ASSUME NEW p \in PushTasks, PushStep(p) PROVE LogInv'
  <2>1. /\ UNCHANGED <<storeVars, viewer>> /\ FollowersTypeOK' /\ PushInv(p)'
        /\ \A q \in PushTasks \ {p} : push'[q] = push[q] /\ got'[q] = got[q]
    BY <1>1, <1>3, PushSteps
  <2>2. UNCHANGED storeVars /\ sent' = sent
    BY <2>1 DEF storeVars
  <2>3. StoreTypeOK' /\ HandsInv' /\ SentInv' /\ PushedInv' /\ StoredInv' /\ KeptInv'
    BY <2>2, StoreStands
  <2>4. ViewInv' /\ FollowerAccounts'
    BY <1>1, <2>1, ViewStands
  <2>5. \A q \in PushTasks \ {p} : PushInv(q)'
    BY <1>1, <2>1, <2>2, PushStands
  <2> QED
    BY <2>1, <2>3, <2>4, <2>5 DEF LogInv, LogTypeOK
<1>4. ASSUME GetLogs \/ FollowLogs \/ Follow PROVE LogInv'
  <2>1. UNCHANGED storeVars /\ push' = push /\ got' = got
    BY <1>4 DEF GetLogs, FollowLogs, Follow
  <2>2. FollowersTypeOK' /\ ViewInv' /\ FollowerAccounts'
    <3>1. CASE GetLogs
      <4>1. FollowersTypeOK' /\ ViewInv'
        BY <1>1, <3>1, ShowView
      <4>2. FollowerAccounts'
        BY <1>1, <3>1, ShowAccounts
      <4> QED
        BY <4>1, <4>2
    <3>2. CASE FollowLogs \/ Follow
      BY <1>1, <3>2, FollowSteps
    <3> QED
      BY <1>4, <3>1, <3>2
  <2>3. StoreTypeOK' /\ HandsInv' /\ SentInv' /\ PushedInv' /\ StoredInv' /\ KeptInv'
    BY <2>1, StoreStands
  <2>4. sent' = sent
    BY <2>1 DEF storeVars
  <2>5. \A p \in PushTasks : PushInv(p)'
    BY <1>1, <2>1, <2>4, PushStands
  <2> QED
    BY <2>2, <2>3, <2>5 DEF LogInv, LogTypeOK
<1>5. ASSUME UNCHANGED logVars PROVE LogInv'
  <2>1. UNCHANGED storeVars /\ UNCHANGED <<storeVars, viewer>> /\ push' = push /\ got' = got
        /\ sent' = sent /\ viewer' = viewer
    BY <1>5 DEF logVars, storeVars
  <2>2. StoreTypeOK' /\ HandsInv' /\ SentInv' /\ PushedInv' /\ StoredInv' /\ KeptInv'
    BY <2>1, StoreStands
  <2>3. ViewInv' /\ FollowerAccounts'
    BY <1>1, <2>1, ViewStands
  <2>4. \A p \in PushTasks : PushInv(p)'
    BY <1>1, <2>1, PushStands
  <2>5. FollowersTypeOK'
    BY <1>1, <2>1 DEF FollowersTypeOK
  <2> QED
    BY <2>2, <2>3, <2>4, <2>5 DEF LogInv, LogTypeOK
<1> QED
  BY <1>2, <1>3, <1>4, <1>5 DEF LogNext

LEMMA SpecInv == LogSpec => []LogInv
<1> QED
  BY InitInv, NextInv, PTL DEF LogSpec

\* A buffer never has more than --log-buffer lines, and every line in it, in the
\* channel and with a follower is one that was read (logs/store.rs, Buffer::push).
THEOREM LogTypes == LogSpec => []LogTypeOK
<1>1. LogInv => LogTypeOK
  BY DEF LogInv
<1> QED
  BY <1>1, SpecInv, PTL

\* A service has a single buffer unless two readers raced.
LEMMA NotRaced ==
  ASSUME StoreTypeOK, NEW s \in Services, ~ Raced(s)
  PROVE  OneBuffer(s)
<1> DEFINE Of == {b \in DOMAIN buffers : buffers[b].of = s}
<1>1. IsFiniteSet(Of) /\ Cardinality(Of) \in Nat
  <2>1. Len(buffers) \in Nat /\ DOMAIN buffers = 1 .. Len(buffers)
    BY BuffersTypes
  <2>2. IsFiniteSet(1 .. Len(buffers))
    BY <2>1, FS_Interval
  <2> QED
    BY <2>1, <2>2, FS_Subset, FS_CardinalityType
<1>2. ASSUME NEW b \in Of, NEW c \in Of, b # c PROVE FALSE
  <2>1. {b, c} \subseteq Of
    OBVIOUS
  <2>2. IsFiniteSet({c}) /\ Cardinality({c}) = 1
    BY FS_Singleton
  <2>3. {b, c} = {c} \cup {b} /\ b \notin {c}
    BY <1>2
  <2>4. Cardinality({b, c}) = 2
    <3> DEFINE one == {c}
    <3>1. IsFiniteSet(one) /\ Cardinality(one) = 1 /\ b \notin one
      BY <2>2, <2>3
    <3> HIDE DEF one
    <3>2. Cardinality(one \cup {b}) = Cardinality(one) + 1
      BY <3>1, FS_AddElement
    <3> QED
      BY <2>3, <3>1, <3>2 DEF one
  <2> HIDE DEF Of
  <2>5. Cardinality({b, c}) <= Cardinality(Of)
    BY <1>1, <2>1, FS_Subset
  <2>6. ~(Cardinality(Of) > 1)
    BY DEF Raced, Of
  <2> QED
    BY <1>1, <2>4, <2>5, <2>6
<1> QED
  BY <1>2 DEF OneBuffer

\* The last lines of a service are kept, unless two readers created its buffer; then
\* lines are missing before what is kept of a stream, never after or in between
\* (logs/store.rs, buffer_for and Buffer::push).
THEOREM KeepsLast == LogSpec => []KeepsLastLines
<1>1. LogInv => KeepsLastLines
  <2> SUFFICES ASSUME LogInv PROVE KeepsLastLines
    OBVIOUS
  <2>1. StoreTypeOK /\ HandsInv /\ StoredInv /\ KeptInv
    BY DEF LogInv, LogTypeOK
  <2>2. ASSUME NEW s \in Services, ~ Raced(s) PROVE Kept(s) = LastLines(pushed[s])
    <3>1. OneBuffer(s) /\ NoneYet(s) /\ HasLast(s)
      BY <2>1, <2>2, NotRaced DEF KeptInv
    <3>2. CASE current[s] = NoBuffer
      BY <2>1, <3>1, <3>2, KeptIs, LastOfNone DEF NoneYet
    <3>3. CASE current[s] # NoBuffer
      BY <2>1, <3>1, <3>3, KeptIs DEF HasLast
    <3> QED
      BY <3>2, <3>3
  <2>3. ASSUME NEW s \in Services
        PROVE  /\ InOrderOfStream(Kept(s)) /\ ToSet(Kept(s)) \subseteq ToSet(pushed[s])
               /\ KeepsEnds(Kept(s), pushed[s])
    <3>1. KeepsEnds(Kept(s), pushed[s])
      BY <2>1 DEF KeptInv
    <3>2. CASE current[s] = NoBuffer
      <4>1. Kept(s) = <<>> /\ DOMAIN <<>> = {}
        BY <2>1, <3>2, KeptIs, EmptySeq
      <4> QED
        BY <3>1, <4>1 DEF InOrderOfStream, ToSet
    <3>3. CASE current[s] # NoBuffer
      <4>1. /\ current[s] \in DOMAIN buffers /\ buffers[current[s]].of = s
            /\ Kept(s) = buffers[current[s]].lines
        BY <2>1, <3>3, KeptIs
      <4> QED
        BY <2>1, <3>1, <4>1 DEF KeptInv, StoredInv
    <3> QED
      BY <3>2, <3>3
  <2>4. \A r \in Readers : First(r)
    BY <2>1 DEF KeptInv
  <2> QED
    BY <2>2, <2>3, <2>4 DEF KeepsLastLines, First
<1> QED
  BY <1>1, SpecInv, PTL

\* Whoever follows, a collector or `vigil logs -f', gets the lines of each stream in
\* order (logs/push.rs, crates/vigil/src/cmd/logs.rs).
THEOREM InOrder == LogSpec => []FollowersInOrder
<1>1. LogInv => FollowersInOrder
  <2> SUFFICES ASSUME LogInv PROVE FollowersInOrder
    OBVIOUS
  <2>1. PushInOrder
    BY DEF LogInv, PushInv, PushInOrder
  <2>2. ViewInv
    BY DEF LogInv
  <2>3. ASSUME NEW i \in DOMAIN viewer.tail, NEW j \in DOMAIN viewer.live,
               viewer.tail[i].from = viewer.live[j].from
        PROVE  \/ viewer.tail[i].time < viewer.live[j].time
               \/ viewer.tail[i] = viewer.live[j] /\ viewer.tail[i] \in viewer.unsent
    <3>1. viewer.phase = "following"
      <4>1. viewer.live # <<>>
        BY <2>3, EmptySeq
      <4> QED
        BY <2>2, <4>1 DEF ViewInv
    <3>2. PICK k \in DOMAIN sent : viewer.since <= k /\ viewer.live[j] = sent[k]
      BY <2>2 DEF ViewInv, LiveSent
    <3>3. Settled(sent[k])
      BY <2>2, <3>1, <3>2 DEF ViewInv
    <3> QED
      BY <2>3, <3>2, <3>3 DEF Settled
  <2>4. ViewInOrder
    BY <2>2, <2>3 DEF ViewInv, ViewInOrder
  <2> QED
    BY <2>1, <2>4 DEF FollowersInOrder
<1> QED
  BY <1>1, SpecInv, PTL

\* A follower is given every line of its service that was sent since it subscribed, or
\* is told how many it lost (api/handlers/logs.rs, follow_logs).
THEOREM Accounts == LogSpec => []FollowerAccounts
<1>1. LogInv => FollowerAccounts
  BY DEF LogInv
<1> QED
  BY <1>1, SpecInv, PTL
=============================================================================
