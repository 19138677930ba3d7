-------------------------- MODULE UartFrameProofs --------------------------
(***************************************************************************)
(* The reader of commands: its type, that it serves exactly the frames,    *)
(* and that a frame that arrives whole is answered.                        *)
(***************************************************************************)
EXTENDS UartFrameSafety, TLAPS

(* Before s the reader has seen these headers, and remembers the last of   *)
(* each kind.                                                              *)
HeadersSeen(b, s) ==
  /\ \A i \in b + 1 .. s - 1 : GoodHeader(text[i])
  /\ hasVersion <=> HeadersOf(text, b, s, "FRAME_VERSION") # {}
  /\ IF hasLen THEN Declares(text, b, s, "FRAME_LEN", declaredLen)
     ELSE HeadersOf(text, b, s, "FRAME_LEN") = {}
  /\ IF hasCrc THEN Declares(text, b, s, "FRAME_CRC32", declaredCrc)
     ELSE HeadersOf(text, b, s, "FRAME_CRC32") = {}

(* The payload opens at s and is still open before e. *)
PayloadSince(lines, b, s, e) ==
  /\ PayloadOpensAt(lines, b, s)
  /\ s < e /\ \A i \in s + 1 .. e - 1 : lines[i].kind # "FRAME_PAYLOAD_END"

(* What no line to come can mend: a bad header, a payload that opens       *)
(* without all of them, a line between its end and that of the frame.      *)
BadHeaderAt(lines, b, k) ==
  /\ k \in b + 1 .. Len(lines)
  /\ \A i \in b + 1 .. k - 1 : GoodHeader(lines[i])
  /\ ~GoodHeader(lines[k])
  /\ lines[k].kind = "FRAME_PAYLOAD_BEGIN" =>
       \E kind \in HeaderKinds : HeadersOf(lines, b, k, kind) = {}

LateLine(lines, b, s, k) ==
  /\ PayloadSince(lines, b, s, k)
  /\ k < Len(lines) /\ lines[k].kind = "FRAME_PAYLOAD_END" /\ lines[k + 1].kind # "FRAME_END"

Spoiled(lines, b) ==
  \/ \E k \in 1 .. Len(lines) : BadHeaderAt(lines, b, k)
  \/ \E s, k \in 1 .. Len(lines) : LateLine(lines, b, s, k)

FrameRead(b) ==
  IF frameError # NoError THEN Spoiled(text, b)
  ELSE IF inPayload THEN
    /\ PayloadSince(text, b, payloadStart, Len(text) + 1)
    /\ HeadersSeen(b, payloadStart)
    /\ hasVersion /\ hasLen /\ hasCrc
    /\ ~payloadDone
  ELSE IF payloadDone THEN
    /\ PayloadSince(text, b, payloadStart, Len(text))
    /\ text[Len(text)].kind = "FRAME_PAYLOAD_END"
    /\ payloadEnd = Len(text) - 1
    /\ HeadersSeen(b, payloadStart)
    /\ hasVersion /\ hasLen /\ hasCrc
  ELSE HeadersSeen(b, Len(text) + 1)

Reads ==
  ret = "reading" =>
    IF frameMode THEN \E b \in 1 .. Len(text) : OpensAt(text, b) /\ FrameRead(b)
    ELSE /\ \A i \in 1 .. Len(text) : text[i].kind # "FRAME_BEGIN"
         /\ ~inPayload /\ ~payloadDone /\ ~hasVersion /\ ~hasLen /\ ~hasCrc
         /\ frameError = NoError

(* How a frame still under way ends, and what the reader is doing then. *)
FrameUnderWay ==
  whole /\ ~answered =>
    /\ queue # <<>>
    /\ queue[Len(queue)] = Word("FRAME_END")
    /\ IF Len(queue) = 1 THEN ret = "reading" /\ frameMode /\ ~inPayload
       ELSE /\ queue[Len(queue) - 1] = Word("FRAME_PAYLOAD_END")
            /\ \/ queue[1] = Word("FRAME_BEGIN") /\ Len(queue) > 2
               \/ ret = "reading" /\ frameMode

(* Where the reader stands in its buffer. *)
Bounds == ret = "reading" => payloadEnd <= Len(text)

USE UartFrameAssumption, HostAssumption

LEMMA LineFields ==
  ASSUME NEW line \in Line
  PROVE  /\ line.ok \in BOOLEAN /\ line.kind \in LineKinds
         /\ line.kind = "FRAME_LEN" /\ line.ok => line.arg \in Nat
BY DEF Line

LEMMA ClassifyType ==
  ASSUME NEW lines
  PROVE  Classify(lines) \in Commands \cup {"ERR_INVALID"}
<1>1. CASE \E c \in WholeCommands : IsExact(lines, c)
  BY <1>1 DEF Classify, IsExact, Commands
<1>2. CASE ~(\E c \in WholeCommands : IsExact(lines, c)) /\ FirstCommand(lines) # {}
  <2> DEFINE i == CHOOSE i \in FirstCommand(lines) : TRUE
  <2>1. i \in FirstCommand(lines)
    BY <1>2
  <2>2. lines[i].kind \in LineCommands
    BY <2>1 DEF FirstCommand, IsLineCommand
  <2> QED
    BY <1>2, <2>2 DEF Classify, Commands
<1> QED
  BY <1>1, <1>2 DEF Classify

LEMMA TailType ==
  ASSUME NEW S, NEW s \in Seq(S), s # <<>>
  PROVE  Head(s) \in S /\ Tail(s) \in Seq(S)
OBVIOUS

LEMMA PartType ==
  ASSUME NEW S, NEW s \in Seq(S), NEW i \in Nat, NEW j \in Nat, j <= Len(s)
  PROVE  /\ SubSeq(s, i + 1, j) \in Seq(S)
         /\ Len(SubSeq(s, i + 1, j)) <= Len(s)
OBVIOUS

TypeInv == TypeOK /\ Bounds

LEMMA ReceiveType ==
  ASSUME TypeInv, NEW line \in Line, Receive(line)
  PROVE  ReadTypeOK' /\ Bounds'
<1> USE DEF TypeInv, TypeOK, ReadTypeOK, Bounds, headerVars, payloadVars, frameVars
<1>1. ret = "reading" /\ Len(text) < CmdMax /\ payloadEnd <= Len(text)
  BY DEF Receive, Room
<1>2. /\ Append(text, line) \in Seq(Line)
      /\ Len(Append(text, line)) = Len(text) + 1
  OBVIOUS
<1>3. CASE EndFrame(line)
  <2>1. frameError' = frameError /\ UNCHANGED frameVars
    BY <1>3 DEF EndFrame
  <2>2. CASE FrameFault # NoError /\ ret' = FrameFault /\ text' = Append(text, line)
    <3>1. FrameFault \in FrameErrors
      BY <2>2 DEF FrameFault, Fault, FrameErrors
    <3> QED
      BY <1>1, <1>2, <2>1, <2>2, <3>1 DEF FrameErrors
  <2>3. CASE FrameFault = NoError /\ ret' = Classify(Payload) /\ text' = Payload
    <3>1. Payload \in Seq(Line) /\ Len(Payload) <= Len(text)
      BY <1>1, PartType DEF Payload
    <3>2. ret' \in Commands \cup {"ERR_INVALID"}
      BY <2>3, ClassifyType
    <3> QED
      BY <1>1, <2>1, <2>3, <3>1, <3>2 DEF FrameErrors, Commands, LineCommands, WholeCommands
  <2> QED
    BY <1>3, <2>2, <2>3 DEF EndFrame
<1>4. ASSUME text' = Append(text, line)
      PROVE  text' \in Seq(Line) /\ Len(text') = Len(text) + 1 /\ Len(text') <= CmdMax
  BY <1>1, <1>2, <1>4
<1>5. CASE StartFrame(line) /\ text' = Append(text, line)
  BY <1>1, <1>4, <1>5 DEF StartFrame
<1>6. CASE BareLine(line) /\ text' = Append(text, line)
  <2>1. ret' \in Commands \cup {"reading"}
    BY <1>1, <1>6 DEF BareLine, BareCommand, IsLineCommand, Commands
  <2> QED
    BY <1>1, <1>4, <1>6, <2>1 DEF BareLine
<1>7. CASE PayloadLine(line) /\ text' = Append(text, line)
  <2>1. CASE EndsPayload(line)
    <3>1. inPayload' = FALSE /\ payloadDone' = TRUE /\ payloadEnd' = Len(text)
      BY <1>7, <2>1 DEF PayloadLine
    <3>2. UNCHANGED <<frameMode, headerVars, payloadStart, frameError, ret>>
      BY <1>7 DEF PayloadLine
    <3>3. {frameMode', inPayload', payloadDone', hasVersion', hasLen', hasCrc'} \subseteq BOOLEAN
      BY <3>1, <3>2
    <3>4. payloadEnd' \in 0 .. CmdMax /\ payloadEnd' <= Len(text')
      BY <1>1, <1>4, <1>7, <3>1
    <3>5. /\ frameError' \in FrameErrors \cup {NoError} /\ payloadStart' \in 0 .. CmdMax
          /\ declaredLen' \in 0 .. MaxPayload
          /\ ret' \in {"reading", "ERR_READ"} \cup Commands \cup FrameErrors
      BY <3>2
    <3> QED
      BY <1>4, <1>7, <3>3, <3>4, <3>5
  <2>2. CASE ~EndsPayload(line)
    BY <1>1, <1>4, <1>7, <2>2 DEF PayloadLine
  <2> QED
    BY <2>1, <2>2
<1>8. CASE LineAfterPayload(line) /\ text' = Append(text, line)
  BY <1>1, <1>4, <1>8 DEF LineAfterPayload, FrameFails, FrameErrors
<1>9. CASE LineOfBadFrame(line) /\ text' = Append(text, line)
  BY <1>1, <1>4, <1>9 DEF LineOfBadFrame
<1>10. CASE HeaderLine(line) /\ text' = Append(text, line)
  <2> USE <1>1, <1>4, <1>10, LineFields DEF HeaderLine, Header, FrameFails, FrameErrors
  <2>1. CASE line.kind = "FRAME_VERSION"
    <3>1. CASE line.ok
      BY <2>1, <3>1
    <3>2. CASE ~line.ok
      BY <2>1, <3>2
    <3> QED
      BY <3>1, <3>2
  <2>2. CASE line.kind = "FRAME_LEN"
    <3>1. CASE line.ok /\ line.arg <= MaxPayload
      BY <2>2, <3>1
    <3>2. CASE ~(line.ok /\ line.arg <= MaxPayload)
      BY <2>2, <3>2
    <3> QED
      BY <3>1, <3>2
  <2>3. CASE line.kind = "FRAME_CRC32"
    <3>1. CASE line.ok
      BY <2>3, <3>1
    <3>2. CASE ~line.ok
      BY <2>3, <3>2
    <3> QED
      BY <3>1, <3>2
  <2>4. CASE line.kind = "FRAME_PAYLOAD_BEGIN"
    BY <2>4
  <2>5. CASE line.kind \notin HeaderKinds \cup {"FRAME_PAYLOAD_BEGIN"}
    BY <2>5 DEF HeaderKinds
  <2> QED
    BY <2>1, <2>2, <2>3, <2>4, <2>5 DEF HeaderKinds
<1> QED
  BY <1>3, <1>5, <1>6, <1>7, <1>8, <1>9, <1>10 DEF Receive

LEMMA Concat ==
  ASSUME NEW s \in Seq(Line), NEW t \in Seq(Line)
  PROVE  /\ s \o t \in Seq(Line) /\ Len(s \o t) = Len(s) + Len(t)
         /\ \A i \in 1 .. Len(s) : (s \o t)[i] = s[i]
         /\ \A i \in 1 .. Len(t) : (s \o t)[Len(s) + i] = t[i]
OBVIOUS

LEMMA FrameType ==
  ASSUME NEW headers \in Seq(Line), NEW payload \in Seq(Line)
  PROVE  LET frame == Frame(headers, payload) IN
         /\ frame \in Seq(Line) /\ Len(frame) > 2
         /\ frame[1] = Word("FRAME_BEGIN")
         /\ frame[Len(frame)] = Word("FRAME_END")
         /\ frame[Len(frame) - 1] = Word("FRAME_PAYLOAD_END")
<1>1. /\ Word("FRAME_BEGIN") \in Line /\ Word("FRAME_PAYLOAD_BEGIN") \in Line
      /\ Word("FRAME_PAYLOAD_END") \in Line /\ Word("FRAME_END") \in Line
  BY DEF Word, Line, LineKinds
<1> DEFINE front == <<Word("FRAME_BEGIN")>> \o headers \o <<Word("FRAME_PAYLOAD_BEGIN")>> \o payload
           end == <<Word("FRAME_PAYLOAD_END"), Word("FRAME_END")>>
<1>2. front \in Seq(Line) /\ Len(front) > 1 /\ front[1] = Word("FRAME_BEGIN")
  BY <1>1
<1>3. end \in Seq(Line) /\ Len(end) = 2 /\ end[1] = Word("FRAME_PAYLOAD_END")
      /\ end[2] = Word("FRAME_END")
  BY <1>1
<1>4. Frame(headers, payload) = front \o end
  BY DEF Frame
<1> HIDE DEF front, end
<1>5. /\ front \o end \in Seq(Line) /\ Len(front \o end) = Len(front) + 2
      /\ (front \o end)[1] = front[1]
      /\ (front \o end)[Len(front) + 1] = end[1]
      /\ (front \o end)[Len(front) + 2] = end[2]
  <2>1. /\ front \o end \in Seq(Line) /\ Len(front \o end) = Len(front) + Len(end)
        /\ \A i \in 1 .. Len(front) : (front \o end)[i] = front[i]
        /\ \A i \in 1 .. Len(end) : (front \o end)[Len(front) + i] = end[i]
    <3>1. front \in Seq(Line) /\ end \in Seq(Line)
      BY <1>2, <1>3
    <3> QED
      BY <3>1, Concat
  <2>2. 1 \in 1 .. Len(front) /\ 1 \in 1 .. Len(end) /\ 2 \in 1 .. Len(end)
    BY <1>2, <1>3
  <2>3. /\ front \o end \in Seq(Line) /\ Len(front \o end) = Len(front) + Len(end)
        /\ (front \o end)[1] = front[1]
        /\ (front \o end)[Len(front) + 1] = end[1]
        /\ (front \o end)[Len(front) + 2] = end[2]
    BY <1>2, <1>3, <2>1, <2>2
  <2> QED
    BY <1>3, <2>3
<1> QED
  BY <1>2, <1>3, <1>4, <1>5

LEMMA RestType ==
  ASSUME TypeOK, queue # <<>>, NEW rest \in {<<>>, <<Garbled>>}
  PROVE  rest \o Tail(queue) \in Seq(Line)
<1>1. Garbled \in Line
  BY DEF Garbled, Word, Line, LineKinds
<1>2. Tail(queue) \in Seq(Line) /\ rest \in Seq(Line)
  <2>1. Tail(queue) \in Seq(Line)
    BY TailType DEF TypeOK
  <2>2. <<Garbled>> \in Seq(Line) /\ <<>> \in Seq(Line)
    BY <1>1
  <2> QED
    BY <2>1, <2>2
<1> QED
  BY <1>2

LEMMA ReaderIdle ==
  ASSUME TypeInv, UNCHANGED readVars
  PROVE  ReadTypeOK' /\ Bounds'
BY DEF TypeInv, TypeOK, ReadTypeOK, Bounds, readVars, frameVars, headerVars, payloadVars

LEMMA TypeStep ==
  ASSUME TypeInv, [Next]_vars
  PROVE  TypeInv'
<1> USE DEF TypeInv, TypeOK
<1>0. faults < MaxFaults => faults + 1 \in 0 .. MaxFaults
  OBVIOUS
<1>1. ASSUME NEW payload \in Payloads, SendFrame(payload)
      PROVE  TypeInv'
  <2>1. PICK headers \in HeadersFor(payload) : queue' = Frame(headers, payload)
    BY <1>1 DEF SendFrame
  <2>2. queue' \in Seq(Line)
    BY <2>1, FrameType
  <2> QED
    BY <1>1, <2>2, ReaderIdle DEF SendFrame
<1>2. ASSUME NEW line \in BareLines, SendBare(line)
      PROVE  TypeInv'
  <2>1. queue' \in Seq(Line)
    BY <1>2 DEF SendBare
  <2> QED
    BY <1>0, <1>2, <2>1, ReaderIdle DEF SendBare
<1>3. CASE Deliver
  <2>1. Head(queue) \in Line /\ queue' \in Seq(Line)
    BY <1>3, TailType DEF Deliver
  <2>2. ReadTypeOK' /\ Bounds'
    BY <1>3, <2>1, ReceiveType DEF Deliver
  <2> QED
    BY <1>3, <2>1, <2>2 DEF Deliver
<1>4. CASE Overflow \/ LineError
  <2>1. queue' \in Seq(Line)
    BY <1>4, RestType DEF Overflow, LineError
  <2>2. ReadTypeOK' /\ Bounds'
    BY <1>4 DEF Overflow, LineError, ReceiveFails, ReadTypeOK, Bounds, frameVars, headerVars, payloadVars
  <2> QED
    BY <1>0, <1>4, <2>1, <2>2 DEF Overflow, LineError
<1>5. CASE Lose \/ GiveUp
  <2>1. queue' \in Seq(Line)
    <3>1. <<>> \in Seq(Line)
      OBVIOUS
    <3>2. CASE Lose
      BY <3>2, RestType DEF Lose
    <3>3. CASE GiveUp
      BY <3>1, <3>3 DEF GiveUp
    <3> QED
      BY <1>5, <3>2, <3>3
  <2> QED
    BY <1>0, <1>5, <2>1, ReaderIdle DEF Lose, GiveUp
<1>6. CASE Serve
  <2>1. ReadTypeOK' /\ Bounds'
    <3>1. <<>> \in Seq(Line) /\ Len(<<>>) = 0
      OBVIOUS
    <3>2. {frameMode', inPayload', payloadDone', hasVersion', hasLen', hasCrc'} \subseteq BOOLEAN
      BY <1>6 DEF Serve, ReadNext
    <3> QED
      BY <1>6, <3>1, <3>2 DEF Serve, ReadNext, ReadTypeOK, Bounds
  <2> QED
    BY <1>6, <2>1 DEF Serve, hostVars
<1>7. CASE UNCHANGED vars
  BY <1>7, ReaderIdle DEF vars, hostVars
<1> QED
  BY <1>1, <1>2, <1>3, <1>4, <1>5, <1>6, <1>7 DEF Next

-----------------------------------------------------------------------------
(* How the lines of a frame leave the reader that has not answered. *)
LEMMA EndFrameAnswers ==
  ASSUME TypeInv, NEW line, EndFrame(line)
  PROVE  ret' \in Commands \cup FrameErrors /\ ret' # "reading"
<1>1. CASE FrameFault # NoError /\ ret' = FrameFault
  BY <1>1 DEF EndFrame, FrameFault, Fault, FrameErrors, TypeInv, TypeOK, ReadTypeOK
<1>2. CASE ret' = Classify(Payload)
  BY <1>2, ClassifyType DEF Commands, LineCommands, WholeCommands, FrameErrors
<1> QED
  BY <1>1, <1>2 DEF EndFrame

LEMMA ReceiveInFrame ==
  ASSUME TypeInv, NEW line \in Line, Receive(line), ret' = "reading"
  PROVE  /\ frameMode \/ line.kind = "FRAME_BEGIN" => frameMode'
         /\ frameMode /\ line.kind = "FRAME_PAYLOAD_END" => ~inPayload'
         /\ frameMode /\ ~inPayload => line.kind # "FRAME_END"
<1> USE DEF TypeInv, TypeOK, ReadTypeOK, headerVars, payloadVars, frameVars
<1>1. ~EndFrame(line)
  BY EndFrameAnswers
<1>2. CASE StartFrame(line)
  BY <1>2 DEF StartFrame
<1>3. CASE BareLine(line)
  BY <1>3 DEF BareLine
<1>4. CASE PayloadLine(line)
  BY <1>4 DEF PayloadLine, EndsPayload
<1>5. CASE LineAfterPayload(line)
  BY <1>5 DEF LineAfterPayload, FrameFails
<1>6. CASE LineOfBadFrame(line)
  BY <1>6 DEF LineOfBadFrame
<1>7. CASE HeaderLine(line)
  <2>1. CASE line.kind = "FRAME_PAYLOAD_END"
    BY <1>7, <2>1 DEF HeaderLine, Header, FrameFails
  <2>2. CASE line.kind # "FRAME_PAYLOAD_END"
    BY <1>7, <2>2 DEF HeaderLine
  <2> QED
    BY <2>1, <2>2
<1> QED
  BY <1>1, <1>2, <1>3, <1>4, <1>5, <1>6, <1>7 DEF Receive

LEMMA TailElements ==
  ASSUME NEW s \in Seq(Line), s # <<>>
  PROVE  /\ Head(s) = s[1]
         /\ Len(Tail(s)) = Len(s) - 1
         /\ \A i \in 1 .. Len(s) - 1 : Tail(s)[i] = s[i + 1]
OBVIOUS

LEMMA FrameUnderWayStep ==
  ASSUME TypeInv, FrameUnderWay, [Next]_vars
  PROVE  FrameUnderWay'
<1> SUFFICES ASSUME whole', ~answered'
             PROVE  FrameUnderWay'
  BY DEF FrameUnderWay
<1> USE DEF TypeInv, TypeOK
<1>1. ASSUME NEW payload \in Payloads, SendFrame(payload)
      PROVE  FrameUnderWay'
  <2>1. PICK headers \in HeadersFor(payload) : queue' = Frame(headers, payload)
    BY <1>1 DEF SendFrame
  <2> QED
    BY <2>1, FrameType DEF FrameUnderWay
<1>2. ASSUME NEW line \in BareLines, SendBare(line)
      PROVE  FrameUnderWay'
  BY <1>2 DEF SendBare
<1>3. CASE Deliver
  <2> DEFINE line == Head(queue)
  <2>1. queue # <<>> /\ line \in Line /\ Receive(line) /\ queue' = Tail(queue)
    BY <1>3, TailType DEF Deliver
  <2>2. whole /\ ~answered /\ ret' = "reading"
    BY <1>3 DEF Deliver
  <2>3. ret = "reading"
    BY <2>1 DEF Receive
  <2>4. /\ frameMode \/ line.kind = "FRAME_BEGIN" => frameMode'
        /\ frameMode /\ line.kind = "FRAME_PAYLOAD_END" => ~inPayload'
        /\ frameMode /\ ~inPayload => line.kind # "FRAME_END"
    BY <2>1, <2>2, ReceiveInFrame
  <2>5. /\ line = queue[1]
        /\ Len(queue') = Len(queue) - 1
        /\ \A i \in 1 .. Len(queue) - 1 : queue'[i] = queue[i + 1]
    BY <2>1, TailElements
  <2>6. Len(queue) # 1
    BY <2>2, <2>4, <2>5 DEF FrameUnderWay, Word
  <2>7. Len(queue) \in Nat /\ Len(queue) # 0 /\ Len(queue') \in Nat
    BY <2>1
  <2>8. queue' # <<>>
    BY <2>5, <2>6, <2>7
  <2>9. frameMode'
    BY <2>2, <2>4, <2>5, <2>6 DEF FrameUnderWay, Word
  <2>10. queue[Len(queue) - 1] = Word("FRAME_PAYLOAD_END") /\ queue[Len(queue)] = Word("FRAME_END")
    BY <2>2, <2>6 DEF FrameUnderWay
  <2>11. queue'[Len(queue')] = Word("FRAME_END")
    BY <2>5, <2>6, <2>7, <2>10
  <2>12. CASE Len(queue) = 2
    <3>1. line.kind = "FRAME_PAYLOAD_END"
      BY <2>5, <2>10, <2>12 DEF Word
    <3>2. frameMode
      BY <2>2, <2>12 DEF FrameUnderWay
    <3> QED
      BY <2>2, <2>4, <2>5, <2>8, <2>9, <2>11, <2>12, <3>1, <3>2 DEF FrameUnderWay
  <2>13. CASE Len(queue) > 2
    <3>1. queue'[Len(queue') - 1] = Word("FRAME_PAYLOAD_END")
      BY <2>5, <2>7, <2>10, <2>13
    <3> QED
      BY <2>2, <2>5, <2>7, <2>8, <2>9, <2>11, <2>13, <3>1 DEF FrameUnderWay
  <2> QED
    <3>1. \A n \in Nat : n # 0 /\ n # 1 => n = 2 \/ n > 2
      OBVIOUS
    <3>2. Len(queue) = 2 \/ Len(queue) > 2
      BY <2>6, <2>7, <3>1, Zenon
    <3> QED
      BY <2>12, <2>13, <3>2
<1>4. CASE Overflow \/ LineError \/ Lose \/ GiveUp
  BY <1>4 DEF Overflow, LineError, Lose, GiveUp
<1>5. CASE Serve
  BY <1>5 DEF Serve, ReadNext, hostVars, FrameUnderWay
<1>6. CASE UNCHANGED vars
  BY <1>6 DEF vars, hostVars, readVars, frameVars, payloadVars, FrameUnderWay
<1> QED
  BY <1>1, <1>2, <1>3, <1>4, <1>5, <1>6 DEF Next

-----------------------------------------------------------------------------
(* What the first lines say does not change as more arrive. *)
Longer(lines, more) ==
  /\ lines \in Seq(Line) /\ more \in Seq(Line)
  /\ Len(lines) <= Len(more)
  /\ \A i \in 1 .. Len(lines) : more[i] = lines[i]

LEMMA AppendLonger ==
  ASSUME NEW lines \in Seq(Line), NEW line \in Line
  PROVE  /\ Longer(lines, Append(lines, line))
         /\ Len(Append(lines, line)) = Len(lines) + 1
         /\ Append(lines, line)[Len(lines) + 1] = line
         /\ Len(lines) \in Nat
BY DEF Longer

LEMMA OpensLonger ==
  ASSUME NEW lines, NEW more, Longer(lines, more), NEW b, OpensAt(lines, b)
  PROVE  OpensAt(more, b)
BY DEF Longer, OpensAt

LEMMA HeadersLonger ==
  ASSUME NEW lines, NEW more, Longer(lines, more),
         NEW b \in Nat, NEW s \in Nat, s <= Len(lines) + 1
  PROVE  /\ \A kind : HeadersOf(more, b, s, kind) = HeadersOf(lines, b, s, kind)
         /\ \A kind, value : Declares(lines, b, s, kind, value) => Declares(more, b, s, kind, value)
         /\ (\A i \in b + 1 .. s - 1 : GoodHeader(lines[i]))
              => \A i \in b + 1 .. s - 1 : GoodHeader(more[i])
<1>1. \A i \in b + 1 .. s - 1 : more[i] = lines[i]
  BY DEF Longer
<1>2. ASSUME NEW kind
      PROVE  HeadersOf(more, b, s, kind) = HeadersOf(lines, b, s, kind)
  BY <1>1 DEF HeadersOf
<1>3. ASSUME NEW kind, NEW i \in HeadersOf(lines, b, s, kind)
      PROVE  more[i] = lines[i]
  BY <1>1 DEF HeadersOf
<1> QED
  BY <1>1, <1>2, <1>3 DEF Declares

LEMMA PayloadLonger ==
  ASSUME NEW lines, NEW more, Longer(lines, more), NEW b \in Nat, NEW s, NEW e \in Nat,
         PayloadSince(lines, b, s, e), e <= Len(lines) + 1
  PROVE  PayloadSince(more, b, s, e)
<1>1. s \in Nat /\ s <= Len(lines) /\ b < s /\ Len(lines) \in Nat /\ Len(more) \in Nat
  BY DEF PayloadSince, PayloadOpensAt, Longer
<1>2. more[s] = lines[s] /\ s \in b + 1 .. Len(more)
  BY <1>1 DEF Longer
<1>3. PayloadOpensAt(more, b, s)
  <2>1. /\ \A kind : HeadersOf(more, b, s, kind) = HeadersOf(lines, b, s, kind)
        /\ (\A i \in b + 1 .. s - 1 : GoodHeader(lines[i]))
             => \A i \in b + 1 .. s - 1 : GoodHeader(more[i])
    BY <1>1, HeadersLonger
  <2> QED
    BY <1>2, <2>1 DEF PayloadSince, PayloadOpensAt
<1>4. \A i \in s + 1 .. e - 1 : more[i] = lines[i]
  <2>1. \A i \in 1 .. Len(lines) : more[i] = lines[i]
    BY DEF Longer
  <2>2. \A i \in s + 1 .. e - 1 : i \in 1 .. Len(lines)
    BY <1>1
  <2> QED
    BY <2>1, <2>2
<1> QED
  BY <1>3, <1>4 DEF PayloadSince

LEMMA SpoiledLonger ==
  ASSUME NEW lines, NEW more, Longer(lines, more), NEW b \in Nat, Spoiled(lines, b)
  PROVE  Spoiled(more, b)
<1>0. Len(lines) \in Nat /\ Len(more) \in Nat /\ Len(lines) <= Len(more)
  BY DEF Longer
<1>1. ASSUME NEW k \in 1 .. Len(lines), BadHeaderAt(lines, b, k)
      PROVE  BadHeaderAt(more, b, k) /\ k \in 1 .. Len(more)
  <2>1. more[k] = lines[k] /\ k \in Nat /\ k \in b + 1 .. Len(more)
    BY <1>0, <1>1 DEF Longer, BadHeaderAt
  <2>2. k <= Len(lines) + 1
    BY <1>0
  <2> QED
    <3>1. /\ \A kind : HeadersOf(more, b, k, kind) = HeadersOf(lines, b, k, kind)
          /\ (\A i \in b + 1 .. k - 1 : GoodHeader(lines[i]))
               => \A i \in b + 1 .. k - 1 : GoodHeader(more[i])
      <4>1. Longer(lines, more) /\ b \in Nat /\ k \in Nat /\ k <= Len(lines) + 1
        BY <2>1, <2>2
      <4> QED
        BY <4>1, HeadersLonger
    <3> QED
      BY <1>0, <1>1, <2>1, <3>1 DEF BadHeaderAt
<1>2. ASSUME NEW s \in 1 .. Len(lines), NEW k \in 1 .. Len(lines), LateLine(lines, b, s, k)
      PROVE  LateLine(more, b, s, k) /\ s \in 1 .. Len(more) /\ k \in 1 .. Len(more)
  <2>1. k \in Nat /\ k <= Len(lines) + 1 /\ k < Len(lines)
    BY <1>0, <1>2 DEF LateLine
  <2>2. more[k] = lines[k] /\ more[k + 1] = lines[k + 1]
    BY <1>0, <2>1 DEF Longer
  <2>3. PayloadSince(more, b, s, k)
    BY <1>2, <2>1, PayloadLonger DEF LateLine
  <2> QED
    BY <1>0, <1>2, <2>1, <2>2, <2>3 DEF LateLine
<1> QED
  BY <1>1, <1>2 DEF Spoiled

LEMMA HeadersStay ==
  ASSUME NEW b \in Nat, NEW s \in Nat, s <= Len(text) + 1, HeadersSeen(b, s),
         Longer(text, text'), UNCHANGED headerVars
  PROVE  HeadersSeen(b, s)'
BY HeadersLonger DEF HeadersSeen, headerVars

LEMMA HeaderReads ==
  ASSUME TypeInv, NEW line \in Line, text' = Append(text, line),
         NEW b \in 1 .. Len(text), OpensAt(text, b), HeadersSeen(b, Len(text) + 1),
         ~inPayload, ~payloadDone, frameError = NoError, Header(line)
  PROVE  FrameRead(b)'
<1>0. PICK n \in Nat : n = Len(text) + 1
  BY AppendLonger DEF TypeInv, TypeOK, ReadTypeOK
<1>1. /\ Longer(text, text') /\ Len(text') = n /\ text'[n] = line
      /\ n \in Nat /\ b \in Nat /\ b < n /\ NoError \notin FrameErrors
      /\ line.ok \in BOOLEAN /\ hasVersion \in BOOLEAN
  BY <1>0, AppendLonger, LineFields DEF TypeInv, TypeOK, ReadTypeOK, NoError, FrameErrors
<1>2. /\ \A kind : HeadersOf(text', b, n, kind) = HeadersOf(text, b, n, kind)
      /\ \A kind, value : Declares(text, b, n, kind, value) => Declares(text', b, n, kind, value)
      /\ (\A i \in b + 1 .. n - 1 : GoodHeader(text[i]))
           => \A i \in b + 1 .. n - 1 : GoodHeader(text'[i])
  <2>1. n <= Len(text) + 1
    BY <1>0
  <2>2. Longer(text, text') /\ b \in Nat /\ n \in Nat
    BY <1>1
  <2> QED
    BY <2>1, <2>2, HeadersLonger
<1>3. \A kind : HeadersOf(text', b, n, kind) = HeadersOf(text, b, n, kind)
  BY <1>2
<1>4. \A kind, value : Declares(text, b, n, kind, value) => Declares(text', b, n, kind, value)
  BY <1>2
<1>5. \A i \in b + 1 .. n - 1 : GoodHeader(text'[i])
  BY <1>0, <1>2 DEF HeadersSeen
<1>6. \A kind : HeadersOf(text', b, n + 1, kind) =
         HeadersOf(text', b, n, kind) \cup IF line.kind = kind THEN {n} ELSE {}
  <2>1. b + 1 .. (n + 1) - 1 = (b + 1 .. n - 1) \cup {n}
    BY <1>1
  <2> QED
    BY <1>1, <2>1 DEF HeadersOf
<1>7. ASSUME FrameFails("ERR_INVALID") \/ FrameFails("ERR_LEN") \/ FrameFails("ERR_CRC")
               \/ FrameFails("ERR_UNSUPPORTED"),
             ~GoodHeader(line), line.kind # "FRAME_PAYLOAD_BEGIN"
      PROVE  FrameRead(b)'
  <2>1. BadHeaderAt(text', b, n)
    BY <1>1, <1>5, <1>7 DEF BadHeaderAt
  <2>2. frameError' # NoError
    BY <1>7 DEF FrameFails, NoError
  <2> QED
    BY <1>1, <2>1, <2>2 DEF FrameRead, Spoiled
<1>8. ASSUME GoodHeader(line), ~inPayload', ~payloadDone', frameError' = NoError,
             NEW kind \in HeaderKinds, line.kind = kind,
             hasVersion' = (hasVersion \/ kind = "FRAME_VERSION"),
             IF kind = "FRAME_LEN" THEN hasLen' /\ declaredLen' = line.arg
             ELSE UNCHANGED <<hasLen, declaredLen>>,
             IF kind = "FRAME_CRC32" THEN hasCrc' /\ declaredCrc' = line.arg
             ELSE UNCHANGED <<hasCrc, declaredCrc>>
      PROVE  FrameRead(b)'
  <2>1. \A i \in b + 1 .. n : GoodHeader(text'[i])
    BY <1>1, <1>5, <1>8
  <2>2. \A other : other # kind =>
          HeadersOf(text', b, n + 1, other) = HeadersOf(text, b, n, other)
    <3> TAKE other
    <3> HAVE other # kind
    <3>1. line.kind # other
      BY <1>8
    <3>2. HeadersOf(text', b, n + 1, other) =
            HeadersOf(text', b, n, other) \cup IF line.kind = other THEN {n} ELSE {}
      BY <1>6, Zenon
    <3>3. HeadersOf(text', b, n, other) = HeadersOf(text, b, n, other)
      BY <1>3, Zenon
    <3> QED
      BY <3>1, <3>2, <3>3
  <2>3. HeadersOf(text', b, n + 1, kind) = HeadersOf(text, b, n, kind) \cup {n}
    BY <1>3, <1>6, <1>8
  <2>4. \A other, value : other # kind /\ Declares(text, b, n, other, value)
          => Declares(text', b, n + 1, other, value)
    <3> SUFFICES ASSUME NEW other, NEW value, other # kind, Declares(text, b, n, other, value)
                 PROVE  Declares(text', b, n + 1, other, value)
      OBVIOUS
    <3>1. Declares(text', b, n, other, value)
      BY <1>4
    <3>2. HeadersOf(text', b, n + 1, other) = HeadersOf(text', b, n, other)
      BY <1>3, <2>2
    <3> QED
      BY <3>1, <3>2 DEF Declares
  <2>5. Declares(text', b, n + 1, kind, line.arg)
    <3>1. n \in HeadersOf(text', b, n + 1, kind)
      BY <2>3
    <3>2. \A j \in HeadersOf(text', b, n + 1, kind) : j <= n
      BY <1>1 DEF HeadersOf
    <3> QED
      BY <1>1, <3>1, <3>2 DEF Declares
  <2>6. HeadersSeen(b, n)
    BY <1>0
  <2>7. hasVersion' <=> HeadersOf(text', b, n + 1, "FRAME_VERSION") # {}
    BY <1>8, <2>2, <2>3, <2>6 DEF HeadersSeen
  <2>8. IF hasLen' THEN Declares(text', b, n + 1, "FRAME_LEN", declaredLen')
        ELSE HeadersOf(text', b, n + 1, "FRAME_LEN") = {}
    BY <1>8, <2>2, <2>4, <2>5, <2>6 DEF HeadersSeen
  <2>9. IF hasCrc' THEN Declares(text', b, n + 1, "FRAME_CRC32", declaredCrc')
        ELSE HeadersOf(text', b, n + 1, "FRAME_CRC32") = {}
    BY <1>8, <2>2, <2>4, <2>5, <2>6 DEF HeadersSeen
  <2>10. HeadersSeen(b, n + 1)'
    <3>1. (n + 1) - 1 = n
      BY <1>1
    <3> QED
      BY <2>1, <2>7, <2>8, <2>9, <3>1 DEF HeadersSeen
  <2> QED
    BY <1>1, <1>8, <2>10 DEF FrameRead, HeadersSeen
<1>9. CASE line.kind = "FRAME_VERSION"
  <2>1. CASE line.ok
    BY <1>8, <1>9, <2>1 DEF Header, GoodHeader, HeaderKinds, payloadVars
  <2>2. CASE ~line.ok
    BY <1>7, <1>9, <2>2 DEF Header, GoodHeader
  <2> QED
    BY <1>1, <2>1, <2>2
<1>10. CASE line.kind = "FRAME_LEN"
  <2>1. CASE line.ok /\ line.arg <= MaxPayload
    BY <1>1, <1>8, <1>10, <2>1 DEF Header, GoodHeader, HeaderKinds, payloadVars
  <2>2. CASE ~(line.ok /\ line.arg <= MaxPayload)
    BY <1>7, <1>10, <2>2 DEF Header, GoodHeader
  <2> QED
    BY <2>1, <2>2
<1>11. CASE line.kind = "FRAME_CRC32"
  <2>1. CASE line.ok
    BY <1>1, <1>8, <1>11, <2>1 DEF Header, GoodHeader, HeaderKinds, payloadVars
  <2>2. CASE ~line.ok
    BY <1>7, <1>11, <2>2 DEF Header, GoodHeader
  <2> QED
    BY <1>1, <2>1, <2>2
<1>12. CASE line.kind = "FRAME_PAYLOAD_BEGIN"
  <2>1. inPayload' /\ ~payloadDone' /\ UNCHANGED headerVars
    BY <1>12 DEF Header
  <2>2. CASE hasVersion /\ hasLen /\ hasCrc
    <3>1. payloadStart' = n /\ frameError' = NoError
      BY <1>0, <1>12, <2>2 DEF Header
    <3>2. \A kind \in HeaderKinds : HeadersOf(text, b, n, kind) # {}
      BY <1>0, <2>2 DEF HeadersSeen, HeaderKinds, Declares
    <3>3. PayloadSince(text', b, n, n + 1)
      BY <1>1, <1>5, <1>3, <1>12, <3>2 DEF PayloadSince, PayloadOpensAt
    <3>4. HeadersSeen(b, n)'
      <4>1. HeadersSeen(b, n) /\ n <= Len(text) + 1
        BY <1>0
      <4> QED
        BY <1>1, <2>1, <4>1, HeadersStay
    <3>5. hasVersion' /\ hasLen' /\ hasCrc'
      BY <2>1, <2>2 DEF headerVars
    <3> QED
      BY <1>1, <2>1, <3>1, <3>3, <3>4, <3>5 DEF FrameRead, HeadersSeen
  <2>3. CASE ~(hasVersion /\ hasLen /\ hasCrc)
    <3>1. frameError' # NoError
      BY <1>12, <2>3 DEF Header, NoError
    <3>2. \E kind \in HeaderKinds : HeadersOf(text, b, n, kind) = {}
      BY <1>0, <2>3 DEF HeadersSeen, HeaderKinds
    <3>3. BadHeaderAt(text', b, n)
      BY <1>1, <1>5, <1>3, <1>12, <3>2 DEF BadHeaderAt, GoodHeader, HeaderKinds
    <3> QED
      BY <1>1, <3>1, <3>3 DEF FrameRead, Spoiled
  <2> QED
    BY <2>2, <2>3
<1>13. CASE line.kind \notin HeaderKinds \cup {"FRAME_PAYLOAD_BEGIN"}
  BY <1>7, <1>13 DEF Header, HeaderKinds, GoodHeader
<1> QED
  BY <1>9, <1>10, <1>11, <1>12, <1>13 DEF HeaderKinds

LEMMA ReceiveReads ==
  ASSUME TypeInv, Reads, NEW line \in Line, Receive(line), ret' = "reading"
  PROVE  Reads'
<1>0. ret = "reading" /\ text' = Append(text, line)
  BY EndFrameAnswers DEF Receive
<1>1. PICK n \in Nat : n = Len(text) + 1
  BY AppendLonger DEF TypeInv, TypeOK, ReadTypeOK
<1>2. /\ Longer(text, text') /\ Len(text') = n /\ text'[n] = line /\ n \in 1 .. n
      /\ text \in Seq(Line) /\ NoError \notin FrameErrors
      /\ {frameMode, inPayload, payloadDone, hasVersion, hasLen, hasCrc} \subseteq BOOLEAN
  BY <1>0, <1>1, AppendLonger DEF TypeInv, TypeOK, ReadTypeOK, NoError, FrameErrors
<1>3. ASSUME frameMode', NEW b \in 1 .. n, OpensAt(text', b), FrameRead(b)'
      PROVE  Reads'
  BY <1>2, <1>3 DEF Reads
<1>4. CASE StartFrame(line)
  <2>1. /\ frameMode' /\ ~inPayload /\ ~payloadDone /\ ~hasVersion /\ ~hasLen /\ ~hasCrc
        /\ frameError = NoError
        /\ UNCHANGED <<headerVars, payloadVars, frameError>>
        /\ \A i \in 1 .. Len(text) : text[i].kind # "FRAME_BEGIN"
        /\ line.kind = "FRAME_BEGIN"
    BY <1>0, <1>4 DEF StartFrame, Reads
  <2>2. OpensAt(text', n)
    BY <1>1, <1>2, <2>1 DEF OpensAt, Longer
  <2>3. \A i \in n + 1 .. (Len(text') + 1) - 1 : FALSE
    BY <1>2
  <2>4. \A kind : HeadersOf(text', n, Len(text') + 1, kind) = {}
    BY <2>3 DEF HeadersOf
  <2>5. HeadersSeen(n, Len(text) + 1)'
    BY <2>1, <2>3, <2>4 DEF HeadersSeen, headerVars
  <2>6. FrameRead(n)'
    BY <2>1, <2>5 DEF FrameRead, payloadVars
  <2> QED
    BY <1>2, <1>3, <2>1, <2>2, <2>6
<1>5. CASE BareLine(line)
  <2>1. \A i \in 1 .. Len(text') : text'[i].kind # "FRAME_BEGIN"
    BY <1>0, <1>1, <1>2, <1>5 DEF BareLine, Reads, Longer
  <2> QED
    BY <1>0, <1>5, <2>1 DEF BareLine, Reads, frameVars, headerVars, payloadVars
<1>6. CASE frameMode
  <2>1. PICK b \in 1 .. Len(text) : OpensAt(text, b) /\ FrameRead(b)
    BY <1>0, <1>6 DEF Reads
  <2>2. b \in 1 .. n /\ b \in Nat /\ OpensAt(text', b) /\ frameMode'
    BY <1>1, <1>2, <1>6, <2>1, OpensLonger, ReceiveInFrame
  <2>3. Spoiled(text, b) => Spoiled(text', b)
    BY <1>2, <2>2, SpoiledLonger
  <2>4. \A i \in 1 .. n - 1 : text'[i] = text[i]
    BY <1>1, <1>2 DEF Longer
  <2> SUFFICES FrameRead(b)'
    BY <1>3, <2>2
  <2>5. CASE PayloadLine(line)
    <3>1. inPayload /\ UNCHANGED <<headerVars, payloadStart, frameError>>
      BY <2>5 DEF PayloadLine
    <3>2. CASE frameError # NoError
      BY <2>1, <2>3, <3>1, <3>2 DEF FrameRead
    <3>3. CASE frameError = NoError
      <4>1. /\ PayloadSince(text, b, payloadStart, n) /\ HeadersSeen(b, payloadStart)
            /\ hasVersion /\ hasLen /\ hasCrc /\ ~payloadDone
            /\ payloadStart \in Nat /\ payloadStart < n
        BY <1>1, <2>1, <3>1, <3>3 DEF FrameRead, PayloadSince, TypeInv, TypeOK, ReadTypeOK
      <4>2. PayloadSince(text', b, payloadStart, n)
        BY <1>1, <1>2, <2>2, <4>1, PayloadLonger
      <4>3. PICK s \in Nat : s = payloadStart
        BY <4>1
      <4>4. HeadersSeen(b, s)'
        BY <1>1, <1>2, <2>2, <3>1, <4>1, <4>3, HeadersStay
      <4>5. HeadersSeen(b, payloadStart)'
        BY <3>1, <4>3, <4>4 DEF HeadersSeen
      <4>6. hasVersion' /\ hasLen' /\ hasCrc'
        BY <3>1, <4>1 DEF headerVars
      <4>7. CASE EndsPayload(line)
        <5>1. ~inPayload' /\ payloadDone' /\ payloadEnd' = Len(text)
          BY <2>5, <4>7 DEF PayloadLine
        <5>2. payloadEnd' = Len(text') - 1 /\ text'[Len(text')].kind = "FRAME_PAYLOAD_END"
          BY <1>1, <1>2, <4>7, <5>1 DEF EndsPayload
        <5> QED
          BY <1>2, <3>1, <3>3, <4>2, <4>5, <4>6, <5>1, <5>2 DEF FrameRead
      <4>8. CASE ~EndsPayload(line)
        <5>1. inPayload' /\ ~payloadDone'
          BY <2>5, <3>1, <4>1, <4>8 DEF PayloadLine
        <5>2. PayloadSince(text', b, payloadStart, n + 1)
          BY <1>2, <4>1, <4>2, <4>8 DEF PayloadSince, EndsPayload
        <5> QED
          BY <1>2, <3>1, <3>3, <4>5, <4>6, <5>1, <5>2 DEF FrameRead
      <4> QED
        BY <4>7, <4>8
    <3> QED
      BY <3>2, <3>3
  <2>6. CASE LineAfterPayload(line)
    <3>1. frameError' # NoError /\ ~inPayload /\ payloadDone /\ line.kind # "FRAME_END"
      BY <2>6 DEF LineAfterPayload, FrameFails, NoError
    <3>2. CASE frameError # NoError
      BY <2>1, <2>3, <3>1, <3>2 DEF FrameRead
    <3>3. CASE frameError = NoError
      <4>1. /\ PayloadSince(text, b, payloadStart, n - 1)
            /\ text[n - 1].kind = "FRAME_PAYLOAD_END"
            /\ payloadStart \in Nat /\ payloadStart < n - 1 /\ n - 1 \in Nat /\ b < payloadStart
        BY <1>1, <2>1, <2>2, <3>1, <3>3 DEF FrameRead, PayloadSince, PayloadOpensAt
      <4>2. PayloadSince(text', b, payloadStart, n - 1)
        BY <1>1, <1>2, <2>2, <4>1, PayloadLonger
      <4>3. LateLine(text', b, payloadStart, n - 1)
        BY <1>2, <2>2, <2>4, <3>1, <4>1, <4>2 DEF LateLine
      <4> QED
        BY <1>2, <2>2, <3>1, <4>1, <4>3 DEF FrameRead, Spoiled
    <3> QED
      BY <3>2, <3>3
  <2>7. CASE LineOfBadFrame(line)
    BY <2>1, <2>3, <2>7 DEF LineOfBadFrame, FrameRead
  <2>8. CASE HeaderLine(line)
    BY <1>0, <2>1, <2>8, HeaderReads DEF HeaderLine, FrameRead
  <2>9. ~EndFrame(line)
    BY EndFrameAnswers
  <2> QED
    BY <1>6, <2>5, <2>6, <2>7, <2>8, <2>9 DEF Receive, StartFrame, BareLine
<1> QED
  BY <1>4, <1>5, <1>6, EndFrameAnswers DEF Receive, PayloadLine, LineAfterPayload,
     LineOfBadFrame, HeaderLine

LEMMA ReadsStep ==
  ASSUME TypeInv, Reads, [Next]_vars
  PROVE  Reads'
<1>1. CASE UNCHANGED readVars
  BY <1>1 DEF readVars, frameVars, headerVars, payloadVars, Reads, FrameRead, HeadersSeen
<1>2. CASE Deliver
  <2>1. Head(queue) \in Line /\ Receive(Head(queue))
    BY <1>2, TailType DEF Deliver, TypeInv, TypeOK
  <2> QED
    BY <2>1, ReceiveReads DEF Reads
<1>3. CASE Overflow \/ LineError
  BY <1>3 DEF Overflow, LineError, ReceiveFails, Reads
<1>4. CASE Serve
  <2>1. \A i \in 1 .. Len(<<>>) : FALSE
    OBVIOUS
  <2> QED
    BY <1>4, <2>1 DEF Serve, ReadNext, Reads
<1> QED
  BY <1>1, <1>2, <1>3, <1>4 DEF Next, SendFrame, SendBare, Lose, GiveUp, vars

-----------------------------------------------------------------------------
(* A text is a frame in one way at most, and not once it is spoiled. *)
LEMMA OneFrame ==
  ASSUME NEW lines \in Seq(Line), NEW b, NEW c, OpensAt(lines, b), OpensAt(lines, c)
  PROVE  b = c
BY DEF OpensAt

LEMMA OnePayload ==
  ASSUME NEW lines \in Seq(Line), NEW b \in Nat, NEW s, NEW t,
         PayloadOpensAt(lines, b, s), PayloadOpensAt(lines, b, t)
  PROVE  s = t
BY DEF PayloadOpensAt, GoodHeader, HeaderKinds

LEMMA OneDeclaration ==
  ASSUME NEW lines, NEW b \in Nat, NEW s \in Nat, NEW kind, NEW v, NEW w,
         Declares(lines, b, s, kind, v), Declares(lines, b, s, kind, w)
  PROVE  v = w
<1>1. HeadersOf(lines, b, s, kind) \subseteq Int
  BY DEF HeadersOf
<1> QED
  BY <1>1 DEF Declares

LEMMA FrameParts ==
  ASSUME NEW lines \in Seq(Line), NEW payload, FrameOf(lines, payload),
         NEW b \in Nat, OpensAt(lines, b)
  PROVE  \E s \in Nat :
           /\ b < s /\ PayloadOpensAt(lines, b, s)
           /\ PayloadSince(lines, b, s, Len(lines) - 1)
           /\ lines[Len(lines) - 1].kind = "FRAME_PAYLOAD_END"
           /\ lines[Len(lines)].kind = "FRAME_END"
           /\ payload = SubSeq(lines, s + 1, Len(lines) - 2)
           /\ Declares(lines, b, s, "FRAME_LEN", Len(payload))
           /\ Declares(lines, b, s, "FRAME_CRC32", Crc(payload))
<1> DEFINE e == Len(lines) - 1
<1>1. PICK c \in 1 .. Len(lines), s \in 1 .. Len(lines) :
        /\ OpensAt(lines, c) /\ PayloadOpensAt(lines, c, s)
        /\ s < e /\ lines[e].kind = "FRAME_PAYLOAD_END" /\ lines[e + 1].kind = "FRAME_END"
        /\ \A i \in s + 1 .. e - 1 : lines[i].kind # "FRAME_PAYLOAD_END"
        /\ payload = SubSeq(lines, s + 1, e - 1)
        /\ Declares(lines, c, s, "FRAME_LEN", Len(payload))
        /\ Declares(lines, c, s, "FRAME_CRC32", Crc(payload))
  BY DEF FrameOf
<1>2. b = c
  BY <1>1, OneFrame
<1>3. e + 1 = Len(lines) /\ e - 1 = Len(lines) - 2 /\ s \in Nat /\ b < s
  BY <1>1, <1>2 DEF PayloadOpensAt
<1> QED
  BY <1>1, <1>2, <1>3 DEF PayloadSince

LEMMA SpoiledIsNoFrame ==
  ASSUME NEW lines \in Seq(Line), NEW b \in Nat, OpensAt(lines, b), Spoiled(lines, b),
         NEW payload, FrameOf(lines, payload)
  PROVE  FALSE
<1>1. PICK s \in Nat :
        /\ b < s /\ PayloadOpensAt(lines, b, s)
        /\ PayloadSince(lines, b, s, Len(lines) - 1)
        /\ lines[Len(lines)].kind = "FRAME_END"
  BY FrameParts
<1>2. ASSUME NEW k \in 1 .. Len(lines), BadHeaderAt(lines, b, k)
      PROVE  FALSE
  <2>1. CASE s < k
    BY <1>1, <1>2, <2>1 DEF BadHeaderAt, PayloadOpensAt, GoodHeader, HeaderKinds
  <2>2. CASE k < s
    BY <1>1, <1>2, <2>2 DEF BadHeaderAt, PayloadOpensAt
  <2>3. CASE k = s
    BY <1>1, <1>2, <2>3 DEF BadHeaderAt, PayloadOpensAt
  <2> QED
    BY <1>1, <2>1, <2>2, <2>3
<1>3. ASSUME NEW t \in 1 .. Len(lines), NEW k \in 1 .. Len(lines), LateLine(lines, b, t, k)
      PROVE  FALSE
  <2>1. s = t
    BY <1>1, <1>3, OnePayload DEF LateLine, PayloadSince
  <2>2. s < k /\ k < Len(lines) /\ lines[k].kind = "FRAME_PAYLOAD_END"
        /\ lines[k + 1].kind # "FRAME_END"
    BY <1>3, <2>1 DEF LateLine, PayloadSince
  <2>3. ~(k < Len(lines) - 1)
    BY <1>1, <2>2 DEF PayloadSince
  <2>4. k + 1 = Len(lines)
    BY <2>2, <2>3
  <2> QED
    BY <1>1, <2>2, <2>4
<1> QED
  BY <1>2, <1>3 DEF Spoiled

LEMMA PartOfLonger ==
  ASSUME NEW lines \in Seq(Line), NEW line \in Line, NEW i \in Nat, NEW j \in Nat,
         0 < i, j <= Len(lines)
  PROVE  SubSeq(Append(lines, line), i, j) = SubSeq(lines, i, j)
OBVIOUS

LEMMA FrameEnds ==
  ASSUME TypeInv, Reads, frameMode, Deliver, ret' # "reading"
  PROVE  LET lines == Append(text, Head(queue))
             good == { payload \in {SubSeq(lines, i, Len(lines) - 2) : i \in 1 .. Len(lines)} :
                         FrameOf(lines, payload) /\ Classify(payload) # "ERR_INVALID" }
         IN  IF ret' \in Commands THEN good = {text'} ELSE good = {}
<1> DEFINE line == Head(queue)
           lines == Append(text, line)
           good == { payload \in {SubSeq(lines, i, Len(lines) - 2) : i \in 1 .. Len(lines)} :
                       FrameOf(lines, payload) /\ Classify(payload) # "ERR_INVALID" }
<1>1. /\ line \in Line /\ Receive(line) /\ text \in Seq(Line) /\ ret = "reading"
      /\ {inPayload, payloadDone, hasVersion, hasLen, hasCrc} \subseteq BOOLEAN
      /\ declaredLen \in 0 .. MaxPayload /\ NoError \notin FrameErrors
  BY TailType DEF Deliver, Receive, TypeInv, TypeOK, ReadTypeOK, NoError, FrameErrors
<1>2. EndFrame(line)
  BY <1>1 DEF Receive, StartFrame, BareLine, PayloadLine, LineAfterPayload, LineOfBadFrame, HeaderLine
<1>3. PICK n \in Nat : n = Len(text)
  BY <1>1
<1>4. /\ lines \in Seq(Line) /\ Longer(text, lines) /\ Len(lines) = n + 1 /\ lines[n + 1] = line
      /\ line.kind = "FRAME_END"
  BY <1>1, <1>2, <1>3, AppendLonger DEF Longer, EndFrame
<1>5. PICK b \in 1 .. n : OpensAt(text, b) /\ FrameRead(b)
  BY <1>1, <1>3 DEF Reads
<1>6. b \in Nat /\ OpensAt(lines, b) /\ ~inPayload
  BY <1>2, <1>4, <1>5, OpensLonger DEF EndFrame
<1>7. \A error \in FrameErrors : error \notin Commands
  BY DEF FrameErrors, Commands, LineCommands, WholeCommands
<1>8. ASSUME ret' \in FrameErrors, \A payload : ~FrameOf(lines, payload)
      PROVE  IF ret' \in Commands THEN good = {text'} ELSE good = {}
  BY <1>7, <1>8
<1>9. CASE frameError # NoError
  <2>1. ret' \in FrameErrors
    BY <1>2, <1>9 DEF EndFrame, FrameFault, Fault, TypeInv, TypeOK, ReadTypeOK
  <2>2. Spoiled(lines, b)
    BY <1>4, <1>5, <1>6, <1>9, SpoiledLonger DEF FrameRead
  <2>3. \A payload : ~FrameOf(lines, payload)
    BY <1>4, <1>6, <2>2, SpoiledIsNoFrame
  <2> QED
    BY <1>8, <2>1, <2>3
<1>10. CASE frameError = NoError /\ ~payloadDone
  <2>1. ret' \in FrameErrors
    BY <1>2, <1>10 DEF EndFrame, FrameFault, Fault, FrameErrors, NoError
  <2>2. \A i \in b + 1 .. n : GoodHeader(text[i])
    BY <1>3, <1>5, <1>6, <1>10 DEF FrameRead, HeadersSeen
  <2>3. ASSUME NEW payload, FrameOf(lines, payload)
        PROVE  FALSE
    <3>1. PICK s \in Nat : b < s /\ PayloadOpensAt(lines, b, s)
      BY <1>4, <1>6, <2>3, FrameParts
    <3>2. s \in b + 1 .. n + 1 /\ lines[s].kind = "FRAME_PAYLOAD_BEGIN"
      BY <1>4, <3>1 DEF PayloadOpensAt
    <3>3. s \in b + 1 .. n
      BY <1>4, <3>2
    <3>4. lines[s] = text[s]
      BY <1>3, <1>4, <1>6, <3>3 DEF Longer
    <3> QED
      BY <2>2, <3>2, <3>3, <3>4 DEF GoodHeader, HeaderKinds
  <2> QED
    BY <1>8, <2>1, <2>3
<1>11. CASE frameError = NoError /\ payloadDone
  <2>1. /\ PayloadSince(text, b, payloadStart, n)
        /\ text[n].kind = "FRAME_PAYLOAD_END"
        /\ payloadEnd = n - 1
        /\ HeadersSeen(b, payloadStart)
        /\ hasVersion /\ hasLen /\ hasCrc
    BY <1>3, <1>5, <1>6, <1>11 DEF FrameRead
  <2>2. payloadStart \in Nat /\ b < payloadStart /\ payloadStart < n
    BY <1>6, <2>1 DEF PayloadSince, PayloadOpensAt
  <2>3. PayloadSince(lines, b, payloadStart, n)
    BY <1>3, <1>4, <1>6, <2>1, PayloadLonger
  <2>4. lines[n].kind = "FRAME_PAYLOAD_END"
    BY <1>3, <1>4, <2>1, <2>2 DEF Longer
  <2>5. SubSeq(lines, payloadStart + 1, n - 1) = Payload
    BY <1>1, <1>3, <2>1, <2>2, PartOfLonger DEF Payload
  <2>6. /\ Declares(lines, b, payloadStart, "FRAME_LEN", declaredLen)
        /\ Declares(lines, b, payloadStart, "FRAME_CRC32", declaredCrc)
    BY <1>3, <1>4, <1>6, <2>1, <2>2, HeadersLonger DEF HeadersSeen
  <2>7. (n + 1) - 1 = n /\ (n + 1) - 2 = n - 1
    OBVIOUS
  <2>8. ASSUME NEW payload, FrameOf(lines, payload)
        PROVE  /\ payload = Payload
               /\ Len(Payload) = declaredLen /\ Crc(Payload) = declaredCrc
    <3>1. PICK s \in Nat :
            /\ b < s /\ PayloadOpensAt(lines, b, s)
            /\ payload = SubSeq(lines, s + 1, n - 1)
            /\ Declares(lines, b, s, "FRAME_LEN", Len(payload))
            /\ Declares(lines, b, s, "FRAME_CRC32", Crc(payload))
      BY <1>4, <1>6, <2>7, <2>8, FrameParts
    <3>2. s = payloadStart
      BY <1>4, <1>6, <2>3, <3>1, OnePayload DEF PayloadSince
    <3>3. payload = Payload
      BY <2>5, <3>1, <3>2
    <3>4. Len(payload) = declaredLen
      BY <1>6, <2>2, <2>6, <3>1, <3>2, OneDeclaration
    <3>5. Crc(payload) = declaredCrc
      BY <1>6, <2>2, <2>6, <3>1, <3>2, OneDeclaration
    <3> QED
      BY <3>3, <3>4, <3>5
  <2>9. ASSUME Len(Payload) = declaredLen, Crc(Payload) = declaredCrc
        PROVE  FrameOf(lines, Payload)
    <3>1. b \in 1 .. Len(lines) /\ payloadStart \in 1 .. Len(lines)
      BY <1>4, <2>2
    <3>2. Declares(lines, b, payloadStart, "FRAME_LEN", Len(Payload))
      BY <2>6, <2>9
    <3>3. Declares(lines, b, payloadStart, "FRAME_CRC32", Crc(Payload))
      BY <2>6, <2>9
    <3>4. /\ PayloadOpensAt(lines, b, payloadStart)
          /\ \A i \in payloadStart + 1 .. n - 1 : lines[i].kind # "FRAME_PAYLOAD_END"
      BY <2>3 DEF PayloadSince
    <3>5. \E c, s \in 1 .. Len(lines) :
            /\ OpensAt(lines, c) /\ PayloadOpensAt(lines, c, s)
            /\ s < n /\ lines[n].kind = "FRAME_PAYLOAD_END" /\ lines[n + 1].kind = "FRAME_END"
            /\ \A i \in s + 1 .. n - 1 : lines[i].kind # "FRAME_PAYLOAD_END"
            /\ Payload = SubSeq(lines, s + 1, n - 1)
            /\ Declares(lines, c, s, "FRAME_LEN", Len(Payload))
            /\ Declares(lines, c, s, "FRAME_CRC32", Crc(Payload))
      BY <1>4, <1>6, <2>2, <2>4, <2>5, <3>1, <3>2, <3>3, <3>4
    <3> QED
      BY <1>4, <2>7, <3>5 DEF FrameOf
  <2>10. Payload \in {SubSeq(lines, i, Len(lines) - 2) : i \in 1 .. Len(lines)}
    <3>1. payloadStart + 1 \in 1 .. Len(lines) /\ Len(lines) - 2 = n - 1
      BY <1>4, <2>2
    <3> QED
      BY <2>5, <3>1
  <2>11. CASE FrameFault # NoError
    <3>1. ret' \in FrameErrors
      BY <1>2, <2>11 DEF EndFrame, FrameFault, Fault, FrameErrors, TypeInv, TypeOK, ReadTypeOK
    <3>2. Len(Payload) # declaredLen \/ Crc(Payload) # declaredCrc
      BY <1>1, <1>11, <2>1, <2>2, <2>11 DEF FrameFault, Fault
    <3> QED
      BY <1>8, <2>8, <3>1, <3>2
  <2>12. CASE FrameFault = NoError
    <3>1. ret' = Classify(Payload) /\ text' = Payload
      BY <1>2, <2>12 DEF EndFrame
    <3>2. Len(Payload) = declaredLen /\ Crc(Payload) = declaredCrc
      BY <1>11, <2>12 DEF FrameFault, Fault, NoError
    <3>3. FrameOf(lines, Payload)
      BY <2>9, <3>2
    <3>4. good = IF Classify(Payload) # "ERR_INVALID" THEN {Payload} ELSE {}
      BY <2>8, <2>10, <3>3
    <3>5. ret' \in Commands <=> Classify(Payload) # "ERR_INVALID"
      BY <1>7, <3>1, ClassifyType DEF FrameErrors
    <3> QED
      BY <3>1, <3>4, <3>5
  <2> QED
    BY <2>11, <2>12
<1> QED
  BY <1>1, <1>9, <1>10, <1>11

-----------------------------------------------------------------------------
(* The reader's invariant. *)
FrameInv == TypeInv /\ Reads /\ FrameUnderWay

LEMMA FrameInit == Init => FrameInv
<1> SUFFICES ASSUME Init PROVE FrameInv
  OBVIOUS
<1>1. <<>> \in Seq(Line) /\ Len(<<>>) = 0
  OBVIOUS
<1>2. {frameMode, inPayload, payloadDone, hasVersion, hasLen, hasCrc} \subseteq BOOLEAN
  BY DEF Init, ReadInit
<1>3. TypeInv
  <2>1. ReadTypeOK /\ Bounds
    BY <1>1, <1>2 DEF Init, ReadInit, ReadTypeOK, Bounds
  <2>2. queue \in Seq(Line)
    BY <1>1 DEF Init
  <2>3. whole \in BOOLEAN /\ answered \in BOOLEAN
    BY DEF Init
  <2>4. faults \in 0 .. MaxFaults
    BY DEF Init
  <2> QED
    BY <2>1, <2>2, <2>3, <2>4 DEF TypeInv, TypeOK
<1>4. Reads
  BY <1>1 DEF Init, ReadInit, Reads
<1> QED
  BY <1>3, <1>4 DEF Init, FrameInv, FrameUnderWay

LEMMA FrameStep == FrameInv /\ [Next]_vars => FrameInv'
BY TypeStep, ReadsStep, FrameUnderWayStep DEF FrameInv

LEMMA FrameInvariant == Spec => []FrameInv
BY FrameInit, FrameStep, PTL DEF Spec

(* Whatever lines come, the buffer holds what fits in it, and the flags,   *)
(* offsets and declared length of wallet_uart_read_command their values.   *)
THEOREM UartFrameTypes == Spec => []TypeOK
<1>1. FrameInv => TypeOK
  BY DEF FrameInv, TypeInv
<1> QED
  BY <1>1, FrameInvariant, PTL

(* A frame that arrives whole is answered by its last line at the latest,  *)
(* whatever state the lines lost before it left the reader in.             *)
THEOREM EveryFrameAnsweredHolds == Spec => []EveryFrameAnswered
<1>1. FrameInv => EveryFrameAnswered
  BY DEF FrameInv, FrameUnderWay, EveryFrameAnswered, TypeInv, TypeOK
<1> QED
  BY <1>1, FrameInvariant, PTL

(* The flags that read a frame line by line serve exactly the texts that   *)
(* are a frame, and serve their payload.                                   *)
THEOREM ServesExactlyFramesHolds == Spec => ServesExactlyFrames
<1>1. FrameInv /\ [Next]_vars => 
       [frameMode /\ Deliver /\ ret' # "reading"
          => LET lines == Append(text, Head(queue))
                 good == { payload \in {SubSeq(lines, i, Len(lines) - 2) : i \in 1 .. Len(lines)} :
                             FrameOf(lines, payload) /\ Classify(payload) # "ERR_INVALID" }
             IN  IF ret' \in Commands THEN good = {text'} ELSE good = {}]_vars
  BY FrameEnds DEF FrameInv
<1> QED
  BY <1>1, FrameInvariant, PTL DEF Spec, ServesExactlyFrames
=============================================================================
