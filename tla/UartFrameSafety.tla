-------------------------- MODULE UartFrameSafety --------------------------
(***************************************************************************)
(* The reader of commands against a host that sends frames and bare lines  *)
(* over a serial line without flow control: lines are lost or garbled, the *)
(* receiver reports errors, the host gives up half-way and starts again.   *)
(***************************************************************************)
EXTENDS UartFrame

CONSTANTS
  Payloads,    \* what the host puts in a frame, as sequences of lines
  HeadersFor(_),  \* the header lines it may send with a payload
  BareLines,   \* lines it sends outside a frame
  MaxFaults    \* bound on losses, errors and unrecognized bare lines

Word(kind) == [kind |-> kind, arg |-> NoArg, ok |-> TRUE]
Garbled == Word("text")

Frame(headers, payload) ==
  <<Word("FRAME_BEGIN")>> \o headers \o <<Word("FRAME_PAYLOAD_BEGIN")>> \o payload
    \o <<Word("FRAME_PAYLOAD_END"), Word("FRAME_END")>>

ASSUME HostAssumption ==
  /\ Payloads \subseteq Seq(Line)
  /\ \A payload \in Payloads : HeadersFor(payload) \subseteq Seq(Line)
  /\ BareLines \subseteq Line
  /\ MaxFaults \in Nat

VARIABLES
  queue,     \* lines the host has still to send
  whole,     \* of a frame of which nothing was lost so far
  answered,  \* an answer was given since its first line
  faults

hostVars == <<queue, whole, answered, faults>>
vars == <<readVars, hostVars>>

Init ==
  /\ ReadInit
  /\ queue = <<>>
  /\ whole = FALSE
  /\ answered = TRUE
  /\ faults = 0

SendFrame(payload) ==
  /\ queue = <<>>
  /\ \E headers \in HeadersFor(payload) : queue' = Frame(headers, payload)
  /\ whole' = TRUE
  /\ answered' = FALSE
  /\ UNCHANGED <<readVars, faults>>

SendBare(line) ==
  /\ queue = <<>>
  /\ faults < MaxFaults
  /\ queue' = <<line>>
  /\ whole' = FALSE
  /\ answered' = FALSE
  /\ faults' = faults + 1
  /\ UNCHANGED readVars

Deliver ==
  /\ queue # <<>>
  /\ Receive(Head(queue))
  /\ queue' = Tail(queue)
  /\ answered' = (answered \/ ret' # "reading")
  /\ UNCHANGED <<whole, faults>>

(* What is left of a line that did not fit: its tail, or nothing if only   *)
(* the terminator did not.                                                 *)
Overflow ==
  /\ queue # <<>>
  /\ ~Room
  /\ ReceiveFails
  /\ \E rest \in {<<>>, <<Garbled>>} : queue' = rest \o Tail(queue)
  /\ answered' = TRUE
  /\ UNCHANGED <<whole, faults>>

(* Overrun, noise or framing error: part of a line is gone. *)
LineError ==
  /\ queue # <<>>
  /\ faults < MaxFaults
  /\ ReceiveFails
  /\ \E rest \in {<<>>, <<Garbled>>} : queue' = rest \o Tail(queue)
  /\ whole' = FALSE
  /\ answered' = TRUE
  /\ faults' = faults + 1

(* A line is lost unnoticed, or arrives garbled. *)
Lose ==
  /\ queue # <<>>
  /\ faults < MaxFaults
  /\ \E rest \in {<<>>, <<Garbled>>} : queue' = rest \o Tail(queue)
  /\ whole' = FALSE
  /\ faults' = faults + 1
  /\ UNCHANGED <<readVars, answered>>

GiveUp ==
  /\ queue # <<>>
  /\ faults < MaxFaults
  /\ queue' = <<>>
  /\ whole' = FALSE
  /\ faults' = faults + 1
  /\ UNCHANGED <<readVars, answered>>

Serve == ReadNext /\ UNCHANGED hostVars

Next ==
  \/ \E payload \in Payloads : SendFrame(payload)
  \/ \E line \in BareLines : SendBare(line)
  \/ Deliver
  \/ Overflow
  \/ LineError
  \/ Lose
  \/ GiveUp
  \/ Serve

Spec == Init /\ [][Next]_vars
-----------------------------------------------------------------------------
TypeOK ==
  /\ ReadTypeOK
  /\ queue \in Seq(Line)
  /\ whole \in BOOLEAN /\ answered \in BOOLEAN
  /\ faults \in 0 .. MaxFaults

(* What a frame is, without a parser: where its parts are in the lines     *)
(* read since the prompt.  It opens at b, its payload at s.                *)
HeaderKinds == {"FRAME_VERSION", "FRAME_LEN", "FRAME_CRC32"}

GoodHeader(line) ==
  /\ line.kind \in HeaderKinds /\ line.ok
  /\ line.kind = "FRAME_LEN" => line.arg <= MaxPayload

OpensAt(lines, b) ==
  /\ b \in 1 .. Len(lines) /\ lines[b].kind = "FRAME_BEGIN"
  /\ \A i \in 1 .. b - 1 : lines[i].kind # "FRAME_BEGIN"

(* The places between b and s that hold a header of that kind, and whether *)
(* the last of them says this value.                                       *)
HeadersOf(lines, b, s, kind) == {i \in b + 1 .. s - 1 : lines[i].kind = kind}

Declares(lines, b, s, kind, value) ==
  \E i \in HeadersOf(lines, b, s, kind) :
    /\ lines[i].arg = value
    /\ \A j \in HeadersOf(lines, b, s, kind) : j <= i

PayloadOpensAt(lines, b, s) ==
  /\ s \in b + 1 .. Len(lines) /\ lines[s].kind = "FRAME_PAYLOAD_BEGIN"
  /\ \A i \in b + 1 .. s - 1 : GoodHeader(lines[i])
  /\ \A kind \in HeaderKinds : HeadersOf(lines, b, s, kind) # {}

FrameOf(lines, payload) ==
  \E b, s \in 1 .. Len(lines) :
    LET e == Len(lines) - 1 IN
    /\ OpensAt(lines, b) /\ PayloadOpensAt(lines, b, s)
    /\ s < e /\ lines[e].kind = "FRAME_PAYLOAD_END" /\ lines[e + 1].kind = "FRAME_END"
    /\ \A i \in s + 1 .. e - 1 : lines[i].kind # "FRAME_PAYLOAD_END"
    /\ payload = SubSeq(lines, s + 1, e - 1)
    /\ Declares(lines, b, s, "FRAME_LEN", Len(payload))
    /\ Declares(lines, b, s, "FRAME_CRC32", Crc(payload))

(* The line-by-line reader takes a command from a frame exactly when what  *)
(* it has read since the prompt is a frame with the declared length and    *)
(* checksum whose payload is a command, and what it serves is that payload.*)
ServesExactlyFrames ==
  [][frameMode /\ Deliver /\ ret' # "reading"
       => LET lines == Append(text, Head(queue))
              good == { payload \in {SubSeq(lines, i, Len(lines) - 2) : i \in 1 .. Len(lines)} :
                          FrameOf(lines, payload) /\ Classify(payload) # "ERR_INVALID" }
          IN  IF ret' \in Commands THEN good = {text'} ELSE good = {}]_vars

(* A frame that arrives whole is answered by its last line at the latest,  *)
(* whatever the reader was left in by lines lost before it: no need to     *)
(* reset a device to get through to it.                                    *)
EveryFrameAnswered == queue = <<>> /\ whole => answered

(* The argument acted on is the one in the line that was recognized, or    *)
(* none ("type UNLOCK_PIN=<pin> ... or CONFIRM_CODE=<code>", says the      *)
(* prompt).  The code does not keep this: unlock_pin_arg reads the first   *)
(* line of the buffer, which may be an earlier, malformed UNLOCK_PIN.      *)
ArgumentOfItsLine ==
  \A kind \in {"UNLOCK_PIN", "CONFIRM_CODE"} :
    ret = kind => FirstArg(text, kind) \in {NoArg} \cup {text[i].arg : i \in FirstCommand(text)}
=============================================================================
