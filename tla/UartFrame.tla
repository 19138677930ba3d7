----------------------------- MODULE UartFrame -----------------------------
(***************************************************************************)
(* wallet_uart_read_command: from the lines on the serial port to a        *)
(* command.  A line that is a command ends the read at once; FRAME_BEGIN   *)
(* starts a frame, whose payload counts only after FRAME_END and only if   *)
(* its length and checksum are the declared ones.  A line is a record of   *)
(* its keyword, its argument and whether the argument is well-formed; it   *)
(* takes one place of the command buffer and counts one in a length.       *)
(***************************************************************************)
EXTENDS Integers, Sequences

CONSTANTS
  CmdMax,       \* lines that fit in wallet_uart_cmd
  MaxPayload,   \* WALLET_FRAME_MAX_PAYLOAD
  Crc(_),       \* checksum of a text
  NoArg         \* the argument of a line that has none

ASSUME UartFrameAssumption ==
  /\ CmdMax \in Nat
  /\ MaxPayload \in Nat
  /\ MaxPayload < CmdMax

(* Recognized wherever the line stands (VERSION for the four that answer   *)
(* with a report) ...                                                      *)
LineCommands == {"VERSION", "UNLOCK_PIN", "CONFIRM_CODE", "CHECK", "SIGN"}
(* ... and only if nothing else is in the buffer (LOCK for the ten others).*)
WholeCommands == {"LOCK", "CONFIRM"}
Commands == LineCommands \cup WholeCommands

LineKinds ==
  Commands \cup {"FRAME_BEGIN", "FRAME_VERSION", "FRAME_LEN", "FRAME_CRC32",
                "FRAME_PAYLOAD_BEGIN", "FRAME_PAYLOAD_END", "FRAME_END", "blank", "text"}

(* A well-formed FRAME_LEN has a number. *)
Line ==
  { line \in [kind : LineKinds, arg : {NoArg} \cup Nat, ok : BOOLEAN] :
      line.kind = "FRAME_LEN" /\ line.ok => line.arg \in Nat }

FrameErrors == {"ERR_INVALID", "ERR_LEN", "ERR_CRC", "ERR_UNSUPPORTED"}
NoError == "0"

VARIABLES
  text,          \* wallet_uart_cmd, as a sequence of lines
  frameMode,     \* inside FRAME_BEGIN .. FRAME_END
  inPayload,     \* frame_payload
  payloadDone,
  hasVersion,
  hasLen,
  hasCrc,
  frameError,
  payloadStart,  \* lines before the payload
  payloadEnd,    \* lines before FRAME_PAYLOAD_END
  declaredLen,
  declaredCrc,
  ret            \* "reading", or what wallet_uart_read_command returned

headerVars == <<hasVersion, hasLen, hasCrc, declaredLen, declaredCrc>>
payloadVars == <<inPayload, payloadDone, payloadStart, payloadEnd>>
frameVars == <<frameMode, headerVars, payloadVars, frameError>>
readVars == <<text, frameVars, ret>>

ReadTypeOK ==
  /\ text \in Seq(Line)
  /\ Len(text) <= CmdMax
  /\ {frameMode, inPayload, payloadDone, hasVersion, hasLen, hasCrc} \subseteq BOOLEAN
  /\ frameError \in FrameErrors \cup {NoError}
  /\ payloadStart \in 0 .. CmdMax
  /\ payloadEnd \in 0 .. CmdMax
  /\ declaredLen \in 0 .. MaxPayload
  /\ ret \in {"reading", "ERR_READ"} \cup Commands \cup FrameErrors

ReadInit ==
  /\ text = <<>>
  /\ frameMode = FALSE
  /\ inPayload = FALSE
  /\ payloadDone = FALSE
  /\ hasVersion = FALSE
  /\ hasLen = FALSE
  /\ hasCrc = FALSE
  /\ frameError = NoError
  /\ payloadStart = 0
  /\ payloadEnd = 0
  /\ declaredLen = 0
  /\ declaredCrc = 0
  /\ ret = "reading"

-----------------------------------------------------------------------------
(* What a text says. *)

IsLineCommand(line) ==
  /\ line.kind \in LineCommands
  /\ line.kind \in {"UNLOCK_PIN", "CONFIRM_CODE"} => line.ok

NonBlank(lines) == SelectSeq(lines, LAMBDA line : line.kind # "blank")

(* command_is_exact: the text is this one word *)
IsExact(lines, command) ==
  Len(NonBlank(lines)) = 1 /\ NonBlank(lines)[1].kind = command

(* Where the first line that is a command stands: one place, or none. *)
FirstCommand(lines) ==
  { i \in DOMAIN lines :
      IsLineCommand(lines[i]) /\ \A j \in 1 .. i - 1 : ~IsLineCommand(lines[j]) }

(* classify_command_text, for a payload *)
Classify(lines) ==
  IF \E c \in WholeCommands : IsExact(lines, c) THEN NonBlank(lines)[1].kind
  ELSE IF FirstCommand(lines) = {} THEN "ERR_INVALID"
  ELSE LET i == CHOOSE i \in FirstCommand(lines) : TRUE IN lines[i].kind

(* unlock_pin_arg and confirm_code_arg look at the first line of the       *)
(* buffer, not at the line that was recognized, and take what digits they  *)
(* find there: the argument of a malformed line is those digits, or none.  *)
FirstArg(lines, command) ==
  IF NonBlank(lines) # <<>> /\ NonBlank(lines)[1].kind = command
  THEN NonBlank(lines)[1].arg
  ELSE NoArg

-----------------------------------------------------------------------------
(* One more line, when no frame is open. *)

StartFrame(line) ==
  /\ ~frameMode
  /\ line.kind = "FRAME_BEGIN"
  /\ frameMode' = TRUE
  /\ UNCHANGED <<headerVars, payloadVars, frameError, ret>>

BareCommand(line) ==
  \/ IsLineCommand(line)
  \/ line.kind \in WholeCommands /\ IsExact(Append(text, line), line.kind)

BareLine(line) ==
  /\ ~frameMode
  /\ line.kind # "FRAME_BEGIN"
  /\ ret' = IF BareCommand(line) THEN line.kind ELSE ret
  /\ UNCHANGED frameVars

-----------------------------------------------------------------------------
(* One more line of a frame: in its payload ... *)

(* Mutant: the payload ends only where its declared length says. *)
EndsPayloadAtDeclaredLen(line) ==
  /\ line.kind = "FRAME_PAYLOAD_END"
  /\ Len(text) - payloadStart = declaredLen

EndsPayload(line) == line.kind = "FRAME_PAYLOAD_END"

PayloadLine(line) ==
  /\ frameMode /\ inPayload
  /\ IF EndsPayload(line)
     THEN /\ inPayload' = FALSE
          /\ payloadDone' = TRUE
          /\ payloadEnd' = Len(text)
     ELSE UNCHANGED <<inPayload, payloadDone, payloadEnd>>
  /\ UNCHANGED <<frameMode, headerVars, payloadStart, frameError, ret>>

(* ... after it, or before it once the frame is in error ... *)
FrameFails(error) == frameError' = error /\ UNCHANGED <<headerVars, payloadVars>>

LineAfterPayload(line) ==
  /\ frameMode /\ ~inPayload /\ payloadDone
  /\ line.kind # "FRAME_END"
  /\ FrameFails("ERR_INVALID")
  /\ UNCHANGED <<frameMode, ret>>

LineOfBadFrame(line) ==
  /\ frameMode /\ ~inPayload /\ ~payloadDone
  /\ line.kind # "FRAME_END"
  /\ frameError # NoError
  /\ inPayload' = (line.kind = "FRAME_PAYLOAD_BEGIN")
  /\ UNCHANGED <<frameMode, headerVars, payloadDone, payloadStart, payloadEnd,
                 frameError, ret>>

(* ... or among its headers, which may come in any order and repeat. *)
Header(line) ==
  CASE line.kind = "FRAME_VERSION" /\ line.ok ->
         /\ hasVersion' = TRUE
         /\ UNCHANGED <<hasLen, hasCrc, declaredLen, declaredCrc, payloadVars, frameError>>
    [] line.kind = "FRAME_VERSION" /\ ~line.ok -> FrameFails("ERR_UNSUPPORTED")
    [] line.kind = "FRAME_LEN" /\ line.ok /\ line.arg <= MaxPayload ->
         /\ hasLen' = TRUE
         /\ declaredLen' = line.arg
         /\ UNCHANGED <<hasVersion, hasCrc, declaredCrc, payloadVars, frameError>>
    [] line.kind = "FRAME_LEN" /\ ~(line.ok /\ line.arg <= MaxPayload) -> FrameFails("ERR_LEN")
    [] line.kind = "FRAME_CRC32" /\ line.ok ->
         /\ hasCrc' = TRUE
         /\ declaredCrc' = line.arg
         /\ UNCHANGED <<hasVersion, hasLen, declaredLen, payloadVars, frameError>>
    [] line.kind = "FRAME_CRC32" /\ ~line.ok -> FrameFails("ERR_CRC")
    [] line.kind = "FRAME_PAYLOAD_BEGIN" ->
         /\ inPayload' = TRUE
         /\ IF hasVersion /\ hasLen /\ hasCrc
            THEN payloadStart' = Len(text) + 1 /\ UNCHANGED frameError
            ELSE frameError' = "ERR_INVALID" /\ UNCHANGED payloadStart
         /\ UNCHANGED <<headerVars, payloadDone, payloadEnd>>
    [] OTHER -> FrameFails("ERR_INVALID")

HeaderLine(line) ==
  /\ frameMode /\ ~inPayload /\ ~payloadDone
  /\ line.kind # "FRAME_END"
  /\ frameError = NoError
  /\ Header(line)
  /\ UNCHANGED <<frameMode, ret>>

-----------------------------------------------------------------------------
(* FRAME_END outside a payload ends the read, one way or another. *)
Payload == SubSeq(text, payloadStart + 1, payloadEnd)

Fault(lengthFits) ==
  IF frameError # NoError THEN frameError
  ELSE IF \/ ~(hasVersion /\ hasLen /\ hasCrc /\ payloadDone)
          \/ payloadEnd < payloadStart THEN "ERR_INVALID"
  ELSE IF ~lengthFits THEN "ERR_LEN"
  ELSE IF Crc(Payload) # declaredCrc THEN "ERR_CRC"
  ELSE NoError

(* Mutant: the declared length is not compared. *)
FrameFaultNoLen == Fault(Len(Payload) <= MaxPayload)

FrameFault == Fault(Len(Payload) = declaredLen /\ Len(Payload) <= MaxPayload)

EndFrame(line) ==
  /\ frameMode /\ ~inPayload
  /\ line.kind = "FRAME_END"
  /\ \/ /\ FrameFault # NoError
        /\ ret' = FrameFault
        /\ text' = Append(text, line)
     \/ /\ FrameFault = NoError
        /\ ret' = Classify(Payload)
        /\ text' = Payload
  /\ UNCHANGED frameVars

-----------------------------------------------------------------------------
(* Mutant: the room left in the buffer is not looked at. *)
RoomUnchecked == TRUE

Room == Len(text) < CmdMax

(* A line arrives and fits. *)
Receive(line) ==
  /\ ret = "reading"
  /\ Room
  /\ \/ EndFrame(line)
     \/ /\ \/ StartFrame(line)
           \/ BareLine(line)
           \/ PayloadLine(line)
           \/ LineAfterPayload(line)
           \/ LineOfBadFrame(line)
           \/ HeaderLine(line)
        /\ text' = Append(text, line)

(* A line does not fit (-2), or the receiver reports an error in the       *)
(* middle of it (-1): the read ends there, frame or not.                   *)
ReceiveFails ==
  /\ ret = "reading"
  /\ ret' = "ERR_READ"
  /\ UNCHANGED <<text, frameVars>>

(* The command is served and wallet_uart_read_command called again: all    *)
(* its locals and the buffer start over.                                   *)
ReadNext ==
  /\ ret # "reading"
  /\ ret' = "reading"
  /\ text' = <<>>
  /\ frameMode' = FALSE
  /\ inPayload' = FALSE
  /\ payloadDone' = FALSE
  /\ hasVersion' = FALSE
  /\ hasLen' = FALSE
  /\ hasCrc' = FALSE
  /\ frameError' = NoError
  /\ payloadStart' = 0
  /\ payloadEnd' = 0
  /\ declaredLen' = 0
  /\ declaredCrc' = 0
=============================================================================
