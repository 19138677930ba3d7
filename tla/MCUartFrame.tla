---------------------------- MODULE MCUartFrame ----------------------------
(* A checksum that sees the last argument only, so that it may collide;    *)
(* payloads that are a command, a text ending in one, whole-buffer words,  *)
(* no command at all, and too long; headers right, and wrong for the       *)
(* shortest.                                                               *)
EXTENDS UartFrameSafety

Field(n) == [kind |-> "text", arg |-> n, ok |-> TRUE]
Blank == Word("blank")
Pin(n, ok) == [kind |-> "UNLOCK_PIN", arg |-> n, ok |-> ok]
MCCrc(lines) ==
  IF lines = <<>> THEN 0
  ELSE IF lines[Len(lines)].arg = NoArg THEN 1 ELSE 2

Code(n, ok) == [kind |-> "CONFIRM_CODE", arg |-> n, ok |-> ok]

Version(ok) == [kind |-> "FRAME_VERSION", arg |-> NoArg, ok |-> ok]
Length(n, ok) == [kind |-> "FRAME_LEN", arg |-> n, ok |-> ok]
Checksum(n, ok) == [kind |-> "FRAME_CRC32", arg |-> n, ok |-> ok]

Good(payload) ==
  <<Version(TRUE), Length(Len(payload), TRUE), Checksum(Crc(payload), TRUE)>>

MCHeadersFor(payload) ==
  LET n == Len(payload)
      c == Crc(payload)
  IN  IF payload # <<Word("SIGN")>> THEN {Good(payload)} ELSE
      { Good(payload),
        <<Checksum(c, TRUE), Length(0, TRUE), Version(TRUE), Length(n, TRUE)>>,
        <<Version(FALSE), Length(n, TRUE), Checksum(c, TRUE)>>,
        <<Version(TRUE), Length(n, FALSE), Checksum(c, TRUE)>>,
        <<Version(TRUE), Length(n, TRUE), Checksum(c, FALSE)>>,
        <<Version(TRUE), Length(2, TRUE), Checksum(c, TRUE)>>,
        <<Version(TRUE), Length(1, TRUE), Checksum(0, TRUE)>> }

CheckText == <<Field(1), Word("CHECK")>>
LockText == <<Word("LOCK"), Blank>>

MCPayloads == { <<Word("SIGN")>>, CheckText, LockText, <<Field(2)>>,
                <<Field(1), Pin(3, TRUE), Word("CHECK")>> }
MCBareLines == {Field(1), Blank, Word("LOCK"), Word("SIGN"), Word("FRAME_BEGIN"),
                Pin(3, TRUE), Pin(4, FALSE), Code(5, TRUE), Code(NoArg, FALSE)}
=============================================================================
