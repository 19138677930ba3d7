SPECIFICATION Spec
CONSTANTS
  CmdMax = 10
  MaxPayload = 2
  NoArg = NoArg
  MaxFaults = 2
  Crc <- MCCrc
  HeadersFor <- MCHeadersFor
  Payloads <- MCPayloads
  BareLines <- MCBareLines
INVARIANT
  ArgumentOfItsLine
