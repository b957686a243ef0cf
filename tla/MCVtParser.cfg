SPECIFICATION ParserSpec
CONSTANTS
  Bytes <- MCBytes
  MaxParameters = 2
  MaxValue = 10
  MaxPayload = 2
  MaxBody = 3
INVARIANTS
  ParserTypeOK
  AnyStateResyncs
PROPERTIES
  DispatchedAsWritten
  CharactersDecoded
