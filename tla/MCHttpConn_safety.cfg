\* Every message, every kind of response: framing, order, errors, files.
CONSTANTS
  Scripts <- AllScripts
  Responses <- AllResponses
  Numeral <- MCNumeral
  MaxHeaders = 3
  MaxBody = 2
  Timeouts <- BothTimeouts
SPECIFICATION Spec
INVARIANTS
  Framing
  ResponsesInOrder
  CloseIsAnnounced
  FilesAccounted
