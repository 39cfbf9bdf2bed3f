\* Each combination of timeouts: when does the handler of a connection return?
CONSTANTS
  Scripts <- FewScripts
  Responses <- LiveResponses
  Numeral <- MCNumeral
  MaxHeaders = 3
  MaxBody = 2
  Timeouts <- AnyTimeouts
SPECIFICATION HandleSpec
INVARIANT EchoFaithful
PROPERTIES
  ImplementsConnHandler
  HandlerTimesOut
