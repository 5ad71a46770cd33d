\* A phone that asks for a network while it has one.
CONSTANTS
  MaxSession = 2
  MaxCommands = 2
SPECIFICATION WifiSpec
PROPERTIES
  NetworkCloses
