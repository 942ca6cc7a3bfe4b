\* A buffer of eight bytes, lines of five with their ends, and bodies of up to three.
CONSTANTS
  BufMax = 8
  LineMax = 6
  ContentMax = 3
  Long = 512
  Word = 32
  Clients <- MCClients
SPECIFICATION Spec
INVARIANTS
  TypeOK
  ServesWhatIsAsked
  NothingLost
  EndIsBodys
PROPERTIES
  ReadReturns
