\* Three replicas, one goroutine that reads.
SPECIFICATION FairSpec
CONSTANTS
  a = a  b = b
  N = 3
  Readers = {a}
INVARIANTS
  TypeOK
  ReaderJustified
  FlagsOneRoundBehind
PROPERTIES
  FlagsFollow
