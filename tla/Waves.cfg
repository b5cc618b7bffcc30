\* Three services, each with up to two depends_on entries.
CONSTANTS
  a = a
  b = b
  c = c
  nobody = nobody
  Name = {a, b, c}
  Configs <- AllConfigs
SPECIFICATION Spec
INVARIANTS DependenciesEarlier AsEarlyAsPossible VerdictIsRight
PROPERTY Terminates
