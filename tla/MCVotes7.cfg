CONSTANTS
  N = 7
  MaxHeight = 0
  MaxRound = 0
SPECIFICATION Spec
INVARIANTS TypeOK ProposedOnce RevealedOnce
PROPERTIES EchoIsGate ElectIsGate
CHECK_DEADLOCK FALSE
