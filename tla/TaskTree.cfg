SPECIFICATION FairSpec
CONSTANTS
  Memory <- MCMemory
  Adaptation <- MCExtremes
  MaxDepth = 5
INVARIANTS
  GateIsInherited
  EscalationIsGated
PROPERTIES
  DecompositionEnds
CHECK_DEADLOCK FALSE
