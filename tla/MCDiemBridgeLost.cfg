CONSTANTS
  MaxVersion = 2
  MaxFaults = 1
  FailPoints <- MCLossy
SPECIFICATION Spec
INVARIANTS SeenForwarded
