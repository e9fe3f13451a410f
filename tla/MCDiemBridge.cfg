CONSTANTS
  MaxVersion = 3
  MaxFaults = 2
  FailPoints <- MCRecoverable
SPECIFICATION Spec
INVARIANTS SeenForwarded
PROPERTIES SentForwarded
