CONSTANTS
  MaxVersion = 3
  MaxFaults = 2
  FailPoints <- MCAllPoints
SPECIFICATION Spec
PROPERTIES SentSettled
