CONSTANTS
  MaxVersion = 2
  MaxFaults = 0
  FailPoints <- MCReliable
SPECIFICATION Spec
PROPERTIES ReceivedForwarded
