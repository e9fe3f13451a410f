CONSTANTS
  MaxVersion = 2
  MaxFaults = 1
  FailPoints <- MCUnverified
SPECIFICATION Spec
PROPERTIES TrustedMonotonic
