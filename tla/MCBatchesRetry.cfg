CONSTANTS
  u1 = u1
  u2 = u2
  Msgs <- MCMsgs
  Users <- MCUsers
  IdBits = 1
  MaxLen = 3
  MaxInject = 3
SPECIFICATION RetrySpec
INVARIANTS ResponseFaithful
