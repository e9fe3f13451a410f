CONSTANTS
  u1 = u1
  u2 = u2
  Msgs <- MCWrapMsgs
  Users <- MCWrapUsers
  IdBits = 1
  MaxLen = 2
  MaxInject = 6
SPECIFICATION Spec
INVARIANTS TypeOK AnswersInPlace ResponseFaithful
PROPERTIES BatchIdentity RegistryRefined
