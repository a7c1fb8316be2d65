CONSTANTS
  RingSize = 8
  ByteSize = 4
  BufferSize = 24
  NONE = NONE
  TestWord <- MCWord
  TestText <- MCText
SPECIFICATION Spec
INVARIANTS
  MembershipIsArc OneMemberAnswers FingersReachAhead
  RoundTrip ForwardedUnchanged ResendIsWhole
