CONSTANTS
  c1 = c1
  c2 = c2
  s1 = s1
  s2 = s2
  s3 = s3
  Channels = {c1, c2}
  Senders = {s1, s2, s3}
  Originals = {s1, s2}
  ChannelOf <- MCChannelOf
  Nobody = Nobody
  MaxSends = 2
SPECIFICATION FairSpec
INVARIANT CounterCovers
INVARIANT GateFollowsCounter
INVARIANT SenderNotStranded
INVARIANT NeverBothWait
INVARIANT ReceiverNotStranded
PROPERTY SendReturns
