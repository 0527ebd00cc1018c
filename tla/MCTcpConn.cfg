CONSTANTS
  m1 = m1
  m2 = m2
  Msgs <- MCMsgs
  Nil = Nil
  Cap = 2
  MaxWrites = 4
SPECIFICATION FairSpec
PROPERTIES
  ImplementsStream
  ChannelIsFinal
  WriterEnds
