SPECIFICATION FairSpec
CONSTANTS
  Topics = 2
  ChannelCap = 3
  BatchLimit = 2
  ReadLen = 2
  MaxSessions = 1
  MaxEvents = 0
CHECK_DEADLOCK FALSE
PROPERTY Resumes
