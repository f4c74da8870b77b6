SPECIFICATION FairSpec
CONSTANTS
  c1 = c1
  c2 = c2
  c3 = c3
  NoChat = NoChat
  Chats <- MCChats
  Channels <- MCChannels
  Lists <- MCLists
  SPONSOR_SCAN_GET_CHAT_MAX = 2
  MaxMarks = 1
  MaxNoise = 1
  MaxInbox = 2
INVARIANTS
  TypeOK
  NoIsComplete
  YesIsGenuine
  UnknownHasCause
  JoinedIsAboutSponsor
PROPERTIES
  DeadlineEndsScan
