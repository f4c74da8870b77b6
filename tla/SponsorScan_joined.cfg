SPECIFICATION Spec
CONSTANTS
  c1 = c1
  c2 = c2
  c3 = c3
  NoChat = NoChat
  Chats <- MCChats
  Channels <- MCChannels
  Lists <- MCLists
  SPONSOR_SCAN_GET_CHAT_MAX = 2
  MaxMarks = 0
  MaxNoise = 0
  MaxInbox = 2
INVARIANTS
  JoinedIsReported
