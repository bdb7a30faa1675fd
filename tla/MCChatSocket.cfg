SPECIFICATION FairSpec
CONSTANTS
  c1 = c1
  c2 = c2
  NoChat = NoChat
  Chats <- TwoChats
  MaxOpens = 3
  MaxSends = 1
INVARIANTS
  TypeOK
  WrongSocketOnlyWhileLoading
PROPERTIES
  Reconnects
