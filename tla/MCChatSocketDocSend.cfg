SPECIFICATION Spec
CONSTANTS
  c1 = c1
  c2 = c2
  NoChat = NoChat
  Chats <- TwoChats
  MaxOpens = 2
  MaxSends = 1
INVARIANTS
  TrueMeansSent
