SPECIFICATION FairSpec
CONSTANTS
  NWallets = 2
  NServers = 1
  BufSize = 3
  PutDone = "idle"
  GetDone = "idle"
  Writers = {"w1"}
  Readers = {"r1"}
  Msgs <- MCMsgs
INVARIANT TypeOK
INVARIANT SlotExclusive
PROPERTY IsFIFO
PROPERTY HeadIsRead
