SPECIFICATION FairConsoleSpec
CONSTANTS
  NWallets = 1
  NServers = 1
  BufSize = 2
  MaxTxs = 2
  InitBalance = 2
  Residue = {0}
  Transfers <- TypedTransfers
  RcpIds <- TypedIds
  ForkMayFail = FALSE
  LedgerMayFail = FALSE
  Scripts <- Typed
  Value <- Numbers
INVARIANT FreshReads
INVARIANT ProcessedWithinSigned
PROPERTY RingIsQueue
PROPERTY OnlyTyped
PROPERTY QuietAtEOF
PROPERTY EndObeyed
