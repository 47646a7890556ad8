CONSTANTS
  NumSessions = 2  NoEvent = NoEvent  AckDelay = 2  CounterMod = 4
  InDepth = 2  EventDepth = 2  TxDepth = 2  TokenDepth = 1  TxTokenDepth = 1
  MaxInputs = 4
SPECIFICATION EventFairSpec
INVARIANT TokensExact
PROPERTIES HeldAckSent TxAppForwarded
