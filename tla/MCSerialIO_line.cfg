SPECIFICATION FairSpec
CONSTANTS
  tx_bufsz = 2
  rx_bufsz = 2
  tx_fifo_len = 2
  rx_fifo_len = 2
  BUFSZ_LOCAL = 2
  MaxCnt = 2
  Numbers = 2
INVARIANTS
  TypeOK
  NeverWaits
PROPERTIES
  ImplementsSerialLine
  OutputGoesOn
  InputGoesOn
