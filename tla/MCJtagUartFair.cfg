SPECIFICATION FairSpec
CONSTANTS
  r1 = r1
  r2 = r2
  w1 = w1
  w2 = w2
  NoTask = NoTask
  Readers <- OneReader
  Writers <- OneWriter
  Crews <- ReaderAndWriter
  BUF_LEN = 2
  RxFifoLen = 0
  TxFifoLen = 1
  Timeout = 2
  Counts <- Two
  Modulus = 1
PROPERTIES
  WriteReturns
