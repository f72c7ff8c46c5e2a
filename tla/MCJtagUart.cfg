SPECIFICATION Spec
CONSTANTS
  r1 = r1
  r2 = r2
  w1 = w1
  w2 = w2
  NoTask = NoTask
  Readers <- TwoReaders
  Writers <- TwoWriters
  Crews <- EitherPair
  BUF_LEN = 3
  RxFifoLen = 1
  TxFifoLen = 1
  Timeout = 1
  Counts <- OneOrThree
  Modulus = 4
INVARIANTS
  BytesInOrder
  InterruptsOwed
VIEW Seen
