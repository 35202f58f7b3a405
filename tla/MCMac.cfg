SPECIFICATION FairSpec
CONSTANTS
  RxN = 2
  TxN = 2
  MaxFrames = 4
  MaxSends = 4
  BadFrames = FALSE
INVARIANTS TypeOK ReadsItsFrame NeverStarved SentInOrder
PROPERTIES RxResumes TxResumes ImplementsRing
