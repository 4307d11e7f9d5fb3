SPECIFICATION FairSpec
CONSTANTS
  Calls = {c1, c2}
  Questions = {c2}
  MaxSeq = 2
INVARIANTS TypeOK StreamInOrder OnlyLateEventsStay AbandonedChildIsCancelled
PROPERTIES CallsEnd CancellationEnds
CHECK_DEADLOCK FALSE
