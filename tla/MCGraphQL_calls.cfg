SPECIFICATION FairSpec
CONSTANTS
  Calls = {c1, o1}
  Elsewhere = {o1}
  Escalating = {c1}
  Leaving = {c1}
  Unreadable = {c1}
  MaxSeq = 3
  MaxChanges = 1
INVARIANTS TypeOK StreamInOrder FeedLossIsHeard NothingLeftBehind
PROPERTIES CallsEnd CancellationEnds
CHECK_DEADLOCK FALSE
