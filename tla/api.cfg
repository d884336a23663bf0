SPECIFICATION FairSpec
CONSTANTS
  Bot = {b1, v1}
  Spawned = {b1}
  Admin = {a1, a2}
INVARIANTS TypeOK LostOnlyIfRaced
PROPERTIES HandlersEnd TestEnds NothingLeftOpen
