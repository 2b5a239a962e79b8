SPECIFICATION Spec
CONSTANTS
  Cands = {1, 2}
  MaxActive = 1
  ReplaceAfter = 2
  Cooldown = 3
  Grace <- MCGrace
  OwnAnswers <- MCOwnAnswers
  CrossAnswers <- MCCrossAnswers
  Owned <- MCOwned
  MaxChanges = 2
INVARIANTS DeadPairsReleased
PROPERTIES KeepsGate ReplacedWhileHealthy WaitsEnd
