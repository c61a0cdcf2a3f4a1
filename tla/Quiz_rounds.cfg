SPECIFICATION Spec
CONSTANTS
  a = a
  b = b
  Pids = {a, b}
  MaxOptions = 2
  Restored = {100}
  Bonus = 100
  Times = {1,4}
  MaxEvents = 3
SYMMETRY Symmetry
INVARIANTS TypeOK BallotsFit ScoreExplained RevealIsFair
