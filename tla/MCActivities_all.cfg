SPECIFICATION Spec
CONSTANTS
  f1 = f1
  f2 = f2
  m1 = m1
  m2 = m2
  m3 = m3
  m4 = m4
  h1 = h1
  t1 = t1
  t2 = t2
  t3 = t3
  v1 = v1
  w1 = w1
  w2 = w2
  w3 = w3
  p1 = p1
  p2 = p2
  q1 = q1
  q2 = q2
  Few = {f1, f2}
  Many = {m1, m2, m3, m4}
  Someone = h1
  Texts = {t1, t2, t3}
  Presets = {t1}
  Values = {v1}
  Words = {w1, w2, w3}
  Panels = {p1, p2}
  Prepared = {q1, q2}
  MaxOptions = 2
  MaxNamed = 2
  MaxStarts = 2
  MaxArgs = 2
  Width = 3
  MaxOwn = 1
  MaxItems = 3
  MaxId = 3
  MaxQuestions = 3
  MaxCount = 2
  MaxLines = 2
  MaxReviews = 3
  MaxQueue = 2
SYMMETRY Symmetry
INVARIANTS TypeOK BallotsFit PhonesSeeTheTally TeamsAgree AnswersAgree BoardIsFair ReviewPaysOnce
PROPERTIES ResultsStand AutoAssignBalances PaidVotesStick
