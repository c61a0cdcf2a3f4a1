SPECIFICATION Spec
CONSTANTS
  p1 = p1
  p2 = p2
  host = host
  x1 = x1
  x2 = x2
  s1 = s1
  s2 = s2
  s3 = s3
  d1 = d1
  d2 = d2
  None = None
  Phones = {p1}
  Host = host
  Pids = {p1}
  Sessions = {x1, x2}
  Sockets = {s1, s2}
  Links = {d1, d2}
  Grace = 1
  BlipsOnly = TRUE
  MaxSwitches = 2
  MaxDrops = 1
  MaxRestarts = 0
  MaxMail = 1
SYMMETRY Symmetry
INVARIANTS TypeOK CohortIsolation LastAnnouncementWins
