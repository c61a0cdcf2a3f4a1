SPECIFICATION Spec
CONSTANTS
  p1 = p1
  p2 = p2
  host = host
  x1 = x1
  x2 = x2
  s1 = s1
  s2 = s2
  s3 = s3
  d1 = d1
  d2 = d2
  None = None
  Phones = {p1, p2}
  Host = host
  Pids = {p1, p2}
  Sessions = {x1, x2}
  Sockets = {s1, s2, s3}
  Links = {d1}
  Grace = 1
  BlipsOnly = TRUE
  MaxSwitches = 1
  MaxDrops = 0
  MaxRestarts = 0
  MaxMail = 2
SYMMETRY Symmetry
PROPERTIES LiveStaysListed
