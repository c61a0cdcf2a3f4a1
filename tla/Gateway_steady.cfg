SPECIFICATION Spec
CONSTANTS
  p1 = p1
  host = host
  x1 = x1
  s1 = s1
  s2 = s2
  s3 = s3
  d1 = d1
  d2 = d2
  None = None
  Phones = {p1}
  Host = host
  Pids = {p1, host}
  Sessions = {x1}
  Sockets = {s1, s2, s3}
  Links = {d1, d2}
  Grace = 2
  BlipsOnly = TRUE
  MaxSwitches = 0
  MaxDrops = 1
  MaxRestarts = 1
  MaxMail = 2
SYMMETRY Symmetry
INVARIANTS ListedIsServed PresenceSettled
PROPERTIES LiveStaysListed
