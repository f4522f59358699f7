SPECIFICATION Spec
CONSTANTS
  m1 = m1  t1 = t1  c1 = c1  c2 = c2  d1 = d1  a = a  x = x
  Mounts = {m1}
  Threads = {t1}
  Channels = {c1, c2}
  MountOf <- MCMountOf
  ConnOf <- MCConnOf
  Free = Free
  Lost = Lost
  Names = {a}
  Nodes = {d1}
  Tags = {x}
  MaxFd = 2
  Workers = 1
  Visible = {a}
  None = None
  Socket = Socket
  Asked <- MCAsked
SYMMETRY Symmetric
INVARIANTS MountTypeOK CallsMatched
PROPERTIES MountSpec
\* a mount whose channels are all lost stops for good
CHECK_DEADLOCK FALSE
