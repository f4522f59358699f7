SPECIFICATION FairSpec
CONSTANTS
  m1 = m1  m2 = m2  t1 = t1  t2 = t2  c1 = c1  c2 = c2  c3 = c3
  Mounts = {m1, m2}
  Threads = {t1, t2}
  Channels = {c1, c2, c3}
  MountOf <- MCMountOf
  ConnOf <- MCConnOf
  Free = Free
  Lost = Lost
PROPERTIES RequestsHandled
\* a mount whose channels are all lost stops for good
CHECK_DEADLOCK FALSE
