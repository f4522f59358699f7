SPECIFICATION Spec
CONSTANTS
  k1 = k1  k2 = k2  d1 = d1  d2 = d2  a = a  b = b  x = x
  Calls = {k1, k2}
  Names = {a, b}
  Nodes = {d1, d2}
  Tags = {x}
  MaxFd = 2
  Workers = 1
  Visible = {a}
  None = None
  Socket = Socket
  Free = Free
  Asked <- MCAsked
PROPERTIES EofMeansEmpty
