SPECIFICATION Spec
CONSTANTS
  Dots = {dot, dotdot}
  Files = {f, g}
  Junk = Junk
  MaxChanges = 4
INVARIANTS
  TypeOK
  OverrunExplained
  EmptyExplained
  ListingComplete
