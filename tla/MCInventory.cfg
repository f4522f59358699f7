SPECIFICATION Spec
CONSTANTS
  n1 = n1
  n2 = n2
  s1 = s1
  s2 = s2
  v1 = v1
  v2 = v2
  Blank = Blank
  None = None
  Junk = Junk
  All = All
  Lines <- MCLines
  VendorLines <- MCVendorLines
  Length <- MCLength
INVARIANTS
  TypeOK
  LoadedItemsFound
  CleanLookupExact
  ListedVendorsShown
