SPECIFICATION FairSpec
CONSTANTS
  t1 = t1
  t2 = t2
  f = f
  g = g
  Tabs <- TwoTabs
  Files <- OneFile
  MaxStamp = 3
  MaxOthers = 1
  None = none
INVARIANTS
  IdentityIsOfBase
  OwnVersionIsKnown
PROPERTIES
  ReplacesItsBase
  KeepsVersions
  SavesEnd
