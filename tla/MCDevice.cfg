CONSTANTS
  NULL = NULL
  Objects = {o1, o2}
  Paths = {sda, ram}
  RamPaths = {ram}
  MaxOpen = 2
  MaxHeld = 3
SPECIFICATION Spec
VIEW View
INVARIANTS
  NoDescriptorIsLost
  PathsAreUnique
  DescriptorFollowsCount
  ReleasedIsClean
