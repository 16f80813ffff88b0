\* Three containers, two of which race for one key and two of which share a
\* directory, keys of earlier runs, and every command failing or none.
SPECIFICATION Spec
CONSTANTS
  c1 = c1
  c2 = c2
  c3 = c3
  id1 = id1
  id2 = id2
  p256 = p256
  ed25519 = ed25519
  dir1 = dir1
  dir2 = dir2
  NoCurve = NoCurve
  Missing = Missing
  Empty = Empty
  KeyId <- TwoKeys
  Containers <- Three
  Curve <- TwoCurves
  WorkDir <- TwoDirs
  Formats <- AllFormats
  Installed <- Image
  MaxTries = 1
  MaxRestarts = 1
  MayFail <- AllCommands
INVARIANT ExecsWithItsKey
PROPERTIES EveryContainerEnds EveryContainerMeasures
