\* Up to three flists on the command line, up to two lines in .layered.
SPECIFICATION Spec
CONSTANTS
  root = root
  d = d
  x = x
  z = z
  fileD = fileD
  fileX = fileX
  dirX = dirX
  fileZ = fileZ
  Absent = Absent
  NoName = NoName
  NoFile = NoFile
  Paths = {root, d, x, z}
  Children <- ChildrenOf
  Flists = {fileD, fileX, dirX, fileZ}
  Kind <- KindOf
  Archives = {fileD, dirX}
  MaxFlists = 3
  MaxLines = 2
INVARIANTS
  ListingsAgree
  LastOnTop
PROPERTIES
  MountedKept
