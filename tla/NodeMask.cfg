SPECIFICATION Spec
CONSTANTS
  BitsPerByte = 2
  Length = 3
  ClassicLength = 2
  CountModulus = 4
  Lists <- MCLists
INVARIANTS
  WalkFindsNodes
  ListLoaded
PROPERTY ImplementsNodeSet
