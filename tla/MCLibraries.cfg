SPECIFICATION AllSpec
CONSTANTS
  u1 = u1
  u2 = u2
  v1 = v1
  v2 = v2
  Uid = {u1, u2, v1, v2}
  Id = {i1, i2, i3}
  Level = {0, 1}
  Common = 0
  LevelOf <- MCLevelOf
  SceneWidth = 3
  SceneHeigh = 3
  TileRange = 1
  Range = 1
  NoObject = NoObject
  Width = 4
  Heigh = 3
  Cost = 50
  From <- MCFrom
  Outside <- MCOutside
  NoTile = NoTile
  Base = 4
  MaxCookie = 4
  MaxDepth = 2
  BlockSize = 5
  Arguments <- MCArguments
  Error = Error
  Root <- MCRoot
  Names <- MCNames
  Float32 <- MCFloat32
  Messages <- MCMessages
  NoMessage = NoMessage
SYMMETRY Symmetry
INVARIANTS
  ViewsExact
  PathFound
  PathNearShortest
  
  RoundTrip
CHECK_DEADLOCK FALSE
