CONSTANTS
  Width = 4
  Tile = 2
  MapTiles = 4
  MaxSprites = 2
  Solid <- MCSolid
  Mirrored <- MCMirrored
  Upside <- MCUpside
  Above <- MCAbove
  LineStates <- MCLineStates
  Followed <- MCFollowed
  Visible = 3
  First = 2
  OffLines = 11
  Textures = 2
  Fills = 4
  Pictures = 6
  MaxLosses = 1
  Dirs = {"root", "sub", "deep", "lost"}
  Root = "root"
  Parent <- MCParent
  FileCounts = {0, 3, 4}
  FileRows = 2
  FilePresses <- MCFilePresses
  MaxFiles = 6
  MaxStatus = 2
  Broken = {"lost"}
  Own = {"red", "blue", "gold"}
  Foreign = {"other"}
  Cards <- MCCards
  Rows = 2
  Presses <- MCPresses
SPECIFICATION MCSpec
INVARIANTS LineAsAsked PictureWhole CursorsFit SeenMarkedGone
PROPERTIES PicturesDelivered DisplayAnswers
