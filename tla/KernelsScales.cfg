SPECIFICATION Spec
CONSTANTS
  None = None
  Garbage = Garbage
  Products <- NoProducts
  Slices <- MCColumn
  GroupTiles = {2}
  Stages = 4
  NoTile = NoTile
  Layers <- NoLayers
  RepackGrid = 3
  RepackStages = 3
  Problems <- NoProblems
  Blk = 4
  BlockSize = 2
  AttnGarbage = AttnGarbage
INVARIANTS SumsExact
CHECK_DEADLOCK FALSE
