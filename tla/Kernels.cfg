SPECIFICATION Spec
CONSTANTS
  None = None
  Garbage = Garbage
  Products <- MCProducts
  Slices <- MCSlices
  GroupTiles = {0, 1}
  Stages = 4
  NoTile = NoTile
  Layers <- MCLayers
  RepackGrid = 3
  RepackStages = 3
  Problems <- MCProblems
  Blk = 4
  BlockSize = 2
  AttnGarbage = AttnGarbage
INVARIANTS OutputExact ScratchKept SumsExact OperandsExact AttendsExactly
PROPERTY KernelsEnd
CHECK_DEADLOCK FALSE
