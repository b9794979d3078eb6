\* Three blocks and four Block objects: enough for two objects to share a block
\* while the others hold, move and drop different ones.
CONSTANTS
  TotalBlocks = 3
  Handles = {h1, h2, h3, h4}
SPECIFICATION Spec
INVARIANT FreeListExact
PROPERTY LeaseSpec
