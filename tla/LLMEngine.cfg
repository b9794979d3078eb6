SPECIFICATION FairSpec
CONSTANTS
  Configs <- MCConfigs
  BlockBytes = 1
INVARIANTS WorldSizeIndependent Loads CacheFitsDevices
PROPERTY EngineReturns
CHECK_DEADLOCK FALSE
