SPECIFICATION Spec
CONSTANTS
  Configs <- MCConfigs
  Texts <- MCTexts
  MaxFaults = 1
INVARIANTS
  StatusTells
  ReportAgrees
PROPERTIES
  OthersLeftAlone
  SyncHeals
