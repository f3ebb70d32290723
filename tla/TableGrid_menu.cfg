CONSTANTS
  MaxRows = 4
  MaxCols = 4
  MaxCells = 8
  Texts = {t1}
  Presets <- MCPresets
SPECIFICATION Spec
INVARIANTS TypeOK Tiled Savable NoTextTwice
PROPERTIES NoTextLost SnapshotsStayFit MergesSpec
