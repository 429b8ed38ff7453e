SPECIFICATION StmtSpec
CONSTANTS
  SZ = 4
  Marks = {7, 8}
  StrLens = {0, 3}
  IntSizes = {1, 4}
  WordSize = 2
  Totals = {0, 2}
  Columns <- MCColumns
  MaxCols = 2
  MaxOps = 8
INVARIANTS StmtTypeOK PiecesApart RowAsGiven ColumnsAsFetched
CHECK_DEADLOCK FALSE
