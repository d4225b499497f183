SPECIFICATION ExportSpec
CONSTANTS
  FieldLists <- MCFieldLists
  MaxRows = 3
  PageHeight = 297
  BottomMargins = {12, 18}
  RowHeights = {8, 90}
  BrandHeaders <- MCBrandHeaders
  Spaces = {246}
  Available = 186
  Widths = {0, 60, 126, 200}
  MaxCalls = 3
CHECK_DEADLOCK FALSE
INVARIANTS
  ExportTypeOK
  RowsShown
  LogosShown
  ColumnsRight
