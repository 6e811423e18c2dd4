SPECIFICATION ParserSpec
CONSTANTS
  Chr = Chr
  Other = Other
  Seam = Seam
  Flat = Flat
  Deep = Deep
  Names <- FileNames
  Nested <- Directories
  Copies = 2
  CR = CR
  LF = LF
  Dash = Dash
  Mark <- TheMark
  Chars <- AllChars
  Requests <- AllRequests
  MaxIterations = 100
  None = None
INVARIANTS ParserTypeOK SizesAreTrue ParsersAgree
PROPERTIES StoresForm
CHECK_DEADLOCK FALSE
