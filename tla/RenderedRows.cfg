CONSTANTS
  Char <- Chars
  MaxText = 3
  Length <- LengthBytes
  Names <- ColumnNames
  PkColumns <- PrimaryKey
  Files <- MCFiles
SPECIFICATION Spec
INVARIANTS
  LastVersionStays
  LoadsAsWritten
CHECK_DEADLOCK FALSE
