CONSTANTS
  Char <- Chars
  MaxText = 3
  Length <- LengthBytes
  Names <- ColumnNames
  PkColumns <- PrimaryKey
  Files <- NulFiles
SPECIFICATION Spec
INVARIANTS
  OneRowPerLoadedKey
CHECK_DEADLOCK FALSE
