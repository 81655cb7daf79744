SPECIFICATION Spec
CONSTANTS
  DistMax = 3
  MaxStep = 3
  GroupBits = 2
  SignedChar = TRUE
  EncName <- MCEncName
  Words <- MCWords
  PartName <- MCPartName
  FileKey <- MCFileKey
  Cdata <- MCCdata
  ByteBits = 3
  Unit = 5
  CntMin = 4
  CntLevels = 1
  CryKeyLen = 3
  CryStep = 2
  Magic = 1000
  Pieces <- MCPieces
  MaxLen <- MCMaxLen
INVARIANTS BytesRestored BlocksRestored MarkupRestored StringsRight FormsRestored
           RecordsRestored
