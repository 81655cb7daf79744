SPECIFICATION Spec
CONSTANTS
  NoImage = NoImage
  Images <- MCTwoImages
  Catalogs <- MCFewCatalogs
  Removable <- MCBoth
  MaxTokens = 3
INVARIANT TypeOK
PROPERTY AcknowledgedIsIndexed
VIEW WithoutAnswer
