CONSTANTS
  Piece <- MCPiece
  Root <- MCRoot
  Host <- MCHost
  Word = 4
  Package <- MCPackage
  Order <- MCOrder
  Names <- MCNames
  MaxOpened = 2
SPECIFICATION Spec
INVARIANTS FilesInv OneFilePerName NamesApart NamesSurvive OverlayIsPrivate
