CONSTANTS
  a = a
  Forms <- FormsC
  Pieces <- PiecesC
  Binary <- BinaryC
  Names <- NamesC
  Accepts <- AcceptsC
  Chains <- ChainsC
  Ranges <- RangesC
  MinSize = 2
  MaxSaves = 2
  MaxRequests = 3
  MaxParts = 2
  MaxFiles = 1
  MaxFileSize = 2
SPECIFICATION UploadSpec
INVARIANTS NotModifiedIsCurrent PartsOfOneFile EncodedOnce AssetMissIs404 FormRoundTrip
CHECK_DEADLOCK FALSE
