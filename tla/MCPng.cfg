SPECIFICATION Spec
CONSTANTS
  CacheMax = 4
  MaxPalette = 4
  ZRatio = 4
  ZBufferSize = 2
  ReadSize = 3
  FeedSizes = {1, 3, 12}
  Images <- MCImages
  Fragile <- MCFragile
INVARIANTS BytesInOrder RowsInOrder PictureComplete PushMatchesRead InfoSound RoundTrip PieceEnds
CHECK_DEADLOCK FALSE
