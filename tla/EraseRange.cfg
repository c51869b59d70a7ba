SPECIFICATION Spec
CONSTANTS
  AppStart = 2
  FlashPages = 6
  CHUNKS_PER_PAGE = 4
  MaxCode = 2
  ImageSizes = {16}
INVARIANTS
  ErasedBeforeWrite
