SPECIFICATION Spec
CONSTANTS
  AppStart = 2
  FlashPages = 6
  CHUNKS_PER_PAGE = 4
  MaxCode = 2
  ImageSizes = {1, 5, 8, 11}
INVARIANTS
  FlasherTypeOK
  UploadIsExact
  ErasedBeforeWrite
PROPERTIES
  EntersOnRequest
  ResetReachesApp
