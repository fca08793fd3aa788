SPECIFICATION MCSpec
CONSTANTS
  a = a
  b = b
  Names = {a, b}
  Checked = {a}
  NoName = NoName
  AllNames = AllNames
  NoFile = NoFile
  MaxVersion = 2
  MaxDepth = 2
  PageSize = 2
  Base = 2
  Byte = {0, 1, 2}
  Images <- MCImages
  BlockSize = 8
  WordSize = 2
  Word = 64
  Sizes <- MCSizes
  BufferSizes <- MCBufferSizes
  Offset = 60
  Summer <- MCSummer
  Texts <- MCTexts
  Starts <- MCStarts
  Additions <- MCAdditions
  MaxCalls = 4
  MaxStreams = 3
INVARIANTS DownloadVerified CacheRight PartialOnlyIfKilled UploadedRight HandleProtocol ImageWritten DigestRight DateTextKept AdditionsShown DebugLogKept ErrorsReachLog
PROPERTIES IndexKept GoodFileStays NotifiedOnce ImplementsFlashUpload
